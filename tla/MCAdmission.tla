---------------------------- MODULE MCAdmission ----------------------------
(* Instances of Admission for TLC: part of the catalogue of routing.py,    *)
(* with a provider that has two models of one rank and one that has none   *)
(* in the economy tier; requests that vary in what is routed, and requests *)
(* that vary in numbers and sources.                                       *)
EXTENDS Admission, TLC

MCCatalogue ==
    "mock" :> ("mock-1" :> 0)
    @@ "openai" :> ("gpt-4o-mini" :> 2 @@ "gpt-4o" :> 7 @@ "gpt-4.1-mini" :> 2)
    @@ "openai_compatible" :> ("default" :> 3)
MCByName ==
    "default" :> 1 @@ "gpt-4.1-mini" :> 2 @@ "gpt-4o" :> 3 @@ "gpt-4o-mini" :> 4
    @@ "mock-1" :> 5
MCByEntry ==
    "mock-1" :> 1 @@ "gpt-4o-mini" :> 2 @@ "gpt-4o" :> 3 @@ "gpt-4.1-mini" :> 4
    @@ "default" :> 5

MCText == {Absent, Empty, Blank, "economy", "standard", "premium", "cheap", "Mock",
           "openai-gpt-oss-20b"}
          \cup DOMAIN MCCatalogue \cup DOMAIN MCByName

\* What is routed by default with plain numbers, and numbers of any sign.
Choices == [provider : {Empty, "mock", "openai"}, model : {Empty, "gpt-4o", "openai-gpt-oss-20b"},
            cost_preference : {Empty, "standard"},
            chunk_size : {100}, rate_limit_rps : {50}, max_concurrency : {16}]
Numbers == [provider : {"mock"}, model : {Empty}, cost_preference : {Empty},
            chunk_size : {-1, 0, 1}, rate_limit_rps : {-1, 0, 50}, max_concurrency : {0, 1}]
MCSettings == Choices \cup Numbers
MCKeys == {{}, {"openai"}, {"openai", "openai_compatible"}}

Plain == [form |-> "json",
          lines |-> [prompts |-> 2, raw |-> Null, key |-> Null, url |-> Null],
          provider |-> Absent, model |-> Absent, cost_preference |-> Absent,
          chunk_size |-> Null, rate_limit_rps |-> Null, max_concurrency |-> Null]

Routed ==
    {[Plain EXCEPT !.form = f, !.provider = p, !.model = m, !.cost_preference = c,
                   !.lines = [prompts |-> IF f = "json" THEN 2 ELSE Null,
                              raw |-> IF f = "json" THEN Null ELSE 2,
                              key |-> Null, url |-> Null]] :
        f \in {"json", "upload"},
        p \in {Absent, Empty, Blank, "mock", "openai", "openai_compatible", "Mock"},
        m \in {Absent, Blank, "gpt-4o"},
        c \in {Absent, "economy", "premium", "cheap"}}

Sourced ==
    {[Plain EXCEPT !.lines = [prompts |-> p, raw |-> Null, key |-> k, url |-> u]] :
        p \in {Null, 0, 1, 50001}, k \in {Null, 0, 3}, u \in {Null, 0, 4}}
    \cup {[Plain EXCEPT !.form = "upload",
              !.lines = [prompts |-> Null, raw |-> n, key |-> Null, url |-> Null]] :
             n \in {0, 1}}

Numbered ==
    {[r EXCEPT !.chunk_size = s, !.rate_limit_rps = v, !.max_concurrency = c] :
        r \in {q \in Sourced : q.lines["key"] # 0 /\ q.lines["url"] = Null},
        s \in {Null, -1, 0, 2, 10001}, v \in {Null, -1, 0, 1}, c \in {Null, 0, 8}}

MCRequests == Routed \cup Sourced \cup Numbered
============================================================================

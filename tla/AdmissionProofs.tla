-------------------------- MODULE AdmissionProofs --------------------------
(***************************************************************************)
(* The properties of Admission, for every catalogue, every configuration   *)
(* and every request.                                                      *)
(***************************************************************************)
EXTENDS Admission, TLAPS, WellFoundedInduction

(* Of some things with a natural number each, one has the least.           *)
LEMMA LeastExists ==
    ASSUME NEW S, S # {}, NEW f, \A x \in S : f[x] \in Nat
    PROVE  \E x \in S : \A y \in S : f[x] <= f[y]
<1> DEFINE T == {f[x] : x \in S}
<1>1. T \subseteq Nat /\ T # {}
  OBVIOUS
<1>2. PICK n \in T : \A k \in T : <<k, n>> \notin OpToRel(<, Nat)
  BY <1>1, NatLessThanWellFounded, WFMin
<1>3. \A k \in T : ~(k < n)
  BY <1>1, <1>2 DEF OpToRel
<1>4. PICK x \in S : n = f[x]
  BY <1>2
<1>5. \A y \in S : f[x] <= f[y]
  BY <1>1, <1>3, <1>4
<1> QED BY <1>5

(* The choice in Cheapest is made, and made among the models given.        *)
LEMMA CheapestIsLeast ==
    ASSUME NEW p \in DOMAIN Catalogue, NEW S \in SUBSET Listed(p), S # {},
           NEW order, \A m \in Listed(p) : order[m] \in Nat
    PROVE  /\ Cheapest(p, S, order) \in S
           /\ \A n \in S : Rank(p, Cheapest(p, S, order)) <= Rank(p, n)
<1>1. \A m \in Listed(p) : Rank(p, m) \in Nat
  BY RanksAssumption DEF Listed, Rank
<1>2. PICK a \in S : \A n \in S : Catalogue[p][a] <= Catalogue[p][n]
  BY <1>1, LeastExists DEF Rank
<1> DEFINE T == {m \in S : Rank(p, m) = Rank(p, a)}
<1>3. T # {} /\ \A m \in T : order[m] \in Nat
  OBVIOUS
<1> HIDE DEF T
<1>4. PICK b \in T : \A n \in T : order[b] <= order[n]
  BY <1>3, LeastExists
<1> USE DEF T
<1>5. b \in S /\ \A n \in S : \/ Rank(p, b) < Rank(p, n)
                              \/ Rank(p, b) = Rank(p, n) /\ order[b] <= order[n]
  BY <1>1, <1>2, <1>4 DEF Rank
<1>6. /\ Cheapest(p, S, order) \in S
      /\ \A n \in S :
           \/ Rank(p, Cheapest(p, S, order)) < Rank(p, n)
           \/ /\ Rank(p, Cheapest(p, S, order)) = Rank(p, n)
              /\ order[Cheapest(p, S, order)] <= order[n]
  BY <1>5 DEF Cheapest
<1> QED BY <1>1, <1>6

(* A provider with a listed model is in the catalogue.                     *)
LEMMA ListedProvider ==
    ASSUME NEW p, Listed(p) # {}
    PROVE  /\ p \in DOMAIN Catalogue
           /\ \A m \in Listed(p) : /\ Rank(p, m) \in Nat
                                   /\ ByName[m] \in Nat /\ ByEntry[m] \in Nat
  BY RanksAssumption, OrderAssumption DEF Listed, Rank

----------------------------------------------------------------------------
LEMMA AdmissionInitial == Init => AdmissionInv
  BY DEF Init, AdmissionInv

LEMMA AdmissionStep == AdmissionInv /\ [Next]_vars => AdmissionInv'
<1> SUFFICES ASSUME AdmissionInv, [Next]_vars PROVE AdmissionInv'
  OBVIOUS
<1>1. ASSUME NEW r \in Requests, Create(r) PROVE AdmissionInv'
  BY <1>1 DEF Create, NewRow, AdmissionInv
<1>2. ASSUME NEW r \in Requests, Refuse(r) PROVE AdmissionInv'
  BY <1>2 DEF Refuse, AdmissionInv, NewRow
<1>3. CASE Orchestrate
  BY <1>3 DEF Orchestrate, AdmissionInv, NewRow
<1>4. CASE Serve
  BY <1>4 DEF Serve, AdmissionInv, NewRow
<1>5. CASE Redeploy
  BY <1>5 DEF Redeploy, AdmissionInv, NewRow
<1>6. CASE UNCHANGED vars
  BY <1>6 DEF vars, AdmissionInv, NewRow
<1> QED BY <1>1, <1>2, <1>3, <1>4, <1>5, <1>6 DEF Next

LEMMA AdmissionInductive == Spec => []AdmissionInv
  BY AdmissionInitial, AdmissionStep, PTL DEF Spec

----------------------------------------------------------------------------
(* A number in its range is kept as it is.                                 *)
LEMMA InRangeKept ==
    ASSUME NEW n \in Number, NEW max, NEW d, InRange(n, max), n # Null
    PROVE  n \in Int /\ n >= 1 /\ OrDefault(n, d) = n
  BY RequestsAssumption DEF OrDefault, InRange, Number

LEMMA CapType == \A asked, s : Cap(asked, s) \in Int
<1>1. \A t \in Tier : MaxRank[t] \in Int
  BY DEF Tier, MaxRank
<1>2. "economy" \in Tier
  BY DEF Tier, MaxRank
<1> QED BY <1>1, <1>2 DEF Cap, TierOf

(* What resolve_model returns for any request.                             *)
ChosenWell(m, r, p, s, cap) ==
    \/ Named(r) /\ m = r
    \/ ~Named(r) /\ m \in Listed(p) /\ \A n \in Listed(p) : Rank(p, m) <= Rank(p, n)
    \/ /\ ~Named(r) /\ Named(s.model) /\ m = s.model
       /\ m \notin Listed(p) \/ Rank(p, m) <= cap
    \/ ~Named(r) /\ Listed(p) = {}

LEMMA ModelChosen ==
    ASSUME NEW r, NEW p, NEW s, NEW cap \in Int
    PROVE  ChosenWell(ModelOf(r, p, cap, s), r, p, s, cap)
<1> DEFINE m == ModelOf(r, p, cap, s)
<1>1. CASE Named(r) \/ (Named(s.model) /\ Fits(p, s.model, cap)) \/ Listed(p) = {}
  BY <1>1 DEF ModelOf, Fits, ChosenWell
<1>2. CASE /\ ~Named(r) /\ ~(Named(s.model) /\ Fits(p, s.model, cap))
           /\ Eligible(p, cap) # {}
  <2>1. p \in DOMAIN Catalogue /\ \A n \in Listed(p) : Rank(p, n) \in Nat /\ ByName[n] \in Nat
    BY <1>2, ListedProvider DEF Eligible
  <2>2. Eligible(p, cap) \subseteq Listed(p) /\ m = Cheapest(p, Eligible(p, cap), ByName)
    BY <1>2 DEF Eligible, ModelOf
  <2>3. m \in Eligible(p, cap) /\ \A n \in Eligible(p, cap) : Rank(p, m) <= Rank(p, n)
    BY <1>2, <2>1, <2>2, CheapestIsLeast
  <2>4. \A n \in Listed(p) : Rank(p, m) <= Rank(p, n)
    BY <2>1, <2>3 DEF Eligible
  <2> QED BY <1>2, <2>3, <2>4 DEF Eligible, ChosenWell
<1>3. CASE /\ ~Named(r) /\ ~(Named(s.model) /\ Fits(p, s.model, cap))
           /\ Eligible(p, cap) = {} /\ Listed(p) # {}
  <2>1. p \in DOMAIN Catalogue /\ \A n \in Listed(p) : ByEntry[n] \in Nat
    BY <1>3, ListedProvider
  <2>2. m = Cheapest(p, Listed(p), ByEntry)
    BY <1>3 DEF ModelOf
  <2> QED BY <1>3, <2>1, <2>2, CheapestIsLeast DEF ChosenWell
<1>4. Eligible(p, cap) # {} => Listed(p) # {}
  BY DEF Eligible
<1>5. Named(r) \in BOOLEAN /\ Named(s.model) \in BOOLEAN /\ Fits(p, s.model, cap) \in BOOLEAN
  BY DEF Named, Fits, Given
<1> HIDE DEF m
<1> QED BY <1>1, <1>2, <1>3, <1>4, <1>5

(* A batch is never routed above the tier it asked for while its provider  *)
(* has a model within it, unless the client or the configuration named a   *)
(* model: for every catalogue.                                             *)
THEOREM TierKept == Spec => []RoutedWithinTier
<1>1. AdmissionInv => RoutedWithinTier
  <2> SUFFICES ASSUME AdmissionInv, row # Null PROVE RoutedWithinTier
    BY DEF RoutedWithinTier
  <2>1. /\ row.provider = ProviderOf(request.provider, settings)
        /\ row.model = ModelOf(request.model, row.provider, Cap(request, settings), settings)
    BY DEF AdmissionInv, NewRow, ResolveModel
  <2> QED BY <2>1, ModelChosen, CapType DEF ChosenWell, RoutedWithinTier, CheapestListed
<1> QED BY <1>1, AdmissionInductive, PTL

(* A client that sends its numbers as JSON gets a batch that is planned,   *)
(* throttled and run with these numbers, and one that leaves them out gets *)
(* the configured ones: for every request and every configuration.         *)
THEOREM ChecksSuffice == Spec => []CheckedRowsRun
<1>1. AdmissionInv => CheckedRowsRun
  <2> SUFFICES ASSUME AdmissionInv, row # Null PROVE CheckedRowsRun
    BY DEF CheckedRowsRun
  <2>1. /\ request \in Request /\ settings \in Settings /\ Accepted(request)
        /\ row.chunk_size = OrDefault(request.chunk_size, settings.chunk_size)
        /\ row.rate_limit_rps = OrDefault(request.rate_limit_rps, settings.rate_limit_rps)
        /\ row.max_concurrency = OrDefault(request.max_concurrency, settings.max_concurrency)
    BY RequestsAssumption, SettingsAssumption DEF AdmissionInv, NewRow
  <2>2. ASSUME NEW f \in NumberFields
        PROVE  row[f] = IF request[f] \in {Null, 0} THEN settings[f] ELSE request[f]
    BY <2>1 DEF OrDefault, NumberFields
  <2>3. ASSUME request.form = "json"
        PROVE  /\ work = "lost" => request.chunk_size = Null /\ settings.chunk_size < 1
               /\ ~Limited => request.rate_limit_rps = Null /\ settings.rate_limit_rps <= 0
               /\ Permits # request.max_concurrency => request.max_concurrency = Null
    <3>1. /\ InRange(request.chunk_size, MaxChunkSize)
          /\ InRange(request.rate_limit_rps, MaxRate)
          /\ InRange(request.max_concurrency, MaxConcurrency)
      BY <2>1, <2>3 DEF Accepted, ValidBody
    <3>2. /\ request.chunk_size \in Number /\ request.rate_limit_rps \in Number
          /\ request.max_concurrency \in Number /\ settings.chunk_size \in Int
          /\ settings.rate_limit_rps \in Int
      BY <2>1 DEF Request, Settings
    <3>3. work = "lost" => request.chunk_size = Null /\ settings.chunk_size < 1
      <4>1. CASE request.chunk_size = Null
        BY <2>1, <4>1 DEF AdmissionInv, OrDefault
      <4>2. CASE request.chunk_size # Null
        BY <2>1, <3>1, <3>2, <4>2, InRangeKept DEF AdmissionInv
      <4> QED BY <4>1, <4>2
    <3>4. ~Limited => request.rate_limit_rps = Null /\ settings.rate_limit_rps <= 0
      <4>1. CASE request.rate_limit_rps = Null
        BY <2>1, <3>2, <4>1 DEF Limited, OrDefault
      <4>2. CASE request.rate_limit_rps # Null
        BY <2>1, <3>1, <3>2, <4>2, InRangeKept DEF Limited
      <4> QED BY <4>1, <4>2
    <3>5. request.max_concurrency # Null => Permits = request.max_concurrency
      BY <2>1, <3>1, <3>2, InRangeKept DEF Permits
    <3> QED BY <3>3, <3>4, <3>5
  <2> QED BY <2>2, <2>3 DEF CheckedRowsRun
<1> QED BY <1>1, AdmissionInductive, PTL

(* A batch is answered by what its worker is configured for, by the mock   *)
(* only where that was asked for, and fails only where the worker cannot   *)
(* answer: for every configuration and every order of redeployments.       *)
THEOREM AnsweredByTheRightOne == Spec => []ServedAsConfigured
<1>1. AdmissionInv => ServedAsConfigured
  <2> SUFFICES ASSUME AdmissionInv, work \in {"served", "failed"} PROVE ServedAsConfigured
    BY DEF ServedAsConfigured
  <2>1. /\ work = "served" => row.provider \in Registry(worker)
        /\ work = "failed" => row.provider \notin Registry(worker)
        /\ row.provider = ProviderOf(request.provider, settings)
        /\ worker.mock \in BOOLEAN
    BY DEF AdmissionInv, NewRow, ResolveModel, Worker
  <2>2. (row.provider = "mock") <=> AsksForMock
    BY <2>1, Zenon DEF ProviderOf, AsksForMock, OrElse, Strip, Given, Absent, Empty, Blank
  <2>3. row.provider \in Registry(worker)
            <=> \/ row.provider \in worker.keys
                \/ row.provider = "mock" /\ (worker.mock \/ worker.keys = {})
    BY <2>1 DEF Registry
  <2> QED BY <2>1, <2>2, <2>3 DEF ServedAsConfigured
<1> QED BY <1>1, AdmissionInductive, PTL

(* SourceOf is the first source given, in the order of create_batch.       *)
LEMMA FirstSource ==
    ASSUME NEW r, \E s \in Source : r.lines[s] # Null
    PROVE  \E i \in 1 .. 4 : /\ SourceOf(r) = SourcesTried[i]
                             /\ r.lines[SourcesTried[i]] # Null
                             /\ \A j \in 1 .. i - 1 : r.lines[SourcesTried[j]] = Null
<1> DEFINE First(i) == /\ r.lines[SourcesTried[i]] # Null
                       /\ \A j \in 1 .. i - 1 : r.lines[SourcesTried[j]] = Null
<1>1. /\ SourcesTried[1] = "prompts" /\ SourcesTried[2] = "raw"
      /\ SourcesTried[3] = "key" /\ SourcesTried[4] = "url"
  BY DEF SourcesTried
<1>2. First(1) \/ First(2) \/ First(3) \/ First(4)
  BY <1>1 DEF Source
<1>3. \E i \in 1 .. 4 : First(i)
  BY <1>2
<1>4. SourceOf(r) = SourcesTried[CHOOSE i \in 1 .. 4 : First(i)]
  BY DEF SourceOf
<1> HIDE DEF First
<1>5. (CHOOSE i \in 1 .. 4 : First(i)) \in 1 .. 4 /\ First(CHOOSE i \in 1 .. 4 : First(i))
  BY <1>3
<1> QED BY <1>4, <1>5 DEF First

(* The lines of a batch are counted in one source, the first in the order  *)
(* of create_batch among those that were given: for every request.         *)
THEOREM SourceIsHonoured == Spec => []SourceHonoured
<1>1. AdmissionInv => SourceHonoured
  <2> SUFFICES ASSUME AdmissionInv, row # Null PROVE SourceHonoured
    BY DEF SourceHonoured
  <2>1. request \in Request /\ Accepted(request) /\ row.source = SourceOf(request)
        /\ row.total_items = request.lines[SourceOf(request)]
    BY RequestsAssumption DEF AdmissionInv, NewRow
  <2>2. PICK i \in 1 .. 4 : /\ SourceOf(request) = SourcesTried[i]
                            /\ \A j \in 1 .. i - 1 : request.lines[SourcesTried[j]] = Null
    BY <2>1, FirstSource DEF Accepted
  <2>3. /\ SourcesTried[1] = "prompts" /\ SourcesTried[2] = "raw"
        /\ SourcesTried[3] = "key" /\ SourcesTried[4] = "url"
    BY DEF SourcesTried
  <2> QED BY <2>1, <2>2, <2>3 DEF SourceHonoured, Accepted
<1> QED BY <1>1, AdmissionInductive, PTL
(* Choices between texts are texts.                                        *)
LEMMA TextChoice ==
    ASSUME NEW a \in Text, NEW b \in Text
    PROVE  OrElse(a, b) \in Text /\ Strip(a) \in Text
<1>1. OrElse(a, b) \in {a, b}
  BY Zenon DEF OrElse
<1>2. Strip(a) \in {a, Empty}
  BY Zenon DEF Strip
<1> QED BY <1>1, <1>2, TextAssumption, Zenon

LEMMA RegistryType ==
    ASSUME NEW w \in Worker
    PROVE  Registry(w) \subseteq Text /\ Registry(w) # {}
<1>1. w.keys \subseteq Text
  BY KeysAssumption DEF Worker
<1>2. Registry(w) \in {w.keys, w.keys \cup {"mock"}, {"mock"}} /\ Registry(w) # {}
  BY DEF Registry
<1> QED BY <1>1, <1>2, TextAssumption

(* A name chosen by resolve_model is a text.                               *)
LEMMA TextsStay ==
    ASSUME NEW r \in Request, NEW s \in Settings
    PROVE  ResolveModel(r, s).provider \in Text /\ ResolveModel(r, s).model \in Text
<1> DEFINE p == ProviderOf(r.provider, s)
           m == ModelOf(r.model, p, Cap(r, s), s)
<1>1. /\ r.provider \in Text /\ r.model \in Text
      /\ s.provider \in Text /\ s.model \in Text
  BY DEF Request, Settings
<1>2. p \in Text
  BY <1>1, TextChoice, TextAssumption DEF ProviderOf
<1>3. Cap(r, s) \in Int
  BY CapType
<1> HIDE DEF p
<1>4. Listed(p) \subseteq Text
  BY RanksAssumption DEF Listed
<1>5. Listed(p) = {} => m \in Text
  <2>1. SUFFICES ASSUME Listed(p) = {} PROVE m \in Text
    OBVIOUS
  <2>2. Eligible(p, Cap(r, s)) = {}
    BY <2>1 DEF Eligible
  <2>3. m \in {r.model, s.model, OrElse(s.model, "openai-gpt-oss-20b")}
    BY <2>1, <2>2, Zenon DEF ModelOf
  <2> QED BY <1>1, <2>3, TextChoice, TextAssumption, Zenon
<1>6. ChosenWell(m, r.model, p, s, Cap(r, s))
  BY <1>3, ModelChosen
<1> HIDE DEF m
<1>7. m \in Text
  BY <1>1, <1>4, <1>5, <1>6 DEF ChosenWell
<1> QED BY <1>2, <1>7 DEF p, m, ResolveModel

(* The registry is never empty, and a row has the columns of its table.    *)
THEOREM AdmissionTypes == Spec => []TypeOK
<1>1. Init => TypeOK
  BY RegistryType DEF Init, TypeOK
<1>2. AdmissionInv /\ TypeOK /\ [Next]_vars => TypeOK'
  <2> SUFFICES ASSUME AdmissionInv, TypeOK, [Next]_vars PROVE TypeOK'
    OBVIOUS
  <2>1. ASSUME NEW r \in Requests, Create(r) PROVE TypeOK'
    <3>1. /\ r \in Request /\ settings \in Settings /\ Accepted(r)
          /\ row' = NewRow(r) /\ request' = r /\ work' = "queued"
          /\ UNCHANGED <<settings, worker, registry>>
      BY <2>1, RequestsAssumption, SettingsAssumption DEF Create, AdmissionInv
    <3>2. PICK i \in 1 .. 4 : /\ SourceOf(r) = SourcesTried[i]
                              /\ r.lines[SourcesTried[i]] # Null
      BY <3>1, FirstSource DEF Accepted
    <3>3. SourceOf(r) \in Source
      BY <3>2 DEF SourcesTried, Source
    <3>4. r.lines[SourceOf(r)] \in Nat
      BY <3>1, <3>2, <3>3 DEF Request
    <3>5. ResolveModel(r, settings).provider \in Text /\ ResolveModel(r, settings).model \in Text
      BY <3>1, TextsStay
    <3>6. /\ OrDefault(r.chunk_size, settings.chunk_size) \in Int
          /\ OrDefault(r.rate_limit_rps, settings.rate_limit_rps) \in Int
          /\ OrDefault(r.max_concurrency, settings.max_concurrency) \in Int
      BY <3>1 DEF OrDefault, Request, Settings, Number
    <3>7. NewRow(r) \in Row
      BY <3>3, <3>4, <3>5, <3>6 DEF NewRow, Row
    <3> QED BY <3>1, <3>7 DEF TypeOK
  <2>2. ASSUME NEW r \in Requests, Refuse(r) PROVE TypeOK'
    BY <2>2 DEF Refuse, TypeOK
  <2>3. CASE Orchestrate \/ Serve
    BY <2>3 DEF Orchestrate, Serve, TypeOK
  <2>4. CASE Redeploy
    BY <2>4, RegistryType DEF Redeploy, TypeOK
  <2>5. CASE UNCHANGED vars
    BY <2>5 DEF vars, TypeOK
  <2> QED BY <2>1, <2>2, <2>3, <2>4, <2>5 DEF Next
<1> QED BY <1>1, <1>2, AdmissionInductive, PTL DEF Spec
============================================================================

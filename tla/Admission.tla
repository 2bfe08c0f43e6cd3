----------------------------- MODULE Admission -----------------------------
(***************************************************************************)
(* From a request to a batch that a worker can serve: the validation of    *)
(* POST /v1/batches (app/api/schemas.py), the upload form, which has none, *)
(* the choices of create_batch (app/services/batches.py) and the places    *)
(* where the workers meet their result: plan_chunks, the registry of       *)
(* providers, the limiter and the gate.  BatchCreation has the             *)
(* transaction around it, ChunkPlan and ItemRunner what follows.           *)
(*                                                                         *)
(* The API and the workers are processes with settings of their own; a     *)
(* worker builds its registry when it starts.  The defaults of the API are *)
(* any numbers: app/core/config.py has no bounds for them.                 *)
(***************************************************************************)
EXTENDS ModelRouting, Sequences

CONSTANTS
    Requests,     \* what clients may send
    ApiSettings,  \* the defaults an API process may be configured with
    Keys,         \* sets of providers a worker may be configured for
    Null          \* a field that is not sent, a source that is not given

Source == {"prompts", "raw", "key", "url"}
Number == Int \cup {Null}

(* lines has the prompt lines of each source that is given; numbers have   *)
(* the JSON fields' own units.                                             *)
Request == [form : {"json", "upload"}, lines : [Source -> Nat \cup {Null}],
            provider : Text, model : Text, cost_preference : Text,
            chunk_size : Number, rate_limit_rps : Number, max_concurrency : Number]

Settings == [provider : Text, model : Text, cost_preference : Text,
             chunk_size : Int, rate_limit_rps : Int, max_concurrency : Int]

Worker == [mock : BOOLEAN, keys : Keys]

ASSUME RequestsAssumption == Requests \subseteq Request /\ Null \notin Int
ASSUME SettingsAssumption == ApiSettings \subseteq Settings
ASSUME KeysAssumption     == \A keys \in Keys : keys \subseteq Text \ {"mock"}

VARIABLES
    settings,   \* of the API
    worker,     \* the settings of the worker that build_providers reads
    registry,   \* the providers of the worker
    request,    \* the request that was accepted
    row,        \* its row in batches
    work        \* where the batch is

vars == <<settings, worker, registry, request, row, work>>

Row == [provider : Text, model : Text, source : Source, total_items : Nat,
        chunk_size : Int, rate_limit_rps : Int, max_concurrency : Int]

TypeOK ==
    /\ settings \in ApiSettings
    /\ worker \in Worker
    /\ registry \subseteq Text /\ registry # {}
    /\ row # Null => request \in Request /\ row \in Row
    /\ work \in {"none", "refused", "queued", "lost", "planned", "served", "failed"}

(* build_providers.  Without any, the mock stands in.  A mutant: it always *)
(* does.                                                                   *)
AlwaysMock(w) == w.keys \cup {"mock"}
Registry(w) ==
    LET providers == w.keys \cup (IF w.mock THEN {"mock"} ELSE {})
    IN  IF providers = {} THEN {"mock"} ELSE providers

Init ==
    /\ settings \in ApiSettings
    /\ worker \in Worker /\ registry = Registry(worker)
    /\ request = Null /\ row = Null /\ work = "none"

----------------------------------------------------------------------------
(* The models of schemas.py, for a JSON body: a number lies in its range.  *)
(* A mutant: only its upper end is checked.                                *)
BelowMax(number, max) == number # Null => number <= max
InRange(number, max)  == number # Null => number \in 1 .. max

MaxChunkSize   == 10000
MaxRate        == 10000
MaxConcurrency == 1024
MaxInline      == 50000

ValidBody(r) ==
    /\ r.provider # Empty /\ r.model # Empty
    /\ InRange(r.chunk_size, MaxChunkSize)
    /\ InRange(r.rate_limit_rps, MaxRate)
    /\ InRange(r.max_concurrency, MaxConcurrency)
    /\ InRange(r.lines["prompts"], MaxInline)
    /\ \E s \in Source : r.lines[s] # Null

(* The sources create_batch looks at, in this order.  A mutant: the object *)
(* in the bucket goes before what was sent.                                *)
StoredFirst  == <<"key", "prompts", "raw", "url">>
SourcesTried == <<"prompts", "raw", "key", "url">>

SourceOf(r) ==
    LET i == CHOOSE i \in 1 .. 4 :
                 /\ r.lines[SourcesTried[i]] # Null
                 /\ \A j \in 1 .. i - 1 : r.lines[SourcesTried[j]] = Null
    IN  SourcesTried[i]

(* The endpoint refuses an empty file, create_batch a source without       *)
(* lines.                                                                  *)
Accepted(r) ==
    /\ r.form = "json" => ValidBody(r)
    /\ \E s \in Source : r.lines[s] # Null
    /\ r.lines[SourceOf(r)] >= 1

(* `given or default`.  A mutant: only a missing number is replaced.       *)
OrIfNull(number, default)  == IF number = Null THEN default ELSE number
OrDefault(number, default) == IF number \in {Null, 0} THEN default ELSE number

NewRow(r) ==
    LET choice == ResolveModel(r, settings)
    IN  [provider        |-> choice.provider,
         model           |-> choice.model,
         source          |-> SourceOf(r),
         total_items     |-> r.lines[SourceOf(r)],
         chunk_size      |-> OrDefault(r.chunk_size, settings.chunk_size),
         rate_limit_rps  |-> OrDefault(r.rate_limit_rps, settings.rate_limit_rps),
         max_concurrency |-> OrDefault(r.max_concurrency, settings.max_concurrency)]

Refuse(r) ==
    /\ work = "none"
    /\ ~Accepted(r)
    /\ work' = "refused"
    /\ UNCHANGED <<settings, worker, registry, request, row>>

Create(r) ==
    /\ work = "none"
    /\ Accepted(r)
    /\ request' = r
    /\ row' = NewRow(r)
    /\ work' = "queued"
    /\ UNCHANGED <<settings, worker, registry>>

----------------------------------------------------------------------------
(* orchestrate_batch: plan_chunks raises for a size below one, arq drops   *)
(* the job, and the batch stays pending.                                   *)
Orchestrate ==
    /\ work = "queued"
    /\ work' = IF row.chunk_size < 1 THEN "lost" ELSE "planned"
    /\ UNCHANGED <<settings, worker, registry, request, row>>

(* process_chunk: a provider the worker does not know fails the chunk in   *)
(* every attempt, and with it the batch.                                   *)
Serve ==
    /\ work = "planned"
    /\ work' = IF row.provider \in registry THEN "served" ELSE "failed"
    /\ UNCHANGED <<settings, worker, registry, request, row>>

(* The limiter lets everything pass without a rate; the gate has at least  *)
(* one permit.                                                             *)
Limited == row.rate_limit_rps > 0
Permits == IF row.max_concurrency < 1 THEN 1 ELSE row.max_concurrency

(* A worker is deployed with other settings while batches wait.            *)
Redeploy ==
    /\ work \in {"queued", "planned"}
    /\ worker' \in Worker /\ registry' = Registry(worker')
    /\ UNCHANGED <<settings, request, row, work>>

Next ==
    \/ \E r \in Requests : Create(r) \/ Refuse(r)
    \/ Orchestrate \/ Serve \/ Redeploy

Spec == Init /\ [][Next]_vars

----------------------------------------------------------------------------
(* Properties                                                              *)

(* The model of a batch is the client's own; or the configured one, unless *)
(* the catalogue ranks it above the tier; or the cheapest the provider     *)
(* has; or, for a provider without a catalogue, a name to fall back on.    *)
(* Without an explicit or a configured model, the tier is exceeded only if *)
(* the provider has nothing within it.                                     *)
CheapestListed ==
    /\ row.model \in Listed(row.provider)
    /\ \A n \in Listed(row.provider) : Rank(row.provider, row.model) <= Rank(row.provider, n)

RoutedWithinTier ==
    row # Null =>
        \/ row.model = request.model /\ Named(request.model)
        \/ /\ ~Named(request.model)
           /\ \/ CheapestListed
              \/ /\ Named(settings.model) /\ row.model = settings.model
                 /\ \/ row.model \notin Listed(row.provider)
                    \/ Rank(row.provider, row.model) <= Cap(request, settings)
              \/ Listed(row.provider) = {}

(* A client that sends its numbers as JSON gets a batch that is cut into   *)
(* chunks of that size, throttled at that rate and run with that many      *)
(* items at a time; for the rest, and for a 0 of the upload form, it gets  *)
(* what the API is configured with.  So a JSON batch is accepted and then  *)
(* lost in orchestrate_batch, or goes unthrottled, only where a default    *)
(* the API is configured with is not positive.  (The upload form accepts   *)
(* a negative size, and loses the batch.)                                  *)
NumberFields == {"chunk_size", "rate_limit_rps", "max_concurrency"}

CheckedRowsRun ==
    row # Null =>
        /\ \A f \in NumberFields :
               row[f] = IF request[f] \in {Null, 0} THEN settings[f] ELSE request[f]
        /\ request.form = "json" =>
               /\ work = "lost" => request.chunk_size = Null /\ settings.chunk_size < 1
               /\ ~Limited => request.rate_limit_rps = Null /\ settings.rate_limit_rps <= 0
               /\ Permits # request.max_concurrency => request.max_concurrency = Null

(* A batch is answered by a provider the worker is configured for, or by   *)
(* the mock: the latter only if its client or the API asked for the mock,  *)
(* and the worker has the mock enabled or nothing else.  It fails for its  *)
(* provider only if the worker is not configured for it, or if it is for   *)
(* the mock and the worker, with the mock disabled, has another: as it may *)
(* since it was deployed anew.                                             *)
AsksForMock ==
    \/ request.provider = "mock"
    \/ ~Given(request.provider) /\ settings.provider \in {Absent, Empty, "mock"}

ServedAsConfigured ==
    /\ work = "served" =>
           \/ row.provider \in worker.keys
           \/ AsksForMock /\ (worker.mock \/ worker.keys = {})
    /\ work = "failed" =>
           /\ row.provider \notin worker.keys
           /\ AsksForMock => ~worker.mock /\ worker.keys # {}

(* The lines of a batch are those of one source, and never those of an     *)
(* object or a URL when prompts came with the request.                     *)
SourceHonoured ==
    row # Null =>
        /\ row.total_items >= 1
        /\ request.lines[row.source] = row.total_items
        /\ row.source \in {"key", "url"} =>
               request.lines["prompts"] = Null /\ request.lines["raw"] = Null
        /\ row.source = "url" => request.lines["key"] = Null

(* What they rest on: the row is what create_batch made of an accepted     *)
(* request, and a batch is lost or fails for its own row's sake.           *)
AdmissionInv ==
    /\ settings \in ApiSettings
    /\ worker \in Worker /\ registry = Registry(worker)
    /\ IF work \in {"none", "refused"} THEN row = Null
       ELSE request \in Requests /\ Accepted(request) /\ row = NewRow(request)
    /\ work = "lost" => row.chunk_size < 1
    /\ work = "served" => row.provider \in registry
    /\ work = "failed" => row.provider \notin registry
============================================================================

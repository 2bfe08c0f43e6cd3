----------------------------- MODULE ChunkPlan -----------------------------
(***************************************************************************)
(* From the bytes of a prompts object to the lines of the results: how the *)
(* lines are counted (create_batch), the plan of the chunks (plan_chunks   *)
(* in app/services/batches.py), the range each chunk job reads, the index  *)
(* each result is given and sorted by (process_chunk), and the             *)
(* concatenation of the chunk objects (app/core/spaces.py).  The object    *)
(* does not change once it is there, and what one job reads of it does not *)
(* depend on another's reading: one job reads at a time.                   *)
(***************************************************************************)
EXTENDS LineStore

CONSTANTS
    MaxBytes,     \* bound: bytes of what a client sends or stores
    Sizes,        \* chunk_size of a batch; the upload form lets any pass
    Indices,      \* the numbers that clients give to lines
    NoIndex,      \* a line without one
    NoObject,     \* a chunk without a result object
    Unknown       \* lines that have not been counted

ASSUME BytesAssumption == MaxBytes \in Nat
ASSUME SizesAssumption == Sizes \subseteq Int
ASSUME IndexAssumption == Indices \subseteq Nat /\ NoIndex \notin Nat /\ Unknown \notin Nat

VARIABLES
    total_items, chunk_size,  \* the columns of the batch
    index,                    \* the index that each line brings
    rows,                     \* batch_chunks
    reading,                  \* whose reader it is: a chunk's, or the count's
    object,                   \* the result object of each chunk
    part,                     \* the chunk whose object is read next, if any is
    parts,                    \* the lines of those that have been read
    results                   \* the concatenated results

vars == <<content, reader, total_items, chunk_size, index, rows, reading,
          object, part, parts, results>>

batch    == <<content, total_items, chunk_size, index, rows>>
finalize == <<part, parts, results>>

ChunkIndex == 0 .. MaxBytes - 1
ChunkRow   == [chunk_index : Nat, offset : Nat, limit : Nat \ {0}]
Result     == [index : Nat, line : Nat \ {0}]

TypeOK ==
    /\ content \in Seq(Byte)
    /\ reader \in Reader
    /\ total_items \in Nat \cup {Unknown}
    /\ chunk_size \in Sizes
    /\ index \in [Lines -> Nat \cup {NoIndex}]
    /\ rows \subseteq ChunkRow
    /\ reading \in ChunkIndex \cup {Unknown}
    /\ \A i \in ChunkIndex : object[i] = NoObject \/ object[i] \in Seq(Result)
    /\ part \in Nat \cup {Unknown} /\ parts \in Seq(Result)
    /\ results = NoObject \/ results \in Seq(Result)

(* upload_prompts_ndjson and upload_raw_ndjson write one line for each     *)
(* that is not blank, and number those that bring no number.               *)
CountPieces(text) == Cardinality(LinesOf(text, {"nl", "cr"}))
Normalised(text) ==
    [i \in 1 .. 2 * Cardinality(LinesOf(text, {"nl", "cr"})) |->
        IF i % 2 = 1 THEN "ch" ELSE "nl"]

Uploaded(text) ==
    /\ content = Normalised(text)
    /\ total_items = CountPieces(text)
    /\ \E given \in [Lines -> Indices \cup {NoIndex}] :
         index = [p \in Lines |-> IF given[p] = NoIndex THEN Number(p) ELSE given[p]]

(* copy_key: the object is taken as it is and then counted.                *)
Copied(text) ==
    /\ content = text
    /\ total_items = Unknown
    /\ index \in [Lines -> Indices \cup {NoIndex}]

Init ==
    /\ \E n \in 0 .. MaxBytes : \E text \in [1 .. n -> Byte] : Uploaded(text) \/ Copied(text)
    /\ chunk_size \in Sizes
    /\ rows = {}
    /\ reader = NoReader /\ reading = Unknown
    /\ object = [i \in ChunkIndex |-> NoObject]
    /\ part = Unknown /\ parts = <<>>
    /\ results = NoObject

----------------------------------------------------------------------------
(* count_ndjson_lines: a reader whose range is never left.                 *)
StartCount ==
    /\ total_items = Unknown
    /\ Open(0, Len(content))
    /\ UNCHANGED <<batch, reading, object, finalize>>

Counted ==
    /\ total_items = Unknown /\ reader.pc = "done"
    /\ total_items' = reader.idx
    /\ reader' = NoReader
    /\ UNCHANGED <<content, chunk_size, index, rows, reading, object, finalize>>

(* plan_chunks: ceil(total_items / chunk_size) chunks.  Mutants: floor,    *)
(* and one more than there are whole chunks.                               *)
CountFloor   == total_items \div chunk_size
CountOneMore == total_items \div chunk_size + 1
Count        == (total_items + chunk_size - 1) \div chunk_size

Smaller(a, b) == IF a < b THEN a ELSE b
Chunk(i) == [chunk_index |-> i, offset |-> i * chunk_size,
             limit |-> Smaller(chunk_size, total_items - i * chunk_size)]

(* create_chunk_rows.  A source without lines was refused; a size below    *)
(* one raises, in every attempt.                                           *)
Plan ==
    /\ rows = {}
    /\ total_items \in Nat \ {0} /\ chunk_size >= 1
    /\ rows' = {Chunk(i) : i \in 0 .. Count - 1}
    /\ UNCHANGED <<content, reader, total_items, chunk_size, index, reading,
                   object, finalize>>

(* process_chunk, in any order of the chunks, and again after a lost lease.*)
StartChunk(r) ==
    /\ r \in rows
    /\ Open(r.offset, r.limit)
    /\ reading' = r.chunk_index
    /\ UNCHANGED <<batch, object, finalize>>

(* A line without an index takes the chunk's offset.  A mutant: all do.    *)
OffsetIndex(p) == reader.offset
IndexOf(p)     == IF index[p] = NoIndex THEN reader.offset ELSE index[p]

(* sorted is stable, and the lines come in their order.                   *)
Before(a, b) == \/ a.index < b.index
                \/ a.index = b.index /\ a.line < b.line
Sorted(S) ==
    LET n == Cardinality(S)
    IN  CHOOSE s \in [1 .. n -> S] :
            \A i, j \in 1 .. n : i < j => Before(s[i], s[j])

ResultOf(p) == [index |-> IndexOf(p), line |-> p]

Write ==
    /\ reading # Unknown /\ reader.pc = "done"
    /\ object' = [object EXCEPT ![reading] = Sorted({ResultOf(p) : p \in reader.got})]
    /\ reader' = NoReader /\ reading' = Unknown
    /\ UNCHANGED <<batch, finalize>>

(* finalize_batch, once every chunk has its object; again, from the first, *)
(* if the job that was at it is lost.  A mutant: it keeps what was read.   *)
ConcatenateKeeping ==
    /\ rows # {}
    /\ \A r \in rows : object[r.chunk_index] # NoObject
    /\ part' = 0 /\ parts' = parts
    /\ UNCHANGED <<batch, reader, reading, object, results>>
Concatenate ==
    /\ rows # {}
    /\ \A r \in rows : object[r.chunk_index] # NoObject
    /\ part' = 0 /\ parts' = <<>>
    /\ UNCHANGED <<batch, reader, reading, object, results>>

(* The objects are read one after another, in the order of chunk_index,    *)
(* while chunks may be processed again.                                    *)
ReadPart ==
    /\ \E r \in rows : r.chunk_index = part
    /\ parts' = parts \o object[part]
    /\ part' = part + 1
    /\ UNCHANGED <<batch, reader, reading, object, results>>

Join ==
    /\ part # Unknown /\ \A r \in rows : r.chunk_index # part
    /\ results' = parts
    /\ part' = Unknown /\ parts' = <<>>
    /\ UNCHANGED <<batch, reader, reading, object>>

Read == Reading /\ UNCHANGED <<batch, reading, object, finalize>>

Next ==
    \/ StartCount \/ Counted \/ Plan \/ Read \/ Write
    \/ Concatenate \/ ReadPart \/ Join
    \/ \E r \in rows : StartChunk(r)

Spec == Init /\ [][Next]_vars

----------------------------------------------------------------------------
(* Properties                                                              *)

(* A batch has as many items as its stored object has lines, whether they  *)
(* were counted on the way in, at line ends of any kind, or afterwards, by *)
(* the reader that the chunks use.                                         *)
TotalIsCount == total_items # Unknown => total_items = Cardinality(Lines)

Span(r) == r.offset .. r.offset + r.limit - 1

(* The chunks of a batch partition its lines: every line is in exactly one *)
(* chunk, no chunk is empty or larger than chunk_size, and none reaches    *)
(* beyond the last line.                                                   *)
PlanCovers ==
    rows # {} =>
        /\ \A p \in 0 .. total_items - 1 :
             \E r \in rows : /\ p \in Span(r)
                             /\ \A q \in rows : p \in Span(q) => q = r
        /\ \A r \in rows : /\ r.limit \in 1 .. chunk_size
                           /\ r.offset + r.limit <= total_items

(* The results have one line for every line of the prompts, whatever       *)
(* indices the lines came with and in whatever order the chunks ran.       *)
OneResultPerLine ==
    results # NoObject =>
        /\ Len(results) = Cardinality(Lines)
        /\ \A p \in Lines : \E i \in 1 .. Len(results) : results[i].line = p

(* If the lines are numbered from 0, as the upload endpoints number them,  *)
(* the results are in the order of the prompts and numbered alike.         *)
NumberedInOrder ==
    results # NoObject /\ (\A p \in Lines : index[p] = Number(p)) =>
        \A i \in 1 .. Len(results) : /\ results[i].index = i - 1
                                     /\ Number(results[i].line) = i - 1
============================================================================

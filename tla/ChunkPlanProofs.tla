-------------------------- MODULE ChunkPlanProofs --------------------------
(***************************************************************************)
(* The number of items is the number of lines, the plan of the chunks      *)
(* partitions them and every chunk reads its range, whatever the object,   *)
(* the chunk size and the blocks.                                          *)
(***************************************************************************)
EXTENDS ChunkPlan, LineStoreProofs, WellFoundedInduction

(* Rounding up: n chunks of size s reach the total t, and n - 1 do not.    *)
LEMMA CeilReaches ==
    ASSUME NEW t \in Nat, NEW s \in Nat \ {0}
    PROVE  LET n == (t + s - 1) \div s
           IN  n \in Nat /\ n * s >= t /\ n * s < t + s
<1> DEFINE n == (t + s - 1) \div s
<1>1. n \in Int /\ s * n <= t + s - 1 /\ t + s - 1 < s * (n + 1)
  OBVIOUS
<1>2. s * (n + 1) = s * n + s /\ s * n = n * s
  BY <1>1
<1>3. n >= 0
  BY <1>1
<1> QED BY <1>1, <1>2, <1>3

(* A larger chunk index starts at least one chunk size further on.         *)
LEMMA Later ==
    ASSUME NEW i \in Nat, NEW j \in Nat, NEW s \in Nat, i < j
    PROVE  i * s + s <= j * s
<1> DEFINE d == j - i - 1
<1>1. d \in Nat /\ j = i + 1 + d
  OBVIOUS
<1> HIDE DEF d
<1>2. j * s = i * s + s + d * s
  BY <1>1
<1>3. d * s \in Nat
  BY <1>1
<1> QED BY <1>2, <1>3

(* The rows are those of the plan.                                         *)
PlanInv ==
    /\ total_items \in Nat \cup {Unknown}
    /\ chunk_size \in Int
    /\ rows # {} => /\ total_items \in Nat \ {0}
                    /\ chunk_size >= 1
                    /\ rows = {Chunk(i) : i \in 0 .. Count - 1}

(* What the plan is worth: the partition, by the two lemmas.               *)
LEMMA PlanPartition == PlanInv => PlanCovers
<1> SUFFICES ASSUME PlanInv, rows # {} PROVE PlanCovers
  BY DEF PlanCovers
<1>1. /\ total_items \in Nat \ {0} /\ chunk_size \in Nat \ {0}
      /\ rows = {Chunk(i) : i \in 0 .. Count - 1}
  BY DEF PlanInv
<1>2. Count \in Nat /\ Count * chunk_size >= total_items
      /\ Count * chunk_size < total_items + chunk_size
  BY <1>1, CeilReaches DEF Count
<1>3. ASSUME NEW i \in 0 .. Count - 1
      PROVE  /\ i * chunk_size \in Nat /\ i * chunk_size < total_items
             /\ Chunk(i).offset = i * chunk_size
             /\ Chunk(i).limit \in 1 .. chunk_size
             /\ i * chunk_size + Chunk(i).limit <= total_items
             /\ Chunk(i).limit = chunk_size \/ i * chunk_size + Chunk(i).limit = total_items
  <2>1. i * chunk_size \in Nat
    BY <1>1, <1>2
  <2>2. i * chunk_size + chunk_size <= Count * chunk_size
    BY <1>1, <1>2, Later
  <2>3. i * chunk_size < total_items
    BY <1>1, <1>2, <2>1, <2>2
  <2> QED BY <1>1, <2>1, <2>3 DEF Chunk, Smaller
<1>4. ASSUME NEW p \in 0 .. total_items - 1
      PROVE  \E r \in rows : p \in Span(r)
  <2> DEFINE i == p \div chunk_size
  <2>1. i \in Int /\ chunk_size * i <= p /\ p < chunk_size * (i + 1)
    BY <1>1
  <2>2. chunk_size * (i + 1) = i * chunk_size + chunk_size
        /\ chunk_size * i = i * chunk_size
    BY <1>1, <2>1
  <2>3. i >= 0
    BY <1>1, <2>1
  <2>4. i <= Count - 1
    <3> SUFFICES ASSUME Count <= i PROVE FALSE
      BY <1>2, <2>1
    <3>1. Count * chunk_size <= i * chunk_size
      <4>1. CASE Count = i
        BY <4>1, <1>1, <1>2
      <4>2. CASE Count < i
        <5>1. Count * chunk_size + chunk_size <= i * chunk_size
          BY <4>2, <1>1, <1>2, <2>1, <2>3, Later
        <5> QED BY <5>1, <1>1, <1>2, <2>1
      <4> QED BY <4>1, <4>2, <1>2, <2>1
    <3> QED BY <3>1, <1>1, <1>2, <2>1, <2>2
  <2> HIDE DEF i
  <2>5. i \in 0 .. Count - 1
    BY <2>1, <2>3, <2>4, <1>2
  <2>6. p \in Span(Chunk(i))
    BY <1>1, <1>3, <2>1, <2>2, <2>5 DEF Span
  <2> QED BY <1>1, <2>5, <2>6
<1>5. ASSUME NEW i \in 0 .. Count - 1, NEW j \in 0 .. Count - 1, i < j,
             NEW p \in Int, p \in Span(Chunk(i)), p \in Span(Chunk(j))
      PROVE  FALSE
  <2>1. i * chunk_size + chunk_size <= j * chunk_size
    BY <1>1, <1>2, <1>5, Later
  <2>2. i * chunk_size \in Nat /\ j * chunk_size \in Nat
    BY <1>3
  <2>3. p < i * chunk_size + chunk_size
    BY <1>1, <1>3, <1>5, <2>2 DEF Span
  <2>4. j * chunk_size <= p
    BY <1>1, <1>3, <1>5, <2>2 DEF Span
  <2> QED BY <1>1, <2>1, <2>2, <2>3, <2>4
<1>6. ASSUME NEW p \in 0 .. total_items - 1, NEW r \in rows, NEW q \in rows,
             p \in Span(r), p \in Span(q)
      PROVE  q = r
  <2>1. PICK i \in 0 .. Count - 1 : r = Chunk(i)
    BY <1>1
  <2>2. PICK j \in 0 .. Count - 1 : q = Chunk(j)
    BY <1>1
  <2>3. ~(i < j) /\ ~(j < i)
    BY <1>5, <1>6, <2>1, <2>2
  <2>4. i = j
    BY <2>3, <1>2
  <2> QED BY <2>1, <2>2, <2>4
<1>7. ASSUME NEW r \in rows
      PROVE  r.limit \in 1 .. chunk_size /\ r.offset + r.limit <= total_items
  <2>1. PICK i \in 0 .. Count - 1 : r = Chunk(i)
    BY <1>1
  <2> QED BY <2>1, <1>3
<1> QED BY <1>4, <1>6, <1>7 DEF PlanCovers

----------------------------------------------------------------------------
(* The reader that counts looks at the whole object.                       *)
CountInv ==
    /\ TotalIsCount
    /\ total_items = Unknown /\ reader.pc # "idle" =>
         reader.offset = 0 /\ reader.limit = Len(content)

FileInv == StreamInv /\ PlanInv /\ CountInv

(* An upload of n lines is stored with n lines.                            *)
LEMMA NormalisedLines ==
    ASSUME NEW n \in Nat,
           content = [i \in 1 .. 2 * n |-> IF i % 2 = 1 THEN "ch" ELSE "nl"]
    PROVE  content \in Seq(Byte) /\ Cardinality(Lines) = n
<1>1. content \in Seq(Byte) /\ Len(content) = 2 * n
  BY DEF Byte
<1>2. \A k \in 1 .. 2 * n : content[k] = IF k % 2 = 1 THEN "ch" ELSE "nl"
  OBVIOUS
<1>3. ASSUME NEW p \in 1 .. 2 * n, p % 2 = 1 PROVE p \in Lines
  <2>1. p = 1 \/ (p - 1 \in 1 .. 2 * n /\ (p - 1) % 2 # 1)
    BY <1>3
  <2>2. p = 1 \/ content[p - 1] = "nl"
    BY <1>2, <2>1
  <2>3. p \in p .. Len(content) /\ content[p] = "ch" /\ \A k \in p .. p : content[k] # "nl"
    BY <1>1, <1>2, <1>3
  <2> QED BY <1>1, <2>2, <2>3 DEF Lines, LinesOf
<1>4. ASSUME NEW p \in Lines PROVE p \in 1 .. 2 * n /\ p % 2 = 1
  <2>1. p \in 1 .. 2 * n /\ (p = 1 \/ content[p - 1] = "nl")
    BY <1>1 DEF Lines, LinesOf
  <2>2. p = 1 \/ (p - 1) % 2 # 1
    BY <1>2, <2>1
  <2> QED BY <2>1, <2>2
<1> DEFINE f == [i \in 1 .. n |-> 2 * i - 1]
<1>5. f \in [1 .. n -> Lines]
  <2>1. \A i \in 1 .. n : 2 * i - 1 \in 1 .. 2 * n /\ (2 * i - 1) % 2 = 1
    OBVIOUS
  <2> QED BY <1>3, <2>1
<1>6. \A i, j \in 1 .. n : f[i] = f[j] => i = j
  OBVIOUS
<1>7. ASSUME NEW p \in Lines PROVE \E i \in 1 .. n : f[i] = p
  <2>1. p \in 1 .. 2 * n /\ p % 2 = 1
    BY <1>4
  <2>2. (p + 1) \div 2 \in 1 .. n /\ 2 * ((p + 1) \div 2) - 1 = p
    BY <2>1
  <2> QED BY <2>2
<1> HIDE DEF f
<1>8. f \in Bijection(1 .. n, Lines)
  BY <1>5, <1>6, <1>7 DEF Bijection, Injection, Surjection, IsInjective
<1>9. IsFiniteSet(1 .. n) /\ Cardinality(1 .. n) = n
  BY FS_Interval
<1>10. Cardinality(Lines) = n
  BY <1>8, <1>9, FS_Bijection DEF ExistsBijection
<1> QED BY <1>1, <1>10

LEMMA FileInitial == Init => FileInv
<1> SUFFICES ASSUME Init PROVE FileInv
  OBVIOUS
<1>0. PICK n \in 0 .. MaxBytes : \E text \in [1 .. n -> Byte] : Uploaded(text) \/ Copied(text)
  BY DEF Init
<1>1. PICK text \in [1 .. n -> Byte] : Uploaded(text) \/ Copied(text)
  BY <1>0
<1>2. n \in Nat /\ text \in Seq(Byte) /\ Len(text) = n
  BY BytesAssumption
<1>3. content \in Seq(Byte) /\ total_items \in Nat \cup {Unknown} /\ TotalIsCount
  <2>1. CASE Uploaded(text)
    <3> DEFINE S == LinesOf(text, {"nl", "cr"})
    <3>1. S \subseteq 1 .. n
      BY <1>2 DEF LinesOf
    <3>2. Cardinality(S) \in Nat
      <4>1. IsFiniteSet(1 .. n)
        BY <1>2, FS_Interval
      <4> HIDE DEF S
      <4>2. IsFiniteSet(S)
        BY <3>1, <4>1, FS_Subset
      <4> QED BY <4>2, FS_CardinalityType
    <3>3. content = [i \in 1 .. 2 * Cardinality(S) |-> IF i % 2 = 1 THEN "ch" ELSE "nl"]
          /\ total_items = Cardinality(S)
      BY <2>1 DEF Uploaded, Normalised, CountPieces
    <3> HIDE DEF S
    <3> QED BY <3>2, <3>3, NormalisedLines DEF TotalIsCount
  <2>2. CASE Copied(text)
    BY <1>2, <2>2 DEF Copied, TotalIsCount
  <2> QED BY <1>1, <2>1, <2>2
<1>4. reader = NoReader /\ NoReader \in Reader /\ NoReader.fetched = 0 /\ NoReader.pc = "idle"
  BY DEF Init, NoReader, Reader
<1>5. StreamInv
  BY <1>3, <1>4 DEF StreamInv
<1>6. PlanInv
  BY <1>3, SizesAssumption DEF Init, PlanInv
<1> QED BY <1>3, <1>4, <1>5, <1>6 DEF FileInv, CountInv

(* A row of the plan is a range.                                           *)
LEMMA RowsAreRanges ==
    ASSUME PlanInv, NEW r \in rows
    PROVE  r.offset \in Nat /\ r.limit \in Nat
<1>1. /\ total_items \in Nat \ {0} /\ chunk_size \in Nat \ {0}
      /\ rows = {Chunk(i) : i \in 0 .. Count - 1}
  BY DEF PlanInv
<1>2. Count \in Nat
  BY <1>1, CeilReaches DEF Count
<1>3. PICK i \in 0 .. Count - 1 : r = Chunk(i)
  BY <1>1
<1>4. r.limit \in 1 .. chunk_size
  BY PlanPartition DEF PlanCovers
<1>5. i \in Nat /\ r.offset = i * chunk_size
  BY <1>2, <1>3 DEF Chunk
<1> QED BY <1>1, <1>4, <1>5

LEMMA PlanKept == PlanInv /\ CountInv /\ StreamInv /\ [Next]_vars => PlanInv'
<1> SUFFICES ASSUME PlanInv, CountInv, StreamInv, [Next]_vars PROVE PlanInv'
  OBVIOUS
<1>1. CASE Plan
  BY <1>1 DEF Plan, PlanInv, Count, Chunk
<1>2. ASSUME UNCHANGED <<total_items, chunk_size, rows>> PROVE PlanInv'
  BY <1>2 DEF PlanInv, Count, Chunk
<1>3. CASE Counted
  <2>1. total_items' \in Nat /\ rows' = {} /\ chunk_size' = chunk_size
    BY <1>3, IndexAssumption DEF Counted, PlanInv, StreamInv, Reader
  <2> QED BY <2>1 DEF PlanInv
<1>4. CASE \/ StartCount \/ Read \/ Write \/ Concatenate \/ ReadPart \/ Join
          \/ \E r \in rows : StartChunk(r)
  BY <1>2, <1>4 DEF StartCount, Read, Write, Concatenate, ReadPart, Join, StartChunk, batch
<1>5. CASE UNCHANGED vars
  BY <1>2, <1>5 DEF vars
<1> QED BY <1>1, <1>3, <1>4, <1>5 DEF Next

LEMMA StreamKept == PlanInv /\ StreamInv /\ [Next]_vars => StreamInv'
<1> SUFFICES ASSUME PlanInv, StreamInv, [Next]_vars PROVE StreamInv'
  OBVIOUS
<1>0. content \in Seq(Byte) /\ Len(content) \in Nat
  BY DEF StreamInv
<1>1. ASSUME UNCHANGED <<content, reader>> PROVE StreamInv'
  BY <1>1 DEF StreamInv, AtPieceStart, AtEnd, RangeExact, Beyond, Lines, Number
<1>2. ASSUME UNCHANGED content, reader' = NoReader PROVE StreamInv'
  <2>1. NoReader \in Reader /\ NoReader.fetched = 0 /\ NoReader.pc = "idle"
    BY DEF NoReader, Reader
  <2> QED BY <1>0, <1>2, <2>1 DEF StreamInv
<1>3. CASE StartCount
  BY <1>0, <1>3, OpenKeeps DEF StartCount, batch
<1>4. ASSUME NEW r \in rows, StartChunk(r) PROVE StreamInv'
  BY <1>0, <1>4, OpenKeeps, RowsAreRanges DEF StartChunk, batch
<1>5. CASE Read
  BY <1>5, StreamStep DEF Read, batch
<1>6. CASE Counted \/ Write
  BY <1>2, <1>6 DEF Counted, Write, batch
<1>7. CASE Plan \/ Concatenate \/ ReadPart \/ Join
  BY <1>1, <1>7 DEF Plan, Concatenate, ReadPart, Join, batch
<1>8. CASE UNCHANGED vars
  BY <1>1, <1>8 DEF vars
<1> QED BY <1>3, <1>4, <1>5, <1>6, <1>7, <1>8 DEF Next

LEMMA CountKept == FileInv /\ [Next]_vars => CountInv'
<1> SUFFICES ASSUME FileInv, [Next]_vars PROVE CountInv'
  OBVIOUS
<1>0. content \in Seq(Byte) /\ reader \in Reader /\ CountInv /\ PlanInv
  BY DEF FileInv, StreamInv
<1>1. ASSUME UNCHANGED <<content, total_items>>,
             UNCHANGED reader \/ total_items # Unknown \/ reader'.pc = "idle"
      PROVE  CountInv'
  BY <1>0, <1>1 DEF CountInv, TotalIsCount, Lines
<1>2. CASE StartCount
  <2>1. reader'.offset = 0 /\ reader'.limit = Len(content) /\ UNCHANGED <<content, total_items>>
    BY <1>2 DEF StartCount, Open, NoReader, batch
  <2> QED BY <1>0, <2>1 DEF CountInv, TotalIsCount, Lines
<1>3. CASE Counted
  <2>1. /\ reader.idx \in Nat /\ AtEnd /\ reader.offset = 0 /\ reader.limit = Len(content)
        /\ total_items' = reader.idx /\ reader'.pc = "idle" /\ content' = content
    BY <1>0, <1>3 DEF Counted, FileInv, StreamInv, CountInv, NoReader, Reader
  <2>2. Cardinality(Lines) \in Nat /\ Cardinality(Lines) <= Len(content) /\ Len(content) \in Nat
    BY <1>0, LinesFinite
  <2>3. reader.idx = Cardinality(Lines)
    BY <2>1, <2>2 DEF AtEnd, Beyond
  <2> QED BY <2>1, <2>3 DEF CountInv, TotalIsCount, Lines
<1>4. CASE \E r \in rows : StartChunk(r)
  <2>1. total_items # Unknown
    BY <1>0, <1>4, IndexAssumption DEF PlanInv
  <2> QED BY <1>1, <1>4, <2>1 DEF StartChunk, batch
<1>5. CASE Read
  <2>1. reader'.offset = reader.offset /\ reader'.limit = reader.limit /\ reader.pc # "idle"
        /\ UNCHANGED <<content, total_items>>
    BY <1>0, <1>5 DEF Read, Reading, TakeLine, Fetch, Finish, Split, Reader, batch
  <2> QED BY <1>0, <2>1 DEF CountInv, TotalIsCount, Lines
<1>6. CASE Write
  BY <1>1, <1>6 DEF Write, NoReader, batch
<1>7. CASE Plan \/ Concatenate \/ ReadPart \/ Join
  BY <1>1, <1>7 DEF Plan, Concatenate, ReadPart, Join, batch
<1>8. CASE UNCHANGED vars
  BY <1>1, <1>8 DEF vars
<1> QED BY <1>2, <1>3, <1>4, <1>5, <1>6, <1>7, <1>8 DEF Next

LEMMA FileInvariant == Spec => []FileInv
<1>1. FileInv /\ [Next]_vars => FileInv'
  BY PlanKept, StreamKept, CountKept DEF FileInv
<1> QED BY <1>1, FileInitial, PTL DEF Spec

(* Every line of a batch is in exactly one of its chunks, for any number   *)
(* of lines and any chunk size: none is skipped at a boundary and none is  *)
(* inferred twice.                                                         *)
THEOREM PlanPartitions == Spec => []PlanCovers
<1>1. FileInv => PlanCovers
  BY PlanPartition DEF FileInv
<1> QED BY <1>1, FileInvariant, PTL

(* However a batch got its object, its total_items is the number of lines  *)
(* that its chunks will find there.                                        *)
THEOREM TotalIsExact == Spec => []TotalIsCount
<1>1. FileInv => TotalIsCount
  BY DEF FileInv, CountInv
<1> QED BY <1>1, FileInvariant, PTL

(* A chunk reads the lines of its range and no other, wherever the blocks  *)
(* of the body were cut.                                                   *)
THEOREM ReadsItsRange == Spec => []RangeExact
<1>1. FileInv => RangeExact
  BY DEF FileInv, StreamInv, RangeExact
<1> QED BY <1>1, FileInvariant, PTL

----------------------------------------------------------------------------
(* A set of numbers that is not empty has a least one.                     *)
LEMMA Least ==
    ASSUME NEW S \in SUBSET Nat, S # {}
    PROVE  \E n \in S : \A k \in S : n <= k
<1>1. PICK n \in S : \A k \in S : <<k, n>> \notin OpToRel(<, Nat)
  BY NatLessThanWellFounded, WFMin
<1>2. \A k \in S : ~(k < n)
  BY <1>1 DEF OpToRel
<1> QED BY <1>2

(* As many numbers as an interval has, in it and growing, are all of it in *)
(* their order: the first that were too small, and the last that was too   *)
(* large, would have a neighbour that is.                                  *)
LEMMA IncreasingFills ==
    ASSUME NEW f, NEW a \in Nat, NEW n \in Nat,
           \A i \in 1 .. n : f[i] \in a .. a + n - 1,
           \A i, j \in 1 .. n : i < j => f[i] < f[j]
    PROVE  \A i \in 1 .. n : f[i] = a + i - 1
<1>1. \A i \in 1 .. n : f[i] >= a + i - 1
  <2> DEFINE low == {i \in 1 .. n : f[i] < a + i - 1}
  <2> SUFFICES ASSUME low # {} PROVE FALSE
    OBVIOUS
  <2>1. PICK i \in low : \A k \in low : i <= k
    <3>1. low \in SUBSET Nat
      OBVIOUS
    <3> HIDE DEF low
    <3> QED BY <3>1, Least
  <2>2. i - 1 \in 1 .. n /\ i - 1 \notin low
    BY <2>1
  <2>3. f[i - 1] >= a + i - 2 /\ f[i - 1] < f[i]
    BY <2>1, <2>2
  <2> QED BY <2>1, <2>2, <2>3
<1>2. \A i \in 1 .. n : f[i] <= a + i - 1
  <2> DEFINE high == {k \in 0 .. n - 1 : f[n - k] > a + n - k - 1}
  <2> SUFFICES ASSUME high = {} PROVE \A i \in 1 .. n : f[i] <= a + i - 1
    <3>1. ASSUME high # {} PROVE FALSE
      <4>1. PICK k \in high : \A j \in high : k <= j
        <5>1. high \in SUBSET Nat
          OBVIOUS
        <5> HIDE DEF high
        <5> QED BY <3>1, <5>1, Least
      <4>2. k - 1 \in 0 .. n - 1 /\ k - 1 \notin high
        BY <4>1
      <4>3. f[n - (k - 1)] <= a + n - (k - 1) - 1 /\ f[n - k] < f[n - (k - 1)]
        BY <4>1, <4>2
      <4> QED BY <4>1, <4>2, <4>3
    <3> QED BY <3>1
  <2>1. TAKE i \in 1 .. n
  <2>2. n - i \in 0 .. n - 1 /\ n - i \notin high /\ n - (n - i) = i
    OBVIOUS
  <2> QED BY <2>2
<1> QED BY <1>1, <1>2

(* A finite set of results can be listed in order, each at the place that  *)
(* the number of those before it gives, so that Sorted lists it.           *)
LEMMA SortedLists ==
    ASSUME NEW S \in SUBSET Result, IsFiniteSet(S)
    PROVE  LET s == Sorted(S)
               n == Cardinality(S)
           IN  /\ n \in Nat /\ s \in Seq(S) /\ Len(s) = n
               /\ \A i, j \in 1 .. n : i < j => Before(s[i], s[j])
               /\ \A x \in S : \E i \in 1 .. n : s[i] = x
<1> DEFINE n         == Cardinality(S)
           Ahead(x)  == {y \in S : Before(y, x)}
           place     == [x \in S |-> Cardinality(Ahead(x)) + 1]
           Lists(s)  == \A i, j \in 1 .. n : i < j => Before(s[i], s[j])
<1>1. n \in Nat /\ IsFiniteSet(1 .. n) /\ Cardinality(1 .. n) = n
  <2>1. n \in Nat
    BY FS_CardinalityType
  <2> HIDE DEF n
  <2> QED BY <2>1, FS_Interval
<1>2. /\ \A x \in S : ~Before(x, x)
      /\ \A x, y \in S : x = y \/ Before(x, y) \/ Before(y, x)
      /\ \A x, y, z \in S : Before(x, y) /\ Before(y, z) => Before(x, z)
  BY DEF Before, Result
<1>3. ASSUME NEW x \in S
      PROVE  IsFiniteSet(Ahead(x)) /\ Cardinality(Ahead(x)) \in 0 .. n - 1
  <2>1. Ahead(x) \subseteq S /\ x \notin Ahead(x)
    BY <1>2
  <2>2. IsFiniteSet(Ahead(x)) /\ Cardinality(Ahead(x)) <= n /\ Cardinality(Ahead(x)) # n
    BY <2>1, FS_Subset
  <2>3. Cardinality(Ahead(x)) \in Nat
    BY <2>2, FS_CardinalityType
  <2> QED BY <1>1, <2>2, <2>3
<1>4. ASSUME NEW x \in S, NEW y \in S, Before(x, y) PROVE place[x] < place[y]
  <2>1. Ahead(x) \subseteq Ahead(y) /\ x \in Ahead(y) /\ x \notin Ahead(x)
    BY <1>2, <1>4
  <2>2. IsFiniteSet(Ahead(y))
    BY <1>3
  <2>3. /\ Cardinality(Ahead(x)) <= Cardinality(Ahead(y))
        /\ Cardinality(Ahead(x)) # Cardinality(Ahead(y))
    BY <2>1, <2>2, FS_Subset
  <2>4. Cardinality(Ahead(x)) \in Int /\ Cardinality(Ahead(y)) \in Int
    <3>1. Cardinality(Ahead(x)) \in 0 .. n - 1 /\ Cardinality(Ahead(y)) \in 0 .. n - 1
      BY <1>3
    <3> HIDE DEF Ahead, n
    <3> QED BY <1>1, <3>1
  <2> QED BY <2>3, <2>4
<1>5. place \in [S -> 1 .. n]
  <2>1. \A x \in S : Cardinality(Ahead(x)) \in 0 .. n - 1
    BY <1>3
  <2> HIDE DEF Ahead
  <2> QED BY <1>1, <2>1
<1> HIDE DEF Ahead, place
<1>6. \A x, y \in S : place[x] = place[y] => x = y
  <2>1. \A x, y \in S : Before(x, y) => place[x] < place[y]
    BY <1>4
  <2>2. \A x \in S : place[x] \in Int
    BY <1>5
  <2> QED BY <1>2, <2>1, <2>2
<1>7. \A i \in 1 .. n : \E x \in S : place[x] = i
  <2>1. place \in Injection(S, 1 .. n)
    BY <1>5, <1>6 DEF Injection, IsInjective
  <2>2. place \in Surjection(S, 1 .. n)
    BY <1>1, <2>1, FS_Injection
  <2> QED BY <2>2 DEF Surjection
<1> DEFINE sorted == [i \in 1 .. n |-> CHOOSE x \in S : place[x] = i]
<1>8. \A i \in 1 .. n : sorted[i] \in S /\ place[sorted[i]] = i
  BY <1>7
<1>9. sorted \in [1 .. n -> S]
  BY <1>8
<1> HIDE DEF sorted
<1>10. Lists(sorted)
  <2> SUFFICES ASSUME NEW i \in 1 .. n, NEW j \in 1 .. n, i < j
               PROVE  Before(sorted[i], sorted[j])
    OBVIOUS
  <2>1. sorted[i] \in S /\ sorted[j] \in S /\ place[sorted[i]] = i /\ place[sorted[j]] = j
    BY <1>8
  <2>2. sorted[i] # sorted[j] /\ ~Before(sorted[j], sorted[i])
    BY <2>1, <1>4
  <2> QED BY <1>2, <2>1, <2>2
<1> DEFINE s == Sorted(S)
<1>11. s \in [1 .. n -> S] /\ Lists(s)
  BY <1>9, <1>10 DEF Sorted
<1> HIDE DEF s
<1>12. s \in Injection(1 .. n, S)
  <2>1. \A i, j \in 1 .. n : i < j => s[i] # s[j]
    BY <1>2, <1>11
  <2>2. \A i, j \in 1 .. n : s[i] = s[j] => i = j
    BY <1>1, <2>1
  <2> QED BY <1>11, <2>2 DEF Injection, IsInjective
<1>13. s \in Surjection(1 .. n, S)
  BY <1>1, <1>12, FS_Injection
<1>14. \A x \in S : \E i \in 1 .. n : s[i] = x
  BY <1>13 DEF Surjection
<1>15. s \in Seq(S) /\ Len(s) = n
  BY <1>1, <1>11
<1> QED BY <1>1, <1>11, <1>14, <1>15 DEF s

----------------------------------------------------------------------------
(* Where the chunks of a plan start and end.                               *)
Start(i) == Smaller(i * chunk_size, total_items)

LEMMA ChunkRanges ==
    ASSUME PlanInv, rows # {}
    PROVE  /\ Count \in Nat /\ Count <= total_items
           /\ Start(0) = 0 /\ Start(Count) = total_items
           /\ \A i \in 0 .. Count - 1 :
                /\ Chunk(i) \in ChunkRow /\ Chunk(i) \in rows /\ Chunk(i).chunk_index = i
                /\ Chunk(i).offset = Start(i)
                /\ Chunk(i).offset + Chunk(i).limit = Start(i + 1)
                /\ Start(i + 1) <= total_items
           /\ \A r \in rows : r.chunk_index \in 0 .. Count - 1 /\ r = Chunk(r.chunk_index)
<1>1. /\ total_items \in Nat \ {0} /\ chunk_size \in Nat \ {0}
      /\ rows = {Chunk(i) : i \in 0 .. Count - 1}
  BY DEF PlanInv
<1>2. Count \in Nat /\ Count * chunk_size >= total_items
      /\ Count * chunk_size < total_items + chunk_size
  BY <1>1, CeilReaches DEF Count
<1>3. Count <= total_items
  <2> SUFFICES ASSUME total_items < Count PROVE FALSE
    BY <1>1, <1>2
  <2>1. total_items * chunk_size + chunk_size <= Count * chunk_size
    BY <1>1, <1>2, Later
  <2>2. total_items <= total_items * chunk_size
    <3> DEFINE t == total_items
               d == chunk_size - 1
    <3>1. t \in Nat /\ d \in Nat /\ chunk_size = d + 1
      BY <1>1
    <3> HIDE DEF t, d
    <3>2. t * (d + 1) = t * d + t /\ t * d \in Nat
      BY <3>1
    <3> QED BY <3>1, <3>2 DEF t
  <2>3. total_items * chunk_size \in Int /\ Count * chunk_size \in Int
    BY <1>1, <1>2
  <2> QED BY <1>1, <1>2, <2>1, <2>2, <2>3
<1>4. Start(0) = 0
  BY <1>1 DEF Start, Smaller
<1>5. Start(Count) = total_items
  <2>1. Count * chunk_size \in Int
    BY <1>1, <1>2
  <2> QED BY <1>1, <1>2, <2>1 DEF Start, Smaller
<1>6. ASSUME NEW i \in 0 .. Count - 1
      PROVE  /\ Chunk(i) \in ChunkRow /\ Chunk(i) \in rows /\ Chunk(i).chunk_index = i
             /\ Chunk(i).offset = Start(i)
             /\ Chunk(i).offset + Chunk(i).limit = Start(i + 1)
             /\ Start(i + 1) <= total_items
  <2>1. i \in Nat /\ i * chunk_size \in Nat /\ i * chunk_size + chunk_size \in Nat
    BY <1>1, <1>2
  <2>2. i * chunk_size < total_items
    <3>1. i * chunk_size + chunk_size <= Count * chunk_size
      BY <1>1, <1>2, Later
    <3>2. Count * chunk_size \in Int
      BY <1>1, <1>2
    <3> QED BY <1>1, <1>2, <2>1, <3>1, <3>2
  <2>3. (i + 1) * chunk_size = i * chunk_size + chunk_size
    BY <1>1, <2>1
  <2>4. Start(i) = i * chunk_size
    BY <1>1, <2>1, <2>2 DEF Start, Smaller
  <2>5. Start(i + 1) = Smaller(i * chunk_size + chunk_size, total_items)
    BY <2>3 DEF Start
  <2>6. Chunk(i).limit \in Nat \ {0} /\ i * chunk_size + Chunk(i).limit = Start(i + 1)
    BY <1>1, <2>1, <2>2, <2>5 DEF Chunk, Smaller
  <2>7. Start(i + 1) <= total_items
    BY <1>1, <2>1, <2>5 DEF Smaller
  <2>8. Chunk(i).chunk_index = i /\ Chunk(i).offset = i * chunk_size
    BY DEF Chunk
  <2>9. Chunk(i) \in ChunkRow
    BY <2>1, <2>6 DEF Chunk, ChunkRow
  <2> QED BY <1>1, <2>4, <2>6, <2>7, <2>8, <2>9
<1>7. ASSUME NEW r \in rows
      PROVE  r.chunk_index \in 0 .. Count - 1 /\ r = Chunk(r.chunk_index)
  <2>1. PICK i \in 0 .. Count - 1 : r = Chunk(i)
    BY <1>1
  <2> QED BY <1>6, <2>1
<1> QED BY <1>2, <1>3, <1>4, <1>5, <1>6, <1>7

----------------------------------------------------------------------------
(* The lines are numbered as the upload endpoints number them.             *)
Numbered == \A p \in Lines : index[p] = Number(p)

(* A list has the n lines from number a on, each once; in their order and  *)
(* numbered so if the lines are.                                           *)
HoldsRange(list, a, n) ==
    /\ list \in Seq(Result) /\ Len(list) = n
    /\ {list[i].line : i \in 1 .. n} = {p \in Lines : Number(p) \in a .. a + n - 1}
    /\ Numbered => \A i \in 1 .. n : /\ list[i].index = a + i - 1
                                     /\ Number(list[i].line) = a + i - 1

(* Two lists of ranges that meet make one.                                 *)
LEMMA RangesMeet ==
    ASSUME content \in Seq(Byte), NEW a \in Nat, NEW m \in Nat, NEW n \in Nat,
           NEW s, NEW t, HoldsRange(s, a, m), HoldsRange(t, a + m, n)
    PROVE  HoldsRange(s \o t, a, m + n)
<1>1. /\ s \in Seq(Result) /\ Len(s) = m /\ t \in Seq(Result) /\ Len(t) = n
  BY DEF HoldsRange
<1>2. /\ s \o t \in Seq(Result) /\ Len(s \o t) = m + n
      /\ \A i \in 1 .. m : (s \o t)[i] = s[i]
      /\ \A i \in 1 .. n : (s \o t)[m + i] = t[i]
  <2>1. s \o t \in Seq(Result) /\ Len(s \o t) = m + n
    BY <1>1
  <2>2. ASSUME NEW i \in 1 .. m PROVE (s \o t)[i] = s[i]
    BY <1>1
  <2>3. ASSUME NEW i \in 1 .. n PROVE (s \o t)[m + i] = t[i]
    BY <1>1
  <2> QED BY <2>1, <2>2, <2>3
<1> DEFINE st == s \o t
<1> HIDE DEF st
<1>3. \A i \in 1 .. m + n : \/ i \in 1 .. m /\ st[i] = s[i]
                            \/ i - m \in 1 .. n /\ st[i] = t[i - m]
  <2>1. \A i \in 1 .. m + n : i \in 1 .. m \/ (i - m \in 1 .. n /\ m + (i - m) = i)
    OBVIOUS
  <2> QED BY <1>2, <2>1 DEF st
<1>4. {st[i].line : i \in 1 .. m + n} = {p \in Lines : Number(p) \in a .. a + (m + n) - 1}
  <2>1. {st[i].line : i \in 1 .. m + n} =
          {s[i].line : i \in 1 .. m} \cup {t[i].line : i \in 1 .. n}
    <3>1. \A i \in 1 .. m : i \in 1 .. m + n /\ st[i] = s[i]
      BY <1>2 DEF st
    <3>2. \A i \in 1 .. n : m + i \in 1 .. m + n /\ st[m + i] = t[i]
      BY <1>2 DEF st
    <3>3. ASSUME NEW i \in 1 .. m + n
          PROVE  st[i].line \in {s[k].line : k \in 1 .. m} \cup {t[k].line : k \in 1 .. n}
      BY <1>3
    <3>4. \A i \in 1 .. m : s[i].line \in {st[k].line : k \in 1 .. m + n}
      BY <3>1
    <3>5. \A i \in 1 .. n : t[i].line \in {st[k].line : k \in 1 .. m + n}
      BY <3>2
    <3> QED BY <3>3, <3>4, <3>5
  <2>2. \A p \in Lines : Number(p) \in Nat
    <3>1. Cardinality(Lines) \in Nat
      BY LinesFinite
    <3> QED BY <3>1, NumbersExact
  <2>3. {p \in Lines : Number(p) \in a .. a + (m + n) - 1} =
          {p \in Lines : Number(p) \in a .. a + m - 1}
            \cup {p \in Lines : Number(p) \in a + m .. a + m + n - 1}
    BY <2>2
  <2> QED BY <2>1, <2>3 DEF HoldsRange
<1>5. ASSUME Numbered, NEW i \in 1 .. m + n
      PROVE  st[i].index = a + i - 1 /\ Number(st[i].line) = a + i - 1
  <2>1. CASE i \in 1 .. m /\ st[i] = s[i]
    BY <1>5, <2>1 DEF HoldsRange
  <2>2. CASE i - m \in 1 .. n /\ st[i] = t[i - m]
    <3>1. t[i - m].index = a + m + (i - m) - 1 /\ Number(t[i - m].line) = a + m + (i - m) - 1
      BY <1>5, <2>2 DEF HoldsRange
    <3> QED BY <2>2, <3>1
  <2> QED BY <1>3, <2>1, <2>2
<1> QED BY <1>2, <1>4, <1>5 DEF HoldsRange, st

(* The sorted results of a range are a list of it.                         *)
LEMMA SortedRange ==
    ASSUME content \in Seq(Byte), index \in [Lines -> Nat \cup {NoIndex}],
           reader.offset \in Nat, NEW n \in Nat,
           reader.offset + n <= Cardinality(Lines),
           reader.got = {p \in Lines : Number(p) \in
                             reader.offset .. reader.offset + n - 1}
    PROVE  HoldsRange(Sorted({ResultOf(p) : p \in reader.got}), reader.offset, n)
<1> DEFINE S == {ResultOf(p) : p \in reader.got}
           a == reader.offset
           f == [p \in reader.got |-> ResultOf(p)]
           s == Sorted(S)
<1>1. /\ \A p \in Lines : p \in Nat \ {0} /\ Number(p) \in Nat
      /\ reader.got \subseteq Lines
      /\ \A p, q \in Lines : p # q => Number(p) # Number(q)
  <2>1. Cardinality(Lines) \in Nat /\ \A p \in Lines : p \in Nat \ {0}
    BY LinesFinite
  <2>2. \A p, q \in Lines : p < q \/ q < p \/ p = q
    BY <2>1
  <2>3. \A p \in Lines : Number(p) \in Nat
    BY <2>1, NumbersExact
  <2> QED BY <2>1, <2>2, <2>3, NumbersExact
<1>2. IsFiniteSet(reader.got) /\ Cardinality(reader.got) = n
  <2> DEFINE range == {p \in Lines : Number(p) \in a .. a + n - 1}
  <2>1. IsFiniteSet(range) /\ Cardinality(range) = n
    <3>1. a \in Nat /\ a + n <= Cardinality(Lines)
      OBVIOUS
    <3> HIDE DEF a
    <3> QED BY <3>1, RangeSize
  <2>2. reader.got = range
    OBVIOUS
  <2> HIDE DEF range
  <2> QED BY <2>1, <2>2
<1>3. S \in SUBSET Result
  <2>1. \A p \in reader.got : IndexOf(p) \in Nat /\ p \in Nat \ {0}
    BY <1>1 DEF IndexOf
  <2> QED BY <2>1 DEF ResultOf, Result
<1>4. IsFiniteSet(S) /\ Cardinality(S) = n
  <2>1. f \in Bijection(reader.got, S)
    BY DEF Bijection, Injection, Surjection, IsInjective, ResultOf
  <2> HIDE DEF f, S
  <2> QED BY <1>2, <2>1, FS_Bijection DEF ExistsBijection
<1> HIDE DEF f
<1>5. /\ s \in Seq(S) /\ Len(s) = n
      /\ \A i, j \in 1 .. n : i < j => Before(s[i], s[j])
      /\ \A x \in S : \E i \in 1 .. n : s[i] = x
  <2> HIDE DEF S
  <2> QED BY <1>3, <1>4, SortedLists
<1> HIDE DEF s
<1>6. \A i \in 1 .. n : s[i] \in S
  BY <1>5
<1>7. {s[i].line : i \in 1 .. n} = reader.got
  <2>1. \A i \in 1 .. n : s[i].line \in reader.got
    BY <1>6 DEF ResultOf
  <2>2. ASSUME NEW p \in reader.got PROVE \E i \in 1 .. n : s[i].line = p
    <3>1. PICK i \in 1 .. n : s[i] = ResultOf(p)
      BY <1>5
    <3> QED BY <3>1 DEF ResultOf
  <2> QED BY <2>1, <2>2
<1>8. ASSUME Numbered
      PROVE  \A i \in 1 .. n : s[i].index = a + i - 1 /\ Number(s[i].line) = a + i - 1
  <2>1. ASSUME NEW i \in 1 .. n
        PROVE  /\ s[i].index = Number(s[i].line) /\ s[i].line \in Lines
               /\ s[i].index \in a .. a + n - 1
    <3>1. PICK p \in reader.got : s[i] = ResultOf(p)
      BY <1>6
    <3>2. IndexOf(p) = Number(p)
      BY <1>1, <1>8, IndexAssumption DEF Numbered, IndexOf
    <3> QED BY <1>1, <3>1, <3>2 DEF ResultOf
  <2> DEFINE g == [i \in 1 .. n |-> s[i].index]
  <2>2. \A i \in 1 .. n : g[i] \in a .. a + n - 1
    BY <2>1
  <2>3. ASSUME NEW i \in 1 .. n, NEW j \in 1 .. n, i < j PROVE g[i] < g[j]
    <3>1. Before(s[i], s[j])
      BY <1>5, <2>3
    <3>2. s[i].index = s[j].index => s[i].line = s[j].line
      BY <1>1, <2>1
    <3>3. s[i].line \in Nat
      BY <1>1, <2>1
    <3> QED BY <3>1, <3>2, <3>3 DEF Before
  <2> HIDE DEF g
  <2>4. \A i \in 1 .. n : g[i] = a + i - 1
    BY <2>2, <2>3, IncreasingFills
  <2> QED BY <2>1, <2>4 DEF g
<1>9. s \in Seq(Result)
  BY <1>3, <1>5
<1> QED BY <1>5, <1>7, <1>8, <1>9 DEF HoldsRange, s

----------------------------------------------------------------------------
(* A chunk's object holds its range, what has been read of them holds the  *)
(* lines up to the next, and the results hold them all.                    *)
GivenInv ==
    /\ chunk_size \in Sizes
    /\ Cardinality(Lines) <= MaxBytes
    /\ index \in [Lines -> Nat \cup {NoIndex}]

ReadingInv ==
    reading # Unknown =>
        /\ rows # {} /\ reading \in 0 .. Count - 1 /\ reader.pc # "idle"
        /\ reader.offset = Chunk(reading).offset /\ reader.limit = Chunk(reading).limit

Whole(i) == HoldsRange(object[i], Chunk(i).offset, Chunk(i).limit)

ObjectsInv ==
    /\ object = [i \in ChunkIndex |-> object[i]]
    /\ \A i \in ChunkIndex :
          object[i] # NoObject => rows # {} /\ i \in 0 .. Count - 1 /\ Whole(i)

PartsInv ==
    IF part = Unknown THEN parts = <<>>
    ELSE /\ rows # {} /\ part \in 0 .. Count
         /\ \A i \in 0 .. Count - 1 : Whole(i)
         /\ HoldsRange(parts, 0, Start(part))

JoinedInv == results # NoObject => rows # {} /\ HoldsRange(results, 0, total_items)

ResultsInv == GivenInv /\ ReadingInv /\ ObjectsInv /\ PartsInv /\ JoinedInv

LEMMA ResultsInitial == Init => ResultsInv
<1> SUFFICES ASSUME Init PROVE ResultsInv
  OBVIOUS
<1>0. FileInv /\ content \in Seq(Byte)
  BY FileInitial DEF FileInv, StreamInv
<1>1. PICK n \in 0 .. MaxBytes : \E text \in [1 .. n -> Byte] : Uploaded(text) \/ Copied(text)
  BY DEF Init
<1>2. PICK text \in [1 .. n -> Byte] : Uploaded(text) \/ Copied(text)
  BY <1>1
<1>3. n \in Nat /\ n <= MaxBytes /\ MaxBytes \in Nat /\ text \in Seq(Byte) /\ Len(text) = n
  BY BytesAssumption
<1>4. Cardinality(Lines) \in Nat /\ Cardinality(Lines) <= Len(content)
      /\ \A p \in Lines : Number(p) \in Nat
  BY <1>0, LinesFinite, NumbersExact
<1>5. CASE Uploaded(text)
  <2> DEFINE S == LinesOf(text, {"nl", "cr"})
  <2>1. S \subseteq 1 .. n
    BY <1>3 DEF LinesOf
  <2>2. total_items = Cardinality(S)
    BY <1>5 DEF Uploaded, CountPieces
  <2> HIDE DEF S
  <2>3. Cardinality(S) \in Nat /\ Cardinality(S) <= n
    <3> DEFINE I == 1 .. n
    <3>1. IsFiniteSet(I) /\ Cardinality(I) = n /\ S \in SUBSET I
      BY <1>3, <2>1, FS_Interval
    <3> HIDE DEF I
    <3>2. IsFiniteSet(S) /\ Cardinality(S) <= n
      BY <3>1, FS_Subset
    <3> QED BY <3>2, FS_CardinalityType
  <2>4. Cardinality(Lines) <= MaxBytes
    BY <1>0, <1>3, <2>2, <2>3, IndexAssumption DEF FileInv, CountInv, TotalIsCount
  <2>5. index \in [Lines -> Nat \cup {NoIndex}]
    <3>1. PICK given \in [Lines -> Indices \cup {NoIndex}] :
            index = [p \in Lines |-> IF given[p] = NoIndex THEN Number(p) ELSE given[p]]
      BY <1>5 DEF Uploaded
    <3> QED BY <1>4, <3>1, IndexAssumption
  <2> QED BY <2>4, <2>5 DEF Init, ResultsInv, GivenInv, ReadingInv, ObjectsInv,
             PartsInv, JoinedInv
<1>6. CASE Copied(text)
  <2>1. Cardinality(Lines) <= MaxBytes
    BY <1>3, <1>4, <1>6 DEF Copied
  <2>2. index \in [Lines -> Nat \cup {NoIndex}]
    BY <1>6, IndexAssumption DEF Copied
  <2> QED BY <2>1, <2>2 DEF Init, ResultsInv, GivenInv, ReadingInv, ObjectsInv,
             PartsInv, JoinedInv
<1> QED BY <1>2, <1>5, <1>6

(* The object, its lines and the chunk size never change.                  *)
LEMMA GivenKept ==
    ASSUME GivenInv, [Next]_vars
    PROVE  /\ GivenInv' /\ UNCHANGED <<content, chunk_size, index, Lines, Numbered>>
           /\ \A p : Number(p)' = Number(p)
<1>1. UNCHANGED <<content, chunk_size, index>>
  BY DEF Next, StartCount, Counted, Plan, Read, Write, Concatenate, ReadPart, Join,
         StartChunk, batch, vars
<1>2. Lines' = Lines /\ \A p : Number(p)' = Number(p)
  BY <1>1 DEF Lines, Number
<1>3. Numbered' = Numbered
  BY <1>1, <1>2 DEF Numbered
<1> QED BY <1>1, <1>2, <1>3 DEF GivenInv

(* A chunk that is read has its range, and its object is that list.        *)
LEMMA WriteKeeps ==
    ASSUME FileInv, ResultsInv, [Next]_vars, Write
    PROVE  ReadingInv' /\ ObjectsInv' /\ PartsInv' /\ JoinedInv'
<1>1. /\ UNCHANGED <<content, chunk_size, index, Lines, Numbered>>
      /\ \A p : Number(p)' = Number(p)
  BY GivenKept DEF ResultsInv
<1>2. UNCHANGED <<total_items, rows, part, parts, results>> /\ Count' = Count
      /\ (\A i : Chunk(i)' = Chunk(i)) /\ (\A i : Start(i)' = Start(i))
  BY <1>1 DEF Write, batch, finalize, Count, Chunk, Start
<1>3. /\ rows # {} /\ reading \in 0 .. Count - 1
      /\ reader.offset = Chunk(reading).offset /\ reader.limit = Chunk(reading).limit
  BY DEF Write, ResultsInv, ReadingInv
<1>4. /\ total_items \in Nat /\ Cardinality(Lines) = total_items
      /\ content \in Seq(Byte) /\ Count \in Nat /\ Count <= MaxBytes
  <2>1. total_items \in Nat /\ Count \in Nat /\ Count <= total_items
    BY <1>3, ChunkRanges DEF FileInv, PlanInv
  <2>2. Cardinality(Lines) = total_items
    BY <2>1, IndexAssumption DEF FileInv, CountInv, TotalIsCount
  <2>3. Count <= MaxBytes
    BY <2>1, <2>2, BytesAssumption DEF ResultsInv, GivenInv
  <2> QED BY <2>1, <2>2, <2>3 DEF FileInv, StreamInv
<1>5. /\ reader.offset \in Nat /\ reader.limit \in Nat
      /\ reader.offset + reader.limit <= Cardinality(Lines)
  <2>1. Chunk(reading) \in ChunkRow
        /\ Chunk(reading).offset + Chunk(reading).limit <= total_items
    BY <1>3, ChunkRanges DEF FileInv
  <2> QED BY <1>3, <1>4, <2>1 DEF ChunkRow
<1> DEFINE list == Sorted({ResultOf(p) : p \in reader.got})
<1>6. HoldsRange(list, reader.offset, reader.limit)
  <2>1. reader.got = {p \in Lines : Number(p) \in
                        reader.offset .. reader.offset + reader.limit - 1}
    BY DEF Write, FileInv, StreamInv, RangeExact
  <2> QED BY <1>4, <1>5, <2>1, SortedRange DEF ResultsInv, GivenInv
<1>7. object' = [object EXCEPT ![reading] = list]
  BY DEF Write
<1> HIDE DEF list
<1>8. /\ object' = [i \in ChunkIndex |-> object'[i]] /\ object'[reading] = list
      /\ \A i : i # reading => object'[i] = object[i]
  <2>1. reading \in ChunkIndex
    BY <1>3, <1>4, BytesAssumption DEF ChunkIndex
  <2> QED BY <1>7, <2>1 DEF ResultsInv, ObjectsInv
<1>9. ASSUME NEW i, i = reading \/ Whole(i) PROVE Whole(i)'
  <2>1. HoldsRange(object'[i], Chunk(i).offset, Chunk(i).limit)
    BY <1>3, <1>6, <1>8, <1>9 DEF Whole
  <2> QED BY <1>1, <1>2, <2>1 DEF Whole, HoldsRange
<1>10. ObjectsInv'
  <2>1. ASSUME NEW i \in ChunkIndex, object'[i] # NoObject
        PROVE  rows' # {} /\ i \in 0 .. Count' - 1 /\ Whole(i)'
    <3>1. i \in 0 .. Count - 1 /\ (i = reading \/ Whole(i))
      BY <1>3, <1>8, <2>1 DEF ResultsInv, ObjectsInv
    <3> QED BY <1>2, <1>3, <1>9, <3>1
  <2> QED BY <1>8, <2>1 DEF ObjectsInv, ChunkIndex
<1>11. ReadingInv'
  BY DEF Write, ReadingInv
<1>12. PartsInv'
  <2>1. CASE part = Unknown
    BY <1>2, <2>1 DEF ResultsInv, PartsInv
  <2>2. CASE part # Unknown
    <3>1. /\ part \in 0 .. Count /\ (\A i \in 0 .. Count - 1 : Whole(i)')
          /\ HoldsRange(parts, 0, Start(part))
      BY <1>9, <2>2 DEF ResultsInv, PartsInv
    <3>2. HoldsRange(parts, 0, Start(part))'
      BY <1>1, <1>2, <3>1 DEF HoldsRange
    <3> QED BY <1>2, <1>3, <2>2, <3>1, <3>2 DEF PartsInv
  <2> QED BY <2>1, <2>2
<1>13. JoinedInv'
  BY <1>1, <1>2 DEF ResultsInv, JoinedInv, HoldsRange
<1> QED BY <1>10, <1>11, <1>12, <1>13

(* What a step that changes neither the plan nor an object keeps.          *)
LEMMA SamePlan ==
    ASSUME ResultsInv, [Next]_vars, UNCHANGED <<total_items, rows, object>>
    PROVE  /\ Count' = Count
           /\ (\A i : Chunk(i)' = Chunk(i)) /\ (\A i : Start(i)' = Start(i))
           /\ \A i : Whole(i) => Whole(i)'
           /\ ObjectsInv'
           /\ UNCHANGED <<part, parts>> => PartsInv'
           /\ UNCHANGED results => JoinedInv'
<1>1. /\ UNCHANGED <<content, chunk_size, index, Lines, Numbered>>
      /\ \A p : Number(p)' = Number(p)
  BY GivenKept DEF ResultsInv
<1>2. Count' = Count /\ (\A i : Chunk(i)' = Chunk(i)) /\ (\A i : Start(i)' = Start(i))
  BY <1>1 DEF Count, Chunk, Start
<1>3. ASSUME NEW i, Whole(i) PROVE Whole(i)'
  BY <1>1, <1>2, <1>3 DEF Whole, HoldsRange
<1>4. ObjectsInv'
  <2>1. ASSUME NEW i \in ChunkIndex, object'[i] # NoObject
        PROVE  rows' # {} /\ i \in 0 .. Count' - 1 /\ Whole(i)'
    BY <1>2, <1>3, <2>1 DEF ResultsInv, ObjectsInv
  <2> QED BY <2>1 DEF ResultsInv, ObjectsInv, ChunkIndex
<1>5. ASSUME UNCHANGED <<part, parts>> PROVE PartsInv'
  <2>1. CASE part = Unknown
    BY <1>5, <2>1 DEF ResultsInv, PartsInv
  <2>2. CASE part # Unknown
    <3>1. /\ rows # {} /\ part \in 0 .. Count /\ (\A i \in 0 .. Count - 1 : Whole(i)')
          /\ HoldsRange(parts, 0, Start(part))
      BY <1>3, <2>2 DEF ResultsInv, PartsInv
    <3>2. HoldsRange(parts, 0, Start(part))'
      BY <1>1, <1>2, <1>5, <3>1 DEF HoldsRange
    <3> QED BY <1>2, <1>5, <2>2, <3>1, <3>2 DEF PartsInv
  <2> QED BY <2>1, <2>2
<1>6. ASSUME UNCHANGED results PROVE JoinedInv'
  BY <1>1, <1>6 DEF ResultsInv, JoinedInv, HoldsRange
<1> QED BY <1>2, <1>3, <1>4, <1>5, <1>6

(* The parts grow by one range after another, up to the last.              *)
LEMMA ConcatenationKeeps ==
    ASSUME FileInv, ResultsInv, [Next]_vars, Concatenate \/ ReadPart \/ Join
    PROVE  ReadingInv' /\ ObjectsInv' /\ PartsInv' /\ JoinedInv'
<1>1. /\ UNCHANGED <<content, chunk_size, index, Lines, Numbered>>
      /\ \A p : Number(p)' = Number(p)
  BY GivenKept DEF ResultsInv
<1>2. UNCHANGED <<total_items, rows, reader, reading, object>>
  BY DEF Concatenate, ReadPart, Join, batch
<1>3. /\ Count' = Count
      /\ (\A i : Chunk(i)' = Chunk(i)) /\ (\A i : Start(i)' = Start(i))
      /\ \A i : Whole(i) => Whole(i)'
      /\ ObjectsInv' /\ (UNCHANGED results => JoinedInv')
  BY <1>2, SamePlan
<1>4. ReadingInv'
  BY <1>2, <1>3 DEF ResultsInv, ReadingInv
<1>5. /\ content \in Seq(Byte) /\ PlanInv
      /\ \A p \in Lines : Number(p) \in Nat
  <2>1. content \in Seq(Byte)
    BY DEF FileInv, StreamInv
  <2> QED BY <2>1, LinesFinite, NumbersExact DEF FileInv
<1>6. CASE Concatenate
  <2>1. rows # {} /\ \A i \in 0 .. Count - 1 : object[i] # NoObject
    <3>1. rows # {} /\ \A r \in rows : object[r.chunk_index] # NoObject
      BY <1>6 DEF Concatenate
    <3>2. \A i \in 0 .. Count - 1 : Chunk(i) \in rows /\ Chunk(i).chunk_index = i
      BY <1>5, <3>1, ChunkRanges
    <3> QED BY <3>1, <3>2
  <2>2. /\ total_items \in Nat /\ Count \in Nat /\ Start(0) = 0
        /\ \A i \in 0 .. Count - 1 : i \in ChunkIndex
    <3>1. total_items \in Nat /\ Count \in Nat /\ Count <= total_items /\ Start(0) = 0
      BY <1>5, <2>1, ChunkRanges DEF PlanInv
    <3>2. total_items <= MaxBytes /\ MaxBytes \in Nat
      BY <3>1, BytesAssumption, IndexAssumption
         DEF FileInv, CountInv, TotalIsCount, ResultsInv, GivenInv
    <3> QED BY <3>1, <3>2 DEF ChunkIndex
  <2>3. \A i \in 0 .. Count - 1 : Whole(i)'
    BY <1>3, <2>1, <2>2 DEF ResultsInv, ObjectsInv
  <2>4. HoldsRange(<<>>, 0, 0)
    BY <1>5 DEF HoldsRange
  <2>5. part' = 0 /\ parts' = <<>> /\ UNCHANGED results
    BY <1>6 DEF Concatenate
  <2>6. HoldsRange(parts, 0, Start(part))'
    <3>1. Start(part)' = 0
      <4>1. Start(0)' = 0
        BY <1>3, <2>2
      <4> QED BY <2>5, <4>1 DEF Start
    <3> QED BY <1>1, <2>4, <2>5, <3>1 DEF HoldsRange
  <2>7. part' # Unknown /\ part' \in 0 .. Count' /\ rows' # {}
    BY <1>2, <1>3, <2>1, <2>2, <2>5, IndexAssumption
  <2>8. PartsInv'
    BY <1>3, <2>3, <2>6, <2>7 DEF PartsInv
  <2> QED BY <1>3, <1>4, <2>5, <2>8
<1>7. CASE ReadPart
  <2>1. PICK r \in rows : r.chunk_index = part
    BY <1>7 DEF ReadPart
  <2>2. /\ part \in 0 .. Count - 1 /\ Count \in Nat /\ Chunk(part) \in ChunkRow
        /\ Chunk(part).offset = Start(part)
        /\ Chunk(part).offset + Chunk(part).limit = Start(part + 1)
    <3>1. part \in 0 .. Count - 1
      BY <1>5, <2>1, ChunkRanges
    <3> QED BY <1>5, <2>1, <3>1, ChunkRanges
  <2>3. part # Unknown
    BY <2>2, IndexAssumption
  <2>4. /\ \A i \in 0 .. Count - 1 : Whole(i)
        /\ HoldsRange(parts, 0, Start(part))
    BY <2>3 DEF ResultsInv, PartsInv
  <2>5. HoldsRange(parts \o object[part], 0, Start(part + 1))
    <3> DEFINE m == Chunk(part).offset
               n == Chunk(part).limit
    <3>1. m \in Nat /\ n \in Nat /\ Start(part) = m /\ Start(part + 1) = m + n /\ 0 + m = m
      BY <2>2 DEF ChunkRow
    <3>2. HoldsRange(object[part], m, n)
      BY <2>2, <2>4 DEF Whole
    <3> HIDE DEF m, n
    <3>3. HoldsRange(parts, 0, m) /\ HoldsRange(object[part], 0 + m, n)
      BY <2>4, <3>1, <3>2
    <3>4. HoldsRange(parts \o object[part], 0, m + n)
      BY <1>5, <3>1, <3>3, RangesMeet
    <3> QED BY <3>1, <3>4
  <2>6. part' = part + 1 /\ parts' = parts \o object[part] /\ UNCHANGED results
    BY <1>7 DEF ReadPart
  <2>7. HoldsRange(parts, 0, Start(part))'
    <3>1. HoldsRange(parts', 0, Start(part + 1))
      BY <2>5, <2>6
    <3>2. Start(part)' = Start(part + 1)
      BY <1>1, <1>2, <2>6 DEF Start
    <3> QED BY <1>1, <3>1, <3>2 DEF HoldsRange
  <2>8. part' # Unknown /\ part' \in 0 .. Count' /\ rows' # {}
    BY <1>2, <1>3, <2>1, <2>2, <2>6, IndexAssumption
  <2>9. PartsInv'
    BY <1>3, <2>4, <2>7, <2>8 DEF PartsInv
  <2> QED BY <1>3, <1>4, <2>6, <2>9
<1>8. CASE Join
  <2>1. part # Unknown /\ \A r \in rows : r.chunk_index # part
    BY <1>8 DEF Join
  <2>2. rows # {} /\ part \in 0 .. Count /\ HoldsRange(parts, 0, Start(part))
    BY <2>1 DEF ResultsInv, PartsInv
  <2>3. part = Count
    <3>1. Count \in Nat /\ \A i \in 0 .. Count - 1 : Chunk(i) \in rows /\ Chunk(i).chunk_index = i
      BY <1>5, <2>2, ChunkRanges
    <3> QED BY <2>1, <2>2, <3>1
  <2>4. HoldsRange(parts, 0, total_items)
    BY <1>5, <2>2, <2>3, ChunkRanges
  <2>5. results' = parts /\ part' = Unknown /\ parts' = <<>>
    BY <1>8 DEF Join
  <2>6. HoldsRange(results, 0, total_items)'
    BY <1>1, <1>2, <2>4, <2>5 DEF HoldsRange
  <2> QED BY <1>2, <1>3, <1>4, <2>2, <2>5, <2>6 DEF PartsInv, JoinedInv
<1> QED BY <1>6, <1>7, <1>8

LEMMA ResultsStep == FileInv /\ ResultsInv /\ [Next]_vars => ResultsInv'
<1> SUFFICES ASSUME FileInv, ResultsInv, [Next]_vars
             PROVE  ReadingInv' /\ ObjectsInv' /\ PartsInv' /\ JoinedInv'
  BY GivenKept DEF ResultsInv
<1>1. UNCHANGED <<content, chunk_size>>
  BY GivenKept DEF ResultsInv
<1>2. ASSUME UNCHANGED <<total_items, rows, object, part, parts, results>>, ReadingInv'
      PROVE  ReadingInv' /\ ObjectsInv' /\ PartsInv' /\ JoinedInv'
  BY <1>2, SamePlan
<1>3. ASSUME rows = {}, UNCHANGED <<reading, object, part, parts, results>>
      PROVE  ReadingInv' /\ ObjectsInv' /\ PartsInv' /\ JoinedInv'
  BY <1>3 DEF ResultsInv, ReadingInv, ObjectsInv, PartsInv, JoinedInv, ChunkIndex
<1>4. total_items = Unknown => rows = {} /\ reading = Unknown
  <2>1. total_items = Unknown => rows = {}
    BY IndexAssumption DEF FileInv, PlanInv
  <2> QED BY <2>1 DEF ResultsInv, ReadingInv
<1>5. CASE StartCount
  <2>1. ReadingInv'
    BY <1>4, <1>5 DEF StartCount, ReadingInv
  <2> QED BY <1>2, <1>5, <2>1 DEF StartCount, batch, finalize
<1>6. CASE Counted
  BY <1>3, <1>4, <1>6 DEF Counted, finalize
<1>7. CASE Plan
  BY <1>3, <1>7 DEF Plan, finalize
<1>8. ASSUME NEW r \in rows, StartChunk(r)
      PROVE  ReadingInv' /\ ObjectsInv' /\ PartsInv' /\ JoinedInv'
  <2>1. r.chunk_index \in 0 .. Count - 1 /\ r = Chunk(r.chunk_index)
    BY <1>8, ChunkRanges DEF FileInv
  <2>2. /\ reading' = r.chunk_index /\ reader'.pc = "read"
        /\ reader'.offset = r.offset /\ reader'.limit = r.limit
        /\ UNCHANGED <<total_items, rows>>
    BY <1>8 DEF StartChunk, Open, NoReader, batch
  <2>3. ReadingInv'
    BY <1>1, <1>8, <2>1, <2>2 DEF ReadingInv, Count, Chunk, Smaller
  <2> QED BY <1>2, <1>8, <2>3 DEF StartChunk, batch, finalize
<1>9. CASE Read
  <2>1. /\ reader'.offset = reader.offset /\ reader'.limit = reader.limit
        /\ reader'.pc # "idle" /\ UNCHANGED <<reading, total_items, rows>>
    <3>1. reader \in Reader
      BY DEF FileInv, StreamInv
    <3> QED BY <1>9, <3>1
            DEF Read, Reading, TakeLine, Fetch, Finish, Split, Reader, batch
  <2>2. ReadingInv'
    BY <1>1, <2>1 DEF ResultsInv, ReadingInv, Count, Chunk, Smaller
  <2> QED BY <1>2, <1>9, <2>2 DEF Read, batch, finalize
<1>10. CASE Write
  BY <1>10, WriteKeeps
<1>11. CASE Concatenate \/ ReadPart \/ Join
  BY <1>11, ConcatenationKeeps
<1>12. CASE UNCHANGED vars
  <2>1. ReadingInv'
    BY <1>12 DEF vars, ResultsInv, ReadingInv, Count, Chunk, Smaller
  <2> QED BY <1>2, <1>12, <2>1 DEF vars
<1> QED BY <1>5, <1>6, <1>7, <1>8, <1>9, <1>10, <1>11, <1>12 DEF Next

LEMMA ResultsInvariant == Spec => [](FileInv /\ ResultsInv)
<1>1. Init => ResultsInv
  BY ResultsInitial
<1>2. FileInv /\ ResultsInv /\ [Next]_vars => ResultsInv'
  BY ResultsStep
<1> QED BY <1>1, <1>2, FileInvariant, PTL DEF Spec

(* What is known of a plan that was made.                                  *)
LEMMA PlanCounts ==
    ASSUME FileInv, ResultsInv, rows # {}
    PROVE  /\ total_items \in Nat /\ total_items <= MaxBytes
           /\ total_items = Cardinality(Lines)
           /\ Count \in Nat /\ Count <= total_items
<1>1. total_items \in Nat /\ Count \in Nat /\ Count <= total_items
  BY ChunkRanges DEF FileInv, PlanInv
<1>2. total_items = Cardinality(Lines)
  BY <1>1, IndexAssumption DEF FileInv, CountInv, TotalIsCount
<1> QED BY <1>1, <1>2 DEF ResultsInv, GivenInv

(* Columns, plan, readers and objects keep their types, for every object   *)
(* of any length and every chunk size; no chunk has an index beyond the    *)
(* last line.                                                              *)
THEOREM ChunkTypeCorrect == Spec => []TypeOK
<1>1. FileInv /\ ResultsInv => TypeOK
  <2> SUFFICES ASSUME FileInv, ResultsInv PROVE TypeOK
    OBVIOUS
  <2>1. /\ content \in Seq(Byte) /\ reader \in Reader
        /\ total_items \in Nat \cup {Unknown} /\ chunk_size \in Sizes
        /\ index \in [Lines -> Nat \cup {NoIndex}]
    BY DEF FileInv, StreamInv, PlanInv, ResultsInv, GivenInv
  <2>2. rows \subseteq ChunkRow
    <3>1. \A r \in rows : \E i \in 0 .. Count - 1 : r = Chunk(i) /\ Chunk(i) \in ChunkRow
      BY ChunkRanges DEF FileInv
    <3> QED BY <3>1
  <2>3. reading \in ChunkIndex \cup {Unknown}
    <3>1. CASE reading # Unknown
      <4>1. rows # {} /\ reading \in 0 .. Count - 1
        BY <3>1 DEF ResultsInv, ReadingInv
      <4> QED BY <4>1, PlanCounts, BytesAssumption DEF ChunkIndex
    <3> QED BY <3>1
  <2>4. \A i \in ChunkIndex : object[i] = NoObject \/ object[i] \in Seq(Result)
    BY DEF ResultsInv, ObjectsInv, Whole, HoldsRange
  <2>5. part \in Nat \cup {Unknown} /\ parts \in Seq(Result)
    <3>1. CASE part = Unknown
      BY <3>1 DEF ResultsInv, PartsInv
    <3>2. CASE part # Unknown
      <4>1. rows # {} /\ part \in 0 .. Count /\ HoldsRange(parts, 0, Start(part))
        BY <3>2 DEF ResultsInv, PartsInv
      <4>2. part \in Nat
        BY <4>1, PlanCounts
      <4> QED BY <4>1, <4>2 DEF HoldsRange
    <3> QED BY <3>1, <3>2
  <2>6. results = NoObject \/ results \in Seq(Result)
    BY DEF ResultsInv, JoinedInv, HoldsRange
  <2> QED BY <2>1, <2>2, <2>3, <2>4, <2>5, <2>6 DEF TypeOK
<1> QED BY <1>1, ResultsInvariant, PTL

(* The results have each line of the prompts once, for every object, chunk *)
(* size and cut of the blocks, whatever numbers the lines brought, however *)
(* often and in whatever order the chunks were processed, and also if that *)
(* went on while the objects were being joined.                            *)
THEOREM EachLineOnce == Spec => []OneResultPerLine
<1>1. FileInv /\ ResultsInv => OneResultPerLine
  <2> SUFFICES ASSUME FileInv, ResultsInv, results # NoObject
               PROVE  /\ Len(results) = Cardinality(Lines)
                      /\ \A p \in Lines : \E i \in 1 .. Len(results) : results[i].line = p
    BY DEF OneResultPerLine
  <2>1. rows # {} /\ HoldsRange(results, 0, total_items)
    BY DEF ResultsInv, JoinedInv
  <2>2. Len(results) = Cardinality(Lines) /\ Len(results) = total_items
    BY <2>1, PlanCounts DEF HoldsRange
  <2>3. ASSUME NEW p \in Lines PROVE \E i \in 1 .. Len(results) : results[i].line = p
    <3>1. Number(p) \in 0 .. 0 + total_items - 1
      BY <2>1, NumbersExact, PlanCounts DEF FileInv, StreamInv
    <3>2. p \in {results[i].line : i \in 1 .. total_items}
      BY <2>1, <3>1 DEF HoldsRange
    <3> QED BY <2>2, <3>2
  <2> QED BY <2>2, <2>3
<1> QED BY <1>1, ResultsInvariant, PTL

(* Lines that are numbered from 0, as the upload endpoints number them,    *)
(* have their results in the order of the prompts and numbered alike.      *)
THEOREM ResultsInOrder == Spec => []NumberedInOrder
<1>1. FileInv /\ ResultsInv => NumberedInOrder
  <2> SUFFICES ASSUME FileInv, ResultsInv, results # NoObject, Numbered
               PROVE  \A i \in 1 .. Len(results) : /\ results[i].index = i - 1
                                                  /\ Number(results[i].line) = i - 1
    BY DEF NumberedInOrder, Numbered
  <2>1. rows # {} /\ HoldsRange(results, 0, total_items)
    BY DEF ResultsInv, JoinedInv
  <2> QED BY <2>1 DEF HoldsRange
<1> QED BY <1>1, ResultsInvariant, PTL
============================================================================

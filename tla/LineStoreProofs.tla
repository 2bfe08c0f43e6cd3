-------------------------- MODULE LineStoreProofs --------------------------
(***************************************************************************)
(* A range is read exactly, for every object, every way its blocks are cut *)
(* and every range.                                                        *)
(***************************************************************************)
EXTENDS LineStore, FiniteSetTheorems, TLAPS

(* Where a reader stands: at the start of a piece, having counted the      *)
(* lines before it and taken those in its range.                           *)
AtPieceStart ==
    /\ reader.start <= reader.fetched + 1
    /\ reader.start = 1 \/ content[reader.start - 1] = "nl"
    /\ reader.idx = Number(reader.start)
    /\ reader.got = {p \in Lines : /\ p < reader.start
                                   /\ Number(p) >= reader.offset
                                   /\ Number(p) < reader.offset + reader.limit}

(* It ends at the end of the lines or of its range.                        *)
AtEnd ==
    /\ reader.idx <= Cardinality(Lines)
    /\ reader.idx = Cardinality(Lines) \/ Beyond

StreamInv ==
    /\ content \in Seq(Byte)
    /\ reader \in Reader
    /\ reader.fetched <= Len(content)
    /\ reader.pc = "read" => AtPieceStart
    /\ reader.pc = "done" => AtEnd /\ RangeExact

----------------------------------------------------------------------------
LEMMA LinesFinite ==
    ASSUME content \in Seq(Byte)
    PROVE  /\ Lines \subseteq 1 .. Len(content) /\ IsFiniteSet(Lines)
           /\ Cardinality(Lines) \in Nat /\ Cardinality(Lines) <= Len(content)
<1>1. Len(content) \in Nat
  OBVIOUS
<1>2. Lines \subseteq 1 .. Len(content)
  BY DEF Lines, LinesOf
<1>3. IsFiniteSet(1 .. Len(content)) /\ Cardinality(1 .. Len(content)) = Len(content)
  BY <1>1, FS_Interval
<1>4. IsFiniteSet(Lines) /\ Cardinality(Lines) <= Len(content)
  BY <1>2, <1>3, FS_Subset
<1>5. Cardinality(Lines) \in Nat
  BY <1>4, FS_CardinalityType
<1> QED BY <1>2, <1>4, <1>5

(* Lines are numbered in their order.                                      *)
LEMMA NumberGrows ==
    ASSUME content \in Seq(Byte), NEW p \in Int, NEW q \in Int, p <= q
    PROVE  Number(p) \in Nat /\ Number(p) <= Number(q) /\ Number(q) <= Cardinality(Lines)
<1> DEFINE B(x) == {l \in Lines : l < x}
<1>1. IsFiniteSet(Lines) /\ \A l \in Lines : l \in Int
  BY LinesFinite
<1>2. IsFiniteSet(B(q)) /\ Cardinality(B(q)) <= Cardinality(Lines)
  BY <1>1, FS_Subset
<1>3. B(p) \subseteq B(q)
  BY <1>1
<1>4. IsFiniteSet(B(p)) /\ Cardinality(B(p)) <= Cardinality(B(q))
  BY <1>2, <1>3, FS_Subset
<1>5. Cardinality(B(p)) \in Nat
  BY <1>4, FS_CardinalityType
<1> QED BY <1>2, <1>4, <1>5 DEF Number

(* A line's number is that of no other, and every number below the count   *)
(* is some line's.                                                         *)
LEMMA NumbersExact ==
    ASSUME content \in Seq(Byte)
    PROVE  /\ \A p \in Lines : Number(p) \in 0 .. Cardinality(Lines) - 1
           /\ \A p, q \in Lines : p < q => Number(p) < Number(q)
           /\ \A k \in 0 .. Cardinality(Lines) - 1 : \E p \in Lines : Number(p) = k
<1> DEFINE B(x) == {l \in Lines : l < x}
           n    == Cardinality(Lines)
<1>1. /\ IsFiniteSet(Lines) /\ n \in Nat
      /\ \A l \in Lines : l \in Int /\ Number(l) \in Nat /\ Number(l) <= n
  <2>1. \A l \in Lines : l \in Int
    BY LinesFinite
  <2> QED BY <2>1, LinesFinite, NumberGrows
<1>2. ASSUME NEW p \in Lines PROVE Number(p) < n
  <2>1. B(p) \subseteq Lines /\ p \notin B(p)
    BY <1>1
  <2>2. Cardinality(B(p)) # n
    BY <1>1, <2>1, FS_Subset
  <2> QED BY <1>1, <2>2 DEF Number
<1>3. ASSUME NEW p \in Lines, NEW q \in Lines, p < q PROVE Number(p) < Number(q)
  <2>1. B(p) \subseteq B(q) /\ p \in B(q) /\ p \notin B(p)
    BY <1>1, <1>3
  <2>2. IsFiniteSet(B(q))
    BY <1>1, FS_Subset
  <2>3. Cardinality(B(p)) # Cardinality(B(q)) /\ Cardinality(B(p)) <= Cardinality(B(q))
    BY <2>1, <2>2, FS_Subset
  <2> QED BY <1>1, <2>3 DEF Number
<1> DEFINE f == [p \in Lines |-> Number(p)]
<1>4. f \in Injection(Lines, 0 .. n - 1)
  <2>1. f \in [Lines -> 0 .. n - 1]
    BY <1>1, <1>2
  <2>2. \A p, q \in Lines : f[p] = f[q] => p = q
    <3>1. \A p, q \in Lines : p < q \/ q < p \/ p = q
      BY <1>1
    <3>2. \A p, q \in Lines : p < q => f[p] < f[q]
      BY <1>3
    <3> HIDE DEF f
    <3>3. \A p \in Lines : f[p] \in Int
      BY <2>1
    <3> QED BY <3>1, <3>2, <3>3
  <2> QED BY <2>1, <2>2 DEF Injection, IsInjective
<1>5. IsFiniteSet(0 .. n - 1) /\ Cardinality(0 .. n - 1) = n
  <2>1. n \in Nat /\ n - 1 \in Int
    BY <1>1
  <2> HIDE DEF n
  <2> QED BY <2>1, FS_Interval
<1>6. f \in Surjection(Lines, 0 .. n - 1)
  BY <1>4, <1>5, FS_Injection
<1>7. \A k \in 0 .. n - 1 : \E p \in Lines : f[p] = k
  BY <1>6 DEF Surjection
<1> QED BY <1>1, <1>2, <1>3, <1>7

(* A range within the count has as many lines as its limit.                *)
LEMMA RangeSize ==
    ASSUME content \in Seq(Byte), NEW a \in Nat, NEW l \in Nat,
           a + l <= Cardinality(Lines)
    PROVE  LET range == {p \in Lines : Number(p) \in a .. a + l - 1}
           IN  IsFiniteSet(range) /\ Cardinality(range) = l
<1> DEFINE range == {p \in Lines : Number(p) \in a .. a + l - 1}
           f     == [p \in range |-> Number(p)]
<1>1. Cardinality(Lines) \in Nat /\ \A p \in Lines : p \in Int /\ Number(p) \in Nat
  BY LinesFinite, NumbersExact
<1>2. IsFiniteSet(range)
  BY LinesFinite, FS_Subset
<1>3. f \in [range -> a .. a + l - 1]
  OBVIOUS
<1>4. \A p, q \in range : f[p] = f[q] => p = q
  <2>1. \A p, q \in Lines : p < q \/ q < p \/ p = q
    BY <1>1
  <2>2. \A p, q \in Lines : p # q => Number(p) # Number(q)
    BY <1>1, <2>1, NumbersExact
  <2> QED BY <2>2
<1>5. \A k \in a .. a + l - 1 : \E p \in range : f[p] = k
  <2>1. \A k \in a .. a + l - 1 : k \in 0 .. Cardinality(Lines) - 1
    BY <1>1
  <2> QED BY <2>1, NumbersExact
<1> HIDE DEF f
<1>6. f \in Bijection(range, a .. a + l - 1)
  BY <1>3, <1>4, <1>5 DEF Bijection, Injection, Surjection, IsInjective
<1> HIDE DEF range
<1>7. Cardinality(a .. a + l - 1) = Cardinality(range)
  BY <1>2, <1>6, FS_Bijection DEF ExistsBijection
<1>8. Cardinality(a .. a + l - 1) = l
  BY FS_Interval
<1> QED BY <1>2, <1>7, <1>8 DEF range

(* A piece a .. b between two newlines, or the ends of the object, has one *)
(* line if it has a byte of text, and none otherwise.                      *)
LEMMA OnePiece ==
    ASSUME content \in Seq(Byte), NEW a \in Nat \ {0}, NEW b \in Nat,
           a <= b + 1, b <= Len(content),
           a = 1 \/ content[a - 1] = "nl",
           \A k \in a .. b : content[k] # "nl",
           b = Len(content) \/ content[b + 1] = "nl"
    PROVE  LET text == \E k \in a .. b : content[k] = "ch"
           IN  /\ a \in Lines <=> text
               /\ \A q \in Lines : q < b + 2 => q <= a
               /\ Number(b + 2) = IF text THEN Number(a) + 1 ELSE Number(a)
<1>1. Len(content) \in Nat
  OBVIOUS
<1>2. ASSUME NEW k \in a .. b, content[k] = "ch" PROVE a \in Lines
  BY <1>1, <1>2 DEF Lines, LinesOf
<1>3. ASSUME a \in Lines PROVE \E k \in a .. b : content[k] = "ch"
  <2>1. PICK q \in a .. Len(content) :
            content[q] = "ch" /\ \A k \in a .. q : content[k] # "nl"
    BY <1>3 DEF Lines, LinesOf
  <2>2. q <= b
    BY <1>1, <2>1
  <2> QED BY <2>1, <2>2
<1>4. ASSUME NEW q \in Lines, q < b + 2, ~(q <= a) PROVE FALSE
  <2>1. q \in 1 .. Len(content) /\ (q = 1 \/ content[q - 1] = "nl")
    BY DEF Lines, LinesOf
  <2>2. q - 1 \in a .. b
    BY <1>1, <1>4, <2>1
  <2> QED BY <2>1, <2>2
<1> DEFINE text == \E k \in a .. b : content[k] = "ch"
           S    == {q \in Lines : q < a}
           T    == {q \in Lines : q < b + 2}
<1>5. IsFiniteSet(S) /\ Cardinality(S) \in Nat
  BY LinesFinite, FS_Subset, FS_CardinalityType
<1>6. \A q \in Lines : q \in Int
  BY LinesFinite
<1>7. CASE text
  <2>0. a \in Lines /\ a < b + 2 /\ \A q \in Lines : q < b + 2 => q <= a
    BY <1>2, <1>4, <1>7
  <2>3. \A q \in Lines : q < b + 2 <=> q < a \/ q = a
    BY <1>6, <2>0
  <2>4. a \notin S
    OBVIOUS
  <2>5. \A q : q \in T <=> q \in S \/ q = a
    BY <2>0, <2>3
  <2>1. T = S \cup {a} /\ a \notin S
    BY <2>4, <2>5, Zenon
  <2>2. Cardinality(T) = Cardinality(S) + 1
    BY <1>5, <2>1, FS_AddElement
  <2> QED BY <1>2, <1>3, <1>4, <1>7, <2>2 DEF Number
<1>8. CASE ~text
  <2>0. a \notin Lines /\ \A q \in Lines : q < b + 2 => q <= a
    BY <1>3, <1>4, <1>8
  <2>1. T = S
    BY <1>6, <2>0
  <2> QED BY <1>2, <1>3, <1>4, <1>8, <2>1 DEF Number
<1> QED BY <1>7, <1>8

----------------------------------------------------------------------------
(* What a reader gains with the piece from its start to last, when the     *)
(* piece is not one its consumer breaks off at.                            *)
LEMMA SplitKeeps ==
    ASSUME StreamInv, reader.pc = "read", NEW last \in Nat,
           reader.start <= last + 1, last <= reader.fetched,
           \A k \in reader.start .. last : content[k] # "nl",
           last = Len(content) \/ content[last + 1] = "nl",
           ~(Yields(last) /\ Beyond)
    PROVE  LET new == Split(last)
           IN  /\ new.idx = Number(last + 2)
               /\ new.got = {p \in Lines : /\ p < last + 2
                                          /\ Number(p) >= reader.offset
                                          /\ Number(p) < reader.offset + reader.limit}
               /\ new.got \in SUBSET Nat
<1> DEFINE a == reader.start
<1>1. /\ content \in Seq(Byte) /\ AtPieceStart /\ a \in Nat \ {0}
      /\ reader.offset \in Nat /\ reader.limit \in Nat /\ reader.got \in SUBSET Nat
      /\ last <= Len(content)
  BY DEF StreamInv, Reader
<1>2. /\ a \in Lines <=> Yields(last)
      /\ \A q \in Lines : q < last + 2 => q <= a
      /\ Number(last + 2) = IF Yields(last) THEN Number(a) + 1 ELSE Number(a)
  BY <1>1, OnePiece DEF AtPieceStart, Yields
<1>3. Number(a) = reader.idx /\ Number(a) \in Nat
  BY <1>1, NumberGrows DEF AtPieceStart
<1>4. /\ Split(last).idx = IF Yields(last) THEN reader.idx + 1 ELSE reader.idx
      /\ Split(last).got = IF Yields(last) /\ reader.idx >= reader.offset
                           THEN reader.got \cup {a} ELSE reader.got
  BY DEF Split, StreamInv, Reader
<1>5. Split(last).idx = Number(last + 2)
  BY <1>2, <1>3, <1>4
<1>6. \A p \in Lines : p \in Int /\ (p < last + 2 <=> p < a \/ p = a)
  BY <1>1, <1>2, LinesFinite
<1>7. reader.got = {p \in Lines : /\ p < a /\ Number(p) >= reader.offset
                                 /\ Number(p) < reader.offset + reader.limit}
  BY <1>1 DEF AtPieceStart
<1>8. Yields(last) => a \in Lines /\ Number(a) < reader.offset + reader.limit
  BY <1>1, <1>2, <1>3 DEF Beyond
<1>9. ~Yields(last) => a \notin Lines
  BY <1>2
<1>10. Split(last).got = {p \in Lines : /\ p < last + 2
                                       /\ Number(p) >= reader.offset
                                       /\ Number(p) < reader.offset + reader.limit}
  <2> DEFINE In(p) == Number(p) >= reader.offset /\ Number(p) < reader.offset + reader.limit
  <2>1. CASE Yields(last) /\ reader.idx >= reader.offset
    <3>1. a \in Lines /\ In(a)
      BY <1>3, <1>8, <2>1
    <3> HIDE DEF In
    <3> QED BY <1>4, <1>6, <1>7, <2>1, <3>1 DEF In
  <2>2. CASE ~(Yields(last) /\ reader.idx >= reader.offset)
    <3>1. ~(a \in Lines /\ In(a))
      BY <1>1, <1>3, <1>9, <2>2
    <3> QED BY <1>4, <1>6, <1>7, <2>2, <3>1
  <2> QED BY <2>1, <2>2
<1> QED BY <1>1, <1>4, <1>5, <1>10

(* The range is exact when the lines have come to an end, ...              *)
LEMMA ExactAtEnd ==
    ASSUME StreamInv, reader.pc = "read", NEW last \in Nat,
           reader.start <= last + 1, last = reader.fetched, last = Len(content),
           \A k \in reader.start .. last : content[k] # "nl",
           ~(Yields(last) /\ Beyond)
    PROVE  LET new == Split(last)
           IN  /\ new.idx = Cardinality(Lines)
               /\ new.got = {p \in Lines : Number(p) \in
                                 reader.offset .. reader.offset + reader.limit - 1}
<1> DEFINE new == Split(last)
<1>1. /\ new.idx = Number(last + 2)
      /\ new.got = {p \in Lines : /\ p < last + 2
                                 /\ Number(p) >= reader.offset
                                 /\ Number(p) < reader.offset + reader.limit}
  BY SplitKeeps
<1>2. content \in Seq(Byte) /\ reader.offset \in Nat /\ reader.limit \in Nat
  BY DEF StreamInv, Reader
<1>3. \A p \in Lines : p \in Int /\ p < last + 2 /\ Number(p) \in Nat
  BY <1>2, LinesFinite, NumberGrows
<1>4. {q \in Lines : q < last + 2} = Lines
  BY <1>3
<1>5. new.idx = Cardinality(Lines)
  BY <1>1, <1>4 DEF Number
<1> HIDE DEF new
<1>6. \A p \in Lines :
        Number(p) >= reader.offset /\ Number(p) < reader.offset + reader.limit
        <=> Number(p) \in reader.offset .. reader.offset + reader.limit - 1
  BY <1>2, <1>3
<1> QED BY <1>1, <1>3, <1>5, <1>6 DEF new

(* ... and when the consumer breaks off.                                   *)
LEMMA ExactBeyond ==
    ASSUME StreamInv, reader.pc = "read", Beyond
    PROVE  /\ reader.got = {p \in Lines : Number(p) \in
                               reader.offset .. reader.offset + reader.limit - 1}
           /\ reader.idx <= Cardinality(Lines)
<1>1. /\ content \in Seq(Byte) /\ AtPieceStart /\ reader.start \in Nat
      /\ reader.offset \in Nat /\ reader.limit \in Nat
  BY DEF StreamInv, Reader
<1>2. \A p \in Lines : p \in Int /\ Number(p) \in Nat
  BY <1>1, LinesFinite, NumberGrows
<1>3. \A p \in Lines : p >= reader.start => Number(p) >= reader.offset + reader.limit
  <2>1. reader.idx = Number(reader.start) /\ reader.idx >= reader.offset + reader.limit
    BY <1>1 DEF AtPieceStart, Beyond
  <2>2. ASSUME NEW p \in Lines, p >= reader.start
        PROVE  Number(reader.start) <= Number(p) /\ Number(reader.start) \in Nat
    <3>1. p \in Int /\ reader.start \in Int /\ reader.start <= p
      BY <1>1, <1>2, <2>2
    <3> QED BY <1>1, <3>1, NumberGrows
  <2> QED BY <1>1, <1>2, <2>1, <2>2
<1>4. \A p \in Lines :
        /\ p < reader.start
        /\ Number(p) >= reader.offset
        /\ Number(p) < reader.offset + reader.limit
        <=> Number(p) \in reader.offset .. reader.offset + reader.limit - 1
  BY <1>1, <1>2, <1>3
<1>5. reader.got = {p \in Lines : Number(p) \in
                               reader.offset .. reader.offset + reader.limit - 1}
  BY <1>1, <1>4 DEF AtPieceStart
<1>6. reader.idx <= Cardinality(Lines)
  <2>1. reader.idx = Number(reader.start) /\ reader.start \in Int /\ reader.start <= reader.start
    BY <1>1 DEF AtPieceStart
  <2> HIDE DEF AtPieceStart
  <2>2. Number(reader.start) <= Cardinality(Lines)
    BY <1>1, <2>1, NumberGrows
  <2> QED BY <2>1, <2>2
<1> QED BY <1>5, <1>6

----------------------------------------------------------------------------
(* Every step of a reader keeps what it knows, as does opening one.        *)
LEMMA OpenKeeps ==
    ASSUME content \in Seq(Byte), NEW o \in Nat, NEW l \in Nat, Open(o, l),
           UNCHANGED content
    PROVE  StreamInv'
<1>1. reader' = [pc |-> "read", offset |-> o, limit |-> l, fetched |-> 0,
                 start |-> 1, idx |-> 0, got |-> {}]
  BY DEF Open, NoReader
<1>2. \A p \in Lines : p \in Nat \ {0}
  BY LinesFinite
<1>3. {q \in Lines : q < 1} = {}
  BY <1>2
<1>4. Number(1) = 0
  BY <1>3, FS_EmptySet DEF Number
<1>5. Lines' = Lines /\ \A p : Number(p)' = Number(p)
  BY DEF Lines, Number
<1>6. AtPieceStart'
  BY <1>1, <1>2, <1>4, <1>5 DEF AtPieceStart
<1>7. reader' \in Reader /\ Len(content) >= 0
  BY <1>1 DEF Reader
<1> QED BY <1>1, <1>6, <1>7 DEF StreamInv

LEMMA StreamStep == StreamInv /\ Reading /\ UNCHANGED content => StreamInv'
<1> SUFFICES ASSUME StreamInv, Reading, UNCHANGED content PROVE StreamInv'
  OBVIOUS
<1>1. Lines' = Lines /\ \A p : Number(p)' = Number(p)
  BY DEF Lines, Number
<1>2. /\ content \in Seq(Byte) /\ Len(content) \in Nat /\ reader \in Reader
      /\ reader.fetched \in Nat /\ reader.start \in Nat \ {0} /\ reader.idx \in Nat
      /\ reader.offset \in Nat /\ reader.limit \in Nat /\ reader.got \in SUBSET Nat
      /\ reader.fetched <= Len(content)
  BY DEF StreamInv, Reader
<1>3. reader.pc = "read" /\ AtPieceStart
  BY DEF Reading, TakeLine, Fetch, Finish, StreamInv
<1>4. reader.start <= reader.fetched + 1
  BY <1>3 DEF AtPieceStart
<1>5. ASSUME Beyond, reader' = [reader EXCEPT !.pc = "done"] PROVE StreamInv'
  <2>1. /\ reader'.got = reader.got /\ reader'.idx = reader.idx /\ reader'.pc = "done"
        /\ reader'.offset = reader.offset /\ reader'.limit = reader.limit
        /\ reader' \in Reader /\ reader'.fetched = reader.fetched
    BY <1>2, <1>5 DEF Reader
  <2>2. RangeExact' /\ AtEnd'
    BY <1>1, <1>3, <1>5, <2>1, ExactBeyond DEF RangeExact, AtEnd, Beyond
  <2> QED BY <1>2, <2>1, <2>2 DEF StreamInv
<1>6. CASE TakeLine
  <2>1. PICK q \in Newlines : /\ \A b \in Newlines : q <= b
                              /\ reader' = IF Yields(q - 1) /\ Beyond
                                     THEN [reader EXCEPT !.pc = "done"] ELSE Split(q - 1)
    BY <1>6 DEF TakeLine
  <2>2. q \in reader.start .. reader.fetched /\ content[q] = "nl"
    BY <2>1 DEF Newlines
  <2>3. \A k \in reader.start .. q - 1 : content[k] # "nl"
    BY <1>2, <2>1, <2>2 DEF Newlines
  <2>4. CASE Yields(q - 1) /\ Beyond
    BY <1>5, <2>1, <2>4
  <2>5. CASE ~(Yields(q - 1) /\ Beyond)
    <3> DEFINE last == q - 1
    <3>1. /\ last \in Nat /\ reader.start <= last + 1 /\ last <= reader.fetched
          /\ content[last + 1] = "nl" /\ last + 2 = q + 1
      BY <1>2, <2>2
    <3> HIDE DEF last
    <3>2. /\ Split(last).idx = Number(last + 2)
          /\ Split(last).got = {p \in Lines : /\ p < last + 2
                                             /\ Number(p) >= reader.offset
                                             /\ Number(p) < reader.offset + reader.limit}
          /\ Split(last).got \in SUBSET Nat
      BY <1>3, <2>3, <2>5, <3>1, SplitKeeps DEF last
    <3>3. reader' = Split(last)
      BY <2>1, <2>5 DEF last
    <3>4. /\ Split(last).start = last + 2 /\ Split(last).fetched = reader.fetched
          /\ Split(last).pc = "read" /\ Split(last).offset = reader.offset
          /\ Split(last).limit = reader.limit
      BY <1>2, <1>3 DEF Split, Reader
    <3>5. AtPieceStart'
      BY <1>1, <1>2, <2>2, <3>1, <3>2, <3>3, <3>4 DEF AtPieceStart
    <3>6. Split(last).idx \in Nat
      BY <1>2, <3>1, <3>2, NumberGrows
    <3>7. reader' \in Reader
      <4>1. reader' = [pc |-> "read", offset |-> reader.offset, limit |-> reader.limit,
                       fetched |-> reader.fetched, start |-> last + 2,
                       idx |-> Split(last).idx, got |-> Split(last).got]
        BY <1>2, <1>3, <3>3 DEF Split, Reader
      <4>2. last + 2 \in Nat \ {0}
        BY <3>1
      <4> QED BY <1>2, <3>2, <3>6, <4>1, <4>2 DEF Reader
    <3> QED BY <1>2, <3>3, <3>4, <3>5, <3>7 DEF StreamInv
  <2> QED BY <2>4, <2>5
<1>7. CASE Fetch
  <2>1. PICK n \in 1 .. BlockSize : /\ reader.fetched + n <= Len(content)
                                    /\ reader' = [reader EXCEPT !.fetched = @ + n]
    BY <1>7 DEF Fetch
  <2>2. /\ reader'.fetched = reader.fetched + n /\ reader'.start = reader.start
        /\ reader'.idx = reader.idx /\ reader'.got = reader.got /\ reader'.pc = "read"
        /\ reader'.offset = reader.offset /\ reader'.limit = reader.limit
        /\ reader' \in Reader
    BY <1>2, <1>3, <2>1, BlockAssumption DEF Reader
  <2>3. AtPieceStart'
    BY <1>1, <1>2, <1>3, <2>1, <2>2, BlockAssumption DEF AtPieceStart
  <2> QED BY <1>2, <2>1, <2>2, <2>3 DEF StreamInv
<1>8. CASE Finish
  <2>1. /\ Newlines = {} /\ reader.fetched = Len(content)
        /\ reader' = IF Yields(reader.fetched) /\ Beyond
                     THEN [reader EXCEPT !.pc = "done"]
                     ELSE [Split(reader.fetched) EXCEPT !.pc = "done"]
    BY <1>8 DEF Finish
  <2>2. CASE Yields(reader.fetched) /\ Beyond
    BY <1>5, <2>1, <2>2
  <2>3. CASE ~(Yields(reader.fetched) /\ Beyond)
    <3> DEFINE last == reader.fetched
    <3>1. \A k \in reader.start .. last : content[k] # "nl"
      BY <2>1 DEF Newlines
    <3>2. last \in Nat /\ last = Len(content) /\ reader.start <= last + 1 /\ last <= last
      BY <1>2, <1>4, <2>1
    <3>3. /\ Split(last).idx = Cardinality(Lines)
          /\ Split(last).got = {p \in Lines : Number(p) \in
                                 reader.offset .. reader.offset + reader.limit - 1}
      BY <1>3, <2>3, <3>1, <3>2, ExactAtEnd
    <3>4. /\ reader'.pc = "done" /\ reader'.idx = Split(last).idx
          /\ reader'.got = Split(last).got /\ reader'.fetched = last
          /\ reader'.offset = reader.offset /\ reader'.limit = reader.limit
          /\ reader'.start = last + 2
          /\ reader' = [pc |-> "done", offset |-> reader.offset, limit |-> reader.limit,
                        fetched |-> last, start |-> last + 2, idx |-> Split(last).idx,
                        got |-> Split(last).got]
      BY <1>2, <2>1, <2>3 DEF Split, Reader
    <3>5. Cardinality(Lines) \in Nat /\ Split(last).got \in SUBSET Nat
      <4>1. Lines \subseteq 1 .. Len(content) /\ Cardinality(Lines) \in Nat
        BY <1>2, LinesFinite
      <4> HIDE DEF last
      <4>2. Split(last).got \subseteq Lines
        BY <3>3
      <4>3. 1 .. Len(content) \subseteq Nat
        OBVIOUS
      <4>4. Split(last).got \subseteq Nat
        BY <4>1, <4>2, <4>3, Zenon
      <4> QED BY <4>1, <4>4
    <3>6. reader' \in Reader
      BY <1>2, <3>2, <3>3, <3>4, <3>5 DEF Reader
    <3>7. RangeExact' /\ AtEnd'
      BY <1>1, <3>3, <3>4, <3>5 DEF RangeExact, AtEnd
    <3> QED BY <1>2, <3>4, <3>6, <3>7 DEF StreamInv
  <2> QED BY <2>2, <2>3
<1> QED BY <1>6, <1>7, <1>8 DEF Reading
============================================================================

----------------------------- MODULE LineStore -----------------------------
(***************************************************************************)
(* How the lines of a prompts object are read: SpacesClient.stream_lines,  *)
(* with read_line_range or count_ndjson_lines as its consumer              *)
(* (app/core/spaces.py).  The body comes in blocks that end anywhere; the  *)
(* part of a line at the end of a block stays in the buffer until the next *)
(* one.  A line is the position of its first byte.                         *)
(***************************************************************************)
EXTENDS Integers, Sequences, FiniteSets

CONSTANT BlockSize    \* the most bytes one read of the body returns

ASSUME BlockAssumption == BlockSize \in Nat \ {0}

(* A newline, a carriage return, which is a blank to strip() and a line    *)
(* end to splitlines(), or a byte of text.                                 *)
Byte == {"nl", "cr", "ch"}

VARIABLES
    content,    \* the object
    reader      \* a call of read_line_range

(* The lines of a text that are not blank: where a piece between two       *)
(* separators starts that has a byte of text.                              *)
LinesOf(text, separators) ==
    {p \in 1 .. Len(text) :
        /\ p = 1 \/ text[p - 1] \in separators
        /\ \E q \in p .. Len(text) :
              text[q] = "ch" /\ \A k \in p .. q : text[k] \notin separators}

Lines     == LinesOf(content, {"nl"})
Number(p) == Cardinality({q \in Lines : q < p})

(* What is read and not yet split is start .. fetched.                     *)
Reader == [pc : {"idle", "read", "done"}, offset : Nat, limit : Nat,
           fetched : Nat, start : Nat \ {0}, idx : Nat, got : SUBSET Nat]

NoReader == [pc |-> "idle", offset |-> 0, limit |-> 0, fetched |-> 0,
             start |-> 1, idx |-> 0, got |-> {}]

Open(offset, limit) ==
    /\ reader.pc = "idle"
    /\ reader' = [NoReader EXCEPT !.pc = "read", !.offset = offset, !.limit = limit]

Newlines == {q \in reader.start .. reader.fetched : content[q] = "nl"}

(* The line from start to last is yielded, unless it is blank; the         *)
(* consumer breaks off at the first line beyond its range.  A mutant: a    *)
(* blank line is yielded too.                                              *)
YieldsAny(last) == TRUE
Yields(last)    == \E q \in reader.start .. last : content[q] = "ch"

Beyond == reader.idx >= reader.offset + reader.limit

Split(last) ==
    [reader EXCEPT !.start = last + 2,
                   !.idx   = IF Yields(last) THEN reader.idx + 1 ELSE reader.idx,
                   !.got   = IF Yields(last) /\ reader.idx >= reader.offset
                             THEN reader.got \cup {reader.start} ELSE reader.got]

TakeLine ==
    /\ reader.pc = "read"
    /\ \E q \in Newlines :
          /\ \A b \in Newlines : q <= b
          /\ reader' = IF Yields(q - 1) /\ Beyond
                       THEN [reader EXCEPT !.pc = "done"] ELSE Split(q - 1)

(* Another block.                                                          *)
Fetch ==
    /\ reader.pc = "read" /\ Newlines = {}
    /\ \E n \in 1 .. BlockSize :
          /\ reader.fetched + n <= Len(content)
          /\ reader' = [reader EXCEPT !.fetched = @ + n]

(* The body has ended; what is left is the last line.  A mutant: it is     *)
(* left out, as if it ended in a newline too.                              *)
FinishAtNewline ==
    /\ reader.pc = "read" /\ Newlines = {} /\ reader.fetched = Len(content)
    /\ reader' = [reader EXCEPT !.pc = "done"]
Finish ==
    /\ reader.pc = "read" /\ Newlines = {} /\ reader.fetched = Len(content)
    /\ reader' = IF Yields(reader.fetched) /\ Beyond
                 THEN [reader EXCEPT !.pc = "done"]
                 ELSE [Split(reader.fetched) EXCEPT !.pc = "done"]

Reading == TakeLine \/ Fetch \/ Finish

(* A range that has been read has the lines whose numbers lie in it,       *)
(* wherever the blocks were cut, however many blank lines there are and    *)
(* whether or not the object ends in a newline.                            *)
RangeExact ==
    reader.pc = "done" =>
        reader.got = {p \in Lines : Number(p) \in
                          reader.offset .. reader.offset + reader.limit - 1}
============================================================================

------------------------------- MODULE Stream -------------------------------
(***************************************************************************)
(* The cursor over a text that the parsers of header values use            *)
(* (StreamCursor and the match functions of src/common/stream.cc).  A text *)
(* is a sequence of tokens: a word that the code matches as a whole, or a  *)
(* single character.  A cursor is the part of the text that is not read    *)
(* yet, so a match function returns what it leaves.                        *)
(***************************************************************************)
EXTENDS Integers, Sequences
LOCAL INSTANCE SequencesExt

\* StreamCursor::advance: nothing is read when there is not enough.
Advance(rest, n) == IF n > Len(rest) THEN rest ELSE SubSeq(rest, n + 1, Len(rest))
CanAdvance(rest, n) == n <= Len(rest)

\* StreamCursor::current and next, with "eof" for Eof.
Current(rest) == IF rest = <<>> THEN "eof" ELSE rest[1]
Following(rest) == IF Len(rest) <= 1 THEN "eof" ELSE rest[2]

\* match_string, match_raw and match_literal: the word is the next token.
AtWord(rest, word) == rest # <<>> /\ rest[1] = word

\* match_until: how many tokens come before the first of some characters.
Before(rest, stops) ==
    LET at == {i \in 1 .. Len(rest) : rest[i] \in stops}
    IN  IF at = {} THEN Len(rest) ELSE (CHOOSE i \in at : \A j \in at : i <= j) - 1

\* The text of a StreamCursor::Token opened before match_until, and what is left after it.
Taken(rest, stops) == SubSeq(rest, 1, Before(rest, stops))
Left(rest, stops) == SubSeq(rest, Before(rest, stops) + 1, Len(rest))

\* skip_whitespaces.
SkipSpaces(rest) ==
    LET spaces == CHOOSE k \in 0 .. Len(rest) : (\A i \in 1 .. k : rest[i] = " ") /\ (k < Len(rest) => rest[k + 1] # " ")
    IN  Advance(rest, spaces)

(* DynamicStreamBuf: a buffer that is doubled when it is full, up to its largest size. *)

NewBuf(size, max) == [data |-> <<>>, cap |-> IF size > max THEN max ELSE size, max |-> max]

\* reserve, by overflow: whether there is room for one more.
Reserve(b) == LET size == 2 * (IF b.cap = 0 THEN 1 ELSE b.cap)
              IN  [b EXCEPT !.cap = IF size > b.max THEN b.max ELSE size]
Overflow(b) == IF Len(b.data) = b.cap /\ b.cap < b.max THEN Reserve(b) ELSE b

\* An ostream over the buffer: what fits is written, and the stream is bad when not all of it does.
Put(o, c) == LET b == Overflow(o.buf)
             IN  IF ~o.good \/ Len(b.data) = b.cap THEN [buf |-> b, good |-> FALSE]
                 ELSE [o EXCEPT !.buf = [b EXCEPT !.data = Append(@, c)]]
Streamed(b, text) == FoldLeft(Put, [buf |-> b, good |-> TRUE], text)

Buffer(b) == b.data
ClearBuf(b) == [b EXCEPT !.data = <<>>]

\* The pieces between separators: not code, the reference that the parsers are compared with.
Pieces(text, sep) == FoldLeft(LAMBDA ps, c : IF c = sep THEN Append(ps, <<>>)
                                             ELSE [ps EXCEPT ![Len(ps)] = Append(@, c)], <<<<>>>>, text)
=============================================================================

------------------------------- MODULE LineInput ------------------------------
(***************************************************************************)
(* The editor under every prompt and text field (src/input.rs): a UTF-8    *)
(* string and a cursor that is a byte offset into it.  A byte is the       *)
(* character it belongs to and its place in that character; the slicing    *)
(* functions of String panic unless they are given a character's edge.     *)
(***************************************************************************)
EXTENDS Integers, Sequences, Lists

CONSTANTS
    Chars,     \* characters that may be typed
    Spaces,    \* char::is_whitespace
    Width,     \* char::len_utf8
    MaxChars   \* bound on the characters of a line

ASSUME LineAssumption ==
    /\ Spaces \subseteq Chars
    /\ Width \in [Chars -> 1..4]
    /\ MaxChars \in Nat

VARIABLES
    value,   \* LineInput::value, byte by byte
    cursor   \* LineInput::cursor, bytes before it

lineVars == <<value, cursor>>

LineInit == value = <<>> /\ cursor = 0

Encode(c) == [j \in 1..Width[c] |-> <<c, j>>]

\* The characters of a run of bytes.
Decode(bytes) ==
    LET firsts == Collected({i \in DOMAIN bytes : bytes[i][2] = 1})
    IN  [r \in DOMAIN firsts |-> bytes[firsts[r]][1]]

IsSpace(byte) == byte[1] \in Spaces

\* str::is_char_boundary
Boundary(i) == i \in 0..Len(value) /\ (i < Len(value) => value[i + 1][2] = 1)

-------------------------------------------------------------------------------

\* Replaces the bytes from offset first up to offset last.
Splice(first, last, bytes) ==
    value' = SubSeq(value, 1, first) \o bytes \o SubSeq(value, last + 1, Len(value))

\* with_value: a string of the caller's, the cursor behind it.
WithValue(bytes) == value' = bytes /\ cursor' = Len(bytes)

Clear == value' = <<>> /\ cursor' = 0

Insert(c) == Splice(cursor, cursor, Encode(c)) /\ cursor' = cursor + Width[c]

\* Faulty: the byte before the cursor.
PrevByte(i) == i \in 0..Len(value) /\ i + 1 = cursor

\* i is the boundary before the cursor: prev_boundary.
PrevBoundary(i) ==
    /\ Boundary(i) /\ i < cursor
    /\ \A j \in (i + 1)..(cursor - 1) : ~Boundary(j)

\* i is the boundary behind the character at the cursor: next_boundary.
NextBoundary(i) == cursor < Len(value) /\ i = cursor + Width[value[cursor + 1][1]]

Backspace ==
    \E i \in 0..Len(value) :
        /\ PrevBoundary(i)
        /\ Splice(i, i + Width[value[i + 1][1]], <<>>)
        /\ cursor' = i

Delete ==
    \E i \in 0..Len(value) :
        /\ NextBoundary(i)
        /\ Splice(cursor, i, <<>>)
        /\ UNCHANGED cursor

Left == (\E i \in 0..Len(value) : PrevBoundary(i) /\ cursor' = i) /\ UNCHANGED value

Right == (\E i \in 0..Len(value) : NextBoundary(i) /\ cursor' = i) /\ UNCHANGED value

Home == cursor' = 0 /\ UNCHANGED value

End == cursor' = Len(value) /\ UNCHANGED value

\* stop is where trim_end cuts the text before the cursor.
TrimEnd(stop) ==
    /\ stop \in 0..cursor
    /\ stop > 0 => ~IsSpace(value[stop])
    /\ \A i \in (stop + 1)..cursor : IsSpace(value[i])

\* Faulty: white space is taken to be one byte wide.
WordStartNarrow(start, stop) ==
    \/ start = 0 /\ \A i \in 1..stop : ~IsSpace(value[i])
    \/ \E i \in 0..(stop - 1) :
          /\ IsSpace(value[i + 1]) /\ value[i + 1][2] = 1
          /\ \A j \in (i + 2)..stop : ~(IsSpace(value[j]) /\ value[j][2] = 1)
          /\ start = i + 1

\* start is behind the last white space before stop, or the start of the line:
\* rfind gives where that character begins, and its width is added.
WordStart(start, stop) ==
    \/ start = 0 /\ \A i \in 1..stop : ~IsSpace(value[i])
    \/ \E i \in 0..(stop - 1) :
          /\ IsSpace(value[i + 1]) /\ value[i + 1][2] = 1
          /\ \A j \in (i + 2)..stop : ~(IsSpace(value[j]) /\ value[j][2] = 1)
          /\ start = i + Width[value[i + 1][1]]

DeleteWord ==
    \E start, stop \in 0..cursor :
        /\ TrimEnd(stop) /\ WordStart(start, stop)
        /\ Splice(start, cursor, <<>>)
        /\ cursor' = start

DeleteToStart == Splice(0, cursor, <<>>) /\ cursor' = 0

\* Keys that change the text, and keys that only move.
Edit ==
    \/ \E c \in Chars : Len(Decode(value)) < MaxChars /\ Insert(c)
    \/ Backspace \/ Delete \/ DeleteWord \/ DeleteToStart

Move == Left \/ Right \/ Home \/ End

-------------------------------------------------------------------------------
(* Properties                                                              *)

\* Whole characters, one after the other: what a String holds.
WellFormed(bytes) ==
    /\ bytes \in Seq(Chars \X (1..4))
    /\ \A i \in 1..Len(bytes) :
          /\ bytes[i][2] <= Width[bytes[i][1]]
          /\ bytes[i][2] > 1 =>
                i > 1 /\ bytes[i - 1] = <<bytes[i][1], bytes[i][2] - 1>>
          /\ bytes[i][2] < Width[bytes[i][1]] =>
                i < Len(bytes) /\ bytes[i + 1] = <<bytes[i][1], bytes[i][2] + 1>>

\* No edit cuts a character and no move stops inside one, so that no slice of the
\* line panics: "a byte offset that is always kept on a `char` boundary".
OnBoundary == WellFormed(value) /\ Boundary(cursor)
===============================================================================

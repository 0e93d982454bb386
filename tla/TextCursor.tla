------------------------------ MODULE TextCursor ------------------------------
(***************************************************************************)
(* What the line editor promises: a text of characters and a cursor        *)
(* between two of them.  Nothing here knows how a character is stored.     *)
(***************************************************************************)
EXTENDS SequencesExt

CONSTANTS
    Chars,     \* characters that may be typed
    Spaces,    \* those that are white space
    MaxChars   \* bound on the length of a text

VARIABLES before, after  \* the text on either side of the cursor

text == before \o after
vars == <<before, after>>

Init == before = <<>> /\ after = <<>>

\* Opened on a text of the caller's, or emptied.
Load == before' \in Seq(Chars) /\ Len(before') <= MaxChars /\ after' = <<>>

Insert(c) == before' = Append(before, c) /\ UNCHANGED after

Backspace == before # <<>> /\ before' = Front(before) /\ UNCHANGED after

Delete == after # <<>> /\ after' = Tail(after) /\ UNCHANGED before

Left == before # <<>> /\ before' = Front(before) /\ after' = <<Last(before)>> \o after

Right == after # <<>> /\ before' = Append(before, Head(after)) /\ after' = Tail(after)

Home == before' = <<>> /\ after' = text

End == before' = text /\ after' = <<>>

\* Takes away the white space before the cursor and the one word before that.
DeleteWord ==
    /\ UNCHANGED after
    /\ \E start, stop \in 0..Len(before) :
          /\ start <= stop
          /\ \A i \in (stop + 1)..Len(before) : before[i] \in Spaces
          /\ \A i \in (start + 1)..stop : before[i] \notin Spaces
          /\ stop = start => start = 0
          /\ start > 0 => before[start] \in Spaces
          /\ before' = SubSeq(before, 1, start)

DeleteToStart == before' = <<>> /\ UNCHANGED after

Next ==
    \/ Load
    \/ \E c \in Chars : Insert(c)
    \/ Backspace \/ Delete \/ Left \/ Right \/ Home \/ End
    \/ DeleteWord \/ DeleteToStart

Spec == Init /\ [][Next]_vars
===============================================================================

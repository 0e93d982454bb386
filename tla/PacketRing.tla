------------------------------ MODULE PacketRing ------------------------------
(***************************************************************************)
(* The packets the monitor screen holds: the fixed-size ring, the list of  *)
(* packet numbers the display filters let through, the cursor in that list *)
(* and the follow and pause switches (the packet buffer, movement and      *)
(* monitor keys of src/app.rs).                                            *)
(*                                                                         *)
(* Numbers are given by the capture thread; one that the channel refuses   *)
(* (Lose) or that arrives while the list is paused never enters the ring.  *)
(* A packet is its number, its protocol and what the text filter and the   *)
(* structured selector can tell of it.  Rows count from 1.                 *)
(***************************************************************************)
EXTENDS Integers, Sequences, Lists

CONSTANTS
    Protos,    \* ALL_PROTOS
    Contents,  \* packets the text filter and the selector tell apart
    Capacity,  \* App::capacity
    Heights,   \* rows the table may have: App::table_height, 1 before the first draw
    MaxSeq     \* bound on the packets of one capture

ASSUME RingAssumption ==
    /\ Capacity \in Nat \ {0}
    /\ Heights \subseteq Nat \ {0} /\ 1 \in Heights
    /\ MaxSeq \in Nat

VARIABLES
    seq,       \* number of the packet read last in this capture
    packets,   \* App::packets, oldest first
    view,      \* App::view: numbers of the packets that pass, in capture order
    selected,  \* App::table_state: the row under the cursor
    follow,    \* App::follow
    paused,    \* App::paused
    enabled,   \* App::proto_enabled
    matching,  \* contents that display_filter and display_spec both let through
    missed     \* a number was skipped since the ring was last empty (not in the code)

ring == <<packets, view, selected>>
filters == <<enabled, matching>>
vars == <<seq, packets, view, selected, follow, paused, enabled, matching, missed>>

Packet == [no : 1..MaxSeq, proto : Protos, content : Contents]

\* No row is selected.
NoRow == 0

Init ==
    /\ seq = 0
    /\ packets = <<>> /\ view = <<>> /\ selected = NoRow
    /\ follow = TRUE /\ paused = FALSE
    /\ enabled = Protos /\ matching = Contents
    /\ missed = FALSE

Passes(p, e, m) == p.proto \in e /\ p.content \in m

\* The numbers of the packets of ps that protocols e and contents m let through.
Filtered(ps, e, m) ==
    LET kept == {i \in DOMAIN ps : Passes(ps[i], e, m)}
    IN  [r \in 1..Cardinality(kept) |-> ps[Nth(kept, r)].no]

-------------------------------------------------------------------------------
(* Looking a number up: index_of counts from the front of the ring.        *)

IndexOf(no) ==
    IF packets # <<>> /\ no - Head(packets).no \in 0..(Len(packets) - 1)
    THEN no - Head(packets).no + 1
    ELSE 0

\* The packet a row shows: visible_at.  No packet has the number 0.
ShownAt(row) ==
    IF row \in DOMAIN view /\ IndexOf(view[row]) # 0
    THEN packets[IndexOf(view[row])].no
    ELSE 0

-------------------------------------------------------------------------------
(* Packets: push_packet behind drain_capture.                              *)

\* The channel was full: the number is used up and nothing arrives.
Lose ==
    /\ seq < MaxSeq
    /\ seq' = seq + 1
    /\ missed' = (missed \/ packets # <<>>)
    /\ UNCHANGED <<ring, follow, paused, filters>>

\* Faulty: the packet that makes the ring too long is evicted one packet late.
FullLate == Len(packets) > Capacity

Full == Len(packets) = Capacity

EvictsRow == Full /\ view # <<>> /\ Head(view) = Head(packets).no

\* Faulty: the cursor drifts off the packet when the rows shift.
RowUnshifted(row, shifted) == row

\* Rows shift down by one; a cursor on the evicted row goes to the oldest one left.
RowAfterShift(row, shifted) ==
    IF shifted /\ row # NoRow THEN (IF row = 1 THEN 1 ELSE row - 1) ELSE row

\* Faulty: the evicted packet's row stays in the list.
RowsLeftBehind == view

RowsLeft == IF EvictsRow THEN Tail(view) ELSE view

Push(p) ==
    /\ packets' = Append(IF Full THEN Tail(packets) ELSE packets, p)
    /\ view' = IF Passes(p, enabled, matching) THEN Append(RowsLeft, p.no) ELSE RowsLeft
    /\ selected' = IF follow THEN Len(view') ELSE RowAfterShift(selected, EvictsRow)

Arrive ==
    /\ seq < MaxSeq
    /\ seq' = seq + 1
    /\ IF paused
       THEN missed' = (missed \/ packets # <<>>) /\ UNCHANGED ring
       ELSE /\ \E proto \in Protos, content \in Contents :
                  Push([no |-> seq + 1, proto |-> proto, content |-> content])
            /\ UNCHANGED missed
    /\ UNCHANGED <<follow, paused, filters>>

\* clear_packets
EmptyRing == packets' = <<>> /\ view' = <<>> /\ selected' = NoRow /\ missed' = FALSE

\* Faulty: numbering goes back to one and the old packets stay.
RestartKeepingRing == seq' = 0 /\ UNCHANGED <<ring, missed, follow, paused, filters>>

\* A new capture numbers its packets from one again.
Restart == seq' = 0 /\ EmptyRing /\ UNCHANGED <<follow, paused, filters>>

Clear == EmptyRing /\ UNCHANGED <<seq, follow, paused, filters>>

-------------------------------------------------------------------------------
(* Filters: every change rebuilds the view.                                *)

\* The row of the first number at or after the anchor, else the last row.
RowAtOrAfter(anchor) ==
    IF \E i \in DOMAIN view' : view'[i] >= anchor
    THEN CHOOSE i \in DOMAIN view' :
            view'[i] >= anchor /\ \A j \in 1..(i - 1) : view'[j] < anchor
    ELSE Len(view')

\* Faulty: the row number survives, past the end of the new list or not.
RowUnmoved == selected

\* Faulty: the cursor keeps its row number, whatever row that now is.
RowKept == IF selected > Len(view') THEN Len(view') ELSE selected

\* The cursor stays with its packet, or goes to the next one the filters show.
RowAfterRebuild ==
    LET anchor == ShownAt(selected)
    IN  IF follow THEN Len(view') ELSE IF anchor = 0 THEN NoRow ELSE RowAtOrAfter(anchor)

Rebuild ==
    /\ view' = Filtered(packets, enabled', matching')
    /\ selected' = RowAfterRebuild
    /\ UNCHANGED <<seq, packets, follow, paused, missed>>

ToggleProto ==
    /\ \E p \in Protos :
          enabled' = IF p \in enabled THEN enabled \ {p} ELSE enabled \cup {p}
    /\ UNCHANGED matching
    /\ Rebuild

\* The text filter edited, abandoned with Esc, or the builder's selector applied.
EditFilter ==
    /\ \E m \in SUBSET Contents : m # matching /\ matching' = m
    /\ UNCHANGED enabled
    /\ Rebuild

ResetFilters == enabled' = Protos /\ matching' = Contents /\ Rebuild

-------------------------------------------------------------------------------
(* Keys of the table.                                                      *)

cursorFrame == <<seq, packets, view, paused, filters, missed>>

TogglePause == paused' = ~paused /\ UNCHANGED <<seq, ring, follow, filters, missed>>

ToggleFollow ==
    /\ follow' = ~follow
    /\ selected' = IF follow THEN selected ELSE Len(view)
    /\ UNCHANGED cursorFrame

\* Faulty: going up never stops following.
FollowSticks(row) == follow \/ row = Len(view)

\* Moving off the newest packet stops following; reaching it follows again.
FollowAfterMove(row) == row = Len(view)

MoveBy(delta) ==
    /\ IF view = <<>>
       THEN selected' = NoRow /\ UNCHANGED follow
       ELSE LET current == IF selected = NoRow THEN 1 ELSE selected
                target == current + delta
                row == IF target < 1 THEN 1
                       ELSE IF target > Len(view) THEN Len(view) ELSE target
            IN  selected' = row /\ follow' = FollowAfterMove(row)
    /\ UNCHANGED cursorFrame

\* Home and End of the table.
ToFirst ==
    /\ follow' = FALSE
    /\ selected' = IF view = <<>> THEN NoRow ELSE 1
    /\ UNCHANGED cursorFrame

ToLast == follow' = TRUE /\ selected' = Len(view) /\ UNCHANGED cursorFrame

\* A page is as many rows as the table had when it was last drawn.
PageBy(height) == MoveBy(height) \/ MoveBy(-height)

Key ==
    \/ Clear \/ ToggleProto \/ EditFilter \/ ResetFilters \/ TogglePause
    \/ ToggleFollow \/ ToFirst \/ ToLast \/ MoveBy(1) \/ MoveBy(-1)

Change == Lose \/ Arrive \/ Restart \/ Key

Next == Change \/ \E height \in Heights : PageBy(height)

Spec == Init /\ [][Next]_vars

-------------------------------------------------------------------------------
(* Properties                                                              *)

\* Types, and what push_packet keeps: a ring within its capacity, in number order.
TypeOK ==
    /\ seq \in 0..MaxSeq
    /\ packets \in Seq(Packet) /\ Len(packets) <= Capacity
    /\ \A i, j \in DOMAIN packets : i < j => packets[i].no < packets[j].no
    /\ \A i \in DOMAIN packets : packets[i].no <= seq
    /\ view \in Seq(1..MaxSeq)
    /\ selected \in Nat
    /\ follow \in BOOLEAN /\ paused \in BOOLEAN /\ missed \in BOOLEAN
    /\ enabled \subseteq Protos /\ matching \subseteq Contents

\* The list maintained packet by packet is the one rebuild_view would compute:
\* eviction and arrival never leave a row behind or lose one.
ViewIsFilteredRing == view = Filtered(packets, enabled, matching)

\* While following, the cursor is on the newest row, however the last change came.
FollowPinsCursor == follow => selected = Len(view)

\* A cursor points at a row.  One left over an emptied list waits at row 1.
CursorInView == selected <= Len(view) \/ (view = <<>> /\ selected = 1)

\* Where no number was skipped, every row leads to the packet it was made for, so
\* the table, the detail pane and the file `w` writes agree with the filter.
RowsResolve == ~missed => \A row \in DOMAIN view : ShownAt(row) = view[row]

\* The number under the cursor, 0 with none.
CursorNo == IF selected \in DOMAIN view THEN view[selected] ELSE 0

\* An arriving packet never moves the cursor of a person reading history off its
\* packet, unless that packet left the ring: then it goes to the oldest row left.
CursorStays ==
    [][Arrive /\ ~follow /\ CursorNo # 0 =>
          \/ CursorNo' = CursorNo
          \/ EvictsRow /\ CursorNo = Head(packets).no
             /\ (view' = <<>> \/ CursorNo' = Head(view'))]_vars

\* A filter change keeps the cursor on its packet if it is still shown, else on
\* the next packet shown, else on the last one.
AnchorKept ==
    [][(ToggleProto \/ EditFilter \/ ResetFilters) /\ ~follow /\ ~missed
          /\ CursorNo # 0 /\ view' # <<>> =>
          \/ CursorNo' >= CursorNo
             /\ \A i \in DOMAIN view' : ~(CursorNo <= view'[i] /\ view'[i] < CursorNo')
          \/ CursorNo' = view'[Len(view')]
             /\ \A i \in DOMAIN view' : view'[i] < CursorNo]_vars

\* app.rs:264 says of the ring that "`no` is contiguous across it".
RingContiguous ==
    \A i \in DOMAIN packets : packets[i].no = packets[1].no + i - 1
===============================================================================

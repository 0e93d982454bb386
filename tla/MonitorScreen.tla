---------------------------- MODULE MonitorScreen -----------------------------
(***************************************************************************)
(* The monitor screen: the packet ring at the size the command line        *)
(* granted, and the table drawn of it (src/ui/monitor.rs).  A draw picks   *)
(* the window of rows and leaves its height behind for the page keys and   *)
(* its offset for the next draw; between two draws anything may happen to  *)
(* the rows.  Offsets count from 0 as in the code, rows from 1.            *)
(***************************************************************************)
EXTENDS PacketRing, Limits

CONSTANTS
    Buffer, Memory,  \* --buffer and --memory
    DataLen,         \* bytes a packet of each content was captured with
    StringsLen       \* bytes of the two strings decode() makes of it

ASSUME MonitorAssumption ==
    /\ Buffer \in Nat /\ Memory \in Nat
    /\ DataLen \in [Contents -> Nat] /\ StringsLen \in [Contents -> Nat]
    /\ Capacity = Validated(Buffer, Memory).buffer

VARIABLES
    table_height,  \* App::table_height
    table_offset   \* App::table_offset

window == <<table_height, table_offset>>
monitorVars == <<vars, window>>

MonitorInit == Init /\ table_height = 1 /\ table_offset = 0

\* The rows the table has in a window.
InWindow(row, offset, height) == row \in (offset + 1)..(offset + height)

MaxOffset(height) == IF Len(view) <= height THEN 0 ELSE Len(view) - height

\* Faulty: a window past the end of a list that shrank stays there.
WindowUnclamped(previous, height) ==
    CASE Len(view) <= height -> 0
      [] Len(view) > height /\ selected # NoRow /\ selected <= previous -> selected - 1
      [] Len(view) > height /\ selected > previous + height -> selected - height
      [] OTHER -> previous

\* Scrolls the least that keeps the selected row in sight.
WindowOffset(previous, height) ==
    LET offset == AtMost(previous, MaxOffset(height))
    IN  IF Len(view) <= height \/ selected = NoRow \/ InWindow(selected, offset, height)
        THEN offset
        ELSE IF selected <= offset THEN selected - 1 ELSE selected - height

\* draw_table, for a terminal of any size.  It is left out while there is an error
\* and no packet, which changes nothing here.
Draw ==
    /\ table_height' \in Heights
    /\ table_offset' = WindowOffset(table_offset, table_height')
    /\ UNCHANGED vars

MonitorNext ==
    \/ Change /\ UNCHANGED window
    \/ PageBy(table_height) /\ UNCHANGED window
    \/ Draw

MonitorSpec == MonitorInit /\ [][MonitorNext]_monitorVars

\* The packets that some rows lead to: one that leads to none is left out.
PacketsAt(rows) ==
    LET found == {row \in rows : ShownAt(row) # 0}
    IN  [i \in 1..Cardinality(found) |-> ShownAt(Nth(found, i))]

Shown == AtMost(table_height, Len(view) - table_offset)

\* Faulty: the header's line is taken for the first row.
LinesOneUp == PacketsAt(table_offset..(table_offset + Shown - 1))

\* The lines of the table.
Lines == PacketsAt((table_offset + 1)..(table_offset + Shown))

-------------------------------------------------------------------------------
(* Properties                                                              *)

\* A draw shows the row under the cursor, leaves no line empty that a row could
\* fill, and scrolls no further than that takes, whatever happened since the last.
WindowShowsCursor ==
    [][Draw =>
          LET Fits(o) ==
                 /\ o <= MaxOffset(table_height')
                 /\ selected \in DOMAIN view => InWindow(selected, o, table_height')
              Moved(o) == IF o < table_offset THEN table_offset - o ELSE o - table_offset
          IN  /\ Fits(table_offset')
              /\ \A o \in 0..Len(view) : Fits(o) => Moved(table_offset') <= Moved(o)]_monitorVars

\* Where no number was skipped, the highlighted line of the table is the packet the
\* detail pane shows.
HighlightIsSelected ==
    [][Draw /\ ~missed /\ selected \in DOMAIN view =>
          LET line == selected - table_offset'
          IN  line \in DOMAIN Lines' /\ Lines'[line] = ShownAt(selected)]_monitorVars

Cost(p) == Footprint(DataLen[p.content], StringsLen[p.content])

\* The packets held would fit --memory at the worst case, and none whose strings keep to
\* the allowance costs more than that.
MemoryBounded ==
    /\ \A i \in DOMAIN packets :
          StringsLen[packets[i].content] <= STRING_ALLOWANCE =>
              Cost(packets[i]) <= WORST_CASE_PACKET_BYTES
    /\ Len(packets) * WORST_CASE_PACKET_BYTES <= Validated(Buffer, Memory).memory * MiB
===============================================================================

------------------------- MODULE MonitorScreen_proofs -------------------------
(***************************************************************************)
(* Theorems about the monitor screen: it only ever does to the ring what   *)
(* PacketRing allows, so that module's theorems hold of it; the memory     *)
(* budget holds for every command line; and every draw shows the cursor.   *)
(***************************************************************************)
EXTENDS MonitorScreen, PacketRing_proofs

-------------------------------------------------------------------------------
(* The budget of the command line.                                         *)

LEMMA TimesMonotonic ==
    ASSUME NEW a \in Nat, NEW b \in Nat, NEW c \in Nat, a <= b
    PROVE  a * c <= b * c
OBVIOUS

LEMMA DivTimes ==
    ASSUME NEW a \in Nat, NEW b \in Nat \ {0}
    PROVE  a \div b \in Nat /\ (a \div b) * b <= a
OBVIOUS

LEMMA ModSmall ==
    ASSUME NEW a \in Nat, NEW u \in Nat, a < u
    PROVE  a % u = a
OBVIOUS

LEMMA WorstCasePositive == WORST_CASE_PACKET_BYTES \in Nat \ {0}
BY LimitsAssumption DEF WORST_CASE_PACKET_BYTES

LEMMA BudgetInRange ==
    ASSUME NEW memory \in Nat
    PROVE  /\ Budget(memory) \in Nat
           /\ MIN_MEMORY_MB <= Budget(memory) /\ Budget(memory) <= MAX_MEMORY_MB
BY LimitsAssumption DEF Budget, AtLeast, AtMost

\* The product in bytes does not wrap around.
LEMMA BytesExact ==
    ASSUME NEW memory \in Nat
    PROVE  Bytes(memory) = Budget(memory) * MiB /\ Bytes(memory) \in Nat
<1>1. /\ Budget(memory) \in Nat /\ Budget(memory) <= MAX_MEMORY_MB
      /\ MAX_MEMORY_MB \in Nat /\ MiB \in Nat /\ Usize \in Nat /\ MAX_MEMORY_MB * MiB < Usize
    BY BudgetInRange, LimitsAssumption
<1>2. Budget(memory) * MiB <= MAX_MEMORY_MB * MiB
    BY <1>1, TimesMonotonic
<1>3. Budget(memory) * MiB \in Nat /\ MAX_MEMORY_MB * MiB \in Nat
    BY <1>1
<1>4. Budget(memory) * MiB < Usize
    BY <1>1, <1>2, <1>3
<1> QED BY <1>1, <1>3, <1>4, ModSmall DEF Bytes

\* Whatever --buffer and --memory say, the ring granted would fit the memory granted
\* with every packet at its worst, and has at least MIN_BUFFER places.
THEOREM BudgetHolds ==
    ASSUME NEW buffer \in Nat, NEW memory \in Nat
    PROVE  /\ Validated(buffer, memory).buffer \in Nat
           /\ Validated(buffer, memory).buffer >= MIN_BUFFER
           /\ Validated(buffer, memory).buffer * WORST_CASE_PACKET_BYTES
                 <= Validated(buffer, memory).memory * MiB
<1> DEFINE worst == WORST_CASE_PACKET_BYTES
           fit == Bytes(memory) \div worst
           granted == Validated(buffer, memory).buffer
<1>1. worst \in Nat \ {0} /\ MIN_BUFFER \in Nat /\ MIN_MEMORY_MB \in Nat /\ MiB \in Nat
      /\ MIN_BUFFER * worst <= MIN_MEMORY_MB * MiB
    BY WorstCasePositive, LimitsAssumption
<1>2. /\ Budget(memory) \in Nat /\ MIN_MEMORY_MB <= Budget(memory)
      /\ Bytes(memory) = Budget(memory) * MiB /\ Bytes(memory) \in Nat
    BY BudgetInRange, BytesExact
<1>3. fit \in Nat /\ fit * worst <= Bytes(memory)
    BY <1>1, <1>2, DivTimes
<1>4. MIN_BUFFER * worst <= Bytes(memory)
    <2>1. MIN_MEMORY_MB * MiB <= Budget(memory) * MiB
        BY <1>1, <1>2, TimesMonotonic
    <2>2. MIN_BUFFER * worst \in Nat /\ MIN_MEMORY_MB * MiB \in Nat
        BY <1>1
    <2> QED BY <1>1, <1>2, <2>1, <2>2
<1>5. Affordable(memory) = AtLeast(fit, MIN_BUFFER)
    BY DEF Affordable
<1>6. granted = AtMost(Requested(buffer), Affordable(memory))
      /\ Validated(buffer, memory).memory = Budget(memory)
    BY DEF Validated
<1> HIDE DEF fit, worst, granted
<1>7. /\ Affordable(memory) \in Nat /\ Affordable(memory) >= MIN_BUFFER
      /\ Affordable(memory) * worst <= Bytes(memory)
    <2>1. CASE fit < MIN_BUFFER
        BY <1>1, <1>3, <1>4, <1>5, <2>1 DEF AtLeast
    <2>2. CASE ~(fit < MIN_BUFFER)
        BY <1>1, <1>3, <1>5, <2>2 DEF AtLeast
    <2> QED BY <2>1, <2>2
<1>8. granted \in Nat /\ granted <= Affordable(memory) /\ granted >= MIN_BUFFER
    BY <1>1, <1>6, <1>7 DEF AtMost, AtLeast, Requested
<1>9. granted * worst <= Affordable(memory) * worst
    BY <1>1, <1>7, <1>8, TimesMonotonic
<1>10. granted * worst \in Nat /\ Affordable(memory) * worst \in Nat
    BY <1>1, <1>7, <1>8
<1>11. granted * worst <= Bytes(memory)
    BY <1>2, <1>7, <1>9, <1>10
<1> QED BY <1>2, <1>6, <1>8, <1>11 DEF granted, worst

-------------------------------------------------------------------------------
(* The screen and the ring.                                                *)

WindowType == table_height \in Heights /\ table_offset \in Nat

LEMMA OffsetType ==
    ASSUME TypeOK, NEW previous \in Nat, NEW height \in Heights
    PROVE  WindowOffset(previous, height) \in Nat
<1>1. Len(view) \in Nat /\ selected \in Nat /\ height \in Nat \ {0}
    BY ViewFacts, RingAssumption DEF TypeOK
<1>2. MaxOffset(height) \in Nat
    BY <1>1 DEF MaxOffset
<1>3. AtMost(previous, MaxOffset(height)) \in Nat
    BY <1>2 DEF AtMost
<1>4. CASE selected = NoRow
    BY <1>3, <1>4 DEF WindowOffset
<1>5. CASE selected # NoRow
    <2> DEFINE offset == AtMost(previous, MaxOffset(height))
    <2>1. ~InWindow(selected, offset, height) /\ ~(selected <= offset) => selected > offset + height
        BY <1>1, <1>3 DEF InWindow
    <2>2. selected > offset + height => selected - height \in Nat
        BY <1>1, <1>3
    <2>3. selected - 1 \in Nat
        BY <1>1, <1>5 DEF NoRow
    <2> QED BY <1>3, <2>1, <2>2, <2>3 DEF WindowOffset
<1> QED BY <1>4, <1>5

\* What the screen does is what the ring allows: pages are the table's height.
LEMMA ScreenStep == WindowType /\ [MonitorNext]_monitorVars => [Next]_vars
<1> SUFFICES ASSUME WindowType, [MonitorNext]_monitorVars PROVE [Next]_vars
    OBVIOUS
<1>1. CASE Change
    BY <1>1 DEF Next
<1>2. CASE PageBy(table_height)
    BY <1>2 DEF Next, WindowType
<1>3. CASE Draw
    BY <1>3 DEF Draw
<1>4. CASE UNCHANGED monitorVars
    BY <1>4 DEF monitorVars
<1> QED BY <1>1, <1>2, <1>3, <1>4 DEF MonitorNext

ScreenInv == IInv /\ WindowType

LEMMA ScreenInvariant == MonitorSpec => []ScreenInv
<1>1. MonitorInit => ScreenInv
    <2>1. MonitorInit => IInv
        BY InitIInv DEF MonitorInit
    <2> QED BY <2>1, RingAssumption DEF MonitorInit, ScreenInv, WindowType
<1>2. ScreenInv /\ [MonitorNext]_monitorVars => ScreenInv'
    <2> SUFFICES ASSUME ScreenInv, [MonitorNext]_monitorVars PROVE ScreenInv'
        OBVIOUS
    <2>1. IInv'
        BY ScreenStep, NextIInv DEF ScreenInv
    <2>2. WindowType'
        <3>1. CASE UNCHANGED window
            BY <3>1 DEF window, WindowType, ScreenInv
        <3>2. CASE Draw
            <4>1. TypeOK /\ table_offset \in Nat /\ table_height' \in Heights
                BY <3>2 DEF ScreenInv, IInv, WindowType, Draw
            <4> QED BY <3>2, <4>1, OffsetType DEF WindowType, Draw
        <3>3. CASE UNCHANGED monitorVars
            BY <3>1, <3>3 DEF monitorVars
        <3> QED BY <3>1, <3>2, <3>3 DEF MonitorNext
    <2> QED BY <2>1, <2>2 DEF ScreenInv
<1> QED BY <1>1, <1>2, PTL DEF MonitorSpec

\* The monitor screen implements the ring: every theorem about Spec is one about it.
THEOREM ScreenImplementsRing == MonitorSpec => Spec
<1>1. MonitorInit => Init
    BY DEF MonitorInit
<1>2. ScreenInv /\ [MonitorNext]_monitorVars => [Next]_vars
    BY ScreenStep DEF ScreenInv
<1> QED BY <1>1, <1>2, ScreenInvariant, PTL DEF MonitorSpec, Spec

LEMMA RingFitsBudget == TypeOK => MemoryBounded
<1> SUFFICES ASSUME TypeOK PROVE MemoryBounded
    OBVIOUS
<1>1. ASSUME NEW i \in DOMAIN packets, StringsLen[packets[i].content] <= STRING_ALLOWANCE
      PROVE  Cost(packets[i]) <= WORST_CASE_PACKET_BYTES
    <2>1. packets[i] \in Packet
        BY RingFacts DEF TypeOK
    <2>2. packets[i].content \in Contents
        BY <2>1 DEF Packet
    <2>3. DataLen[packets[i].content] \in Nat /\ StringsLen[packets[i].content] \in Nat
        BY <2>2, MonitorAssumption
    <2>4. \A len \in Nat : Stored(len) \in Nat /\ Stored(len) <= MAX_STORED_BYTES
        BY LimitsAssumption DEF Stored, AtMost
    <2> QED BY <1>1, <2>3, <2>4, LimitsAssumption DEF Cost, Footprint, WORST_CASE_PACKET_BYTES
<1>2. Len(packets) * WORST_CASE_PACKET_BYTES <= Validated(Buffer, Memory).memory * MiB
    <2> DEFINE granted == Validated(Buffer, Memory).buffer
               budget == Validated(Buffer, Memory).memory * MiB
    <2>1. /\ granted \in Nat /\ granted * WORST_CASE_PACKET_BYTES <= budget
          /\ Capacity = granted /\ Len(packets) \in Nat /\ Len(packets) <= Capacity
        BY BudgetHolds, MonitorAssumption, RingFacts DEF TypeOK
    <2>2. budget \in Nat
        BY BudgetInRange, MonitorAssumption, LimitsAssumption DEF Validated
    <2> HIDE DEF granted, budget
    <2>3. Len(packets) * WORST_CASE_PACKET_BYTES <= granted * WORST_CASE_PACKET_BYTES
        BY <2>1, WorstCasePositive, TimesMonotonic
    <2>4. /\ Len(packets) * WORST_CASE_PACKET_BYTES \in Nat
          /\ granted * WORST_CASE_PACKET_BYTES \in Nat
        BY <2>1, WorstCasePositive
    <2>5. Len(packets) * WORST_CASE_PACKET_BYTES <= budget
        BY <2>1, <2>2, <2>3, <2>4
    <2> QED BY <2>5 DEF budget
<1> QED BY <1>1, <1>2 DEF MemoryBounded

\* The packets held fit --memory at the worst case, whatever the two options ask for, and
\* one whose strings keep to their allowance costs no more, however long it was.
THEOREM MemoryStaysBounded == MonitorSpec => []MemoryBounded
<1>1. ScreenInv => MemoryBounded
    BY RingFitsBudget DEF ScreenInv, IInv
<1> QED BY <1>1, ScreenInvariant, PTL

-------------------------------------------------------------------------------
(* What a draw shows.                                                      *)

\* No line below the list, and the selected row, if the list has it, in sight.
FitsWindow(o, height) ==
    /\ o <= MaxOffset(height)
    /\ selected \in DOMAIN view => InWindow(selected, o, height)

Moved(from, to) == IF to < from THEN from - to ELSE to - from

LEMMA OffsetRange ==
    ASSUME TypeOK, NEW height \in Heights
    PROVE  /\ MaxOffset(height) \in Nat
           /\ Len(view) <= height => MaxOffset(height) = 0
           /\ ~(Len(view) <= height) => MaxOffset(height) = Len(view) - height
<1>1. Len(view) \in Nat /\ height \in Nat
    BY ViewFacts, RingAssumption DEF TypeOK
<1> QED BY <1>1 DEF MaxOffset

LEMMA SightLine ==
    ASSUME NEW row \in Nat, NEW o \in Nat, NEW height \in Nat
    PROVE  InWindow(row, o, height) <=> (o + 1 <= row /\ row <= o + height)
BY DEF InWindow

LEMMA OffsetFits ==
    ASSUME TypeOK, CursorInView, NEW previous \in Nat, NEW height \in Heights
    PROVE  FitsWindow(WindowOffset(previous, height), height)
<1> DEFINE offset == AtMost(previous, MaxOffset(height))
<1>1. /\ Len(view) \in Nat /\ DOMAIN view = 1..Len(view) /\ selected \in Nat /\ height \in Nat \ {0}
      /\ selected <= Len(view) \/ (view = <<>> /\ selected = 1)
    BY ViewFacts, RingAssumption DEF TypeOK, CursorInView
<1>2. /\ MaxOffset(height) \in Nat /\ offset \in Nat
      /\ offset <= MaxOffset(height) /\ offset <= previous
      /\ Len(view) <= height => MaxOffset(height) = 0
      /\ ~(Len(view) <= height) => MaxOffset(height) = Len(view) - height
    <2>1. /\ MaxOffset(height) \in Nat
          /\ Len(view) <= height => MaxOffset(height) = 0
          /\ ~(Len(view) <= height) => MaxOffset(height) = Len(view) - height
        BY OffsetRange
    <2>2. offset \in Nat /\ offset <= MaxOffset(height) /\ offset <= previous
        BY <2>1 DEF AtMost
    <2> QED BY <2>1, <2>2
<1> HIDE DEF offset
<1>3. WindowOffset(previous, height) =
          IF Len(view) <= height \/ selected = NoRow \/ InWindow(selected, offset, height)
          THEN offset
          ELSE IF selected <= offset THEN selected - 1 ELSE selected - height
    BY DEF WindowOffset, offset
<1>4. CASE Len(view) <= height
    <2>1. WindowOffset(previous, height) = 0
        BY <1>2, <1>3, <1>4
    <2>2. selected \in DOMAIN view => selected >= 1 /\ selected <= height
        BY <1>1, <1>4
    <2>3. selected \in DOMAIN view => InWindow(selected, 0, height)
        BY <1>1, <2>2 DEF InWindow
    <2> QED BY <1>2, <2>1, <2>3 DEF FitsWindow
<1>5. CASE selected = NoRow \/ InWindow(selected, offset, height)
    BY <1>1, <1>2, <1>3, <1>5 DEF FitsWindow, NoRow
<1>6. CASE ~(Len(view) <= height \/ selected = NoRow \/ InWindow(selected, offset, height))
    <2>1. /\ selected >= 1 /\ selected <= Len(view) /\ MaxOffset(height) = Len(view) - height
          /\ selected <= offset \/ selected > offset + height
        <3>1. view # <<>> /\ selected # 0
            BY <1>1, <1>6 DEF NoRow
        <3>2. ~(offset + 1 <= selected /\ selected <= offset + height)
            BY <1>1, <1>2, <1>6, SightLine
        <3>3. selected >= 1 /\ selected <= Len(view)
            BY <1>1, <3>1
        <3>4. selected <= offset \/ selected > offset + height
            BY <1>1, <1>2, <3>2
        <3> QED BY <1>1, <1>2, <1>6, <3>3, <3>4
    <2>2. CASE selected <= offset
        <3>1. WindowOffset(previous, height) = selected - 1 /\ selected - 1 \in Nat
            BY <1>1, <1>3, <1>6, <2>1, <2>2
        <3>2. selected - 1 <= MaxOffset(height)
            BY <1>1, <1>2, <2>2
        <3>3. InWindow(selected, selected - 1, height)
            BY <1>1, <2>1, <3>1, SightLine
        <3> QED BY <3>1, <3>2, <3>3 DEF FitsWindow
    <2>3. CASE selected > offset + height
        <3>1. ~(selected <= offset) /\ selected - height \in Nat
            BY <1>1, <1>2, <2>3
        <3>2. WindowOffset(previous, height) = selected - height
            BY <1>3, <1>6, <3>1
        <3>3. selected - height <= MaxOffset(height)
            <4>1. selected <= Len(view) /\ MaxOffset(height) = Len(view) - height
                BY <2>1
            <4>2. selected \in Int /\ Len(view) \in Int /\ height \in Int
                BY <1>1
            <4> QED BY <4>1, <4>2
        <3>4. InWindow(selected, selected - height, height)
            BY <1>1, <2>1, <3>1, SightLine
        <3> QED BY <3>2, <3>3, <3>4 DEF FitsWindow
    <2> QED BY <2>1, <2>2, <2>3
<1> QED BY <1>4, <1>5, <1>6

LEMMA OffsetLeast ==
    ASSUME TypeOK, CursorInView, NEW previous \in Nat, NEW height \in Heights,
           NEW o \in 0..Len(view), FitsWindow(o, height)
    PROVE  Moved(previous, WindowOffset(previous, height)) <= Moved(previous, o)
<1> DEFINE offset == AtMost(previous, MaxOffset(height))
<1>1. /\ Len(view) \in Nat /\ DOMAIN view = 1..Len(view) /\ selected \in Nat /\ height \in Nat \ {0}
      /\ selected <= Len(view) \/ (view = <<>> /\ selected = 1)
      /\ o \in Nat
    BY ViewFacts, RingAssumption DEF TypeOK, CursorInView
<1>2. /\ MaxOffset(height) \in Nat /\ offset \in Nat
      /\ offset = previous \/ (previous > MaxOffset(height) /\ offset = MaxOffset(height))
    <2>1. MaxOffset(height) \in Nat
        BY OffsetRange
    <2> QED BY <2>1 DEF AtMost
<1>3. o <= MaxOffset(height)
    BY DEF FitsWindow
<1> HIDE DEF offset
<1>4. WindowOffset(previous, height) =
          IF Len(view) <= height \/ selected = NoRow \/ InWindow(selected, offset, height)
          THEN offset
          ELSE IF selected <= offset THEN selected - 1 ELSE selected - height
    BY DEF WindowOffset, offset
<1>5. CASE Len(view) <= height \/ selected = NoRow \/ InWindow(selected, offset, height)
    BY <1>1, <1>2, <1>3, <1>4, <1>5 DEF Moved
<1>6. CASE ~(Len(view) <= height \/ selected = NoRow \/ InWindow(selected, offset, height))
    <2>1. /\ selected >= 1 /\ selected \in DOMAIN view
          /\ selected <= offset \/ selected > offset + height
        <3>1. view # <<>> /\ selected # 0
            BY <1>1, <1>6 DEF NoRow
        <3>2. ~(offset + 1 <= selected /\ selected <= offset + height)
            BY <1>1, <1>2, <1>6, SightLine
        <3>3. selected >= 1 /\ selected <= Len(view)
            BY <1>1, <3>1
        <3>4. selected <= offset \/ selected > offset + height
            BY <1>1, <1>2, <3>2
        <3> QED BY <1>1, <1>2, <1>6, <3>3, <3>4
    <2>2. o + 1 <= selected /\ selected <= o + height
        BY <1>1, <2>1 DEF FitsWindow, InWindow
    <2>3. CASE selected <= offset
        BY <1>1, <1>2, <1>3, <1>4, <1>6, <2>1, <2>2, <2>3 DEF Moved
    <2>4. CASE selected > offset + height
        BY <1>1, <1>2, <1>3, <1>4, <1>6, <2>1, <2>2, <2>4 DEF Moved
    <2> QED BY <2>1, <2>3, <2>4
<1> QED BY <1>5, <1>6

\* Every draw has the cursor in sight, leaves no line empty that a row could fill,
\* and scrolls by the least that does, whatever became of the rows since the last.
THEOREM DrawShowsCursor == MonitorSpec => WindowShowsCursor
<1>1. ScreenInv /\ Draw =>
          LET Fits(o) ==
                 /\ o <= MaxOffset(table_height')
                 /\ selected \in DOMAIN view => InWindow(selected, o, table_height')
              Shifted(o) == IF o < table_offset THEN table_offset - o ELSE o - table_offset
          IN  /\ Fits(table_offset')
              /\ \A o \in 0..Len(view) : Fits(o) => Shifted(table_offset') <= Shifted(o)
    <2> SUFFICES ASSUME ScreenInv, Draw
                 PROVE  /\ FitsWindow(table_offset', table_height')
                        /\ \A o \in 0..Len(view) : FitsWindow(o, table_height') =>
                              Moved(table_offset, table_offset') <= Moved(table_offset, o)
        BY DEF FitsWindow, Moved
    <2>1. /\ TypeOK /\ CursorInView /\ table_offset \in Nat /\ table_height' \in Heights
          /\ table_offset' = WindowOffset(table_offset, table_height')
        BY DEF ScreenInv, IInv, WindowType, Draw
    <2> QED BY <2>1, OffsetFits, OffsetLeast
<1>2. ScreenInv /\ [MonitorNext]_monitorVars =>
          [Draw =>
              LET Fits(o) ==
                     /\ o <= MaxOffset(table_height')
                     /\ selected \in DOMAIN view => InWindow(selected, o, table_height')
                  Shifted(o) == IF o < table_offset THEN table_offset - o ELSE o - table_offset
              IN  /\ Fits(table_offset')
                  /\ \A o \in 0..Len(view) : Fits(o) => Shifted(table_offset') <= Shifted(o)]_monitorVars
    BY <1>1
<1> QED BY <1>2, ScreenInvariant, PTL DEF MonitorSpec, WindowShowsCursor

-------------------------------------------------------------------------------
(* What is on the lines.                                                   *)

\* Where every row leads to a packet, the lines are the rows of the window in order.
LEMMA WindowLines ==
    ASSUME NEW offset \in Nat, NEW shown \in Nat,
           \A row \in (offset + 1)..(offset + shown) : ShownAt(row) # 0
    PROVE  PacketsAt((offset + 1)..(offset + shown))
               = [i \in 1..shown |-> ShownAt(offset + i)]
<1> DEFINE rows == (offset + 1)..(offset + shown)
<1>1. {row \in rows : ShownAt(row) # 0} = rows
    OBVIOUS
<1>2. PacketsAt(rows) = [i \in 1..Cardinality(rows) |-> ShownAt(Nth(rows, i))]
    BY <1>1 DEF PacketsAt
<1>3. Cardinality(rows) = shown /\ \A i \in 1..shown : Nth(rows, i) = offset + i
    BY NthOfRun
<1> HIDE DEF rows
<1>4. PacketsAt(rows) = [i \in 1..shown |-> ShownAt(offset + i)]
    BY <1>2, <1>3
<1> QED BY <1>4 DEF rows

\* The highlighted line of a window that has the cursor in sight is the cursor's packet.
LEMMA WindowHighlight ==
    ASSUME IInv, ~missed, selected \in DOMAIN view,
           NEW offset \in Nat, NEW height \in Heights, FitsWindow(offset, height)
    PROVE  LET shown == AtMost(height, Len(view) - offset)
               lines == PacketsAt((offset + 1)..(offset + shown))
           IN  selected - offset \in DOMAIN lines /\ lines[selected - offset] = ShownAt(selected)
<1> DEFINE shown == AtMost(height, Len(view) - offset)
           lines == PacketsAt((offset + 1)..(offset + shown))
<1>1. /\ Len(view) \in Nat /\ DOMAIN view = 1..Len(view) /\ height \in Nat \ {0}
      /\ \A row \in DOMAIN view : view[row] \in 1..MaxSeq
    BY ViewFacts, RingAssumption DEF IInv, TypeOK
<1>2. selected \in 1..Len(view) /\ offset + 1 <= selected /\ selected <= offset + height
    BY <1>1, SightLine DEF FitsWindow
<1>3. /\ shown \in Nat /\ offset + shown <= Len(view) /\ selected - offset \in 1..shown
    BY <1>1, <1>2 DEF AtMost
<1> HIDE DEF shown
<1>4. \A row \in DOMAIN view : ShownAt(row) # 0
    <2>1. RowsResolve
        BY RowFound
    <2> QED BY <1>1, <2>1, RingAssumption DEF RowsResolve
<1>5. \A row \in (offset + 1)..(offset + shown) : ShownAt(row) # 0
    BY <1>1, <1>3, <1>4
<1>6. lines = [i \in 1..shown |-> ShownAt(offset + i)]
    BY <1>3, <1>5, WindowLines
<1> HIDE DEF lines
<1>7. selected - offset \in DOMAIN lines /\ lines[selected - offset] = ShownAt(offset + (selected - offset))
    BY <1>3, <1>6
<1>8. offset + (selected - offset) = selected
    BY <1>2
<1> QED BY <1>7, <1>8 DEF lines, shown

\* Where no number was skipped, the highlighted line of the table is the packet that the
\* detail pane shows, whatever the table left out (draw_table and visible_at).
THEOREM HighlightAlwaysSelected == MonitorSpec => HighlightIsSelected
<1>1. ScreenInv /\ Draw =>
          (~missed /\ selected \in DOMAIN view =>
              LET line == selected - table_offset'
              IN  line \in DOMAIN Lines' /\ Lines'[line] = ShownAt(selected))
    <2> SUFFICES ASSUME ScreenInv, Draw, ~missed, selected \in DOMAIN view
                 PROVE  LET line == selected - table_offset'
                        IN  line \in DOMAIN Lines' /\ Lines'[line] = ShownAt(selected)
        OBVIOUS
    <2>1. /\ IInv /\ TypeOK /\ CursorInView /\ table_offset \in Nat /\ table_height' \in Heights
          /\ table_offset' = WindowOffset(table_offset, table_height')
        BY DEF ScreenInv, IInv, WindowType, Draw
    <2>2. FitsWindow(table_offset', table_height') /\ table_offset' \in Nat
        BY <2>1, OffsetFits, OffsetType
    <2>3. view' = view /\ packets' = packets
        BY DEF Draw, vars, ring
    <2>4. \A row : ShownAt(row)' = ShownAt(row)
        BY <2>3 DEF ShownAt, IndexOf
    <2> DEFINE shown == AtMost(table_height', Len(view) - table_offset')
               lines == PacketsAt((table_offset' + 1)..(table_offset' + shown))
    <2>5. Lines' = lines
        BY <2>3, <2>4 DEF Lines, Shown, PacketsAt
    <2>6. /\ selected - table_offset' \in DOMAIN lines
          /\ lines[selected - table_offset'] = ShownAt(selected)
        BY <2>1, <2>2, WindowHighlight
    <2> QED BY <2>5, <2>6
<1>2. ScreenInv /\ [MonitorNext]_monitorVars =>
          [Draw /\ ~missed /\ selected \in DOMAIN view =>
              LET line == selected - table_offset'
              IN  line \in DOMAIN Lines' /\ Lines'[line] = ShownAt(selected)]_monitorVars
    BY <1>1
<1> QED BY <1>2, ScreenInvariant, PTL DEF MonitorSpec, HighlightIsSelected
===============================================================================

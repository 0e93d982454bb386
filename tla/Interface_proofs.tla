--------------------------- MODULE Interface_proofs ---------------------------
(***************************************************************************)
(* Theorems about Interface, for every set of texts, devices and sockets:  *)
(* the screen, what lies over it, the capture and the live searches agree, *)
(* and the two lists show what their searches find.                        *)
(***************************************************************************)
EXTENDS Interface, Lists_proofs, SequenceTheorems

Screens == {"Menu", "Devices", "Monitor", "Ports"}

\* What the searches need of each other: texts are texts, and the display filter in
\* force is in lower case, so that a prompt opened on it filters by what it shows.
TextsOK ==
    /\ screen \in Screens
    /\ prompt \in Prompts
    /\ {input, display_filter, device_query, ports_query} \subseteq Texts
    /\ Lower[display_filter] = display_filter

InterfaceInv == TextsOK /\ CaptureIsSeen /\ ModesAgree /\ LivePromptApplies

\* The menu leads to the interfaces and the ports, never straight to a capture.
LEMMA MenuScreens == \A i \in DOMAIN MENU_ITEMS : MENU_ITEMS[i] \in {"Devices", "Ports"}
    BY DEF MENU_ITEMS

\* It holds at the menu, and on the monitor of an interface named at the start.
LEMMA InitInterface == Init => InterfaceInv
    BY InterfaceAssumption
    DEF Init, InterfaceAssumption, InterfaceInv, TextsOK, CaptureIsSeen, ModesAgree,
        LivePromptApplies, Screens, Prompts

\* Keys of the screens that open nothing.
LEMMA ScreenKeys ==
    ASSUME InterfaceInv,
           CtrlC \/ Help \/ QuitKey \/ MoveMenu
    PROVE  InterfaceInv'
<1> USE DEF InterfaceInv, TextsOK, CaptureIsSeen, ModesAgree, LivePromptApplies,
            promptVars, paneVars, deviceVars, portVars, OnScreen, KeyReaches
<1>1. CASE CtrlC
    BY <1>1 DEF CtrlC
<1>2. CASE Help
    BY <1>2 DEF Help
<1>3. CASE QuitKey
    BY <1>3 DEF QuitKey
<1>4. CASE MoveMenu
    BY <1>4 DEF MoveMenu
<1> QED BY <1>1, <1>2, <1>3, <1>4

\* Prompts: opening one, typing in it, leaving it, by Esc or by Enter.
LEMMA PromptKeys ==
    ASSUME InterfaceInv,
           Edit \/ Abandon \/ Commit \/ DevicesPrompt \/ MonitorPrompt \/ PortsPrompt
    PROVE  InterfaceInv'
<1> USE DEF InterfaceInv, TextsOK, CaptureIsSeen, ModesAgree, LivePromptApplies,
            promptVars, paneVars, deviceVars, portVars
<1>1. /\ Blank \in Texts /\ Lower[Blank] = Blank
      /\ \A t \in Texts : Lower[t] \in Texts /\ Lower[Lower[t]] = Lower[t]
    BY InterfaceAssumption DEF InterfaceAssumption
<1>2. CASE Edit
    BY <1>1, <1>2 DEF Edit, PromptListens, SetFilter, promptFrame
<1>3. CASE Abandon
    BY <1>1, <1>3 DEF Abandon, PromptListens, OpenPrompt, SetFilter, promptFrame, Prompts
<1>4. CASE Commit
    BY <1>1, <1>4 DEF Commit, PromptListens, OpenPrompt, OnMonitor, Prompts, Screens
<1>5. CASE DevicesPrompt
    BY <1>1, <1>5 DEF DevicesPrompt, OnScreen, KeyReaches, OpenPrompt, deviceFrame, Prompts
<1>6. CASE MonitorPrompt
    BY <1>1, <1>6 DEF MonitorPrompt, OnScreen, KeyReaches, OpenPrompt, monitorFrame, Prompts
<1>7. CASE PortsPrompt
    BY <1>1, <1>7 DEF PortsPrompt, OnScreen, KeyReaches, OpenPrompt, portsFrame, Prompts
<1> QED BY <1>2, <1>3, <1>4, <1>5, <1>6, <1>7

\* Going to another screen, and what starts and stops a capture.
LEMMA ScreenChanges ==
    ASSUME InterfaceInv,
           \/ ActivateMenuItem \/ LeaveDevices \/ LeavePorts \/ StartCapture
           \/ LeaveMonitor \/ RestartCapture \/ OpenBuilder \/ CloseBuilder
    PROVE  InterfaceInv'
<1> USE DEF InterfaceInv, TextsOK, CaptureIsSeen, ModesAgree, LivePromptApplies, Screens,
            promptVars, paneVars, deviceVars, portVars, OnScreen, OnScreenNoHelp, KeyReaches,
            OnMonitor, deviceFrame, monitorFrame, portsFrame
<1>1. CASE ActivateMenuItem
    BY <1>1, MenuScreens DEF ActivateMenuItem, RefreshListeners
<1>2. CASE LeaveDevices
    BY <1>2 DEF LeaveDevices
<1>3. CASE LeavePorts
    BY <1>3 DEF LeavePorts
<1>4. CASE StartCapture
    BY <1>4 DEF StartCapture
<1>5. CASE LeaveMonitor
    BY <1>5 DEF LeaveMonitor
<1>6. CASE RestartCapture
    BY <1>6 DEF RestartCapture
<1>7. CASE OpenBuilder
    BY <1>7 DEF OpenBuilder
<1>8. CASE CloseBuilder
    BY <1>8 DEF CloseBuilder
<1> QED BY <1>1, <1>2, <1>3, <1>4, <1>5, <1>6, <1>7, <1>8

\* Keys that stay on their screen.
LEMMA ListAndPaneKeys ==
    ASSUME InterfaceInv,
           \/ RescanDevices \/ MoveDevice \/ SwitchFocus \/ ToggleDetail \/ ResetFilters
           \/ RescanPorts \/ ClearPortsQuery \/ MovePorts
    PROVE  InterfaceInv'
<1> USE DEF InterfaceInv, TextsOK, CaptureIsSeen, ModesAgree, LivePromptApplies,
            promptVars, paneVars, deviceVars, portVars, OnScreen, KeyReaches,
            deviceFrame, monitorFrame, portsFrame
<1> Blank \in Texts /\ Lower[Blank] = Blank
    BY InterfaceAssumption DEF InterfaceAssumption
<1>1. CASE RescanDevices
    BY <1>1 DEF RescanDevices, RefreshDevices
<1>2. CASE MoveDevice
    BY <1>2 DEF MoveDevice
<1>3. CASE SwitchFocus
    BY <1>3 DEF SwitchFocus
<1>4. CASE ToggleDetail
    BY <1>4 DEF ToggleDetail
<1>5. CASE ResetFilters
    BY <1>5 DEF ResetFilters
<1>6. CASE RescanPorts
    BY <1>6 DEF RescanPorts, RefreshListeners
<1>7. CASE ClearPortsQuery
    BY <1>7 DEF ClearPortsQuery
<1>8. CASE MovePorts
    BY <1>8 DEF MovePorts
<1> QED BY <1>1, <1>2, <1>3, <1>4, <1>5, <1>6, <1>7, <1>8

\* Every key keeps the interface in agreement.
LEMMA InterfaceStep ==
    ASSUME InterfaceInv, [Next]_vars
    PROVE  InterfaceInv'
<1>1. CASE UNCHANGED vars
    BY <1>1 DEF vars, promptVars, paneVars, deviceVars, portVars, InterfaceInv, TextsOK,
                CaptureIsSeen, ModesAgree, LivePromptApplies
<1>2. CASE Next
    BY <1>1, <1>2, ScreenKeys, PromptKeys, ScreenChanges, ListAndPaneKeys DEF Next, Terminated
<1> QED BY <1>1, <1>2

-------------------------------------------------------------------------------

\* Whatever keys follow one another, the parts of the interface agree.
THEOREM InterfaceInvariant == Spec => []InterfaceInv
<1>1. Init => InterfaceInv
    BY InitInterface
<1>2. InterfaceInv /\ [Next]_vars => InterfaceInv'
    BY InterfaceStep
<1> QED BY <1>1, <1>2, PTL DEF Spec

\* A capture is held exactly while the monitor is shown (on_key and start_capture).
THEOREM CaptureAlwaysSeen == Spec => []CaptureIsSeen
<1>1. InterfaceInv => CaptureIsSeen
    BY DEF InterfaceInv
<1> QED BY <1>1, InterfaceInvariant, PTL

\* One thing takes the keys, and it belongs to the screen it is over (on_key).
THEOREM ModesAlwaysAgree == Spec => []ModesAgree
<1>1. InterfaceInv => ModesAgree
    BY DEF InterfaceInv
<1> QED BY <1>1, InterfaceInvariant, PTL

\* A search in force is the one in the prompt, so that Enter need not apply it
\* (on_prompt_edit and commit_prompt).
THEOREM LivePromptsApply == Spec => []LivePromptApplies
<1>1. InterfaceInv => LivePromptApplies
    BY DEF InterfaceInv
<1> QED BY <1>1, InterfaceInvariant, PTL

-------------------------------------------------------------------------------
(* The two lists.                                                           *)

\* A list of some of S with its search: the rows are numbers of its entries.
Searched(S, list, query, view, row) ==
    /\ list \in Listings(S) /\ query \in Texts
    /\ view \in Seq(Nat) /\ row \in Nat
    /\ ListAgrees(list, query, view, row)

LEMMA RowsAreNumbers ==
    ASSUME NEW view \in Seq(Nat)
    PROVE  /\ Len(view) \in Nat /\ DOMAIN view = 1..Len(view)
           /\ view = <<>> <=> Len(view) = 0
BY EmptySeq

\* Whatever row was selected before, a rebuilt view has it or its last one.
LEMMA KeptRowIsShown ==
    ASSUME NEW view \in Seq(Nat), NEW row \in Nat
    PROVE  /\ RowKept(view, row) \in Nat
           /\ IF view = <<>> THEN RowKept(view, row) = 0 ELSE RowKept(view, row) \in DOMAIN view
BY RowsAreNumbers DEF RowKept

LEMMA MovedRowIsShown ==
    ASSUME NEW view \in Seq(Nat), NEW row \in Nat, NEW delta \in Steps
    PROVE  /\ RowMoved(view, row, delta) \in Nat
           /\ IF view = <<>> THEN RowMoved(view, row, delta) = 0
                             ELSE RowMoved(view, row, delta) \in DOMAIN view
BY RowsAreNumbers DEF RowMoved, Steps

\* The rows of a list are the entries its query finds.
LEMMA RowsFind ==
    ASSUME NEW S, IsFiniteSet(S), NEW list \in Listings(S), NEW query
    PROVE  LET view == Rows(list, query)
           IN  /\ view \in Seq(Nat)
               /\ \A k \in DOMAIN view : view[k] \in DOMAIN list
               /\ {view[k] : k \in DOMAIN view}
                     = {i \in DOMAIN list : list[i] \in Finds[Lower[query]]}
<1> DEFINE found == {i \in DOMAIN list : list[i] \in Finds[Lower[query]]}
           view == Rows(list, query)
<1>1. Cardinality(S) \in Nat
    BY FS_CardinalityType
<1>2. Len(list) \in Nat /\ DOMAIN list = 1..Len(list)
    BY <1>1, ListingIsList
<1>3. found \in SUBSET (1..Len(list))
    BY <1>2
<1>4. view = Collected(found)
    BY DEF Rows
<1> HIDE DEF found, view
<1>5. /\ view \in Seq(1..Len(list))
      /\ \A r \in DOMAIN view : view[r] \in found
      /\ \A i \in found : \E r \in DOMAIN view : view[r] = i
    BY <1>2, <1>3, <1>4, CollectedPlaces
<1>6. view \in Seq(Nat)
    BY <1>2, <1>5
<1>7. {view[k] : k \in DOMAIN view} = found
    BY <1>5
<1>8. \A k \in DOMAIN view : view[k] \in DOMAIN list
    BY <1>5 DEF found
<1> QED BY <1>6, <1>7, <1>8 DEF found, view

\* A rebuilt view agrees with its list, whatever the row was.
LEMMA RebuiltAgrees ==
    ASSUME NEW S, IsFiniteSet(S), NEW list \in Listings(S), NEW query \in Texts,
           NEW view, view = Rows(list, query), NEW old \in Nat, NEW row, row = RowKept(view, old)
    PROVE  Searched(S, list, query, view, row)
<1>1. /\ view \in Seq(Nat)
      /\ \A k \in DOMAIN view : view[k] \in DOMAIN list
      /\ {view[k] : k \in DOMAIN view}
            = {i \in DOMAIN list : list[i] \in Finds[Lower[query]]}
    BY RowsFind
<1>2. row \in Nat /\ IF view = <<>> THEN row = 0 ELSE row \in DOMAIN view
    BY <1>1, KeptRowIsShown
<1> QED BY <1>1, <1>2 DEF Searched, ListAgrees

LEMMA MovedAgrees ==
    ASSUME NEW S, NEW list, NEW query, NEW view, NEW old, Searched(S, list, query, view, old),
           NEW delta \in Steps, NEW row, row = RowMoved(view, old, delta)
    PROVE  Searched(S, list, query, view, row)
<1>1. view \in Seq(Nat) /\ old \in Nat
    BY DEF Searched
<1>2. row \in Nat /\ IF view = <<>> THEN row = 0 ELSE row \in DOMAIN view
    BY <1>1, MovedRowIsShown
<1> QED BY <1>2 DEF Searched, ListAgrees

DevicesSearched == Searched(Devices, devices, device_query, device_view, device_row)

PortsSearched == Searched(Sockets, listeners, ports_query, ports_view, ports_row)

\* All that happens to the list of interfaces.
DeviceListStep ==
    \/ UNCHANGED deviceVars
    \/ devices' \in Listings(Devices) /\ device_query' \in Texts /\ RebuildDeviceView
    \/ /\ UNCHANGED <<devices, device_query, device_view>>
       /\ \E delta \in Steps : device_row' = RowMoved(device_view, device_row, delta)

\* All that happens to the list of sockets.
PortListStep ==
    \/ UNCHANGED portVars
    \/ listeners' \in Listings(Sockets) /\ ports_query' \in Texts /\ RebuildPortsView
    \/ /\ UNCHANGED <<listeners, ports_query, ports_view>>
       /\ \E delta \in Steps : ports_row' = RowMoved(ports_view, ports_row, delta)

LEMMA DeviceListAgrees == DevicesSearched /\ DeviceListStep => DevicesSearched'
<1> SUFFICES ASSUME DevicesSearched, DeviceListStep PROVE DevicesSearched'
    OBVIOUS
<1>1. IsFiniteSet(Devices)
    BY InterfaceAssumption DEF InterfaceAssumption
<1>2. CASE UNCHANGED deviceVars
    BY <1>2 DEF deviceVars, DevicesSearched
<1>3. CASE devices' \in Listings(Devices) /\ device_query' \in Texts /\ RebuildDeviceView
    <2>1. device_row \in Nat
        BY DEF DevicesSearched, Searched
    <2> QED BY <1>1, <1>3, <2>1, RebuiltAgrees DEF RebuildDeviceView, DevicesSearched
<1>4. ASSUME UNCHANGED <<devices, device_query, device_view>>,
             NEW delta \in Steps, device_row' = RowMoved(device_view, device_row, delta)
      PROVE  DevicesSearched'
    BY <1>4, MovedAgrees DEF DevicesSearched
<1> QED BY <1>2, <1>3, <1>4 DEF DeviceListStep

LEMMA PortListAgrees == PortsSearched /\ PortListStep => PortsSearched'
<1> SUFFICES ASSUME PortsSearched, PortListStep PROVE PortsSearched'
    OBVIOUS
<1>1. IsFiniteSet(Sockets)
    BY InterfaceAssumption DEF InterfaceAssumption
<1>2. CASE UNCHANGED portVars
    BY <1>2 DEF portVars, PortsSearched
<1>3. CASE listeners' \in Listings(Sockets) /\ ports_query' \in Texts /\ RebuildPortsView
    <2>1. ports_row \in Nat
        BY DEF PortsSearched, Searched
    <2> QED BY <1>1, <1>3, <2>1, RebuiltAgrees DEF RebuildPortsView, PortsSearched
<1>4. ASSUME UNCHANGED <<listeners, ports_query, ports_view>>,
             NEW delta \in Steps, ports_row' = RowMoved(ports_view, ports_row, delta)
      PROVE  PortsSearched'
    BY <1>4, MovedAgrees DEF PortsSearched
<1> QED BY <1>2, <1>3, <1>4 DEF PortListStep

\* No list of sockets has been read yet; the interfaces have.
LEMMA InitLists == Init => DevicesSearched /\ PortsSearched
<1> SUFFICES ASSUME Init PROVE DevicesSearched /\ PortsSearched
    OBVIOUS
<1>1. IsFiniteSet(Devices) /\ IsFiniteSet(Sockets) /\ Blank \in Texts
    BY InterfaceAssumption DEF InterfaceAssumption
<1>2. DevicesSearched
    <2>1. devices \in Listings(Devices) /\ device_query = Blank /\ device_view = Rows(devices, Blank)
        BY DEF Init
    <2>2. CASE device_row = RowKept(device_view, 0)
        BY <1>1, <2>1, <2>2, RebuiltAgrees DEF DevicesSearched
    <2>3. CASE device_row \in DOMAIN device_view
        <3>1. /\ device_view \in Seq(Nat)
              /\ \A k \in DOMAIN device_view : device_view[k] \in DOMAIN devices
              /\ {device_view[k] : k \in DOMAIN device_view}
                    = {i \in DOMAIN devices : devices[i] \in Finds[Lower[Blank]]}
            BY <1>1, <2>1, RowsFind
        <3>2. device_row \in Nat /\ device_view # <<>>
            BY <2>3, <3>1, RowsAreNumbers
        <3> QED BY <1>1, <2>1, <2>3, <3>1, <3>2 DEF DevicesSearched, Searched, ListAgrees
    <2> QED BY <2>2, <2>3 DEF Init
<1>3. PortsSearched
    <2>1. listeners = <<>> /\ ports_query = Blank /\ ports_view = <<>> /\ ports_row = 0
        BY DEF Init
    <2>2. <<>> \in Listings(Sockets)
        <3>1. Cardinality(Sockets) \in Nat
            BY <1>1, FS_CardinalityType
        <3>2. <<>> \in Injection(1..0, Sockets)
            BY DEF Injection, IsInjective
        <3> QED BY <3>1, <3>2 DEF Listings
    <2>3. <<>> \in Seq(Nat) /\ DOMAIN <<>> = {}
        OBVIOUS
    <2> QED BY <1>1, <2>1, <2>2, <2>3 DEF PortsSearched, Searched, ListAgrees
<1> QED BY <1>2, <1>3

\* Every key changes the lists in one of those ways, or leaves them alone.
LEMMA KeysOnLists ==
    ASSUME TextsOK, device_query \in Texts, ports_query \in Texts,
           devices \in Listings(Devices), listeners \in Listings(Sockets), Next
    PROVE  DeviceListStep /\ PortListStep
<1> USE DEF DeviceListStep, PortListStep, deviceVars, portVars
<1>1. Blank \in Texts
    BY InterfaceAssumption DEF InterfaceAssumption
<1>2. CASE CtrlC \/ Help \/ QuitKey \/ MoveMenu \/ Commit \/ Terminated
    BY <1>2 DEF CtrlC, Help, QuitKey, MoveMenu, Commit, Terminated, vars
<1>3. CASE ActivateMenuItem
    BY <1>3 DEF ActivateMenuItem, RefreshListeners
<1>4. CASE Edit
    BY <1>4 DEF Edit, SetFilter
<1>5. CASE Abandon
    BY <1>1, <1>5 DEF Abandon, SetFilter
<1>6. CASE LeaveDevices \/ DevicesPrompt \/ StartCapture
    BY <1>6 DEF LeaveDevices, DevicesPrompt, StartCapture, deviceFrame, portVars
<1>7. CASE RescanDevices
    BY <1>7 DEF RescanDevices, RefreshDevices, deviceFrame
<1>8. CASE MoveDevice
    BY <1>8 DEF MoveDevice, deviceFrame
<1>9. CASE \/ LeaveMonitor \/ SwitchFocus \/ ToggleDetail \/ MonitorPrompt \/ RestartCapture
           \/ ResetFilters \/ OpenBuilder \/ CloseBuilder
    BY <1>9 DEF LeaveMonitor, SwitchFocus, ToggleDetail, MonitorPrompt, RestartCapture,
                ResetFilters, OpenBuilder, CloseBuilder, monitorFrame
<1>10. CASE LeavePorts \/ PortsPrompt
    BY <1>10 DEF LeavePorts, PortsPrompt, portsFrame
<1>11. CASE RescanPorts
    BY <1>11 DEF RescanPorts, RefreshListeners, portsFrame
<1>12. CASE ClearPortsQuery
    BY <1>1, <1>12 DEF ClearPortsQuery, portsFrame
<1>13. CASE MovePorts
    BY <1>13 DEF MovePorts, portsFrame
<1> QED BY <1>2, <1>3, <1>4, <1>5, <1>6, <1>7, <1>8, <1>9, <1>10, <1>11, <1>12, <1>13 DEF Next

-------------------------------------------------------------------------------
(* Types.                                                                   *)

\* The types that neither the searches nor the lists need.
SwitchesOK ==
    /\ should_quit \in BOOLEAN /\ show_help \in BOOLEAN /\ builder \in BOOLEAN
    /\ capture \in BOOLEAN /\ show_detail \in BOOLEAN
    /\ menu_index \in DOMAIN MENU_ITEMS /\ focus \in {"Table", "Detail"} /\ before \in Texts

LEMMA SwitchesStay ==
    ASSUME TextsOK, SwitchesOK, Next
    PROVE  SwitchesOK'
<1> USE DEF SwitchesOK, promptVars, paneVars, OnScreen, OnScreenNoHelp
<1>1. Blank \in Texts /\ display_filter \in Texts /\ device_query \in Texts /\ ports_query \in Texts
    BY InterfaceAssumption DEF InterfaceAssumption, TextsOK
<1>2. CASE CtrlC \/ Help \/ QuitKey \/ Terminated
    BY <1>2 DEF CtrlC, Help, QuitKey, Terminated, vars
<1>3. CASE MoveMenu \/ ActivateMenuItem
    BY <1>3 DEF MoveMenu, ActivateMenuItem
<1>4. CASE Edit \/ Abandon
    BY <1>1, <1>4 DEF Edit, Abandon, OpenPrompt, promptFrame
<1>5. CASE Commit
    BY <1>1, <1>5 DEF Commit, OpenPrompt, OnMonitor
<1>6. CASE LeaveDevices \/ RescanDevices \/ MoveDevice \/ StartCapture
    BY <1>6 DEF LeaveDevices, RescanDevices, MoveDevice, StartCapture, deviceFrame, OnMonitor
<1>7. CASE DevicesPrompt \/ MonitorPrompt \/ PortsPrompt
    BY <1>1, <1>7 DEF DevicesPrompt, MonitorPrompt, PortsPrompt, OpenPrompt, deviceFrame,
                      monitorFrame, portsFrame
<1>8. CASE LeaveMonitor \/ SwitchFocus \/ ToggleDetail
    BY <1>8 DEF LeaveMonitor, SwitchFocus, ToggleDetail, monitorFrame
<1>9. CASE RestartCapture \/ ResetFilters \/ OpenBuilder \/ CloseBuilder
    BY <1>9 DEF RestartCapture, ResetFilters, OpenBuilder, CloseBuilder, OnMonitor, monitorFrame
<1>10. CASE LeavePorts \/ RescanPorts \/ ClearPortsQuery \/ MovePorts
    BY <1>10 DEF LeavePorts, RescanPorts, ClearPortsQuery, MovePorts, portsFrame
<1> QED BY <1>2, <1>3, <1>4, <1>5, <1>6, <1>7, <1>8, <1>9, <1>10 DEF Next

\* What the lists and the types need: with InterfaceInv it is inductive.
ListsInv == SwitchesOK /\ DevicesSearched /\ PortsSearched

LEMMA InitListsInv == Init => ListsInv
<1> SUFFICES ASSUME Init PROVE SwitchesOK
    BY InitLists DEF ListsInv
<1>1. Blank \in Texts
    BY InterfaceAssumption DEF InterfaceAssumption
<1>2. 1 \in DOMAIN MENU_ITEMS
    BY DEF MENU_ITEMS
<1>3. capture \in BOOLEAN
    BY DEF Init
<1> QED BY <1>1, <1>2, <1>3 DEF Init, SwitchesOK

LEMMA ListsStep ==
    ASSUME InterfaceInv, ListsInv, [Next]_vars
    PROVE  ListsInv'
<1>1. CASE UNCHANGED vars
    BY <1>1 DEF vars, promptVars, paneVars, deviceVars, portVars, ListsInv, SwitchesOK,
                DevicesSearched, PortsSearched
<1>2. CASE Next
    <2>1. TextsOK
        BY DEF InterfaceInv
    <2>2. /\ device_query \in Texts /\ ports_query \in Texts
          /\ devices \in Listings(Devices) /\ listeners \in Listings(Sockets)
        BY DEF ListsInv, DevicesSearched, PortsSearched, Searched
    <2>3. DeviceListStep /\ PortListStep
        BY <1>2, <2>1, <2>2, KeysOnLists
    <2>4. SwitchesOK'
        BY <1>2, <2>1, SwitchesStay DEF ListsInv
    <2> QED BY <2>3, <2>4, DeviceListAgrees, PortListAgrees DEF ListsInv
<1> QED BY <1>1, <1>2

LEMMA ListsInvariant == Spec => []ListsInv
<1>1. Init => ListsInv
    BY InitListsInv
<1>2. InterfaceInv /\ ListsInv /\ [Next]_vars => ListsInv'
    BY ListsStep
<1> QED BY <1>1, <1>2, InterfaceInvariant, PTL DEF Spec

\* Every variable of the interface keeps its type, for any texts and any lists read
\* (App and its prompts, screens and lists).
THEOREM InterfaceTypeCorrect == Spec => []TypeOK
<1>1. InterfaceInv /\ ListsInv => TypeOK
    BY DEF InterfaceInv, ListsInv, TextsOK, SwitchesOK, DevicesSearched, PortsSearched,
           Searched, TypeOK, Screens
<1> QED BY <1>1, InterfaceInvariant, ListsInvariant, PTL

\* Whatever refreshes, edits and movements follow one another, both lists show exactly
\* what their query finds in the reading on screen, and the row Enter would act on is one
\* of them (rebuild_device_view, rebuild_ports_view, move_row).
THEOREM ListsAlwaysAgree == Spec => []ListsAgree
<1>1. ListsInv => ListsAgree
    BY DEF ListsInv, DevicesSearched, PortsSearched, Searched, ListsAgree
<1> QED BY <1>1, ListsInvariant, PTL
===============================================================================

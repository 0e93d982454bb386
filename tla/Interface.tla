------------------------------ MODULE Interface ------------------------------
(***************************************************************************)
(* Which keys mean what: the screens, the prompts over them, help, the     *)
(* detail pane, and the two searchable lists, interfaces and listening     *)
(* sockets, with their cursors (on_key and its handlers in src/app.rs).    *)
(*                                                                         *)
(* A text is what the searches tell apart; Lower is to_lowercase, Finds    *)
(* the entries a lower-case query finds.  The table of packets, the form   *)
(* and the capture thread are components of their own: here a builder is   *)
(* open or not, and a capture is held or not.  Rows count from 1.          *)
(***************************************************************************)
EXTENDS Integers, Sequences, Lists

CONSTANTS
    Texts,    \* texts that may be typed
    Blank,    \* the empty one
    Lower,    \* to_lowercase on Texts
    Devices,  \* capture devices that may exist
    Sockets,  \* listening sockets that may exist
    Finds     \* for a lower-case text, the devices and sockets it finds

ASSUME InterfaceAssumption ==
    /\ Blank \in Texts
    /\ Lower \in [Texts -> Texts] /\ Lower[Blank] = Blank
    /\ \A t \in Texts : Lower[Lower[t]] = Lower[t]
    /\ Finds \in [Texts -> SUBSET (Devices \cup Sockets)]
    /\ Finds[Blank] = Devices \cup Sockets
    /\ IsFiniteSet(Devices) /\ IsFiniteSet(Sockets)

VARIABLES
    should_quit, screen, menu_index, show_help,
    prompt, input,
    before,          \* what the open prompt started from (not in the code)
    builder,         \* the filter builder is open
    capture,         \* a handle is held
    show_detail, focus,
    display_filter,
    devices, device_query, device_view, device_row,
    listeners, ports_query, ports_view, ports_row

promptVars == <<prompt, input, before>>
paneVars == <<show_detail, focus>>
deviceVars == <<devices, device_query, device_view, device_row>>
portVars == <<listeners, ports_query, ports_view, ports_row>>
vars == <<should_quit, screen, menu_index, show_help, promptVars, builder, capture,
          paneVars, display_filter, deviceVars, portVars>>

Prompts == {"None", "DeviceSearch", "Bpf", "Display", "SavePath", "PortSearch"}

-------------------------------------------------------------------------------
(* A searchable list: entries, a query, the indices that match, a row.      *)

Rows(list, query) == Collected({i \in DOMAIN list : list[i] \in Finds[Lower[query]]})

\* The row survives a change of the list, or moves to the last one there is.
RowKept(view, row) ==
    CASE view = <<>> -> 0
      [] view # <<>> /\ row = 0 -> 1
      [] OTHER -> IF row > Len(view) THEN Len(view) ELSE row

Steps == {-1000, -1, 1, 1000}

RowMoved(view, row, delta) ==
    LET target == (IF row = 0 THEN 1 ELSE row) + delta
    IN  CASE view = <<>> -> 0
          [] view # <<>> /\ target < 1 -> 1
          [] view # <<>> /\ target > Len(view) -> Len(view)
          [] OTHER -> target

RebuildDeviceView ==
    /\ device_view' = Rows(devices', device_query')
    /\ device_row' = RowKept(device_view', device_row)

RebuildPortsView ==
    /\ ports_view' = Rows(listeners', ports_query')
    /\ ports_row' = RowKept(ports_view', ports_row)

\* pcap's list in rank order, which changes as devices come, go and get addresses.
RefreshDevices ==
    /\ devices' \in Listings(Devices)
    /\ UNCHANGED device_query
    /\ RebuildDeviceView

\* Faulty: the rows of the last reading are kept.
RefreshListenersOnly ==
    /\ listeners' \in Listings(Sockets)
    /\ UNCHANGED <<ports_query, ports_view, ports_row>>

\* /proc read again; a failed reading lists nothing.
RefreshListeners ==
    /\ listeners' \in Listings(Sockets)
    /\ UNCHANGED ports_query
    /\ RebuildPortsView

-------------------------------------------------------------------------------

\* start_capture
OnMonitor == capture' = TRUE /\ screen' = "Monitor" /\ focus' = "Table"

Init ==
    /\ should_quit = FALSE /\ menu_index = 1 /\ show_help = FALSE
    /\ prompt = "None" /\ input = Blank /\ before = Blank /\ builder = FALSE
    /\ show_detail = FALSE /\ focus = "Table" /\ display_filter = Blank
    /\ devices \in Listings(Devices) /\ device_query = Blank
    /\ device_view = Rows(devices, Blank)
    /\ listeners = <<>> /\ ports_query = Blank /\ ports_view = <<>> /\ ports_row = 0
    /\ \/ screen = "Menu" /\ capture = FALSE /\ device_row = RowKept(device_view, 0)
       \/ screen = "Monitor" /\ capture = TRUE /\ device_row \in DOMAIN device_view

\* Ctrl-C, whatever is open.
CtrlC ==
    /\ ~should_quit
    /\ should_quit' = TRUE
    /\ UNCHANGED <<screen, menu_index, show_help, promptVars, builder, capture, paneVars,
                   display_filter, deviceVars, portVars>>

\* Faulty: help hides the screen and leaves its keys alive under an open prompt.
KeyReachesAlways == ~should_quit /\ ~builder

\* The builder, then an open prompt, take every key before the screen does.
KeyReaches == ~should_quit /\ ~builder /\ prompt = "None"

\* A key of the screen also dismisses help.
OnScreen(s) ==
    /\ KeyReaches
    /\ screen = s
    /\ show_help' = FALSE
    /\ UNCHANGED should_quit

\* Esc and ? only dismiss help while it is shown.
OnScreenNoHelp(s) == OnScreen(s) /\ ~show_help

Help ==
    /\ KeyReaches
    /\ show_help' = ~show_help
    /\ UNCHANGED <<should_quit, screen, menu_index, promptVars, builder, capture, paneVars,
                   display_filter, deviceVars, portVars>>

QuitKey ==
    /\ KeyReaches
    /\ should_quit' = TRUE
    /\ show_help' = FALSE
    /\ UNCHANGED <<screen, menu_index, promptVars, builder, capture, paneVars,
                   display_filter, deviceVars, portVars>>

MENU_ITEMS == <<"Devices", "Ports">>

\* Faulty: the cursor runs off the menu.
MoveMenuUnclamped ==
    /\ OnScreen("Menu")
    /\ \E delta \in {-1, 1} : menu_index' = menu_index + delta
    /\ UNCHANGED <<screen, promptVars, builder, capture, paneVars, display_filter,
                   deviceVars, portVars>>

MoveMenu ==
    /\ OnScreen("Menu")
    /\ menu_index' \in DOMAIN MENU_ITEMS
    /\ UNCHANGED <<screen, promptVars, builder, capture, paneVars, display_filter,
                   deviceVars, portVars>>

\* Enter on an entry, or its digit.
ActivateMenuItem ==
    /\ OnScreen("Menu")
    /\ menu_index' \in DOMAIN MENU_ITEMS
    /\ screen' = MENU_ITEMS[menu_index']
    /\ IF screen' = "Ports" THEN RefreshListeners ELSE UNCHANGED portVars
    /\ UNCHANGED <<promptVars, builder, capture, paneVars, display_filter, deviceVars>>

-------------------------------------------------------------------------------
(* Prompts.                                                                 *)

OpenPrompt(p, initial) == prompt' = p /\ input' = initial /\ before' = initial

\* What the open prompt edits as it is typed, and how the lists follow.
SetFilter(p, text) ==
    /\ IF p = "DeviceSearch"
       THEN device_query' = text /\ UNCHANGED devices /\ RebuildDeviceView
       ELSE UNCHANGED deviceVars
    /\ display_filter' = IF p = "Display" THEN Lower[text] ELSE display_filter
    /\ IF p = "PortSearch"
       THEN ports_query' = text /\ UNCHANGED listeners /\ RebuildPortsView
       ELSE UNCHANGED portVars

promptFrame == <<should_quit, screen, menu_index, show_help, builder, capture, paneVars>>

PromptListens == ~should_quit /\ ~builder /\ prompt # "None"

\* Faulty: deleting a word is not followed by the update typing is.
EditUnapplied ==
    /\ PromptListens
    /\ input' \in Texts
    /\ \/ SetFilter(prompt, input')
       \/ UNCHANGED <<display_filter, deviceVars, portVars>>
    /\ UNCHANGED <<prompt, before, promptFrame>>

\* Every editing key together: the input may become any text.
Edit ==
    /\ PromptListens
    /\ input' \in Texts
    /\ SetFilter(prompt, input')
    /\ UNCHANGED <<prompt, before, promptFrame>>

\* Esc. The display filter and the port search are cleared; the device search stays.
Abandon ==
    /\ PromptListens
    /\ OpenPrompt("None", Blank)
    /\ IF prompt \in {"Display", "PortSearch"}
       THEN SetFilter(prompt, Blank)
       ELSE UNCHANGED <<display_filter, deviceVars, portVars>>
    /\ UNCHANGED promptFrame

\* Enter. A BPF program that is valid restarts a held capture, a path saves the view.
Commit ==
    /\ PromptListens
    /\ OpenPrompt("None", Blank)
    /\ \/ prompt = "Bpf" /\ capture /\ OnMonitor /\ UNCHANGED show_detail
       \/ UNCHANGED <<capture, screen, paneVars>>
    /\ UNCHANGED <<should_quit, menu_index, show_help, builder, display_filter,
                   deviceVars, portVars>>

-------------------------------------------------------------------------------
(* Interfaces.                                                              *)

deviceFrame == <<menu_index, capture, paneVars, display_filter, portVars>>

LeaveDevices ==
    /\ OnScreenNoHelp("Devices")
    /\ screen' = "Menu"
    /\ UNCHANGED <<deviceFrame, promptVars, builder, deviceVars>>

RescanDevices ==
    /\ OnScreen("Devices")
    /\ RefreshDevices
    /\ UNCHANGED <<deviceFrame, screen, promptVars, builder>>

DevicesPrompt ==
    /\ OnScreen("Devices")
    /\ \/ OpenPrompt("DeviceSearch", device_query)
       \/ \E bpf \in Texts : OpenPrompt("Bpf", bpf)
    /\ UNCHANGED <<deviceFrame, screen, builder, deviceVars>>

MoveDevice ==
    /\ OnScreen("Devices")
    /\ \E delta \in Steps : device_row' = RowMoved(device_view, device_row, delta)
    /\ UNCHANGED <<deviceFrame, screen, promptVars, builder, devices, device_query, device_view>>

StartCapture ==
    /\ OnScreen("Devices")
    /\ device_row \in DOMAIN device_view
    /\ OnMonitor
    /\ UNCHANGED <<menu_index, show_detail, display_filter, portVars, promptVars, builder,
                   deviceVars>>

-------------------------------------------------------------------------------
(* Monitor.                                                                 *)

monitorFrame == <<menu_index, deviceVars, portVars>>

\* Faulty: the screen is left with the capture running.
LeaveMonitorRunning ==
    /\ OnScreenNoHelp("Monitor")
    /\ screen' = "Devices"
    /\ UNCHANGED <<monitorFrame, capture, promptVars, builder, paneVars, display_filter>>

LeaveMonitor ==
    /\ OnScreenNoHelp("Monitor")
    /\ capture' = FALSE
    /\ screen' = "Devices"
    /\ UNCHANGED <<monitorFrame, promptVars, builder, paneVars, display_filter>>

SwitchFocus ==
    /\ OnScreen("Monitor")
    /\ show_detail
    /\ focus' = IF focus = "Table" THEN "Detail" ELSE "Table"
    /\ UNCHANGED <<monitorFrame, screen, capture, promptVars, builder, show_detail,
                   display_filter>>

ToggleDetail ==
    /\ OnScreen("Monitor")
    /\ show_detail' = ~show_detail
    /\ focus' = IF show_detail' THEN focus ELSE "Table"
    /\ UNCHANGED <<monitorFrame, screen, capture, promptVars, builder, display_filter>>

MonitorPrompt ==
    /\ OnScreen("Monitor")
    /\ \/ OpenPrompt("Display", display_filter)
       \/ \E p \in {"Bpf", "SavePath"}, initial \in Texts : OpenPrompt(p, initial)
    /\ UNCHANGED <<monitorFrame, screen, capture, builder, paneVars, display_filter>>

RestartCapture ==
    /\ OnScreen("Monitor")
    /\ capture
    /\ OnMonitor
    /\ UNCHANGED <<monitorFrame, promptVars, builder, show_detail, display_filter>>

ResetFilters ==
    /\ OnScreen("Monitor")
    /\ display_filter' = Blank
    /\ UNCHANGED <<monitorFrame, screen, capture, promptVars, builder, paneVars>>

-------------------------------------------------------------------------------
(* The filter builder, over the monitor or the interfaces.                  *)

OpenBuilder ==
    /\ OnScreen("Devices") \/ OnScreen("Monitor")
    /\ builder' = TRUE
    /\ UNCHANGED <<monitorFrame, screen, capture, promptVars, paneVars, display_filter>>

\* Cancelled, applied to the display, or applied to the capture, which restarts it.
CloseBuilder ==
    /\ ~should_quit /\ builder
    /\ builder' = FALSE
    /\ \/ capture /\ OnMonitor /\ UNCHANGED show_detail
       \/ UNCHANGED <<capture, screen, paneVars>>
    /\ UNCHANGED <<should_quit, show_help, monitorFrame, promptVars, display_filter>>

-------------------------------------------------------------------------------
(* Ports.                                                                   *)

portsFrame == <<menu_index, capture, paneVars, display_filter, deviceVars, builder>>

LeavePorts ==
    /\ OnScreenNoHelp("Ports")
    /\ screen' = "Menu"
    /\ UNCHANGED <<portsFrame, promptVars, portVars>>

RescanPorts ==
    /\ OnScreen("Ports")
    /\ RefreshListeners
    /\ UNCHANGED <<portsFrame, screen, promptVars>>

PortsPrompt ==
    /\ OnScreen("Ports")
    /\ OpenPrompt("PortSearch", ports_query)
    /\ UNCHANGED <<portsFrame, screen, portVars>>

ClearPortsQuery ==
    /\ OnScreen("Ports")
    /\ ports_query' = Blank /\ UNCHANGED listeners
    /\ RebuildPortsView
    /\ UNCHANGED <<portsFrame, screen, promptVars>>

MovePorts ==
    /\ OnScreen("Ports")
    /\ \E delta \in Steps : ports_row' = RowMoved(ports_view, ports_row, delta)
    /\ UNCHANGED <<portsFrame, screen, promptVars, listeners, ports_query, ports_view>>

Terminated == should_quit /\ UNCHANGED vars

Next ==
    \/ CtrlC \/ Help \/ QuitKey \/ MoveMenu \/ ActivateMenuItem
    \/ Edit \/ Abandon \/ Commit
    \/ LeaveDevices \/ RescanDevices \/ DevicesPrompt \/ MoveDevice \/ StartCapture
    \/ LeaveMonitor \/ SwitchFocus \/ ToggleDetail \/ MonitorPrompt \/ RestartCapture
    \/ ResetFilters \/ OpenBuilder \/ CloseBuilder
    \/ LeavePorts \/ RescanPorts \/ PortsPrompt \/ ClearPortsQuery \/ MovePorts
    \/ Terminated

Spec == Init /\ [][Next]_vars

-------------------------------------------------------------------------------
(* Properties                                                               *)

TypeOK ==
    /\ {should_quit, show_help, builder, capture, show_detail} \subseteq BOOLEAN
    /\ screen \in {"Menu", "Devices", "Monitor", "Ports"}
    /\ menu_index \in DOMAIN MENU_ITEMS
    /\ prompt \in Prompts /\ focus \in {"Table", "Detail"}
    /\ {input, before, display_filter, device_query, ports_query} \subseteq Texts
    /\ devices \in Listings(Devices) /\ listeners \in Listings(Sockets)

\* A capture is held exactly while the monitor is shown: none runs unseen.
CaptureIsSeen == capture <=> screen = "Monitor"

\* One thing takes the keys: no prompt, form or help is left over a screen it does
\* not belong to, or under another, and focus is never in a pane that is hidden.
ModesAgree ==
    /\ prompt = "DeviceSearch" => screen = "Devices"
    /\ prompt \in {"Display", "SavePath"} => screen = "Monitor"
    /\ prompt = "Bpf" => screen \in {"Devices", "Monitor"}
    /\ prompt = "PortSearch" => screen = "Ports"
    /\ builder => prompt = "None" /\ screen \in {"Devices", "Monitor"}
    /\ show_help => prompt = "None" /\ ~builder
    /\ focus = "Detail" => show_detail

\* What is typed is what filters, key by key, in the prompts that do not wait for
\* Enter: Enter has nothing left to apply.
LivePromptApplies ==
    /\ prompt = "DeviceSearch" => device_query = input
    /\ prompt = "Display" => display_filter = Lower[input]
    /\ prompt = "PortSearch" => ports_query = input

ListAgrees(list, query, view, row) ==
    /\ \A k \in DOMAIN view : view[k] \in DOMAIN list
    /\ {view[k] : k \in DOMAIN view} = {i \in DOMAIN list : list[i] \in Finds[Lower[query]]}
    /\ IF view = <<>> THEN row = 0 ELSE row \in DOMAIN view

\* Both lists show what their query finds in the reading on screen, and the row Enter
\* would act on is one of them, however refreshes and edits followed one another.
ListsAgree ==
    /\ ListAgrees(devices, device_query, device_view, device_row)
    /\ ListAgrees(listeners, ports_query, ports_view, ports_row)

\* README:361: "In any prompt: `enter` accepts, `esc` cancels".
EscCancels ==
    [][Abandon =>
          /\ prompt = "DeviceSearch" => device_query' = before
          /\ prompt = "Display" => display_filter' = before
          /\ prompt = "PortSearch" => ports_query' = before]_vars
===============================================================================

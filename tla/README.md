# net-tui in TLA+

net-tui is a terminal packet monitor: one thread captures with libpcap, another
draws the interface and handles keys, and a bounded channel joins them. This
directory holds TLA+ modules of the parts of the program whose correctness is
not obvious from reading one function, the configurations TLC checks them with,
and proofs checked by TLAPS. Paths such as `app.rs:546` are into `src/` of the
repository; definitions keep the names of the source where TLA+ allows it.

## 1. The system

| Component | Source | State | Operations |
|---|---|---|---|
| Capture thread and channel | `capture.rs` | the packet number, the stop flag, the counter of packets the channel refused, the channel | `spawn`, `run`, `open`, `stop`, `validate_bpf` |
| Capture lifecycle in the interface | `app.rs` 395-435, 546-585, `main.rs` 53-77 | the held handle, `Status`, `Counters` | `start_capture`, `stop_capture`, `restart_capture`, `drain_capture` |
| Packet ring, view and cursor | `app.rs` 436-640, 1050-1137 | `packets`, `view`, `table_state`, `follow`, `paused`, the display filters | `push_packet`, `rebuild_view`, `clear_packets`, `move_selection`, table keys |
| Filter specification | `filter.rs` | `FilterSpec` | `is_empty`, `matches`, `to_bpf` |
| Filter builder and filters in force | `builder.rs`, `app.rs` 743-765, 835-945 | the form, its edit buffer and picker; `display_spec`, `capture_spec`, `bpf`, `linktype` | form and picker keys, `open_builder`, `apply_builder`, the `f` prompt |
| Line editor | `input.rs` | text and byte cursor | insert, delete, move, delete word |
| Screens, prompts, lists | `app.rs` 645-1050 | screen, prompt, help, focus, device and port lists | key dispatch, `commit_prompt`, `refresh_*`, `rebuild_*_view` |
| Command line | `cli.rs`, `main.rs` | `Args` | `validated` |
| Monitor's table | `ui/monitor.rs` | `table_height`, `table_offset`, written by a draw and read by the next one and by the page keys | `draw_table`, `window_offset` |
| Listening sockets | `sockets.rs`, `app.rs` 782-831 | `listeners`, `ports_view` | `collect`, `socket_owners`, `refresh_listeners` |
| Traffic counters | `app.rs` 186-225 | totals, rates, bounded history | `observe`, `tick`, `reset` |
| Packet decoding | `packet.rs` | none | `decode`, `slice_packet` |
| Rendering | the rest of `ui/*.rs` | none | `draw` |
| Installer, packaging, workflows | `install.sh`, `.github` | none of the program's | |

How they interact. `start_capture` spawns a thread and keeps a `CaptureHandle`:
the receiving end of the channel, the stop flag, the counter of refused packets
and the join handle. The thread sends `Started`, then packets (with `try_send`:
a full channel refuses them and the refusal is counted), statistics, at most one
`Error`, and `Stopped`; all but packets and statistics block for room. Every turn of
the main loop calls `drain_capture`, which takes at most `DRAIN_BUDGET` packets,
gives each to `push_packet`, then reads the counter; then it draws and polls for
a key for at most 10 ms. Keys change the display filters (which rebuild the
view), or the capture filter (which stops the capture and starts another). `stop` raises
the flag, then drains the channel until the thread has ended or a deadline has
passed, after which it lets go of the thread. A draw of the monitor's table writes two
fields of `App`, the height that the page keys move by and the offset that the next draw
starts from. The ports screen calls `collect`, which reads a few dozen to a few
thousand files of `/proc` while the program waits and every other process goes on.

What is hard to test in it: the interleaving of the two threads over the channel
and the three shared cells, at a full channel in particular; the deadline racing
the end of the thread; a detached thread outliving its successor's start; the view kept
up to date one packet at a time while the ring evicts; a cursor that must stay with
its packet through all of that; numbers that are used up by packets that never
arrive; one specification with two evaluators; an edit buffer that holds part of
the form's state; a link type that is known only after `Started`; a window of
rows chosen from what the last draw left behind; a byte offset that must stay on
a character's edge; a picture of the machine put together from files read one after
another. `PROJECT.json`
lists each at its line under `hazards`, with the properties that watch it.

What makes each component correct:

* capture: the event protocol is kept, no packet is lost silently or delivered
  twice, `stop` always returns, a stopped thread always exits, and the status line
  tells the truth about the thread;
* ring: the view is the filtered ring, the cursor is where the person put it,
  a row shows the packet it was made for;
* filters: the compiled program and the display evaluation agree, the form
  loses nothing typed, a filter change cannot break a live capture;
* line editor: the byte cursor is on a character boundary and behaves as a cursor
  between characters;
* screens and prompts: a capture is held exactly while the monitor is shown, a prompt
  belongs to its screen, `esc` cancels;
* command line: ring capacity times worst-case packet stays in the memory budget, and
  the worst case is one;
* monitor's table: a draw shows the row under the cursor and highlights the packet
  that the detail pane shows;
* sockets: a socket is attributed to a process that held it, whatever closes or
  exits while `/proc` is read.

## 2. Modules

| Module | What it is |
|---|---|
| `CaptureLifecycle` | abstract: what the status line, the packet count and the last number may do over the life of a capture |
| `CaptureSession` | the capture threads, the channel, the interface's drain and stop loops |
| `CaptureSession_proofs` | theorems about it |
| `MCCaptureSession` | its instance for TLC |
| `Lists` | lists without repetition, and the places of a list that a query or a filter lets through |
| `Lists_proofs` | lemmas about it: places are counted and put in order, lists are joined and cut |
| `PacketRing`, `MCPacketRing` | the ring, the view, the cursor, the display filters |
| `PacketRing_proofs` | theorems about them |
| `Limits` | `--buffer` against `--memory`, what a packet costs; pure arithmetic |
| `MonitorScreen`, `MCMonitorScreen` | `PacketRing` of the size `Limits` grants, with the table drawn of it |
| `MonitorScreen_proofs` | that it implements `PacketRing`, and theorems of its own |
| `FilterSpec` | the selector's two evaluations |
| `Selector`, `MCFilterSpec` | the selector set one field at a time, the promise that its two uses agree, and every specification over small sets |
| `Selector_proofs` | theorems about it |
| `FilterForm`, `MCFilterForm` | the builder form, the raw prompt, and the capture a filter is installed in; extends `FilterSpec` |
| `FilterForm_proofs` | theorems about it |
| `Interface`, `MCInterface` | screens, prompts, builder, help, focus, and the two searchable lists |
| `Interface_proofs` | theorems about it |
| `TextCursor` | abstract: a text of characters with a cursor between two of them |
| `LineInput` | the byte-indexed editor under every prompt |
| `Sockets` | `collect` and `socket_owners`, among the processes whose files they read |
| `PortsScreen`, `MCPortsScreen` | `Sockets`, then `LineInput` as the prompt that searches the list |
| `PortsScreen_proofs` | lemmas about the editor, the reading and the search, and theorems about the three together; that the editor implements `TextCursor` |

Three modules compose others. `MonitorScreen` extends `PacketRing` and
`Limits`; its steps are those of the ring and `Draw`. `PortsScreen` extends
`Sockets` and `LineInput`; its steps are those of a reading, and the keys of
the prompt, which search what the reading returned. `FilterForm` extends `FilterSpec`.
`PacketRing`, `Interface` and `FilterForm` share `Lists`: what they list, and the order
in which `rebuild_view` and its two sisters collect what passes.
Two modules are abstract specifications that a detailed one implements:
`CaptureLifecycle` of `CaptureSession` and `TextCursor` of `LineInput`.

Operators whose comment begins with "Faulty:" are not part of the model. Each is
the definition below it with one plausible mistake in it; `mutants` in `PROJECT.json` says
which property notices the mistake.

### CaptureSession

| Variable | Code |
|---|---|
| `pc[s]` | where `run` stands in the thread of session `s`: opening, sending `Started`, looking at the flag, reading, offering a packet, counting a refusal, offering statistics, sending `Error`, sending `Stopped`, gone |
| `seq[s]`, `uiDropped[s]`, `stop[s]` | `seq`, `ui_dropped`, `stop` (`capture.rs:194`, the two atomics of `CaptureHandle`) |
| `queue` | the channel whose receiver is in the held handle; other channels have lost their receiver, and sends into them fail |
| `capture` | `App::capture` |
| `ui`, `next`, `deadline`, `budget` | where the main thread stands; what the key handler does after `stop`; whether `STOP_TIMEOUT` has passed; what is left of `DRAIN_BUDGET` |
| `status`, `total`, `last`, `shownDropped` | `App::status`, `Counters::total`, the number counted last, `Counters::ui_dropped` |

One step of a thread is one operation on something shared: a send, one look at
the flag, one increment. So is one step of the interface: a receive, the read of the
refusal counter, one look at the thread or the clock. `OpenSucceeds` to `SignOff`
are the branches of `run`; `RecvStarted` to `DrainEnd` and `Tally` are
`drain_capture`; `StopCapture` to `StopClock` are `CaptureHandle::stop`, entered
from `StartCapture`, `LeaveCapture` and `Quit`; `Spawn`, `BackToDevices` and
`Exit` are what those handlers do after it. `DeadlinePasses` is the clock.
When the interface thread ends the process does, and no thread steps any more.

Abstracted: a packet is its number; the time between statistics is any time;
`Relaxed` atomics are read and written in one step each, which is all the code
needs of them, since each is one cell with one writer that only grows or is only
raised. The join handle's `is_finished` is `pc = "exited"`.

### PacketRing

`packets`, `view`, `selected`, `follow`, `paused` are the fields of `App`;
rows count from 1 and 0 is no row. `enabled` is `proto_enabled`; `matching` is
the set of packet contents that the text filter and the structured selector
both let through, so an edit of either is one action. `Arrive` is the packet
branch of `drain_capture` with all of `push_packet`; `Lose` is a packet refused
by the channel. The last three groups of actions are the keys of the table; a page is any
height a table may have (`Heights`), until `MonitorScreen` says which. `missed`
is not in the code: it remembers that a number was skipped inside the ring.

### Limits and MonitorScreen

`Limits` is `Args::validated` and the footprint of a packet with the numbers of the code as
constants. `LimitsAssumption` states what those numbers satisfy: the smallest
ring fits the smallest budget and the largest budget fits a machine word. They do on 64
bits: 8 MiB over a floor of 100 packets leaves 80 kB for each, of which a packet takes
5, and 32 GiB are far from wrapping. Products are taken modulo `Usize`.

`MonitorScreen` adds `table_height` and `table_offset`. `Draw` is
`draw_table` for a terminal of any size: it stores the height and picks the offset
(`WindowOffset`). `PageBy(table_height)` is `PageDown` and
`PageUp`, which move by the height the last draw stored. `Lines` is the
`filter_map` over the window, which leaves out a row whose packet is not found.
`DataLen` gives each packet content the length it was captured with and `StringsLen` the
bytes of `info` and `search`, which `decode` makes as long as they come: any number, of
which `STRING_ALLOWANCE` is only what the code expects.

### FilterSpec and FilterForm

A program is the sequence of its primitives, each with the word that joins it to
what stands before it and whether it is negated; `Accepts` evaluates it the way
pcap-filter defines (`and` and `or` of equal precedence, to the left), without a fold:
from the start, or from an "or" that holds, every "and" that follows must hold. `Holds`,
`TermHolds`, `Accepts` and `Compiles` stand for libpcap and are marked external.

A packet is what stands in the frame: its addresses, what the IP header says comes `next`,
what comes `last` behind any extension headers, its ports, and whether a VLAN tag stands before
it all. The two evaluators look at different parts. libpcap's primitives look at fixed
places: `tcp`, `udp`, `icmp6` and the ports at what follows the IP header of an untagged frame.
`decode` follows tags and extension headers to the end (`Decoded`). `Direct` packets, with
neither, are those on which the two can be compared at all; hosts are compared behind
extension headers too (`InView`). Left out are fragments, frames cut short, RARP, ARP for
anything but IPv4, SCTP, and link types `decode` does not know.

`Selector` is `Builder::spec` with each of its fields set to anything the form can set it to.

`FilterForm` holds the form as one record (`form`, or `NoForm`) and gives each
key of `Builder::on_key` and `on_picker_key` an action. The keys that edit text
are one action, `EditText`, after which the buffer holds any text of its field.
The capture is reduced to what filters depend on: none, opening, live or ended,
the link type of its device, and the program it was started with.

### Interface

Every variable but `before` and the two shortened to Booleans, `builder` and
`capture`, is a field of `App`; `before` remembers the text a prompt was
opened on. `KeyReaches` and `PromptListens` are the early returns of `on_key`, in
its order; `OnScreen` is what is left of it, with the dismissal of help. The
keys of one screen are the actions under its heading. The editing keys of a
prompt are one action, `Edit`, after which the input is any text; the keys that move a
list's cursor differ in the distance alone (`Steps`). Texts are
opaque: `Lower` is `to_lowercase` and `Finds` what `search.contains` and
`Listener::matches` answer, both constants. Devices and sockets may come, go and
change places at every refresh.

A device list that pcap refuses leaves the old list, which `RefreshDevices` covers by
choosing the same one again; `/proc` refused gives the empty one.

### LineInput and TextCursor

`value` is the text byte by byte, a byte being a character and its place in that
character; `cursor` counts bytes. Each method of `LineInput` is an operator.
`PrevBoundary` and `NextBoundary` are the two private functions; `TrimEnd` and
`WordStart` are `trim_end` and `rfind` of `delete_word`, which answers the byte where
the white space begins. `TextCursor` knows texts of characters only. The
refinement takes the characters before and behind the cursor (`Decode`).

### Sockets and PortsScreen

| Variable | Code or kernel |
|---|---|
| `program`, `leads` | the machine: what runs under each pid, and to which socket each of its descriptors leads |
| `step`, `table`, `bound`, `established` | where `collect` is, the next of its four tables, what it gathered from the ones before, the sockets bound row by row |
| `pid`, `fds`, `found` | the two loops of `socket_owners`, the descriptors of a process still to be followed, and the map |
| `rows`, `listeners` | the rows put together so far, in the order of `bound`; `App::listeners` |
| `kept`, `steady` | not in the code: the sockets open all through the reading, and the descriptors that led to one and the same socket all through it |
| `held`, `recycled` | not in the code: which program of which pid had a socket open at any time of the reading, and which pids got another program |
| `open`, `ports_query`, `ports_view` | the prompt, the search in force, the rows that match |

A descriptor is a number of one process that leads to a socket, to something else, or
nowhere; a socket is open while any descriptor leads to it. `collect` lists numbers and follows
them later, one by one, so a number may lead elsewhere by then. `ProcessStep` lets a
process open, close, copy or replace a descriptor, or take one that another process hands over
(`Redirect`), exit, start with its parent's descriptors or some of them, or run another
program, which closes some. It may fall between any two steps of `collect`, each of which
is one read: a table, the list of a process's descriptors, one link, one `comm`, one
`cmdline`. A program may have a name that is empty or is cut to no UTF-8 (`Nameless`), and a
command line that is (`Bare`); both give no text, as does a process that is gone.

What the steps take for granted of the kernel: a table is read at once, though
`read_to_string` may take several reads of a long one; a directory of descriptors is listed at
once; links are followed in any order, processes in the order of their pids, a process that is
not there when its turn comes being passed over. Zombies are left out, and so are sockets
with inode 0, which are the kernel's or not accepted yet and belong to no process.
`CannotRead` is `/proc` missing, or another system. One table missing, as with
IPv6 disabled, is a table without sockets. `Forget` drops the
locals of `collect` when it returns. It also drops the processes, which nothing
looks at until the next reading; a later reading is the first one again.

What a table says of a socket is constant: state, peer, address,
port. Users are left out, `/etc/passwd` being one file read once and the uid part of
the table's row. `Words` is what `build_search` writes of a socket or a
program and `Found` is `contains`, for a term without spaces. `Lower` is
`str::to_lowercase`, a function of whole texts: a capital sigma is written one way
at the end of a word and another elsewhere, and a character may become two.
`EditQuery` is an editing key of the prompt with
`on_prompt_edit`. `LineInput` is checked here because this prompt opens the editor on
a text (`WithValue`), empties it, and applies every edit; the keys of the other
prompts and their lists are in `Interface`.

## 3. What is checked

| Run | Instance | Shows |
|---|---|---|
| `capture_safety` | 2 sessions, channel of 2, budget 1, 3 packets each | `ChannelProtocol`, `NumbersAscend`, `Accounted`, `FinalCountExact`, `OneLiveReader`, and that `CaptureSession` implements `CaptureLifecycle` |
| `capture_liveness` | 2 sessions, channel of 1, budget 1, 1 packet each | `StopByDraining`, `StopByDeadline`, `StoppedThreadExits`, `EndIsShown` |
| `packet_ring` | `MonitorSpec`: a budget for a ring of 3, tables of 1 and 2 rows, 5 numbers, 2 protocols, a short and a long packet | `ViewIsFilteredRing`, `FollowPinsCursor`, `CursorInView`, `RowsResolve`, `CursorStays`, `AnchorKept`, `MemoryBounded`, `WindowShowsCursor`, `HighlightIsSelected` |
| `ring_contiguous` | `PacketRing` alone, ring of 3, 5 numbers | a violation, see below |
| `filter_spec` | 2 IPv4 and 1 IPv6 address, a partial one, 2 ports, 1 word, all protocols and sides: 1800 specifications, each over packets with and without tags and extension headers | `KernelAgrees`, `KernelKeeps` |
| `filter_icmp` | the same | a violation, see below |
| `filter_form` | 1 address, 1 word, ARP, 2 sides, 2 link types, 2 forms | `ProgramInstalled`, `LiveFilterStands`, `FormKeepsEdits`, `PickTakes`, `PickerOnFocus`, `ErrorIsCurrent` |
| `form_selector`, `form_filter` | the same with 1 form | two violations, see below |
| `interface` | 2 devices, 2 sockets, the empty text and one more in two cases | `CaptureIsSeen`, `ModesAgree`, `LivePromptApplies`, `ListsAgree` |
| `interface_esc` | the same | a violation, see below |
| `ports` | 2 pids of 2 descriptors each, 2 programs, 3 sockets, 2 changes; 4 characters of 1 to 3 bytes, lines of 3 | `SteadyListed`, `NamesOwner`, `SearchNarrows`, `OnBoundary`, and that `LineInput` implements `TextCursor` (`CursorSpec`) |

Why the bounds are enough. In `capture_safety` the channel can be full, be full of
packets with the closing event still to be sent, and hold two kinds of event at once;
the budget runs out inside a burst; two sessions are what it takes for a detached
thread to run beside its successor. The threads do not look at each other, so a
third adds no new interaction. Three packets overfill the channel with a number on either
side of the refused one. In `capture_liveness` one packet fills the channel, so the
closing send has to wait. In `packet_ring` five numbers evict two packets from a ring of
three, with gaps before, in and after it; two protocols and two contents
are the least for which a filter change hides some rows and shows others. Tables of one
and two rows are both smaller than the ring, so the window scrolls at either end, and
a draw may find its offset past a list that was cut and its height changed. The budget affords
three of the five packets asked for, and a long packet is longer than what is kept of one. `filter_spec` is complete over its
texts. `filter_form` needs the second form to open on a specification that is in
force; `MaxForms` bounds the forms opened, `MaxPackets` and `MaxSeq` the packets.
In `interface` a text finds one of
two entries, so that a list can be whole, shortened or empty, with the cursor on,
before and after what is left; every screen, prompt and pane is there.
In `ports` the sockets are a TCP listener open to all, a connection on its port and a
UDP socket. One program has no name, the other no command line and descriptors that cannot be
read; one with both texts would show what these two do. Two changes
(`MaxChanges`) are enough for a socket to pass from one process to the other and leave
the first, for a descriptor to be copied and the first of the two closed or put to another
use, for a pid to be freed and given away, and for a name and a command line to be
read from different programs. The characters are two accented
letters of two bytes, one of them a capital sigma, `!` and a white space of three bytes; a line of three
(`MaxChars`) has a word on either side of a space, a negated word, a sigma that ends a word until
a letter follows it, and a cut in every place.
Sessions, protocols and descriptors are symmetric where a run uses `SYMMETRY`; the
liveness run uses none.

Fairness. `Spec` of `CaptureSession` assumes weak fairness of `UiStep` only:
`event::poll` returns after 10 ms whether or not a key came, so the main thread
always goes on. Nothing else is assumed of every behaviour. That a thread keeps being scheduled
(`ThreadsRun`) or that time passes (`WF_vars(DeadlinePasses)`) are premises of the
properties that need them, so that `StopByDraining` does not lean on the clock nor
`StopByDeadline` on the thread. Keys carry no fairness: a person need not press any.

### Where code and documentation differ

* `ring_contiguous`: `app.rs:264` and `:446` call packet numbers contiguous across
  the ring. A packet the full channel refused, or one that arrived while paused,
  has used up a number; after it `index_of` answers with another packet or with
  none. `RowsResolve` shows that it answers correctly as long as no number was skipped.
* `filter_icmp`: `bpf_protocol` gives `icmp or icmp6`, and `to_bpf` joins it with
  `and` unparenthesised. A source or destination set together with ICMP does not
  constrain ICMPv6. Of the packets the primitives see as `decode` does, `KernelAgrees`
  holds for all other protocols and `KernelKeeps` for ICMP too: too much is captured, none
  of these is withheld.
* `form_selector`: the `f` prompt replaces the program and not the selector
  that `app.rs:277` says produced it; the form then opens on a filter that is
  not in force.
* `form_filter`: between `start_capture` and `Started`, `App::linktype` is that of
  the capture before, and a filter is validated for it. Once a capture is live
  `LiveFilterStands` holds.
* `interface_esc`: `README.md:361` says that `esc` cancels. In the device search it
  leaves the list filtered; in the display filter and the port search it also clears
  a filter that was there before the prompt.

## 4. What is proved

`CaptureSession_proofs` proves, for any set of sessions, any channel capacity
and budget of at least one, and any number of packets (`CaptureAssumption`):

| Theorem | Statement |
|---|---|
| `TypeCorrect` | `Spec => []TypeOK`; the channel never exceeds its capacity |
| `CaptureInvariant` | `Spec => []CaptureInv` |
| `ProtocolHolds` | `Spec => []ChannelProtocol` |
| `NumbersAscendAlways` | `Spec => []NumbersAscend` |
| `OneReader` | `Spec => []OneLiveReader` |
| `AccountedAlways` | `Spec => []Accounted` |
| `FinalCountIsExact` | `Spec => []FinalCountExact` |
| `LifecycleRefined` | `Spec => LifecycleSpec`: the detailed specification implements the abstract one |

The argument. `CaptureInv == TypeOK /\ ChannelProtocol /\ NumbersAscend` is
inductive: `InitCaptureInv` is about an empty channel, and the step lemmas take one
group of actions at a time (`ThreadInv`, `RecvInv`, `LoopInv`, `StopInv`, `SpawnInv`). Neither half stands alone. That a receive of `Packet`
keeps the count moving forward needs the numbers in the channel to ascend beyond
the last one counted; that a receive of `Stopped` finds no live capture behind it
needs `Stopped` to be the last event and its thread gone; and both need the channel to
be that of the held handle (`HandleOwnsChannel`). While the interface is inside
`stop` the channel is only drained to be thrown away, so the protocol is stated while
it is `Listening`. `LifecycleRefined` then maps each receive to a lifecycle step
under the invariant and every other action to a stutter or a restart. `OneReader`
needs type correctness and the fact that a handle is only given up after its flag
was raised.

`Accounted` counts the packets in the channel, a cardinality, so the lemmas say what
appending and receiving do to it (`AppendPackets`, `TailPackets`). It is inductive beside
`CaptureInv`, for which a receive of `Stopped` finds the channel empty and the thread
past its last increment; `FinalCountExact` is not. It also needs `DropsSettled`: the
frame that shows the end reads the counter after it has drained the channel, and a
thread that has ended adds nothing more. `AccountInv` is the two together.

`Interface_proofs` proves, for any texts, devices, sockets and searches that
satisfy `InterfaceAssumption` (lower-casing twice is lower-casing once, the empty text
finds everything, devices and sockets are finite in number):

| Theorem | Statement |
|---|---|
| `InterfaceInvariant` | `Spec => []InterfaceInv` |
| `CaptureAlwaysSeen` | `Spec => []CaptureIsSeen` |
| `ModesAlwaysAgree` | `Spec => []ModesAgree` |
| `LivePromptsApply` | `Spec => []LivePromptApplies` |
| `InterfaceTypeCorrect` | `Spec => []TypeOK` |
| `ListsAlwaysAgree` | `Spec => []ListsAgree` |

`InterfaceInv` adds to the three properties that texts are texts and that the
display filter in force is in lower case: without the latter a prompt opened on it
would show one text and filter by another. The three need each other: a committed
capture filter moves to the monitor, which is harmless because a prompt over the
interfaces is only open while no capture is held.

`ListsInv`, which holds beside it, is the types and, of each list, that its view and row are
what `ListsAgree` asks. Every key does one of three things to a list (`KeysOnLists`): nothing,
a rebuild from some reading and some query, or a move of the row. A rebuild needs nothing of
what was there before (`RebuiltAgrees`); a move keeps the row in a view that agrees (`MovedAgrees`).
That a rebuild lists every place the query finds, once and in order, is `CollectedPlaces`.

`Selector_proofs` proves, for any addresses, partial texts, ports and words, and any of the
protocols and sides (`FilterAssumption`):

| Theorem | Statement |
|---|---|
| `KernelAlwaysAgrees` | `Spec => []KernelAgrees` |
| `KernelAlwaysKeeps` | `Spec => []KernelKeeps` |
| `NamedAcceptsDirect` | with TCP, UDP or ARP, the program accepts what matches and is `Direct`, and nothing else |
| `IcmpAdmitsAllV6` | with ICMP, the program accepts what matches and is `Direct`, every ICMPv6 packet that follows its IP header, and nothing else |

A program without "or" accepts when all of its primitives hold (`ConjunctionAccepts`), which is
true of joined programs when it is of both (`JoinedHold`); each part of `to_bpf` is such a
program and asks for what its field matches (`HostCompiled`, `ProtocolCompiled`,
`PortCompiled`). The one "or" is the last primitive of a program, since ICMP takes no port, and adds
what it holds of (`LastOrAccepts`). The last two theorems quantify over
all packets, tagged and extended ones too: they are the extent of what `filter_icmp` finds, and of
what a program withholds because `decode` looks further than its primitives.

`FilterForm_proofs` proves, for any link types, programs and number of forms as well
(`FormAssumption`):

| Theorem | Statement |
|---|---|
| `FormTypeCorrect` | `Spec => []TypeOK` |
| `ProgramIsInstalled` | `Spec => []ProgramInstalled` |
| `PickerStaysOnFocus` | `Spec => []PickerOnFocus` |
| `ErrorStaysCurrent` | `Spec => []ErrorIsCurrent` |
| `FormKeepsEveryEdit` | `Spec => FormKeepsEdits` |
| `PicksAreTaken` | `Spec => PickTakes` |
| `LiveFilterAlwaysStands` | `Spec => LiveFilterStands` |

`FormInv` adds two facts to the four invariants. `PickerListsSeen`: what a picker offers was
seen for its field, so a pick is a text of that field, and a picker is only open over a
form without an error, so a pick cannot change the specification under one. `LiveIsCompiled`: a
live capture has reported its own link type and runs a program that compiles for it, so a
filter validated for `App::linktype` is validated for the device, and the restart key
installs what runs already. Both only hold once `Started` was drained, which is what
`form_filter` shows.

`PacketRing_proofs` proves of `Spec`, for any protocols and contents, any capacity of
at least one, any table heights and any number of packets:

| Theorem | Statement |
|---|---|
| `InductiveInvariant` | `Spec => []IInv` |
| `TypeCorrect` | `Spec => []TypeOK` |
| `ViewMaintained` | `Spec => []ViewIsFilteredRing` |
| `FollowsNewest` | `Spec => []FollowPinsCursor` |
| `CursorWithinView` | `Spec => []CursorInView` |
| `RowsFound` | `Spec => []RowsResolve` |
| `CursorStaysPut` | `Spec => CursorStays` |
| `AnchorIsKept` | `Spec => AnchorKept` |

`IInv` is `TypeOK`, `FollowPinsCursor`, `CursorInView` and two facts more. `FilteredView`
describes the list without computing it: it ascends, and its numbers are exactly those of the
packets in the ring that pass. A push keeps that, because it adds the largest number
at the end and takes the smallest off the front. Two ascending lists of the same
numbers are the same list, so the list equals the one `rebuild_view` computes. `Contiguous`
says that while nothing was missed the ring ends at `seq` and has no gap, from which
`index_of` is right.

`MonitorScreen_proofs` adds the table and the budget, under `LimitsAssumption` and
`MonitorAssumption`:

| Theorem | Statement |
|---|---|
| `BudgetHolds` | for every `--buffer` and `--memory` the ring granted fits the memory granted |
| `ScreenImplementsRing` | `MonitorSpec => Spec`: all of the theorems above hold of the screen |
| `MemoryStaysBounded` | `MonitorSpec => []MemoryBounded` |
| `DrawShowsCursor` | `MonitorSpec => WindowShowsCursor` |
| `HighlightAlwaysSelected` | `MonitorSpec => HighlightIsSelected` |

A table leaves out a row whose packet is gone, and would then highlight the wrong line.
While nothing was skipped every row resolves (`RowsResolve`), so the window is a run of rows
without a hole, the n-th member of which is its start and n more (`NthOfRun`): line and row
differ by the offset alone (`WindowLines`, `WindowHighlight`).

That a page key pages by a height the ring allows needs the invariant that
`table_height` is always one that a draw stored, or the initial 1.

`PortsScreen_proofs`, on its lemmas about the reading, the editor and the search, proves for
any sockets, pids, descriptors, programs, characters, words and number of changes
(`SocketsAssumption`, `LineAssumption`, `PortsAssumption`: white space or `!` behind a text is
lowered to itself and leaves the text lowered as it was, and the words of a socket or a program are
texts; of other characters nothing is assumed):

| Theorem | Statement |
|---|---|
| `CursorOnBoundary` | `PortsSpec => []OnBoundary` |
| `SteadySocketsListed` | `PortsSpec => SteadyListed` |
| `NamesTrueOwner` | `PortsSpec => NamesOwner` |
| `EditorIsCursor` | `PortsSpec => CursorSpec`: the editor of bytes implements `TextCursor` |
| `TypingNarrows` | `PortsSpec => SearchNarrows` |

The editor: whole characters cut at two edges leave whole characters, and whole
characters joined stay whole (`WellFormed` of a `Splice`); the boundary found on the left, on the
right or behind white space is such an edge.

The refinement: the places of the first bytes of two runs joined are those of the one and
then those of the other, moved up (`CollectedJoin`), so the text of joined bytes is the
joined text (`DecodeJoin`). Whatever is spliced out or in between two edges is therefore taken
out of the text, or put into it (`Spliced`), and each key is the step of `TextCursor` of its name
(`EditFollows`, `MoveFollows`). Two facts join the invariant `PortsInv`: neither the line nor
the query in force is longer than `MaxChars`, without which opening the prompt would be no `Load`.

The search: when the query lowered begins with what it was lowered to before, every term is as it
was, but for the last one, which may have grown, and new ones behind it (`TermsGrow`); a character
behind a gap starts a term (`TermsBehindGap`), and white space changes none (`TermsBeforeSpace`).
What holds the longer term holds the shorter one (`ContainsLess`), which is what a negated term
turns round. Where a character changes how the text before it is lowered nothing is promised,
and the run shows rows coming back. `SearchInv` adds that the view is the search
of the list for the query in force, so that before and after can be compared.

The reading: `SocketsInv` says what
`collect` already knows at each point. Every lasting socket of a table that was read is in
`bound` or counted, and no row of `bound` is there twice, since the rows of one table differ and no
socket is in two (`TablesRead`); every socket that a steady descriptor of a readable process leads to,
once the walk has passed that descriptor, has an owner (`Walked`); an owner had the socket while
it was looked at (`OwnersHeld`); and a text that was read is that of a program
that held it (`RowsTrue`), as long as the pid was not recycled.

Parts of the inductive invariants are listed by no run: `DropsSettled` of `AccountInv`,
`PickerListsSeen` and `LiveIsCompiled` of `FormInv`, `SocketsInv` and `Fits` of `PortsInv`, and
`SearchInv`. TLC finds these true on the instances of `CaptureSafety.cfg`, `FilterForm.cfg` and
`Ports.cfg` as well.

Only model-checked: the liveness properties, since neither liveness under fairness nor
`ENABLED` is within reach of the prover. Every invariant and every action property of the
passing runs is proved, and so are the refinements of `CaptureLifecycle`, `TextCursor` and
`PacketRing`.

## 5. Not modelled, and the plan

* Traffic counters: the totals are in `CaptureSession`. The rates per second and
  their history are shown and nothing else depends on them.
* Decoding: `etherparse` splits packets, and the summaries and field lists are wording.
  What the filters see of a packet is in `FilterSpec`, what is kept of one in `Limits`.
  `--snaplen` is a clamp and stays out.
* Drawing, but for the monitor's table. The detail pane splits the kept bytes of a packet a second time,
  so a packet cut at 4096 bytes can be listed by protocol and shown as not recognised;
  that is a matter of what `etherparse` accepts.
* Users and services of a listening socket: constant for a row.
* `save_pcap` and the footer's messages. The file `w` writes holds the packets that the rows
  lead to, which `RowsResolve` is about; writing it changes no state. Its header has
  `App::linktype` while each packet has the link type it was decoded with: they agree because a
  start clears the ring and `Started` comes before the packets (`ChannelProtocol`).
* The scroll position of the detail pane, which only its drawing reads.
* The installer, packaging and workflows are no part of the program.

libpcap, `/proc`, the kernel's sockets and the terminal appear as what they may
answer. Four observations have no run of their own:

* libpcap's primitives look right behind the IP header, `decode` further. The program
  of TCP, UDP, ICMP or ARP withholds what stands behind an extension header or a tag
  (`NamedAcceptsDirect`, `IcmpAdmitsAllV6`), which the display filter shows: a multicast listener
  report, hop-by-hop options and then ICMPv6, is on most IPv6 networks. The program of "Other" lets it
  pass, though `filter.rs:238` says that the named protocols are excluded.
* `packet.rs:19` and `cli.rs:58` call `WORST_CASE_PACKET_BYTES` what a packet costs at most. It
  contains the fixed `STRING_ALLOWANCE`, to which nothing holds `info` and `search`: TCP between two
  IPv6 endpoints written in full takes some 340 bytes for them. What holds is `MemoryBounded`: the
  ring at that figure fits the budget, and a packet whose strings keep to the allowance is no worse.
* Connections are counted by port number alone.
* A query cannot find an upper-case letter beyond ASCII.

What is left, in the order it should be done:

1. `MonitorPipeline`: `CaptureSession` and `PacketRing` composed: rows resolve
   as long as nothing was refused and the display was not paused.
2. `Counters`: rates and the bounded history against elapsed time.

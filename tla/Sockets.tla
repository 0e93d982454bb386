-------------------------------- MODULE Sockets -------------------------------
(***************************************************************************)
(* What is listening on this machine (src/sockets.rs): four tables of      *)
(* sockets are read one after the other, the sockets found bound in them   *)
(* are looked for among the file descriptors of every process, and the     *)
(* processes found are then asked who they are.  Each is a file of /proc   *)
(* read at its own moment, while processes start, exit and pass sockets on.*)
(*                                                                         *)
(* A socket is its inode; what a table says of it does not change.  It is   *)
(* open as long as a descriptor of some process leads to it, and one       *)
(* number may lead to another socket the next moment.  A file is read at   *)
(* once.  The processes are the environment; collect() is the program.     *)
(* All that collect() knows is in its locals until it returns.             *)
(***************************************************************************)
EXTENDS Integers, Sequences, FiniteSets, Functions

CONSTANTS
    Inodes,      \* sockets that may be open
    Socket,      \* what the tables say of each: table, state, peer, addr, port
    LastPid,     \* pids are 1..LastPid, and read_dir gives them in this order
    Fds,         \* the descriptors a process may have
    Programs,    \* what a process may run
    Private,     \* programs of other users: their descriptors cannot be read
    Nameless,    \* programs whose name is empty, or is cut to no UTF-8
    Bare,        \* programs whose command line is empty, or is no UTF-8
    MaxChanges   \* bound on what the processes do during one reading

Pids == 1..LastPid

\* /proc/net/tcp, tcp6, udp and udp6, in the order they are read.
Tables == 1..4
IsTcp(table) == table <= 2

NoPid == 0
NoSocket == "none"  \* where a descriptor leads that is closed or no socket's
Nobody == "nobody"  \* no process, or a file with nothing to be read
Unread == "unread"  \* a file still to be read

ASSUME SocketsAssumption ==
    /\ IsFiniteSet(Inodes) /\ NoSocket \notin Inodes
    /\ LastPid \in Nat /\ MaxChanges \in Nat
    /\ Private \subseteq Programs
    /\ Nobody \notin Programs /\ Unread \notin Programs
    /\ Socket \in [Inodes -> [table : Tables,
                              state : {"Listen", "Established", "Other"},
                              peer : BOOLEAN,
                              addr : {"unspecified", "loopback", "other"},
                              port : Nat]]

VARIABLES
    program,      \* what runs under each pid
    leads,        \* for each pid, the socket each descriptor leads to
    changes,      \* what the processes did since the reading began (a bound)
    step,         \* where collect() is
    table,        \* the table to be read next
    bound,        \* sockets found bound for input, row by row
    established,  \* sockets counted as connections
    pid, fds,     \* the process looked at, and its descriptors not yet read
    found,        \* the map socket_owners() fills: inode to pid
    rows,         \* listeners put together so far
    listeners,    \* App::listeners
    kept,         \* sockets open since the reading began (not in the code)
    steady,       \* <<pid, fd, inode>>: what led there since then (not in the code)
    held,         \* <<pid, program, inode>>: who had it open since (not in the code)
    recycled      \* pids that got another program since (not in the code)

processVars == <<program, leads, changes>>
readerVars == <<step, table, bound, established, pid, fds, found, rows>>
seenVars == <<kept, steady, held, recycled>>
socketVars == <<processVars, readerVars, listeners, seenVars>>

Closed == [fd \in Fds |-> NoSocket]

Holds(p, i) == \E fd \in Fds : leads[p][fd] = i

OpenSockets == {i \in Inodes : \E p \in Pids : Holds(p, i)}

Held == {h \in Pids \X Programs \X Inodes : h[2] = program[h[1]] /\ Holds(h[1], h[3])}

\* Any processes with any sockets.
SocketsInit ==
    /\ program \in [Pids -> Programs \cup {Nobody}]
    /\ leads \in [Pids -> [Fds -> Inodes \cup {NoSocket}]]
    /\ \A p \in Pids : program[p] = Nobody => leads[p] = Closed
    /\ changes = 0
    /\ step = "tables" /\ table = 1 /\ bound = <<>> /\ established = {}
    /\ pid = NoPid /\ fds = {} /\ found = [i \in Inodes |-> NoPid] /\ rows = <<>>
    /\ listeners = <<>>
    /\ kept = OpenSockets
    /\ steady = {h \in Pids \X Fds \X Inodes : leads[h[1]][h[2]] = h[3]}
    /\ held = Held /\ recycled = {}

-------------------------------------------------------------------------------
(* The processes.                                                          *)

Reading == step \notin {"done", "failed"}

\* A descriptor is opened, closed, or put in the place of another: a new socket, one
\* that another process hands over, or one the process has already.
Redirect(p, fd, target) ==
    /\ program[p] # Nobody /\ leads[p][fd] # target
    /\ leads' = [leads EXCEPT ![p][fd] = target]
    /\ UNCHANGED <<program, recycled>>

Exit(p) ==
    /\ program[p] # Nobody
    /\ program' = [program EXCEPT ![p] = Nobody]
    /\ leads' = [leads EXCEPT ![p] = Closed]
    /\ UNCHANGED recycled

\* What is left of a process's descriptors when some are closed.
Without(descriptors, closed) ==
    [fd \in Fds |-> IF fd \in closed THEN NoSocket ELSE descriptors[fd]]

\* A free pid is given to a child, with what it inherits of its parent's descriptors.
Start(p, prog) ==
    /\ program[p] = Nobody
    /\ program' = [program EXCEPT ![p] = prog]
    /\ \E parent \in Pids, closed \in SUBSET Fds :
          leads' = [leads EXCEPT ![p] = Without(leads[parent], closed)]
    /\ recycled' = recycled \cup {p}

\* Another program takes over the process, and the descriptors not closed on exec.
Exec(p, prog) ==
    /\ program[p] \notin {Nobody, prog}
    /\ program' = [program EXCEPT ![p] = prog]
    /\ \E closed \in SUBSET Fds :
          leads' = [leads EXCEPT ![p] = Without(leads[p], closed)]
    /\ recycled' = recycled \cup {p}

ProcessStep ==
    /\ Reading /\ changes < MaxChanges
    /\ changes' = changes + 1
    /\ \E p \in Pids :
          \/ \E fd \in Fds, target \in Inodes \cup {NoSocket} : Redirect(p, fd, target)
          \/ Exit(p)
          \/ \E prog \in Programs : Start(p, prog) \/ Exec(p, prog)
    /\ kept' = kept \cap OpenSockets'
    /\ steady' = {h \in steady : leads'[h[1]][h[2]] = h[3]}
    /\ held' = held \cup Held'
    /\ UNCHANGED <<readerVars, listeners>>

\* The reading is over: its locals are gone, and the processes are followed no further.
Forget ==
    /\ program' = [p \in Pids |-> Nobody] /\ leads' = [p \in Pids |-> Closed] /\ changes' = 0
    /\ table' = 1 /\ bound' = <<>> /\ established' = {}
    /\ pid' = NoPid /\ fds' = {} /\ found' = [i \in Inodes |-> NoPid] /\ rows' = <<>>
    /\ kept' = {} /\ steady' = {} /\ held' = {} /\ recycled' = {}

-------------------------------------------------------------------------------
(* collect(): the tables.                                                  *)

\* Accepting or receiving: UDP has no listen state, so a socket with no peer.
IsBoundForInput(i) ==
    IF IsTcp(Socket[i].table) THEN Socket[i].state = "Listen" ELSE ~Socket[i].peer

IsConnection(i) == IsTcp(Socket[i].table) /\ Socket[i].state = "Established"

\* The rows of a table; lines that do not parse are skipped.
ParseTable(t) == {i \in OpenSockets : Socket[i].table = t}

\* The table lists its rows in any order.
ReadTable ==
    /\ step = "tables"
    /\ LET listed == ParseTable(table)
           accepting == {i \in listed : IsBoundForInput(i)}
       IN  /\ \E order \in Bijection(1..Cardinality(accepting), accepting) :
                 bound' = bound \o order
           /\ established' =
                 established \cup {i \in listed : ~IsBoundForInput(i) /\ IsConnection(i)}
    /\ step' = IF table < 4 THEN "tables" ELSE IF bound' = <<>> THEN "names" ELSE "walk"
    /\ table' = table + 1
    /\ UNCHANGED <<processVars, pid, fds, found, rows, listeners, seenVars>>

\* No table can be read: no /proc, or not Linux.
CannotRead ==
    /\ step = "tables" /\ table = 1
    /\ step' = "failed" /\ listeners' = <<>>
    /\ Forget

-------------------------------------------------------------------------------
(* socket_owners(): the processes in order, the descriptors in any order.  *)

Readable(p) == program[p] \notin Private \cup {Nobody}

Wanted == Range(bound)

\* The next process whose descriptors can be listed; the rest are passed over.  Those
\* that lead to no socket are listed too.
NextProcess ==
    /\ step = "walk" /\ fds = {}
    /\ IF \E p \in Pids : p > pid /\ Readable(p)
       THEN \E p \in Pids :
               /\ p > pid /\ Readable(p) /\ \A q \in Pids : pid < q /\ q < p => ~Readable(q)
               /\ pid' = p
               /\ fds' \in SUBSET Fds /\ \A fd \in Fds : leads[p][fd] # NoSocket => fd \in fds'
               /\ UNCHANGED step
       ELSE step' = "names" /\ UNCHANGED <<pid, fds>>
    /\ UNCHANGED <<processVars, table, bound, established, found, rows, listeners, seenVars>>

\* Faulty: one socket to go is taken for none.
AttributedEarly(owners) ==
    Cardinality({i \in Wanted : owners[i] # NoPid}) + 1 >= Cardinality(Wanted)

\* Every socket has its process: the walk stops there.
Attributed(owners) == \A i \in Wanted : owners[i] # NoPid

\* Where a descriptor of pid leads by now, if it can be followed.
Target(fd) == IF Readable(pid) THEN leads[pid][fd] ELSE NoSocket

ReadLink(fd) ==
    /\ step = "walk" /\ fd \in fds
    /\ found' = IF Target(fd) \in Wanted THEN [found EXCEPT ![Target(fd)] = pid] ELSE found
    /\ IF Target(fd) \in Wanted /\ Attributed(found')
       THEN step' = "names" /\ fds' = {}
       ELSE fds' = fds \ {fd} /\ UNCHANGED step
    /\ UNCHANGED <<processVars, table, bound, established, pid, rows, listeners, seenVars>>

-------------------------------------------------------------------------------
(* The rows: who each process is, then the order of the list.              *)

\* Faulty: the process looked at last is asked instead of the owner.
AskedLast(i) == pid

\* The process a row's name and command line are read from.
Asked(i) == found[i]

\* comm and cmdline of a process, which anyone may read while it runs.
Text(p, unreadable) ==
    IF p = NoPid \/ program[p] \in unreadable THEN Nobody ELSE program[p]

Connections(i) == Cardinality({c \in established : Socket[c].port = Socket[i].port})

NamesRead == \A k \in DOMAIN rows : rows[k].command # Unread

\* process_name
ReadName ==
    /\ step = "names" /\ Len(rows) < Len(bound) /\ NamesRead
    /\ LET i == bound[Len(rows) + 1]
       IN  rows' = Append(rows, [inode |-> i, pid |-> found[i], connections |-> Connections(i),
                                 process |-> Text(Asked(i), Nameless), command |-> Unread])
    /\ UNCHANGED <<processVars, step, table, bound, established, pid, fds, found,
                   listeners, seenVars>>

\* process_command
ReadCommand ==
    /\ ~NamesRead
    /\ rows' = [rows EXCEPT ![Len(rows)].command = Text(Asked(rows[Len(rows)].inode), Bare)]
    /\ UNCHANGED <<processVars, step, table, bound, established, pid, fds, found,
                   listeners, seenVars>>

\* Exposure::of, least to most.
Exposure(i) ==
    CASE Socket[i].addr = "unspecified" -> 3
      [] Socket[i].addr = "loopback" -> 1
      [] OTHER -> 2

\* sort_listeners: most exposed, most connected, lowest port, then the protocol.
Precedes(r, s) ==
    \/ Exposure(r.inode) > Exposure(s.inode)
    \/ /\ Exposure(r.inode) = Exposure(s.inode)
       /\ \/ r.connections > s.connections
          \/ /\ r.connections = s.connections
             /\ \/ Socket[r.inode].port < Socket[s.inode].port
                \/ /\ Socket[r.inode].port = Socket[s.inode].port
                   /\ Socket[r.inode].table < Socket[s.inode].table

\* What the row shows: the command line, else the name, else only the pid.
DescribeProcess(row) == IF row.command # Nobody THEN row.command ELSE row.process

\* The order of a stable sort.
Sorted(order) ==
    \A j, k \in DOMAIN order : j < k =>
        /\ ~Precedes(rows[order[k]], rows[order[j]])
        /\ Precedes(rows[order[j]], rows[order[k]]) \/ order[j] < order[k]

Return ==
    /\ step = "names" /\ Len(rows) = Len(bound) /\ NamesRead
    /\ step' = "done"
    /\ \E order \in Bijection(DOMAIN rows, DOMAIN rows) :
          Sorted(order) /\ listeners' = [k \in DOMAIN rows |-> rows[order[k]]]
    /\ Forget

Collect ==
    \/ ReadTable \/ CannotRead
    \/ NextProcess \/ \E fd \in Fds : ReadLink(fd)
    \/ ReadName \/ ReadCommand \/ Return

SocketsNext == ProcessStep \/ Collect

-------------------------------------------------------------------------------
(* Properties                                                              *)

Listed(i) == {k \in DOMAIN listeners' : listeners'[k].inode = i}

\* A socket that listened all through the reading is listed once, whatever else came
\* and went and whichever processes had it; with a process, if one that can be read had
\* it all along behind the same descriptor; and every connection on its port that lasted
\* is counted.
SteadyListed ==
    [][Return => \A i \in kept :
          LET Owned == \E h \in steady : h[3] = i /\ Readable(h[1]) /\ h[1] \notin recycled
          IN  IsBoundForInput(i) =>
                 /\ Cardinality(Listed(i)) = 1
                 /\ \A k \in Listed(i) :
                       /\ Owned => listeners'[k].pid # NoPid
                       /\ listeners'[k].connections >=
                             Cardinality({c \in kept : IsConnection(c)
                                             /\ Socket[c].port = Socket[i].port})]_socketVars

\* A pid on a row had the row's socket open during the reading, and what the row shows
\* of it is true of the program that had, unless the pid changed hands meanwhile.
NamesOwner ==
    [][Return => \A k \in DOMAIN listeners' :
          LET row == listeners'[k]
              Had(prog) == <<row.pid, prog, row.inode>> \in held
          IN  IF row.pid = NoPid
              THEN DescribeProcess(row) = Nobody
              ELSE /\ \E prog \in Programs : Had(prog)
                   /\ row.pid \notin recycled =>
                         \A text \in {row.process, row.command} \ {Nobody} : Had(text)]_socketVars
===============================================================================

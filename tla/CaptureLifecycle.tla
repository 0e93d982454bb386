--------------------------- MODULE CaptureLifecycle ---------------------------
(***************************************************************************)
(* What a capture promises the person watching it, whatever the threads,   *)
(* the channel and the stop protocol do underneath: packets are counted    *)
(* only while the capture is live, their numbers only grow within one      *)
(* capture, a failure is never relabelled as an ordinary end, and only a   *)
(* capture that was live can end as "Stopped".                             *)
(*                                                                         *)
(* CaptureSession implements this specification (Lifecycle there).         *)
(***************************************************************************)
EXTENDS Naturals

VARIABLES
    status,  \* the status word shown in the header
    total,   \* packets counted since the capture was started
    last     \* number of the newest packet counted, 0 before the first

vars == <<status, total, last>>

Init == status = "Idle" /\ total = 0 /\ last = 0

\* A capture, the first or the next one, begins with fresh counters.
Start == status' = "Starting" /\ total' = 0 /\ last' = 0

GoLive == status = "Starting" /\ status' = "Running" /\ UNCHANGED <<total, last>>

Deliver ==
    /\ status = "Running"
    /\ last' \in Nat
    /\ last' > last
    /\ total' = total + 1
    /\ UNCHANGED status

Fail ==
    /\ status \in {"Starting", "Running"}
    /\ status' = "Error"
    /\ UNCHANGED <<total, last>>

Finish == status = "Running" /\ status' = "Stopped" /\ UNCHANGED <<total, last>>

Leave == status' = "Idle" /\ UNCHANGED <<total, last>>

Next == Start \/ GoLive \/ Deliver \/ Fail \/ Finish \/ Leave

Spec == Init /\ [][Next]_vars
===============================================================================

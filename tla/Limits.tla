-------------------------------- MODULE Limits --------------------------------
(***************************************************************************)
(* How much memory the packets may take: the clamping of --buffer against  *)
(* --memory (src/cli.rs) and what one retained packet costs                *)
(* (src/packet.rs).  The constants of the code are parameters, so that     *)
(* small ones can be checked and all of them reasoned about; arithmetic is *)
(* modulo Usize, the size of a machine word.                               *)
(***************************************************************************)
EXTENDS Integers

CONSTANTS
    MIN_BUFFER,        \* floor on the ring
    MIN_MEMORY_MB, MAX_MEMORY_MB,
    MiB,               \* bytes in a MiB
    MAX_STORED_BYTES,  \* bytes kept of a packet
    STRING_ALLOWANCE,  \* what the two strings of a packet are expected to take
    PACKET_SIZE,       \* size_of::<Packet>()
    Usize              \* values of a machine word

WORST_CASE_PACKET_BYTES == PACKET_SIZE + MAX_STORED_BYTES + STRING_ALLOWANCE

\* What the values in the code satisfy on the 64-bit platforms there are builds for:
\* the floor fits the smallest budget and the largest one fits a machine word.
ASSUME LimitsAssumption ==
    /\ MIN_BUFFER \in Nat \ {0} /\ MIN_MEMORY_MB \in Nat \ {0} /\ MAX_MEMORY_MB \in Nat
    /\ MiB \in Nat \ {0} /\ Usize \in Nat
    /\ MAX_STORED_BYTES \in Nat /\ STRING_ALLOWANCE \in Nat /\ PACKET_SIZE \in Nat \ {0}
    /\ MIN_MEMORY_MB <= MAX_MEMORY_MB
    /\ MIN_BUFFER * WORST_CASE_PACKET_BYTES <= MIN_MEMORY_MB * MiB
    /\ MAX_MEMORY_MB * MiB < Usize

AtLeast(n, low) == IF n < low THEN low ELSE n
AtMost(n, high) == IF n > high THEN high ELSE n

-------------------------------------------------------------------------------
(* Args::validated                                                         *)

Budget(memory) == AtMost(AtLeast(memory, MIN_MEMORY_MB), MAX_MEMORY_MB)

Bytes(memory) == (Budget(memory) * MiB) % Usize

Requested(buffer) == AtLeast(buffer, MIN_BUFFER)

Affordable(memory) == AtLeast(Bytes(memory) \div WORST_CASE_PACKET_BYTES, MIN_BUFFER)

\* The buffer, the budget it was cut to, and whether a notice says that it was.
Validated(buffer, memory) ==
    LET granted == AtMost(Requested(buffer), Affordable(memory))
    IN  [buffer |-> granted,
         memory |-> Budget(memory),
         notice |-> granted < Requested(buffer)]

-------------------------------------------------------------------------------
(* decode: the bytes kept of a packet of len bytes, and what the packet    *)
(* takes with its two strings, info and search, which nothing cuts.        *)

\* Faulty: the whole packet is kept.
WholePacket(len) == len

Stored(len) == AtMost(len, MAX_STORED_BYTES)

Footprint(len, strings) == PACKET_SIZE + Stored(len) + strings
===============================================================================

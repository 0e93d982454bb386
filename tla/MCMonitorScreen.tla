---------------------------- MODULE MCMonitorScreen ---------------------------
(* Small instances of MonitorScreen for TLC. *)
EXTENDS MonitorScreen, TLC

CONSTANTS short, long

\* One packet that is cut and has the longest strings expected, and one that is kept
\* whole, nearly as long, and has longer ones.
MCDataLen == [c \in Contents |-> IF c = long THEN 6 ELSE 3]
MCStringsLen == [c \in Contents |-> IF c = long THEN 1 ELSE 3]

ProtoSymmetry == Permutations(Protos)
===============================================================================

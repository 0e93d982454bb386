----------------------------- MODULE MCPacketRing -----------------------------
(* Small instances of PacketRing for TLC. *)
EXTENDS PacketRing, TLC

RingSymmetry == Permutations(Protos) \cup Permutations(Contents)
===============================================================================

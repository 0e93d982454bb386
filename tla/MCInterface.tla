---------------------------- MODULE MCInterface ----------------------------
(* Small instances of Interface for TLC: a text that finds one device and     *)
(* one socket, typed in either case.                                          *)
EXTENDS Interface

CONSTANTS eth, lo, ssh, dns, lower, upper

MCLower == [t \in Texts |-> IF t = upper THEN lower ELSE t]
MCFinds == [t \in Texts |-> CASE t = Blank -> {eth, lo, ssh, dns}
                              [] t = lower -> {eth, ssh}
                              [] t = upper -> {}]
=============================================================================

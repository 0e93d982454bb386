---------------------------- MODULE MCFilterForm ----------------------------
(* Small instances of FilterForm for TLC. *)
EXTENDS FilterForm

MCAllProtos == <<"Arp">>
MCAllSides == <<"Either", "Source">>
MCWithin == [t \in Parts |-> {}]
MCRawPrograms == {<<>>, And("arp", Unset)}
=============================================================================

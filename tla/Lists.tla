-------------------------------- MODULE Lists --------------------------------
(***************************************************************************)
(* What the lists on screen are made of: entries without repetition, and   *)
(* the places of those that a query or a filter lets through, in order.    *)
(***************************************************************************)
EXTENDS Functions, FiniteSets

\* The lists of some of the entries, in any order.
Listings(entries) == UNION {Injection(1..n, entries) : n \in 0..Cardinality(entries)}

\* The r-th smallest member of a set of places.
Nth(places, r) == CHOOSE i \in places : Cardinality({j \in places : j <= i}) = r

\* The places of a set, from the smallest up: what a filter over an index collects.
Collected(places) == [r \in 1..Cardinality(places) |-> Nth(places, r)]
==============================================================================

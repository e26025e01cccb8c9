------------------------------ MODULE MCResolver ------------------------------
(***************************************************************************)
(* A small instance of the resolver: three names, so that a chain can be   *)
(* as long as the limit of two or longer, a loop of three names, and a     *)
(* name out of its active phase.                                           *)
(***************************************************************************)
EXTENDS Resolver

CONSTANTS n1, n2, n3, a1, a2

A(a) == [addr |-> a, cname |-> Nothing, active |-> TRUE]
Alias(n) == [addr |-> Nothing, cname |-> n, active |-> TRUE]

MCNames == {n1, n2, n3}
MCAddrs == {a1, a2}

MCChoices ==
  [n \in MCNames |->
     CASE n = n1 -> {A(a1), Alias(n2)}
       [] n = n2 -> {A(a2), Alias(n3), [A(a2) EXCEPT !.active = FALSE]}
       [] n = n3 -> {Alias(n1)}]

MCQuestions == {<<n1, "A">>, <<n1, "CNAME">>}

\* On both sides of zero, of a slot and of the word.
MCCacheTTLs == {-1, 0, 1, SlotInterval + 1, Word}

=============================================================================

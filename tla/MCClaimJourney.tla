--------------------------- MODULE MCClaimJourney ---------------------------
(***************************************************************************)
(* Instances of ClaimJourney for TLC: parameters around zero.              *)
(***************************************************************************)
EXTENDS ClaimJourney

Wanted(count, split, selector) == [count |-> count, split |-> split, selector |-> selector]

AroundZero ==
  {Wanted(n, p, m) : n \in {-1, 0, 1, 2}, p \in {-1, 1, 2}, m \in {"absent", "ultra10"}}
    \cup {Wanted(1, 0, "empty")}
=============================================================================

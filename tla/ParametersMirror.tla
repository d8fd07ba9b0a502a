-------------------------- MODULE ParametersMirror --------------------------
(***************************************************************************)
(* What the controller promises of each FakeClaimParameters object: the    *)
(* scheduler is given its versions one after the other, perhaps with gaps, *)
(* and in the end the one that is wanted, or the object counts as lost     *)
(* until the next attempt succeeds.  There are no events, requests,        *)
(* revisions or restarts.                                                  *)
(***************************************************************************)
EXTENDS Integers

CONSTANTS Names, Versions

VARIABLES
  wanted,   \* wanted[n]: the version of object n, 0 before there is any
  given,    \* given[n]: the version the scheduler finds
  lost      \* the objects whose last attempt failed

vars == <<wanted, given, lost>>

Init ==
  /\ wanted = [n \in Names |-> 0]
  /\ given = [n \in Names |-> 0]
  /\ lost = {}

Write(n) ==
  /\ \E v \in Versions : v > wanted[n] /\ wanted' = [wanted EXCEPT ![n] = v]
  /\ UNCHANGED <<given, lost>>

\* An attempt: forward, to what is wanted or was since the last one.
Translate(n) ==
  /\ \E v \in given[n]..wanted[n] : given' = [given EXCEPT ![n] = v]
  /\ lost' = lost \ {n}
  /\ UNCHANGED wanted

\* An attempt that fails, or of which nobody knows that it did not.
Lose(n) ==
  /\ \E v \in given[n]..wanted[n] : given' = [given EXCEPT ![n] = v]
  /\ lost' = lost \cup {n}
  /\ UNCHANGED wanted

Next == \E n \in Names : Write(n) \/ Translate(n) \/ Lose(n)

\* No object stays behind: again and again it is what is wanted, or lost.  An
\* object is written finitely often, so it ends like that.
Progress == \A n \in Names : []<>(given[n] = wanted[n] \/ n \in lost)

Safety == Init /\ [][Next]_vars

Spec == Safety /\ Progress
=============================================================================

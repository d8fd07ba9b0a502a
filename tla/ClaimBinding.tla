---------------------------- MODULE ClaimBinding ---------------------------
(***************************************************************************)
(* What the kubelet plugin promises its callers, without the plugin: a     *)
(* table that binds claims to devices, read and written by one claim at a  *)
(* time, as if each claim of each request were handled in a single step.   *)
(*                                                                         *)
(* A bound claim keeps its devices until it is unbound: every Prepare of   *)
(* it gets the same answer, whatever handle it comes with.  A claim is     *)
(* unbound by a successful Unprepare or by the death of the process.       *)
(***************************************************************************)
EXTENDS NodeMessages

CONSTANT Calls

VARIABLES
  up,        \* the service is there
  bound,     \* bound[c]: the devices of claim c
  op,        \* op[k]: the RPC that call k serves
  todo,      \* todo[k]: the claims of the request still to be handled
  answers    \* answers[k]: the answers to those that have been

vars == <<up, bound, op, todo, answers>>

Init ==
  /\ up = FALSE
  /\ bound = EmptyMap
  /\ op = [k \in Calls |-> "none"]
  /\ todo = [k \in Calls |-> <<>>]
  /\ answers = [k \in Calls |-> EmptyMap]

Start ==
  /\ ~up
  /\ up' = TRUE
  /\ UNCHANGED <<bound, op, todo, answers>>

\* Nothing survives, and nobody is answered.
Die ==
  /\ up' = FALSE
  /\ bound' = EmptyMap
  /\ op' = [k \in Calls |-> "none"]
  /\ todo' = [k \in Calls |-> <<>>]
  /\ answers' = [k \in Calls |-> EmptyMap]

Receive(k, rpc, requests) ==
  /\ up
  /\ op[k] = "none"
  /\ op' = [op EXCEPT ![k] = rpc]
  /\ \E r \in requests : todo' = [todo EXCEPT ![k] = r]
  /\ UNCHANGED <<up, bound, answers>>

Respond(k) ==
  /\ op[k] # "none"
  /\ todo[k] = <<>>
  /\ op' = [op EXCEPT ![k] = "none"]
  /\ answers' = [answers EXCEPT ![k] = EmptyMap]
  /\ UNCHANGED <<up, bound, todo>>

\* The next claim of call k is answered.
Reply(k, answer) ==
  /\ answers' = [answers EXCEPT ![k] = Put(@, Head(todo[k]).uid, answer)]
  /\ todo' = [todo EXCEPT ![k] = Tail(@)]
  /\ UNCHANGED <<up, op>>

\* A claim is bound to what its handle names, or nothing has happened.
Prepare(k) ==
  LET c == Head(todo[k]).uid
      handle == Head(todo[k]).handle
  IN
  /\ op[k] = "prepare"
  /\ todo[k] # <<>>
  /\ \/ /\ c \in DOMAIN bound
        /\ Reply(k, Success(ClaimDevices(bound[c])))
        /\ UNCHANGED bound
     \/ /\ c \notin DOMAIN bound
        /\ Reply(k, Failure)
        /\ UNCHANGED bound
     \/ /\ c \notin DOMAIN bound
        /\ handle.kind = "ok"
        /\ RequestedDevices(handle) \subseteq Allocatable
        /\ bound' = Put(bound, c, PreparedFakes(handle))
        /\ Reply(k, Success(ClaimDevices(PreparedFakes(handle))))

\* Unprepare never fails on a claim that is not bound.
Unprepare(k) ==
  LET c == Head(todo[k]).uid IN
  /\ op[k] = "unprepare"
  /\ todo[k] # <<>>
  /\ \/ /\ Reply(k, Success({}))
        /\ bound' = Delete(bound, c)
     \/ /\ c \in DOMAIN bound
        /\ Reply(k, Failure)
        /\ UNCHANGED bound

Next ==
  \/ Start
  \/ Die
  \/ \E k \in Calls :
       \/ Receive(k, "prepare", PrepareRequests)
       \/ Receive(k, "unprepare", UnprepareRequests)
       \/ Prepare(k)
       \/ Unprepare(k)
       \/ Respond(k)

Spec == Init /\ [][Next]_vars
=============================================================================

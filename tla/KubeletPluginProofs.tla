------------------------ MODULE KubeletPluginProofs ------------------------
(***************************************************************************)
(* Theorems about KubeletPlugin, for every number of devices, claims and   *)
(* calls, every set of handles and every bound.                            *)
(***************************************************************************)
EXTENDS KubeletPlugin, SequenceTheorems, TLAPS

-----------------------------------------------------------------------------
(***************************************************************************)
(* Maps, devices and requests.                                             *)
(***************************************************************************)

\* The empty map is a map.
LEMMA EmptyMapType ==
  ASSUME NEW K, NEW V
  PROVE  IsMap(EmptyMap, K, V) /\ DOMAIN EmptyMap = {}
BY DEF IsMap, EmptyMap

\* What an assignment to a Go map does to its keys and values.
LEMMA PutType ==
  ASSUME NEW K, NEW V, NEW m, IsMap(m, K, V), NEW x \in K, NEW v \in V
  PROVE  /\ IsMap(Put(m, x, v), K, V)
         /\ DOMAIN Put(m, x, v) = DOMAIN m \cup {x}
         /\ Put(m, x, v)[x] = v
         /\ \A y \in DOMAIN m : y # x => Put(m, x, v)[y] = m[y]
BY DEF IsMap, Put

\* What deleting a key of a Go map does to the others.
LEMMA DeleteType ==
  ASSUME NEW K, NEW V, NEW m, IsMap(m, K, V), NEW x
  PROVE  /\ IsMap(Delete(m, x), K, V)
         /\ DOMAIN Delete(m, x) = DOMAIN m \ {x}
         /\ \A y \in DOMAIN m : y # x => Delete(m, x)[y] = m[y]
BY DEF IsMap, Delete

\* The name the scheduler allocates leads back to a well-formed UUID.
LEMMA FakeUUIDType ==
  ASSUME NEW n \in Names
  PROVE  FakeUUID(n) \in Fakes
BY DEF FakeUUID, Names, Fakes

\* Generated UUIDs are well formed.
LEMMA GeneratedType ==
  ASSUME NEW seed \in Seq(Nat), NEW count \in Int
  PROVE  GenerateUUIDs(seed, count) \subseteq Fakes
<1> SUFFICES ASSUME NEW i \in 1..count
             PROVE  [prefix |-> "FAKE-", path |-> Append(seed, i)] \in Fakes
  BY DEF GenerateUUIDs
<1>1. i \in Nat
  OBVIOUS
<1>2. Append(seed, i) \in Seq(Nat)
  BY <1>1
<1> QED
  BY <1>2 DEF Fakes

\* The devices prepared for a claim are well formed.
LEMMA PreparedFakesType ==
  ASSUME NEW h \in Handle
  PROVE  PreparedFakes(h) \subseteq Fakes
<1>1. h.split \in Int /\ h.names \subseteq Names
  BY DEF Handle
<1>2. RequestedDevices(h) \subseteq Fakes
  BY <1>1, FakeUUIDType DEF RequestedDevices
<1>3. \A d \in RequestedDevices(h) : SplitFakes(d, h.split) \subseteq Fakes
  <2> SUFFICES ASSUME NEW d \in RequestedDevices(h)
               PROVE  SplitFakes(d, h.split) \subseteq Fakes
    OBVIOUS
  <2>1. d.path \in Seq(Nat)
    BY <1>2 DEF Fakes
  <2> QED
    BY <1>1, <2>1, GeneratedType DEF SplitFakes
<1> QED
  BY <1>2, <1>3 DEF PreparedFakes

\* What is answered for well-formed devices is an answer.
LEMMA AnswerType ==
  /\ Failure \in Answer
  /\ Success({}) \in Answer
  /\ \A fakes \in SUBSET Fakes : Success(ClaimDevices(fakes)) \in Answer
BY DEF Failure, Success, Answer, ClaimDevices, CDIDevices

\* A claim of a request has a UID and a handle.
LEMMA ClaimRequestType ==
  ASSUME NEW r \in ClaimRequest
  PROVE  r.uid \in Claims /\ r.handle \in Handle
BY HandleAssumption DEF ClaimRequest, NoHandle, Handle

\* Requests are sequences of claims.
LEMMA RequestType ==
  ASSUME NEW r \in PrepareRequests \cup UnprepareRequests
  PROVE  r \in Seq(ClaimRequest)
<1>1. PICK n \in 1..MaxBatch : r \in [1..n -> ClaimRequest]
  BY DEF PrepareRequests, UnprepareRequests, ClaimRequest
<1>2. n \in Nat
  BY BatchAssumption
<1> QED
  BY <1>1, <1>2

-----------------------------------------------------------------------------
(***************************************************************************)
(* Type correctness.                                                       *)
(***************************************************************************)

\* The claim that is handled next, while there is one.
LEMMA NextClaimType ==
  ASSUME TypeOK, NEW k \in Calls, todo[k] # <<>>
  PROVE  /\ Claim(k) \in Claims
         /\ HandleOf(k) \in Handle
         /\ Tail(todo[k]) \in Seq(ClaimRequest)
<1>1. todo[k] \in Seq(ClaimRequest)
  BY DEF TypeOK
<1>2. Head(todo[k]) \in ClaimRequest /\ Tail(todo[k]) \in Seq(ClaimRequest)
  BY <1>1, HeadTailProperties
<1> QED
  BY <1>2, ClaimRequestType DEF Claim, HandleOf

\* The deferred unlocks, the answer and the step to the next claim.
LEMMA FinishType ==
  ASSUME TypeOK, NEW k \in Calls, todo[k] # <<>>, NEW answer \in Answer,
         Finish(k, answer)
  PROVE  /\ driverMu' \in Calls \cup {NoCall}
         /\ stateMu' \in Calls \cup {NoCall}
         /\ pc' \in [Calls -> Locations]
         /\ todo' \in [Calls -> Seq(ClaimRequest)]
         /\ answers' = [j \in Calls |-> answers'[j]]
         /\ \A j \in Calls : IsMap(answers'[j], Claims, Answer)
<1>1. driverMu' = NoCall /\ stateMu' = NoCall
  BY DEF Finish
<1>2. pc' \in [Calls -> Locations]
  BY DEF Finish, TypeOK, Locations
<1>3. todo' \in [Calls -> Seq(ClaimRequest)]
  BY NextClaimType DEF Finish, TypeOK
<1>4. answers' = [j \in Calls |-> answers'[j]]
  BY DEF Finish, TypeOK
<1>5. IsMap(Put(answers[k], Claim(k), answer), Claims, Answer)
  BY NextClaimType, PutType DEF TypeOK
<1>6. \A j \in Calls : IsMap(answers'[j], Claims, Answer)
  BY <1>5 DEF Finish, TypeOK
<1> QED
  BY <1>1, <1>2, <1>3, <1>4, <1>6

\* Death of the process.
LEMMA DieType ==
  ASSUME TypeOK, Die
  PROVE  TypeOK'
<1>1. \A K, V : IsMap(EmptyMap, K, V)
  BY EmptyMapType
<1>2. /\ up' = FALSE
      /\ driverMu' = NoCall
      /\ stateMu' = NoCall
  BY DEF Die
<1>3. crashes' \in Nat
  <2>1. crashes' = crashes + 1
    BY DEF Die
  <2>2. crashes \in Nat
    BY DEF TypeOK
  <2> QED
    BY <2>1, <2>2
<1>4. /\ pc' \in [Calls -> Locations]
      /\ op' \in [Calls -> {"none", "prepare", "unprepare"}]
  BY DEF Die, Locations
<1>5. IsMap(prepared', Claims, SUBSET Fakes)
  BY <1>1 DEF Die
<1>6. common' = common /\ specs' = specs /\ orphans' \in SUBSET Claims
  BY DEF Die, TypeOK, IsMap, disk
<1>7. todo' \in [Calls -> Seq(ClaimRequest)]
  BY DEF Die
<1>8. /\ answers' = [j \in Calls |-> answers'[j]]
      /\ \A j \in Calls : IsMap(answers'[j], Claims, Answer)
  BY <1>1 DEF Die
<1> QED
  BY <1>2, <1>3, <1>4, <1>5, <1>6, <1>7, <1>8 DEF TypeOK

\* The initial state is well typed.
LEMMA InitType == Init => TypeOK
<1> SUFFICES ASSUME Init PROVE TypeOK
  OBVIOUS
<1>1. IsMap(specs, Claims, SUBSET Fakes) /\ IsMap(prepared, Claims, SUBSET Fakes)
  BY EmptyMapType DEF Init
<1>2. /\ pc \in [Calls -> Locations]
      /\ op \in [Calls -> {"none", "prepare", "unprepare"}]
  BY DEF Init, Locations
<1>3. todo \in [Calls -> Seq(ClaimRequest)]
  BY DEF Init
<1>4. /\ answers = [k \in Calls |-> answers[k]]
      /\ \A k \in Calls : IsMap(answers[k], Claims, Answer)
  BY EmptyMapType DEF Init
<1> QED
  BY <1>1, <1>2, <1>3, <1>4 DEF Init, TypeOK

\* Every step keeps the types; a handler needs to know that it has a claim.
LEMMA NextType ==
  ASSUME TypeOK, CallInv, [Next]_vars
  PROVE  TypeOK'
<1> USE DEF disk, mutexes, calls
<1>0. \A K, V : IsMap(EmptyMap, K, V)
  BY EmptyMapType
<1>1. CASE Start
  BY <1>0, <1>1 DEF Start, NewDeviceState, TypeOK
<1>2. CASE Crash
  BY <1>2, DieType DEF Crash
<1>3. ASSUME NEW k \in Calls, NEW rpc \in {"prepare", "unprepare"},
             NEW r \in PrepareRequests \cup UnprepareRequests, Receive(k, rpc, r)
      PROVE  TypeOK'
  BY <1>3, RequestType DEF Receive, TypeOK, Locations
<1>4. ASSUME NEW k \in Calls, LockDriver(k)
      PROVE  TypeOK'
  BY <1>4 DEF LockDriver, TypeOK, Locations
<1>5. ASSUME NEW k \in Calls, CheckPrepared(k)
      PROVE  TypeOK'
  <2>1. todo[k] # <<>>
    BY <1>5 DEF CheckPrepared, CallInv, InHandler
  <2>2. /\ up' = up /\ common' = common /\ specs' = specs /\ prepared' = prepared
        /\ op' = op /\ crashes' = crashes /\ orphans' = orphans
    BY <1>5 DEF CheckPrepared
  <2>3. IsPrepared(Claim(k)) => Success(ClaimDevices(prepared[Claim(k)])) \in Answer
    BY AnswerType DEF TypeOK, IsMap, IsPrepared
  <2>4. CASE \E answer \in Answer : Finish(k, answer)
    BY <2>1, <2>2, <2>4, FinishType DEF TypeOK
  <2>5. CASE pc' = [pc EXCEPT ![k] = "store"] /\ UNCHANGED <<mutexes, todo, answers>>
    BY <2>2, <2>5 DEF TypeOK, Locations
  <2> QED
    BY <1>5, <2>3, <2>4, <2>5, AnswerType DEF CheckPrepared
<1>6. ASSUME NEW k \in Calls, StoreSpec(k)
      PROVE  TypeOK'
  <2>1. todo[k] # <<>>
    BY <1>6 DEF StoreSpec, CallInv, InHandler
  <2>2. /\ up' = up /\ common' = common /\ prepared' = prepared
        /\ op' = op /\ crashes' = crashes
    BY <1>6 DEF StoreSpec
  <2>3. IsPrepared(Claim(k)) => Success(ClaimDevices(prepared[Claim(k)])) \in Answer
    BY AnswerType DEF TypeOK, IsMap, IsPrepared
  <2>4. CASE (\E answer \in Answer : Finish(k, answer)) /\ UNCHANGED <<specs, orphans>>
    BY <2>1, <2>2, <2>4, FinishType DEF TypeOK
  <2>5. CASE /\ specs' = Put(specs, Claim(k), PreparedFakes(HandleOf(k)))
             /\ orphans' = orphans \ {Claim(k)}
             /\ stateMu' = k
             /\ pc' = [pc EXCEPT ![k] = "commit"]
             /\ UNCHANGED <<driverMu, todo, answers>>
    <3>1. IsMap(specs', Claims, SUBSET Fakes)
      BY <2>1, <2>5, NextClaimType, PreparedFakesType, PutType DEF TypeOK
    <3> QED
      BY <2>2, <2>5, <3>1 DEF TypeOK, Locations
  <2> QED
    BY <1>6, <2>3, <2>4, <2>5, AnswerType DEF StoreSpec
<1>7. ASSUME NEW k \in Calls, Panic(k)
      PROVE  TypeOK'
  BY <1>7, DieType DEF Panic
<1>8. ASSUME NEW k \in Calls, CommitPrepared(k)
      PROVE  TypeOK'
  <2>1. todo[k] # <<>>
    BY <1>8 DEF CommitPrepared, CallInv, InHandler
  <2>2. PreparedFakes(HandleOf(k)) \in SUBSET Fakes
    BY <2>1, NextClaimType, PreparedFakesType
  <2>3. IsMap(prepared', Claims, SUBSET Fakes)
    BY <1>8, <2>1, <2>2, NextClaimType, PutType DEF CommitPrepared, TypeOK
  <2> QED
    BY <1>8, <2>1, <2>2, <2>3, FinishType, AnswerType DEF CommitPrepared, TypeOK
<1>9. ASSUME NEW k \in Calls, CheckUnprepared(k)
      PROVE  TypeOK'
  <2>1. todo[k] # <<>>
    BY <1>9 DEF CheckUnprepared, CallInv, InHandler
  <2>2. CASE Finish(k, Success({}))
    BY <1>9, <2>1, <2>2, FinishType, AnswerType DEF CheckUnprepared, TypeOK
  <2>3. CASE pc' = [pc EXCEPT ![k] = "remove"] /\ UNCHANGED <<mutexes, todo, answers>>
    BY <1>9, <2>3 DEF CheckUnprepared, TypeOK, Locations
  <2> QED
    BY <1>9, <2>2, <2>3 DEF CheckUnprepared
<1>10. ASSUME NEW k \in Calls, RemoveSpec(k)
       PROVE  TypeOK'
  <2>1. todo[k] # <<>>
    BY <1>10 DEF RemoveSpec, CallInv, InHandler
  <2>2. CASE (\E answer \in Answer : Finish(k, answer)) /\ UNCHANGED <<specs, orphans>>
    BY <1>10, <2>1, <2>2, FinishType DEF RemoveSpec, TypeOK
  <2>3. CASE /\ specs' = Delete(specs, Claim(k))
             /\ orphans' = orphans \ {Claim(k)}
             /\ stateMu' = k
             /\ pc' = [pc EXCEPT ![k] = "forget"]
             /\ UNCHANGED <<driverMu, todo, answers>>
    <3>1. IsMap(specs', Claims, SUBSET Fakes)
      BY <2>3, DeleteType DEF TypeOK
    <3> QED
      BY <1>10, <2>3, <3>1 DEF RemoveSpec, TypeOK, Locations
  <2> QED
    BY <1>10, <2>2, <2>3, AnswerType DEF RemoveSpec
<1>11. ASSUME NEW k \in Calls, ForgetPrepared(k)
       PROVE  TypeOK'
  <2>1. todo[k] # <<>>
    BY <1>11 DEF ForgetPrepared, CallInv, InHandler
  <2>2. IsMap(prepared', Claims, SUBSET Fakes)
    BY <1>11, DeleteType DEF ForgetPrepared, TypeOK
  <2> QED
    BY <1>11, <2>1, <2>2, FinishType, AnswerType DEF ForgetPrepared, TypeOK
<1>12. ASSUME NEW k \in Calls, Respond(k)
       PROVE  TypeOK'
  BY <1>0, <1>12 DEF Respond, TypeOK, Locations
<1>13. CASE UNCHANGED vars
  BY <1>13 DEF vars, TypeOK
<1> QED
  BY <1>1, <1>2, <1>3, <1>4, <1>5, <1>6, <1>7, <1>8, <1>9, <1>10, <1>11, <1>12,
     <1>13 DEF Next, Step

-----------------------------------------------------------------------------
(***************************************************************************)
(* The inductive invariant.                                                *)
(***************************************************************************)

\* Only the holder of the driver's mutex is inside a handler.
LEMMA Alone ==
  ASSUME MutexInv, NEW j \in Calls, NEW k \in Calls, InHandler(j), InHandler(k)
  PROVE  j = k
BY DEF MutexInv

\* The invariant holds at first.
LEMMA InitHandlerInv == Init => HandlerInv
<1> SUFFICES ASSUME Init PROVE HandlerInv
  OBVIOUS
<1>1. \A k \in Calls : pc[k] = "idle" /\ op[k] = "none"
  BY DEF Init
<1>2. MutexInv /\ CallInv /\ LookInv
  BY <1>1, CallsAssumption DEF Init, MutexInv, CallInv, LookInv, InHandler
<1>3. ProcessInv
  BY DEF Init, ProcessInv
<1>4. PreparedHasSpec /\ SpecIsAccountedFor
  BY DEF Init, EmptyMap, PreparedHasSpec, SpecIsAccountedFor
<1> QED
  BY <1>2, <1>3, <1>4 DEF HandlerInv

\* Where a call is goes with what it serves, and a handler has a claim.
LEMMA CallStep ==
  ASSUME TypeOK, CallInv, [Next]_vars
  PROVE  CallInv'
<1> USE DEF CallInv, InHandler, TypeOK, Locations, disk, mutexes, calls
<1>1. CASE Start
  BY <1>1 DEF Start, NewDeviceState
<1>2. ASSUME Die
      PROVE  CallInv'
  BY <1>2 DEF Die
<1>3. CASE Crash
  BY <1>2, <1>3 DEF Crash
<1>4. ASSUME NEW k \in Calls, NEW rpc \in {"prepare", "unprepare"},
             NEW r, Receive(k, rpc, r)
      PROVE  CallInv'
  BY <1>4 DEF Receive
<1>5. ASSUME NEW k \in Calls, LockDriver(k)
      PROVE  CallInv'
  BY <1>5 DEF LockDriver
<1>6. ASSUME NEW k \in Calls, CheckPrepared(k)
      PROVE  CallInv'
  BY <1>6 DEF CheckPrepared, Finish
<1>7. ASSUME NEW k \in Calls, StoreSpec(k)
      PROVE  CallInv'
  BY <1>7 DEF StoreSpec, Finish
<1>8. ASSUME NEW k \in Calls, Panic(k)
      PROVE  CallInv'
  BY <1>2, <1>8 DEF Panic
<1>9. ASSUME NEW k \in Calls, CommitPrepared(k)
      PROVE  CallInv'
  BY <1>9 DEF CommitPrepared, Finish
<1>10. ASSUME NEW k \in Calls, CheckUnprepared(k)
       PROVE  CallInv'
  BY <1>10 DEF CheckUnprepared, Finish
<1>11. ASSUME NEW k \in Calls, RemoveSpec(k)
       PROVE  CallInv'
  BY <1>11 DEF RemoveSpec, Finish
<1>12. ASSUME NEW k \in Calls, ForgetPrepared(k)
       PROVE  CallInv'
  BY <1>12 DEF ForgetPrepared, Finish
<1>13. ASSUME NEW k \in Calls, Respond(k)
       PROVE  CallInv'
  BY <1>13 DEF Respond
<1>14. CASE UNCHANGED vars
  BY <1>14 DEF vars
<1> QED
  BY <1>1, <1>3, <1>4, <1>5, <1>6, <1>7, <1>8, <1>9, <1>10, <1>11, <1>12, <1>13,
     <1>14 DEF Next, Step

\* The mutexes are held exactly by the calls that are inside.
LEMMA MutexStep ==
  ASSUME TypeOK, MutexInv, [Next]_vars
  PROVE  MutexInv'
<1> USE CallsAssumption DEF MutexInv, InHandler, TypeOK, Locations, disk, mutexes, calls
<1>1. CASE Start
  BY <1>1 DEF Start, NewDeviceState
<1>2. ASSUME Die
      PROVE  MutexInv'
  BY <1>2 DEF Die
<1>3. CASE Crash
  BY <1>2, <1>3 DEF Crash
<1>4. ASSUME NEW k \in Calls, NEW rpc, NEW r, Receive(k, rpc, r)
      PROVE  MutexInv'
  BY <1>4 DEF Receive
<1>5. ASSUME NEW k \in Calls, LockDriver(k)
      PROVE  MutexInv'
  BY <1>5 DEF LockDriver
<1>6. ASSUME NEW k \in Calls, InHandler(k), NEW answer, Finish(k, answer)
      PROVE  MutexInv'
  BY <1>6 DEF Finish
<1>7. ASSUME NEW k \in Calls, CheckPrepared(k)
      PROVE  MutexInv'
  BY <1>6, <1>7 DEF CheckPrepared
<1>8. ASSUME NEW k \in Calls, StoreSpec(k)
      PROVE  MutexInv'
  BY <1>6, <1>8 DEF StoreSpec
<1>9. ASSUME NEW k \in Calls, Panic(k)
      PROVE  MutexInv'
  BY <1>2, <1>9 DEF Panic
<1>10. ASSUME NEW k \in Calls, CommitPrepared(k)
       PROVE  MutexInv'
  BY <1>6, <1>10 DEF CommitPrepared
<1>11. ASSUME NEW k \in Calls, CheckUnprepared(k)
       PROVE  MutexInv'
  BY <1>6, <1>11 DEF CheckUnprepared
<1>12. ASSUME NEW k \in Calls, RemoveSpec(k)
       PROVE  MutexInv'
  <2>1. CASE \E answer : Finish(k, answer)
    BY <1>6, <1>12, <2>1 DEF RemoveSpec
  <2>2. CASE stateMu' = k /\ pc' = [pc EXCEPT ![k] = "forget"] /\ UNCHANGED driverMu
    BY <1>12, <2>2 DEF RemoveSpec
  <2> QED
    BY <1>12, <2>1, <2>2 DEF RemoveSpec
<1>13. ASSUME NEW k \in Calls, ForgetPrepared(k)
       PROVE  MutexInv'
  BY <1>6, <1>13 DEF ForgetPrepared
<1>14. ASSUME NEW k \in Calls, Respond(k)
       PROVE  MutexInv'
  BY <1>14 DEF Respond
<1>15. CASE UNCHANGED vars
  BY <1>15 DEF vars
<1> QED
  BY <1>1, <1>3, <1>4, <1>5, <1>7, <1>8, <1>9, <1>10, <1>11, <1>12, <1>13, <1>14,
     <1>15 DEF Next, Step

\* A step of one call leaves the claims of the others where they were.
LEMMA OtherCalls ==
  ASSUME TypeOK, NEW k \in Calls,
         \/ \E answer : Finish(k, answer)
         \/ \E l : pc' = [pc EXCEPT ![k] = l] /\ todo' = todo
  PROVE  \A j \in Calls \ {k} :
           pc'[j] = pc[j] /\ Claim(j)' = Claim(j) /\ HandleOf(j)' = HandleOf(j)
BY DEF TypeOK, Finish, Claim, HandleOf

\* What a handler saw stays true until it is done with the claim.
LEMMA LookStep ==
  ASSUME TypeOK, MutexInv, CallInv, LookInv, [Next]_vars
  PROVE  LookInv'
<1> USE DEF disk, mutexes, calls
<1>1. CASE Start
  <2>1. \A k \in Calls : pc[k] = "idle"
    BY <1>1 DEF Start, NewDeviceState, CallInv
  <2> QED
    BY <1>1, <2>1 DEF Start, NewDeviceState, LookInv
<1>2. ASSUME Die
      PROVE  LookInv'
  BY <1>2 DEF Die, LookInv
<1>3. CASE Crash
  BY <1>2, <1>3 DEF Crash
<1>4. ASSUME NEW k \in Calls, pc[k] \in {"idle", "next"}, UNCHANGED <<specs, prepared>>,
             pc'[k] \in {"idle", "next", "check", "lookup"},
             \A j \in Calls \ {k} :
               pc'[j] = pc[j] /\ Claim(j)' = Claim(j) /\ HandleOf(j)' = HandleOf(j)
      PROVE  LookInv'
  BY <1>4 DEF LookInv, IsPrepared
<1>5. ASSUME NEW k \in Calls, NEW rpc, NEW r, Receive(k, rpc, r)
      PROVE  LookInv'
  <2>1. \A j \in Calls \ {k} :
          pc'[j] = pc[j] /\ Claim(j)' = Claim(j) /\ HandleOf(j)' = HandleOf(j)
    BY <1>5 DEF Receive, TypeOK, Claim, HandleOf
  <2> QED
    BY <1>4, <1>5, <2>1 DEF Receive, TypeOK
<1>6. ASSUME NEW k \in Calls, LockDriver(k)
      PROVE  LookInv'
  <2>1. pc'[k] \in {"check", "lookup"}
    BY <1>6 DEF LockDriver, TypeOK
  <2> QED
    BY <1>4, <1>6, <2>1, OtherCalls DEF LockDriver
<1>7. ASSUME NEW k \in Calls, Respond(k)
      PROVE  LookInv'
  <2>1. pc'[k] = "idle"
    BY <1>7 DEF Respond, TypeOK
  <2> QED
    BY <1>4, <1>7, <2>1, OtherCalls DEF Respond
<1>8. ASSUME NEW k \in Calls, InHandler(k),
             \A j \in Calls \ {k} : pc'[j] = pc[j],
             pc'[k] = "next"
      PROVE  LookInv'
  <2>1. \A j \in Calls : pc'[j] \in {"idle", "next"}
    BY <1>8, Alone DEF InHandler
  <2> QED
    BY <2>1 DEF LookInv
<1>9. ASSUME NEW k \in Calls, InHandler(k), NEW answer, Finish(k, answer)
      PROVE  LookInv'
  BY <1>8, <1>9, OtherCalls DEF Finish, TypeOK
<1>10. ASSUME NEW k \in Calls, NEW l, InHandler(k), UNCHANGED todo,
              pc' = [pc EXCEPT ![k] = l]
       PROVE  /\ pc'[k] = l /\ Claim(k)' = Claim(k) /\ HandleOf(k)' = HandleOf(k)
              /\ \A j \in Calls \ {k} : pc'[j] \in {"idle", "next"}
  BY <1>10, Alone DEF TypeOK, InHandler, Claim, HandleOf
<1>11. ASSUME NEW k \in Calls, CheckPrepared(k)
       PROVE  LookInv'
  <2>1. InHandler(k)
    BY <1>11 DEF CheckPrepared, InHandler
  <2>2. CASE \E answer : Finish(k, answer)
    BY <1>9, <2>1, <2>2
  <2>3. CASE /\ ~IsPrepared(Claim(k)) /\ HandleOf(k).kind = "ok"
             /\ pc' = [pc EXCEPT ![k] = "store"]
             /\ UNCHANGED todo
    <3>1. prepared' = prepared
      BY <1>11 DEF CheckPrepared
    <3>2. /\ pc'[k] = "store" /\ Claim(k)' = Claim(k) /\ HandleOf(k)' = HandleOf(k)
          /\ \A j \in Calls \ {k} : pc'[j] \in {"idle", "next"}
      BY <1>10, <2>1, <2>3
    <3> QED
      BY <2>3, <3>1, <3>2 DEF LookInv, IsPrepared
  <2> QED
    BY <1>11, <2>2, <2>3 DEF CheckPrepared
<1>12. ASSUME NEW k \in Calls, StoreSpec(k)
       PROVE  LookInv'
  <2>1. InHandler(k)
    BY <1>12 DEF StoreSpec, InHandler
  <2>2. CASE \E answer : Finish(k, answer)
    BY <1>9, <2>1, <2>2
  <2>3. CASE /\ ~IsPrepared(Claim(k))
             /\ specs' = Put(specs, Claim(k), PreparedFakes(HandleOf(k)))
             /\ pc' = [pc EXCEPT ![k] = "commit"]
             /\ UNCHANGED todo
    <3>1. prepared' = prepared /\ HandleOf(k).kind = "ok"
      BY <1>12 DEF StoreSpec, LookInv
    <3>2. RequestedDevices(HandleOf(k)) \subseteq Allocatable
      BY <1>12, <2>3 DEF StoreSpec
    <3>3. Claim(k) \in DOMAIN specs' /\ specs'[Claim(k)] = PreparedFakes(HandleOf(k))
      BY <2>3 DEF Put
    <3>4. /\ pc'[k] = "commit" /\ Claim(k)' = Claim(k) /\ HandleOf(k)' = HandleOf(k)
          /\ \A j \in Calls \ {k} : pc'[j] \in {"idle", "next"}
      BY <1>10, <2>1, <2>3
    <3> QED
      BY <2>3, <3>1, <3>2, <3>3, <3>4 DEF LookInv, IsPrepared
  <2> QED
    BY <1>12, <2>2, <2>3 DEF StoreSpec
<1>13. ASSUME NEW k \in Calls, CommitPrepared(k)
       PROVE  LookInv'
  BY <1>9, <1>13 DEF CommitPrepared, InHandler
<1>14. ASSUME NEW k \in Calls, CheckUnprepared(k)
       PROVE  LookInv'
  <2>1. InHandler(k)
    BY <1>14 DEF CheckUnprepared, InHandler
  <2>2. CASE \E answer : Finish(k, answer)
    BY <1>9, <2>1, <2>2
  <2>3. CASE /\ IsPrepared(Claim(k))
             /\ pc' = [pc EXCEPT ![k] = "remove"]
             /\ UNCHANGED todo
    BY <1>10, <1>14, <2>1, <2>3 DEF CheckUnprepared, LookInv, IsPrepared
  <2> QED
    BY <1>14, <2>2, <2>3 DEF CheckUnprepared
<1>15. ASSUME NEW k \in Calls, RemoveSpec(k)
       PROVE  LookInv'
  <2>1. InHandler(k)
    BY <1>15 DEF RemoveSpec, InHandler
  <2>2. CASE \E answer : Finish(k, answer)
    BY <1>9, <2>1, <2>2
  <2>3. CASE /\ IsPrepared(Claim(k))
             /\ specs' = Delete(specs, Claim(k))
             /\ pc' = [pc EXCEPT ![k] = "forget"]
             /\ UNCHANGED todo
    <3>1. Claim(k) \notin DOMAIN specs'
      BY <2>3 DEF Delete
    <3> QED
      BY <1>10, <1>15, <2>1, <2>3, <3>1 DEF RemoveSpec, LookInv, IsPrepared
  <2> QED
    BY <1>15, <2>2, <2>3 DEF RemoveSpec
<1>16. ASSUME NEW k \in Calls, ForgetPrepared(k)
       PROVE  LookInv'
  BY <1>9, <1>16 DEF ForgetPrepared, InHandler
<1>17. CASE UNCHANGED vars
  BY <1>17 DEF vars, LookInv, IsPrepared, Claim, HandleOf
<1>18. ASSUME NEW k \in Calls, Panic(k)
       PROVE  LookInv'
  BY <1>2, <1>18 DEF Panic
<1> QED
  BY <1>1, <1>3, <1>5, <1>6, <1>7, <1>11, <1>12, <1>13, <1>14, <1>15, <1>16,
     <1>17, <1>18 DEF Next, Step

\* A running process has written the common file, a dead one has no map.
LEMMA ProcessStep ==
  ASSUME TypeOK, CallInv, ProcessInv, [Next]_vars
  PROVE  ProcessInv'
<1> USE DEF ProcessInv, disk, mutexes, calls
<1>1. CASE Start
  BY <1>1 DEF Start, NewDeviceState
<1>2. CASE Crash \/ \E k \in Calls : Panic(k)
  BY <1>2 DEF Crash, Panic, Die
<1>3. CASE UNCHANGED <<up, common, prepared>>
  BY <1>3
<1>4. ASSUME NEW k \in Calls, CommitPrepared(k) \/ ForgetPrepared(k)
      PROVE  ProcessInv'
  BY <1>4 DEF CommitPrepared, ForgetPrepared, CallInv
<1>5. ASSUME NEW k \in Calls,
             \/ LockDriver(k) \/ Respond(k) \/ (\E rpc, r : Receive(k, rpc, r))
             \/ CheckPrepared(k) \/ StoreSpec(k) \/ CheckUnprepared(k) \/ RemoveSpec(k)
      PROVE  UNCHANGED <<up, common, prepared>>
  BY <1>5 DEF LockDriver, Respond, Receive, CheckPrepared, StoreSpec, CheckUnprepared,
              RemoveSpec
<1>6. CASE UNCHANGED vars
  BY <1>6 DEF vars
<1> QED
  BY <1>1, <1>2, <1>3, <1>4, <1>5, <1>6 DEF Next, Step

\* Files and map agree, except where a handler is between the two.
LEMMA DiskStep ==
  ASSUME TypeOK, MutexInv, CallInv, LookInv, ProcessInv, PreparedHasSpec,
         SpecIsAccountedFor, [Next]_vars
  PROVE  PreparedHasSpec' /\ SpecIsAccountedFor'
<1> USE DEF disk, mutexes, calls
<1>1. CASE Start
  <2>1. prepared = EmptyMap /\ prepared' = EmptyMap
    BY <1>1 DEF Start, NewDeviceState, ProcessInv
  <2> QED
    BY <1>1, <2>1 DEF Start, NewDeviceState, PreparedHasSpec, SpecIsAccountedFor, IsPrepared, AtWorkOn,
                      Claim
<1>2. ASSUME Die
      PROVE  PreparedHasSpec' /\ SpecIsAccountedFor'
  BY <1>2 DEF Die, EmptyMap, PreparedHasSpec, SpecIsAccountedFor
<1>3. CASE Crash \/ \E k \in Calls : Panic(k)
  BY <1>2, <1>3 DEF Crash, Panic
<1>4. ASSUME UNCHANGED <<specs, prepared, orphans>>,
             \A j \in Calls : pc[j] \in {"commit", "forget"} =>
                                pc'[j] = pc[j] /\ Claim(j)' = Claim(j)
      PROVE  PreparedHasSpec' /\ SpecIsAccountedFor'
  BY <1>4 DEF PreparedHasSpec, SpecIsAccountedFor, IsPrepared, AtWorkOn
<1>5. ASSUME NEW k \in Calls, NEW rpc, NEW r, Receive(k, rpc, r)
      PROVE  PreparedHasSpec' /\ SpecIsAccountedFor'
  <2>1. \A j \in Calls : pc[j] \in {"commit", "forget"} =>
                           pc'[j] = pc[j] /\ Claim(j)' = Claim(j)
    BY <1>5 DEF Receive, TypeOK, Claim
  <2> QED
    BY <1>4, <1>5, <2>1 DEF Receive
<1>6. ASSUME NEW k \in Calls, pc[k] \notin {"commit", "forget"},
             UNCHANGED <<specs, prepared, orphans>>,
             \/ \E answer : Finish(k, answer)
             \/ \E l : pc' = [pc EXCEPT ![k] = l] /\ todo' = todo
      PROVE  PreparedHasSpec' /\ SpecIsAccountedFor'
  BY <1>4, <1>6, OtherCalls
<1>7. ASSUME NEW k \in Calls, LockDriver(k) \/ Respond(k) \/ CheckPrepared(k) \/ CheckUnprepared(k)
      PROVE  PreparedHasSpec' /\ SpecIsAccountedFor'
  BY <1>6, <1>7 DEF LockDriver, Respond, CheckPrepared, CheckUnprepared
\* From here on the call holds the mutexes: no other is at work on a claim.
<1>8. ASSUME NEW k \in Calls, InHandler(k), NEW c, NEW l \in {"commit", "forget"},
             \E j \in Calls : AtWorkOn(j, c, l)
      PROVE  pc[k] = l /\ Claim(k) = c
  BY <1>8, Alone DEF AtWorkOn, InHandler
<1>9. ASSUME NEW k \in Calls, StoreSpec(k)
      PROVE  PreparedHasSpec' /\ SpecIsAccountedFor'
  <2>1. InHandler(k) /\ pc[k] = "store" /\ UNCHANGED prepared
    BY <1>9 DEF StoreSpec, InHandler
  <2>2. CASE (\E answer : Finish(k, answer)) /\ UNCHANGED <<specs, orphans>>
    BY <1>6, <2>1, <2>2
  <2>3. CASE /\ ~IsPrepared(Claim(k))
             /\ specs' = Put(specs, Claim(k), PreparedFakes(HandleOf(k)))
             /\ orphans' = orphans \ {Claim(k)}
             /\ pc' = [pc EXCEPT ![k] = "commit"]
             /\ UNCHANGED todo
    <3>1. pc'[k] = "commit" /\ Claim(k)' = Claim(k)
      BY <2>3 DEF TypeOK, Claim
    <3>2. \A c \in DOMAIN specs' : c = Claim(k) \/ c \in DOMAIN specs
      BY <2>3 DEF Put
    <3>3. \A c \in DOMAIN prepared :
            c # Claim(k) /\ c \in DOMAIN specs /\ specs[c] = prepared[c]
      BY <1>8, <2>1, <2>3 DEF PreparedHasSpec, IsPrepared
    <3>4. PreparedHasSpec'
      BY <2>1, <2>3, <3>3 DEF PreparedHasSpec, Put
    <3>5. \A c \in DOMAIN specs \ {Claim(k)} : c \in DOMAIN prepared \/ c \in orphans
      BY <1>8, <2>1 DEF SpecIsAccountedFor, IsPrepared
    <3>6. SpecIsAccountedFor'
      <4> SUFFICES ASSUME NEW c \in DOMAIN specs'
                   PROVE  \/ c \in DOMAIN prepared'
                          \/ c \in orphans'
                          \/ \E j \in Calls : AtWorkOn(j, c, "commit")'
        BY DEF SpecIsAccountedFor, IsPrepared
      <4>1. CASE c = Claim(k)
        BY <3>1, <4>1 DEF AtWorkOn
      <4>2. CASE c # Claim(k)
        BY <2>1, <2>3, <3>2, <3>5, <4>2
      <4> QED
        BY <4>1, <4>2
    <3> QED
      BY <3>4, <3>6
  <2> QED
    BY <1>9, <2>2, <2>3 DEF StoreSpec
<1>10. ASSUME NEW k \in Calls, CommitPrepared(k)
       PROVE  PreparedHasSpec' /\ SpecIsAccountedFor'
  <2>1. /\ InHandler(k) /\ pc[k] = "commit" /\ UNCHANGED <<specs, orphans>>
        /\ prepared' = Put(prepared, Claim(k), PreparedFakes(HandleOf(k)))
    BY <1>10 DEF CommitPrepared, InHandler
  <2>2. Claim(k) \in DOMAIN specs /\ specs[Claim(k)] = PreparedFakes(HandleOf(k))
    BY <2>1 DEF LookInv
  <2>3. \A c \in DOMAIN prepared : c \in DOMAIN specs /\ specs[c] = prepared[c]
    BY <1>8, <2>1 DEF PreparedHasSpec
  <2>4. PreparedHasSpec'
    BY <2>1, <2>2, <2>3 DEF PreparedHasSpec, Put
  <2>5. \A c \in DOMAIN specs : c \in DOMAIN prepared' \/ c \in orphans
    BY <1>8, <2>1 DEF SpecIsAccountedFor, IsPrepared, Put
  <2> QED
    BY <2>1, <2>4, <2>5 DEF SpecIsAccountedFor, IsPrepared
<1>11. ASSUME NEW k \in Calls, RemoveSpec(k)
       PROVE  PreparedHasSpec' /\ SpecIsAccountedFor'
  <2>1. InHandler(k) /\ pc[k] = "remove" /\ UNCHANGED prepared
    BY <1>11 DEF RemoveSpec, InHandler
  <2>2. CASE (\E answer : Finish(k, answer)) /\ UNCHANGED <<specs, orphans>>
    BY <1>6, <2>1, <2>2
  <2>3. CASE /\ specs' = Delete(specs, Claim(k))
             /\ orphans' = orphans \ {Claim(k)}
             /\ pc' = [pc EXCEPT ![k] = "forget"]
             /\ UNCHANGED todo
    <3>1. pc'[k] = "forget" /\ Claim(k)' = Claim(k)
      BY <2>3 DEF TypeOK, Claim
    <3>2. \A c \in DOMAIN prepared : c \in DOMAIN specs /\ specs[c] = prepared[c]
      BY <1>8, <2>1 DEF PreparedHasSpec
    <3>3. PreparedHasSpec'
      <4> SUFFICES ASSUME NEW c \in DOMAIN prepared'
                   PROVE  \/ c \in DOMAIN specs' /\ specs'[c] = prepared'[c]
                          \/ \E j \in Calls : AtWorkOn(j, c, "forget")'
        BY DEF PreparedHasSpec
      <4>1. CASE c = Claim(k)
        BY <3>1, <4>1 DEF AtWorkOn
      <4>2. CASE c # Claim(k)
        BY <2>1, <2>3, <3>2, <4>2 DEF Delete
      <4> QED
        BY <4>1, <4>2
    <3>4. \A c \in DOMAIN specs' : c # Claim(k) /\ c \in DOMAIN specs
      BY <2>3 DEF Delete
    <3>5. \A c \in DOMAIN specs : c \in DOMAIN prepared \/ c \in orphans
      BY <1>8, <2>1 DEF SpecIsAccountedFor, IsPrepared
    <3> QED
      BY <2>1, <2>3, <3>3, <3>4, <3>5 DEF SpecIsAccountedFor, IsPrepared
  <2> QED
    BY <1>11, <2>2, <2>3 DEF RemoveSpec
<1>12. ASSUME NEW k \in Calls, ForgetPrepared(k)
       PROVE  PreparedHasSpec' /\ SpecIsAccountedFor'
  <2>1. /\ InHandler(k) /\ pc[k] = "forget" /\ UNCHANGED <<specs, orphans>>
        /\ prepared' = Delete(prepared, Claim(k))
    BY <1>12 DEF ForgetPrepared, InHandler
  <2>2. \A c \in DOMAIN prepared \ {Claim(k)} :
          c \in DOMAIN specs /\ specs[c] = prepared[c]
    BY <1>8, <2>1 DEF PreparedHasSpec
  <2>3. PreparedHasSpec'
    BY <2>1, <2>2 DEF PreparedHasSpec, Delete
  <2>4. \A c \in DOMAIN specs : c # Claim(k) /\ (c \in DOMAIN prepared \/ c \in orphans)
    BY <1>8, <2>1 DEF SpecIsAccountedFor, IsPrepared, LookInv
  <2> QED
    BY <2>1, <2>3, <2>4 DEF SpecIsAccountedFor, IsPrepared, Delete
<1>13. CASE UNCHANGED vars
  BY <1>4, <1>13 DEF vars, Claim
<1> QED
  BY <1>1, <1>3, <1>5, <1>7, <1>9, <1>10, <1>11, <1>12, <1>13 DEF Next, Step

-----------------------------------------------------------------------------
(***************************************************************************)
(* The theorems.                                                           *)
(***************************************************************************)

\* Types and invariant together are inductive.
LEMMA HandlerStep ==
  ASSUME TypeOK, HandlerInv, [Next]_vars
  PROVE  TypeOK' /\ HandlerInv'
BY NextType, CallStep, MutexStep, LookStep, ProcessStep, DiskStep DEF HandlerInv

\* Every variable keeps its type, and the handlers what they rely on.
THEOREM Inductive == Spec => [](TypeOK /\ HandlerInv)
<1>1. Init => TypeOK /\ HandlerInv
  BY InitType, InitHandlerInv
<1>2. TypeOK /\ HandlerInv /\ [Next]_vars => TypeOK' /\ HandlerInv'
  BY HandlerStep
<1> QED
  BY <1>1, <1>2, PTL DEF Spec

\* Every variable keeps its type.
THEOREM TypeCorrect == Spec => []TypeOK
BY Inductive, PTL

\* Two calls are never inside the handlers at the same time.
THEOREM MutualExclusion == Spec => []OneCallAtATime
<1>1. HandlerInv => OneCallAtATime
  BY Alone DEF HandlerInv, OneCallAtATime
<1> QED
  BY <1>1, Inductive, PTL

\* A claim in the map has its spec file, with the devices the map records.
THEOREM PreparedOnDisk == Spec => []PreparedHasSpec
<1>1. HandlerInv => PreparedHasSpec
  BY DEF HandlerInv
<1> QED
  BY <1>1, Inductive, PTL

\* A running process loses track of no spec file it has written.
THEOREM NoLostSpec == Spec => []SpecIsAccountedFor
<1>1. HandlerInv => SpecIsAccountedFor
  BY DEF HandlerInv
<1> QED
  BY <1>1, Inductive, PTL

-----------------------------------------------------------------------------
(***************************************************************************)
(* What a successful answer says about the disk.                           *)
(***************************************************************************)

\* Only a step of the call itself brings it from a handler to its next claim.
LEMMA AnsweringStep ==
  ASSUME TypeOK, [Next]_vars, NEW k \in Calls, InHandler(k), pc'[k] = "next"
  PROVE  \/ CheckPrepared(k) \/ StoreSpec(k) \/ CommitPrepared(k)
         \/ CheckUnprepared(k) \/ RemoveSpec(k) \/ ForgetPrepared(k)
<1> USE DEF InHandler, TypeOK, calls
<1>1. ~Die
  BY DEF Die
<1>2. ~Start /\ ~UNCHANGED vars
  BY DEF Start, NewDeviceState, vars
<1>3. ASSUME NEW j \in Calls, NEW rpc, NEW r, Receive(j, rpc, r)
      PROVE  FALSE
  BY <1>3 DEF Receive
<1>4. ASSUME NEW j \in Calls, LockDriver(j) \/ Respond(j)
      PROVE  FALSE
  BY <1>4 DEF LockDriver, Respond
<1>5. ASSUME NEW j \in Calls, j # k, CheckPrepared(j) \/ CheckUnprepared(j)
      PROVE  FALSE
  BY <1>5 DEF CheckPrepared, CheckUnprepared, Finish
<1>6. ASSUME NEW j \in Calls, j # k, StoreSpec(j) \/ RemoveSpec(j)
      PROVE  FALSE
  BY <1>6 DEF StoreSpec, RemoveSpec, Finish
<1>7. ASSUME NEW j \in Calls, j # k, CommitPrepared(j) \/ ForgetPrepared(j)
      PROVE  FALSE
  BY <1>7 DEF CommitPrepared, ForgetPrepared, Finish
<1> QED
  BY <1>1, <1>2, <1>3, <1>4, <1>5, <1>6, <1>7
  DEF Next, Step, Crash, Panic

\* The answer of a claim is the one its handler finished with.
LEMMA FinishAnswers ==
  ASSUME TypeOK, NEW k \in Calls, NEW answer, Finish(k, answer)
  PROVE  answers'[k][Claim(k)] = answer
BY DEF TypeOK, Finish, Put

\* A successful Prepare hands out the devices of the file on disk.
THEOREM AnswersOnDisk == Spec => AnswerIsOnDisk
<1> DEFINE Agrees(k, c) ==
      /\ common
      /\ c \in DOMAIN specs'
      /\ answers'[k][c].devices = {Common} \cup specs'[c]
<1>1. ASSUME TypeOK, HandlerInv, [Next]_vars, NEW k \in Calls, NEW c \in Claims,
             op[k] = "prepare", Succeeds(k, c)
      PROVE  Agrees(k, c)
  <2>1. InHandler(k) /\ pc'[k] = "next" /\ Claim(k) = c /\ ~answers'[k][c].error
    BY <1>1 DEF Succeeds
  <2>2. common /\ (pc[k] = "forget" => FALSE)
    BY <1>1, <2>1 DEF HandlerInv, CallInv, ProcessInv, InHandler
  <2>3. ~Finish(k, Failure)
    BY <1>1, <2>1, FinishAnswers DEF Failure
  <2>4. CASE CheckPrepared(k)
    <3>1. /\ IsPrepared(c) /\ UNCHANGED specs
          /\ Finish(k, Success(ClaimDevices(prepared[c])))
      BY <1>1, <2>1, <2>3, <2>4 DEF CheckPrepared, TypeOK, disk
    <3>2. answers'[k][c].devices = {Common} \cup prepared[c]
      BY <1>1, <2>1, <3>1, FinishAnswers DEF Success, ClaimDevices
    <3>3. \A j \in Calls : ~AtWorkOn(j, c, "forget")
      BY <1>1, <2>1, <2>4, Alone DEF HandlerInv, AtWorkOn, InHandler, CheckPrepared
    <3>4. c \in DOMAIN specs /\ specs[c] = prepared[c]
      BY <1>1, <3>1, <3>3 DEF HandlerInv, PreparedHasSpec, IsPrepared
    <3> QED
      BY <2>2, <3>1, <3>2, <3>4
  <2>5. CASE StoreSpec(k)
    <3>1. ~IsPrepared(Claim(k))
      BY <1>1, <2>5 DEF StoreSpec, HandlerInv, LookInv
    <3>2. pc'[k] # "commit"
      BY <2>1
    <3> QED
      BY <1>1, <2>3, <2>5, <3>1, <3>2 DEF StoreSpec, TypeOK
  <2>6. CASE CommitPrepared(k)
    <3>1. /\ UNCHANGED specs /\ pc[k] = "commit"
          /\ Finish(k, Success(ClaimDevices(PreparedFakes(HandleOf(k)))))
      BY <2>6 DEF CommitPrepared, disk
    <3>2. answers'[k][c].devices = {Common} \cup PreparedFakes(HandleOf(k))
      BY <1>1, <2>1, <3>1, FinishAnswers DEF Success, ClaimDevices
    <3>3. c \in DOMAIN specs /\ specs[c] = PreparedFakes(HandleOf(k))
      BY <1>1, <2>1, <3>1 DEF HandlerInv, LookInv
    <3> QED
      BY <2>2, <3>1, <3>2, <3>3
  <2>7. ~CheckUnprepared(k) /\ ~RemoveSpec(k) /\ ~ForgetPrepared(k)
    BY <1>1 DEF HandlerInv, CallInv, CheckUnprepared, RemoveSpec, ForgetPrepared
  <2> QED
    BY <1>1, <2>1, <2>4, <2>5, <2>6, <2>7, AnsweringStep
<1>2. TypeOK /\ HandlerInv /\ [Next]_vars =>
        [\A k \in Calls, c \in Claims :
           op[k] = "prepare" /\ Succeeds(k, c) => Agrees(k, c)]_vars
  BY <1>1
<1> QED
  BY <1>2, Inductive, PTL DEF Spec, AnswerIsOnDisk

\* A successful Unprepare leaves no file that this process has written.
THEOREM UnprepareCleansUp == Spec => UnprepareRemovesOwnSpec
<1>1. ASSUME TypeOK, HandlerInv, [Next]_vars, NEW k \in Calls, NEW c \in Claims,
             op[k] = "unprepare", Succeeds(k, c)
      PROVE  c \notin DOMAIN specs' \/ c \in orphans
  <2>1. InHandler(k) /\ pc'[k] = "next" /\ Claim(k) = c /\ ~answers'[k][c].error
    BY <1>1 DEF Succeeds
  <2>2. ~Finish(k, Failure)
    BY <1>1, <2>1, FinishAnswers DEF Failure
  <2>3. CASE CheckUnprepared(k)
    <3>1. ~IsPrepared(c) /\ UNCHANGED specs
      BY <1>1, <2>1, <2>3 DEF CheckUnprepared, TypeOK, disk
    <3>2. \A j \in Calls : ~AtWorkOn(j, c, "commit")
      BY <1>1, <2>1, <2>3, Alone DEF HandlerInv, AtWorkOn, InHandler, CheckUnprepared
    <3> QED
      BY <1>1, <3>1, <3>2 DEF HandlerInv, SpecIsAccountedFor
  <2>4. CASE RemoveSpec(k)
    <3>1. IsPrepared(Claim(k))
      BY <1>1, <2>4 DEF RemoveSpec, HandlerInv, LookInv
    <3>2. pc'[k] # "forget"
      BY <2>1
    <3> QED
      BY <1>1, <2>2, <2>4, <3>1, <3>2 DEF RemoveSpec, TypeOK
  <2>5. CASE ForgetPrepared(k)
    BY <1>1, <2>1, <2>5 DEF ForgetPrepared, HandlerInv, LookInv, disk
  <2>6. ~CheckPrepared(k) /\ ~StoreSpec(k) /\ ~CommitPrepared(k)
    BY <1>1 DEF HandlerInv, CallInv, CheckPrepared, StoreSpec, CommitPrepared
  <2> QED
    BY <1>1, <2>1, <2>3, <2>4, <2>5, <2>6, AnsweringStep
<1>2. TypeOK /\ HandlerInv /\ [Next]_vars =>
        [\A k \in Calls, c \in Claims :
           op[k] = "unprepare" /\ Succeeds(k, c) => c \notin DOMAIN specs' \/ c \in orphans]_vars
  BY <1>1
<1> QED
  BY <1>2, Inductive, PTL DEF Spec, UnprepareRemovesOwnSpec

-----------------------------------------------------------------------------
(***************************************************************************)
(* The plugin implements the table of ClaimBinding.                        *)
(***************************************************************************)

\* Both modules speak of the same requests, devices and maps.
LEMMA SameMessages ==
  /\ Binding!PrepareRequests = PrepareRequests
  /\ Binding!UnprepareRequests = UnprepareRequests
  /\ Binding!EmptyMap = EmptyMap
  /\ Binding!Failure = Failure
  /\ Binding!Allocatable = Allocatable
  /\ \A d : Binding!Success(d) = Success(d)
  /\ \A d : Binding!ClaimDevices(d) = ClaimDevices(d)
  /\ \A h : Binding!RequestedDevices(h) = RequestedDevices(h)
  /\ \A h : Binding!PreparedFakes(h) = PreparedFakes(h)
  /\ \A m, x, v : Binding!Put(m, x, v) = Put(m, x, v)
  /\ \A m, x : Binding!Delete(m, x) = Delete(m, x)
<1>1. /\ Binding!PrepareRequests = PrepareRequests
      /\ Binding!UnprepareRequests = UnprepareRequests
  BY DEF Binding!PrepareRequests, PrepareRequests, Binding!UnprepareRequests,
         UnprepareRequests, Binding!NoHandle, NoHandle
<1>2. Binding!EmptyMap = EmptyMap /\ Binding!Failure = Failure
  BY DEF Binding!EmptyMap, EmptyMap, Binding!Failure, Failure
<1>3. \A d : Binding!Success(d) = Success(d) /\ Binding!ClaimDevices(d) = ClaimDevices(d)
  BY DEF Binding!Success, Success, Binding!ClaimDevices, ClaimDevices, Binding!Common, Common
<1>4. \A s, n : Binding!GenerateUUIDs(s, n) = GenerateUUIDs(s, n)
  BY DEF Binding!GenerateUUIDs, GenerateUUIDs
<1>5. Binding!Allocatable = Allocatable
  BY <1>4 DEF Binding!Allocatable, Allocatable
<1>6. \A h : Binding!RequestedDevices(h) = RequestedDevices(h)
  BY DEF Binding!RequestedDevices, RequestedDevices, Binding!FakeUUID, FakeUUID
<1>7. \A d, n : Binding!SplitFakes(d, n) = SplitFakes(d, n)
  BY <1>4 DEF Binding!SplitFakes, SplitFakes
<1>8. \A h : Binding!PreparedFakes(h) = PreparedFakes(h)
  BY <1>6, <1>7 DEF Binding!PreparedFakes, PreparedFakes
<1>9. /\ \A m, x, v : Binding!Put(m, x, v) = Put(m, x, v)
      /\ \A m, x : Binding!Delete(m, x) = Delete(m, x)
  BY DEF Binding!Put, Put, Binding!Delete, Delete
<1> QED
  BY <1>1, <1>2, <1>3, <1>5, <1>6, <1>8, <1>9

\* Finishing a claim is the reply of the table.
LEMMA FinishIsReply ==
  ASSUME NEW k \in Calls, NEW answer, Finish(k, answer), UNCHANGED <<up, op>>
  PROVE  Binding!Reply(k, answer)
BY SameMessages DEF Finish, Binding!Reply, Claim

\* A step of the plugin is a step of the table or none.
LEMMA BindingStep ==
  ASSUME TypeOK, HandlerInv, [Next]_vars
  PROVE  [Binding!Next]_(Binding!vars)
<1> USE SameMessages DEF disk, mutexes, calls, Binding!vars
<1>1. CASE Start
  <2>1. up = FALSE /\ prepared' = prepared /\ UNCHANGED <<op, todo, answers>>
    BY <1>1 DEF Start, NewDeviceState, TypeOK, HandlerInv, ProcessInv
  <2>2. up' = TRUE \/ up' = FALSE
    BY <1>1 DEF Start, NewDeviceState
  <2>3. CASE up' = TRUE
    BY <2>1, <2>3 DEF Binding!Next, Binding!Start
  <2>4. CASE up' = FALSE
    BY <2>1, <2>4
  <2> QED
    BY <2>2, <2>3, <2>4
<1>2. CASE Crash \/ \E k \in Calls : Panic(k)
  BY <1>2 DEF Crash, Panic, Die, Binding!Next, Binding!Die
<1>3. ASSUME NEW k \in Calls, NEW rpc, NEW requests, NEW r \in requests, Receive(k, rpc, r)
      PROVE  Binding!Receive(k, rpc, requests)
  BY <1>3 DEF Receive, HandlerInv, CallInv, Binding!Receive
<1>4. ASSUME NEW k \in Calls, LockDriver(k)
      PROVE  UNCHANGED Binding!vars
  BY <1>4 DEF LockDriver
<1>5. ASSUME NEW k \in Calls, Respond(k)
      PROVE  Binding!Respond(k)
  BY <1>5 DEF Respond, HandlerInv, CallInv, Binding!Respond
<1>6. ASSUME NEW k \in Calls, CheckPrepared(k)
      PROVE  Binding!Prepare(k) \/ UNCHANGED Binding!vars
  <2>1. /\ op[k] = "prepare" /\ todo[k] # <<>> /\ UNCHANGED <<up, prepared, op>>
    BY <1>6 DEF CheckPrepared, HandlerInv, CallInv, InHandler
  <2>2. CASE \/ /\ IsPrepared(Claim(k))
                /\ Finish(k, Success(ClaimDevices(prepared[Claim(k)])))
             \/ ~IsPrepared(Claim(k)) /\ Finish(k, Failure)
    BY <2>1, <2>2, FinishIsReply DEF Binding!Prepare, IsPrepared, Claim
  <2>3. CASE UNCHANGED <<todo, answers>>
    BY <2>1, <2>3
  <2> QED
    BY <1>6, <2>2, <2>3 DEF CheckPrepared
<1>7. ASSUME NEW k \in Calls, StoreSpec(k)
      PROVE  Binding!Prepare(k) \/ UNCHANGED Binding!vars
  <2>1. /\ op[k] = "prepare" /\ todo[k] # <<>> /\ UNCHANGED <<up, prepared, op>>
        /\ ~IsPrepared(Claim(k))
    BY <1>7 DEF StoreSpec, HandlerInv, CallInv, LookInv, InHandler
  <2>2. CASE Finish(k, Failure)
    BY <2>1, <2>2, FinishIsReply DEF Binding!Prepare, IsPrepared, Claim
  <2>3. CASE UNCHANGED <<todo, answers>>
    BY <2>1, <2>3
  <2> QED
    BY <1>7, <2>1, <2>2, <2>3 DEF StoreSpec
<1>8. ASSUME NEW k \in Calls, CommitPrepared(k)
      PROVE  Binding!Prepare(k)
  <2>1. /\ op[k] = "prepare" /\ todo[k] # <<>> /\ UNCHANGED <<up, op>>
        /\ ~IsPrepared(Claim(k)) /\ HandleOf(k).kind = "ok"
        /\ RequestedDevices(HandleOf(k)) \subseteq Allocatable
    BY <1>8 DEF CommitPrepared, HandlerInv, CallInv, LookInv, InHandler
  <2>2. /\ prepared' = Put(prepared, Claim(k), PreparedFakes(HandleOf(k)))
        /\ Binding!Reply(k, Success(ClaimDevices(PreparedFakes(HandleOf(k)))))
    BY <1>8, <2>1, FinishIsReply DEF CommitPrepared
  <2> QED
    BY <2>1, <2>2 DEF Binding!Prepare, IsPrepared, Claim, HandleOf
<1>9. ASSUME NEW k \in Calls, CheckUnprepared(k)
      PROVE  Binding!Unprepare(k) \/ UNCHANGED Binding!vars
  <2>1. /\ op[k] = "unprepare" /\ todo[k] # <<>> /\ UNCHANGED <<up, prepared, op>>
    BY <1>9 DEF CheckUnprepared, HandlerInv, CallInv, InHandler
  <2>2. CASE ~IsPrepared(Claim(k)) /\ Finish(k, Success({}))
    <3>1. prepared' = Delete(prepared, Claim(k))
      BY <2>1, <2>2 DEF TypeOK, IsMap, IsPrepared, Delete
    <3> QED
      BY <2>1, <2>2, <3>1, FinishIsReply DEF Binding!Unprepare, Claim
  <2>3. CASE UNCHANGED <<todo, answers>>
    BY <2>1, <2>3
  <2> QED
    BY <1>9, <2>2, <2>3 DEF CheckUnprepared
<1>10. ASSUME NEW k \in Calls, RemoveSpec(k)
       PROVE  Binding!Unprepare(k) \/ UNCHANGED Binding!vars
  <2>1. /\ op[k] = "unprepare" /\ todo[k] # <<>> /\ UNCHANGED <<up, prepared, op>>
        /\ IsPrepared(Claim(k))
    BY <1>10 DEF RemoveSpec, HandlerInv, CallInv, LookInv, InHandler
  <2>2. CASE Finish(k, Failure)
    BY <2>1, <2>2, FinishIsReply DEF Binding!Unprepare, IsPrepared, Claim
  <2>3. CASE UNCHANGED <<todo, answers>>
    BY <2>1, <2>3
  <2> QED
    BY <1>10, <2>1, <2>2, <2>3 DEF RemoveSpec
<1>11. ASSUME NEW k \in Calls, ForgetPrepared(k)
       PROVE  Binding!Unprepare(k)
  <2>1. /\ op[k] = "unprepare" /\ todo[k] # <<>> /\ UNCHANGED <<up, op>>
    BY <1>11 DEF ForgetPrepared, HandlerInv, CallInv, InHandler
  <2> QED
    BY <1>11, <2>1, FinishIsReply DEF ForgetPrepared, Binding!Unprepare, Claim
<1>12. CASE UNCHANGED vars
  BY <1>12 DEF vars
<1> QED
  BY <1>1, <1>2, <1>3, <1>4, <1>5, <1>6, <1>7, <1>8, <1>9, <1>10, <1>11, <1>12
  DEF Next, Step, Binding!Next

\* Every behaviour of the plugin is one of the table, with the map as table.
THEOREM Implementation == Spec => ImplementsBinding
<1>1. Init => Binding!Init
  BY SameMessages DEF Init, Binding!Init
<1>2. TypeOK /\ HandlerInv /\ [Next]_vars => [Binding!Next]_(Binding!vars)
  BY BindingStep
<1> QED
  BY <1>1, <1>2, Inductive, PTL DEF Spec, ImplementsBinding, Binding!Spec
=============================================================================

-------------------------- MODULE NodeSystemProofs --------------------------
(***************************************************************************)
(* Theorems about NodeSystem, for every number of devices, claims and      *)
(* calls, every set of handles allocated from what is published, and any   *)
(* number of crashes and timeouts.                                         *)
(***************************************************************************)
EXTENDS NodeSystem, KubeletPluginProofs

-----------------------------------------------------------------------------
(***************************************************************************)
(* Devices and their names.                                                *)
(***************************************************************************)

\* A device of the node has its position for a path.
LEMMA AllocatableType ==
  ASSUME NEW u \in Allocatable
  PROVE  \E i \in 1..PerNodeFakeDevices : u = [prefix |-> "FAKE-", path |-> <<i>>]
BY DEF Allocatable, GenerateUUIDs

\* The way back from an advertised name leads to the device.
LEMMA NameRoundTrip ==
  ASSUME NEW u \in Allocatable
  PROVE  FakeUUID(AdvertisedName(u)) = u
<1>1. PICK i \in 1..PerNodeFakeDevices : u = [prefix |-> "FAKE-", path |-> <<i>>]
  BY AllocatableType
<1>2. u \in [prefix : {"FAKE-"}, path : Seq(Nat)]
  BY <1>1
<1> QED
  BY <1>2 DEF FakeUUID, AdvertisedName

\* A published name leads to a device of the node, by which it is known.
LEMMA PublishedType ==
  ASSUME NEW n \in Published
  PROVE  \E i \in Nat : /\ n = [prefix |-> "fake-", path |-> <<i>>]
                        /\ FakeUUID(n) = [prefix |-> "FAKE-", path |-> <<i>>]
                        /\ FakeUUID(n) \in Allocatable
                        /\ Head(FakeUUID(n).path) = i
<1>1. PICK u \in Allocatable : n = AdvertisedName(u)
  BY DEF Published
<1>2. PICK i \in 1..PerNodeFakeDevices : u = [prefix |-> "FAKE-", path |-> <<i>>]
  BY AllocatableType
<1>3. n = [prefix |-> "fake-", path |-> <<i>>] /\ FakeUUID(n) = u /\ i \in Nat
  <2>1. u \in [prefix : {"FAKE-"}, path : Seq(Nat)]
    BY <1>2
  <2>2. n = [prefix |-> "fake-", path |-> u.path]
    BY <1>1, <2>1 DEF AdvertisedName
  <2> QED
    BY <1>1, <1>2, <2>2, NameRoundTrip
<1> QED
  BY <1>2, <1>3

\* What is allocated from the published names is on the node.
LEMMA HandlesAreKnown ==
  ASSUME NEW h \in Handles
  PROVE  RequestedDevices(h) \subseteq Allocatable
BY PublishedAssumption, PublishedType DEF RequestedDevices

\* The parts of a device lead back to it.
LEMMA PartsHaveParent ==
  ASSUME NEW i \in Nat, NEW split \in Int,
         NEW f \in SplitFakes([prefix |-> "FAKE-", path |-> <<i>>], split)
  PROVE  Head(f.path) = i
<1>1. PICK j \in 1..split : f = [prefix |-> "FAKE-", path |-> Append(<<i>>, j)]
  BY DEF SplitFakes, GenerateUUIDs
<1>2. <<i>> \in Seq(Nat) /\ j \in Nat /\ Len(<<i>>) = 1 /\ <<i>>[1] = i
  OBVIOUS
<1>3. Append(<<i>>, j)[1] = <<i>>[1] /\ Append(<<i>>, j) \in Seq(Nat)
      /\ Append(<<i>>, j) # <<>>
  BY <1>2, AppendProperties
<1> QED
  BY <1>1, <1>2, <1>3

\* What is prepared for a handle is made of the devices that it names.
LEMMA ParentsOfPrepared ==
  ASSUME NEW h \in Handles, NEW f \in PreparedFakes(h)
  PROVE  \E n \in h.names : Head(f.path) = Head(FakeUUID(n).path)
<1>1. h.names \subseteq Published /\ h.split \in Int
  BY PublishedAssumption, HandleAssumption DEF Handle
<1>2. CASE h.split > 0
  <2>1. PICK n \in h.names : f \in SplitFakes(FakeUUID(n), h.split)
    BY <1>2 DEF PreparedFakes, RequestedDevices
  <2>2. PICK i \in Nat : /\ FakeUUID(n) = [prefix |-> "FAKE-", path |-> <<i>>]
                         /\ Head(FakeUUID(n).path) = i
    BY <1>1, PublishedType
  <2> QED
    BY <1>1, <2>1, <2>2, PartsHaveParent
<1>3. CASE ~(h.split > 0)
  BY <1>3 DEF PreparedFakes, RequestedDevices
<1> QED
  BY <1>2, <1>3

\* Claims with different devices have spec files with different devices.
LEMMA DisjointAllocations ==
  ASSUME NEW g \in Handles, NEW h \in Handles, g.names \cap h.names = {}
  PROVE  /\ Parents(PreparedFakes(g)) \cap Parents(PreparedFakes(h)) = {}
         /\ PreparedFakes(g) \cap PreparedFakes(h) = {}
<1>1. ASSUME NEW e \in PreparedFakes(g), NEW f \in PreparedFakes(h),
             Head(e.path) = Head(f.path)
      PROVE  FALSE
  <2>1. PICK m \in g.names : Head(e.path) = Head(FakeUUID(m).path)
    BY ParentsOfPrepared
  <2>2. PICK n \in h.names : Head(f.path) = Head(FakeUUID(n).path)
    BY ParentsOfPrepared
  <2>3. m \in Published /\ n \in Published
    BY PublishedAssumption
  <2>4. m = n
    BY <1>1, <2>1, <2>2, <2>3, PublishedType
  <2> QED
    BY <2>4
<1> QED
  BY <1>1 DEF Parents

-----------------------------------------------------------------------------
(***************************************************************************)
(* The plugin among its callers is the plugin of KubeletPlugin.            *)
(***************************************************************************)

\* A call of the kubelet is a request that the plugin may receive.
LEMMA AskEffect ==
  ASSUME TypeOK, NEW c \in Claims, NEW k \in Calls, NEW rpc,
         NEW h \in Handles \cup {NoHandle}, Ask(c, k, rpc, h)
  PROVE  /\ todo'[k] # <<>> /\ Tail(todo'[k]) = <<>>
         /\ Claim(k)' = c /\ HandleOf(k)' = h
         /\ rpc = "prepare" /\ h \in Handles => \E r \in PrepareRequests : Receive(k, rpc, r)
         /\ rpc = "unprepare" /\ h = NoHandle => \E r \in UnprepareRequests : Receive(k, rpc, r)
<1> DEFINE request == <<[uid |-> c, handle |-> h]>>
<1>1. Receive(k, rpc, request) /\ todo'[k] = request
  BY DEF Ask, Receive, TypeOK
<1>2. /\ request # <<>> /\ Tail(request) = <<>>
      /\ Head(request) = [uid |-> c, handle |-> h]
  OBVIOUS
<1>3. request \in [1..1 -> {[uid |-> c, handle |-> h]}]
  OBVIOUS
<1>4. 1 \in 1..MaxBatch
  BY BatchAssumption
<1>5. h \in Handles => request \in PrepareRequests
  <2>1. h \in Handles => request \in [1..1 -> [uid : Claims, handle : Handles]]
    BY <1>3
  <2> QED
    BY <1>4, <2>1 DEF PrepareRequests
<1>6. h = NoHandle => request \in UnprepareRequests
  <2>1. h = NoHandle => request \in [1..1 -> [uid : Claims, handle : {NoHandle}]]
    BY <1>3
  <2> QED
    BY <1>4, <2>1 DEF UnprepareRequests
<1> QED
  BY <1>1, <1>2, <1>5, <1>6 DEF Claim, HandleOf

\* A claim that is not free has a handle.
LEMMA AllocatedHandle ==
  ASSUME CallersTypeOK, NEW c \in Claims, phase[c] # "free"
  PROVE  c \in DOMAIN alloc /\ alloc[c] \in Handles
BY DEF CallersTypeOK, IsMap

\* What the kubelet asks carries a handle, or none.
LEMMA AskHandle ==
  ASSUME CallersTypeOK, NEW c \in Claims, NEW k \in Calls
  PROVE  /\ AskPrepare(c, k) => alloc[c] \in Handles /\ Ask(c, k, "prepare", alloc[c])
         /\ AskUnprepare(c, k) => Ask(c, k, "unprepare", NoHandle)
BY AllocatedHandle DEF AskPrepare, AskUnprepare

\* Whatever the callers do, the plugin takes a step of its own or none.
LEMMA PluginWithin ==
  ASSUME TypeOK, CallersTypeOK, [SystemNext]_allVars
  PROVE  [Next]_vars
<1>1. ASSUME NEW c \in Claims, NEW k \in Calls, AskPrepare(c, k) \/ AskUnprepare(c, k)
      PROVE  Next
  BY <1>1, AskHandle, AskEffect DEF Next
<1>2. ASSUME NEW k \in Calls, Answered(k) \/ PluginStep(k)
      PROVE  Next
  BY <1>2 DEF Answered, PluginStep, Next, Step
<1>3. Start \/ PluginDies => Next
  BY DEF PluginDies, Next
<1>4. ASSUME NEW c \in Claims, \/ Release(c) \/ GiveUp(c)
                               \/ \E h \in Handles : Allocate(c, h)
      PROVE  UNCHANGED vars
  BY <1>4 DEF Release, GiveUp, Allocate
<1>5. UNCHANGED allVars => UNCHANGED vars
  BY DEF allVars
<1> QED
  BY <1>1, <1>2, <1>3, <1>4, <1>5 DEF SystemNext

-----------------------------------------------------------------------------
(***************************************************************************)
(* What a step of the handlers means for the callers.                      *)
(***************************************************************************)

\* Call k takes the mutex or looks at the map.
Looks(k) ==
  /\ pc'[k] # "commit"
  /\ UNCHANGED <<specs, prepared, orphans, todo, answers>>

\* Call k writes the spec file of its claim.
Writes(k) ==
  /\ op[k] = "prepare" /\ pc'[k] = "commit"
  /\ specs' = Put(specs, Claim(k), PreparedFakes(HandleOf(k)))
  /\ orphans' = orphans \ {Claim(k)}
  /\ UNCHANGED <<prepared, todo, answers>>

\* Call k removes the spec file of its claim.
Removes(k) ==
  /\ op[k] = "unprepare" /\ pc'[k] # "commit"
  /\ specs' = Delete(specs, Claim(k))
  /\ orphans' = orphans \ {Claim(k)}
  /\ UNCHANGED <<prepared, todo, answers>>

\* Call k has an answer for its claim.  A successful one is true of the files
\* that this process wrote.
Ends(k) ==
  /\ pc'[k] # "commit"
  /\ UNCHANGED <<specs, orphans>>
  /\ DOMAIN prepared' \cap orphans = {}
  /\ todo' = [todo EXCEPT ![k] = Tail(@)]
  /\ \A j \in Calls \ {k} : answers'[j] = answers[j]
  /\ ~answers'[k][Claim(k)].error =>
       (op[k] = "prepare" <=> Claim(k) \in DOMAIN specs \ orphans)

\* A step of the handlers is one of the four.
LEMMA PluginStepEffect ==
  ASSUME TypeOK, HandlerInv, OrphanInv, NEW k \in Calls, PluginStep(k)
  PROVE  /\ UNCHANGED <<callers, up, op, crashes>>
         /\ up /\ pc[k] # "idle" /\ todo[k] # <<>>
         /\ pc'[k] # "idle" /\ \A j \in Calls \ {k} : pc'[j] = pc[j]
         /\ Looks(k) \/ Writes(k) \/ Removes(k) \/ Ends(k)
<1> USE DEF disk, mutexes, calls
<1>1. UNCHANGED callers
  BY DEF PluginStep
<1>2. ASSUME NEW answer, Finish(k, answer)
      PROVE  /\ pc'[k] = "next" /\ \A j \in Calls \ {k} : pc'[j] = pc[j]
             /\ todo' = [todo EXCEPT ![k] = Tail(@)]
             /\ \A j \in Calls \ {k} : answers'[j] = answers[j]
             /\ answers'[k][Claim(k)] = answer
  BY <1>2, FinishAnswers DEF Finish, TypeOK
<1>3. ASSUME NEW l, pc' = [pc EXCEPT ![k] = l]
      PROVE  pc'[k] = l /\ \A j \in Calls \ {k} : pc'[j] = pc[j]
  BY <1>3 DEF TypeOK
<1>4. ASSUME Finish(k, Failure), UNCHANGED <<specs, orphans, prepared>>
      PROVE  Ends(k)
  BY <1>2, <1>4 DEF Ends, Failure, OrphanInv
<1>5. CASE LockDriver(k)
  BY <1>1, <1>3, <1>5 DEF LockDriver, Looks, HandlerInv, CallInv
<1>6. ASSUME InHandler(k)
      PROVE  /\ up /\ pc[k] # "idle" /\ todo[k] # <<>>
             /\ \A j \in Calls : j # k => ~InHandler(j)
  BY <1>6, Alone DEF HandlerInv, CallInv, InHandler
<1>7. CASE CheckPrepared(k)
  <2>1. /\ InHandler(k) /\ op[k] = "prepare"
        /\ UNCHANGED <<up, specs, prepared, op, crashes, orphans>>
    BY <1>7 DEF CheckPrepared, InHandler, HandlerInv, CallInv
  <2>2. CASE IsPrepared(Claim(k)) /\ Finish(k, Success(ClaimDevices(prepared[Claim(k)])))
    <3>1. \A j \in Calls : pc[j] # "forget"
      BY <1>6, <1>7, <2>1 DEF CheckPrepared, InHandler
    <3>2. Claim(k) \in DOMAIN specs \ orphans
      BY <2>2, <3>1 DEF HandlerInv, PreparedHasSpec, AtWorkOn, IsPrepared, OrphanInv
    <3> QED
      BY <1>1, <1>2, <1>6, <2>1, <2>2, <3>2 DEF Ends, OrphanInv
  <2>3. CASE Finish(k, Failure)
    BY <1>1, <1>2, <1>4, <1>6, <2>1, <2>3
  <2>4. CASE pc' = [pc EXCEPT ![k] = "store"] /\ UNCHANGED <<todo, answers>>
    BY <1>1, <1>3, <1>6, <2>1, <2>4 DEF Looks
  <2> QED
    BY <1>7, <2>2, <2>3, <2>4 DEF CheckPrepared
<1>8. CASE StoreSpec(k)
  <2>1. /\ InHandler(k) /\ op[k] = "prepare" /\ ~IsPrepared(Claim(k))
        /\ UNCHANGED <<up, prepared, op, crashes>>
    BY <1>8 DEF StoreSpec, InHandler, HandlerInv, CallInv, LookInv
  <2>2. CASE Finish(k, Failure) /\ UNCHANGED <<specs, orphans>>
    BY <1>1, <1>2, <1>4, <1>6, <2>1, <2>2
  <2>3. CASE /\ specs' = Put(specs, Claim(k), PreparedFakes(HandleOf(k)))
             /\ orphans' = orphans \ {Claim(k)}
             /\ pc' = [pc EXCEPT ![k] = "commit"]
             /\ UNCHANGED <<todo, answers>>
    BY <1>1, <1>3, <1>6, <2>1, <2>3 DEF Writes
  <2> QED
    BY <1>8, <2>1, <2>2, <2>3 DEF StoreSpec
<1>9. CASE CommitPrepared(k)
  <2>1. /\ InHandler(k) /\ op[k] = "prepare" /\ pc[k] = "commit"
        /\ UNCHANGED <<up, specs, op, crashes, orphans>>
        /\ prepared' = Put(prepared, Claim(k), PreparedFakes(HandleOf(k)))
    BY <1>9 DEF CommitPrepared, InHandler, HandlerInv, CallInv
  <2>2. Claim(k) \in DOMAIN specs \ orphans
    BY <2>1 DEF HandlerInv, LookInv, OrphanInv
  <2>3. DOMAIN prepared' \cap orphans = {}
    BY <2>1, <2>2 DEF OrphanInv, Put
  <2> QED
    BY <1>1, <1>2, <1>6, <1>9, <2>1, <2>2, <2>3 DEF CommitPrepared, Ends
<1>10. CASE CheckUnprepared(k)
  <2>1. /\ InHandler(k) /\ op[k] = "unprepare"
        /\ UNCHANGED <<up, specs, prepared, op, crashes, orphans>>
    BY <1>10 DEF CheckUnprepared, InHandler, HandlerInv, CallInv
  <2>2. CASE ~IsPrepared(Claim(k)) /\ Finish(k, Success({}))
    <3>1. \A j \in Calls : pc[j] # "commit"
      BY <1>6, <1>10, <2>1 DEF CheckUnprepared, InHandler
    <3>2. Claim(k) \notin DOMAIN specs \ orphans
      BY <2>2, <3>1 DEF HandlerInv, SpecIsAccountedFor, AtWorkOn
    <3> QED
      BY <1>1, <1>2, <1>6, <2>1, <2>2, <3>2 DEF Ends, OrphanInv
  <2>3. CASE pc' = [pc EXCEPT ![k] = "remove"] /\ UNCHANGED <<todo, answers>>
    BY <1>1, <1>3, <1>6, <2>1, <2>3 DEF Looks
  <2> QED
    BY <1>10, <2>2, <2>3 DEF CheckUnprepared
<1>11. CASE RemoveSpec(k)
  <2>1. /\ InHandler(k) /\ op[k] = "unprepare" /\ IsPrepared(Claim(k))
        /\ UNCHANGED <<up, prepared, op, crashes>>
    BY <1>11 DEF RemoveSpec, InHandler, HandlerInv, CallInv, LookInv
  <2>2. CASE Finish(k, Failure) /\ UNCHANGED <<specs, orphans>>
    BY <1>1, <1>2, <1>4, <1>6, <2>1, <2>2
  <2>3. CASE /\ specs' = Delete(specs, Claim(k))
             /\ orphans' = orphans \ {Claim(k)}
             /\ pc' = [pc EXCEPT ![k] = "forget"]
             /\ UNCHANGED <<todo, answers>>
    BY <1>1, <1>3, <1>6, <2>1, <2>3 DEF Removes
  <2> QED
    BY <1>11, <2>1, <2>2, <2>3 DEF RemoveSpec
<1>12. CASE ForgetPrepared(k)
  <2>1. /\ InHandler(k) /\ op[k] = "unprepare" /\ Claim(k) \notin DOMAIN specs
        /\ UNCHANGED <<up, specs, op, crashes, orphans>>
        /\ prepared' = Delete(prepared, Claim(k))
    BY <1>12 DEF ForgetPrepared, InHandler, HandlerInv, CallInv, LookInv
  <2>2. DOMAIN prepared' \cap orphans = {}
    BY <2>1 DEF OrphanInv, Delete
  <2> QED
    BY <1>1, <1>2, <1>6, <1>12, <2>1, <2>2 DEF ForgetPrepared, Ends
<1> QED
  BY <1>5, <1>7, <1>8, <1>9, <1>10, <1>11, <1>12 DEF PluginStep

-----------------------------------------------------------------------------
(***************************************************************************)
(* The inductive invariant.                                                *)
(***************************************************************************)

\* What every step may rely on.
SystemInv == TypeOK /\ HandlerInv /\ CallersInv

\* The first state satisfies it.
LEMMA InitSystemInv == SystemInit => SystemInv
<1> SUFFICES ASSUME SystemInit PROVE SystemInv
  OBVIOUS
<1>1. TypeOK /\ HandlerInv /\ Init
  BY InitType, InitHandlerInv DEF SystemInit
<1>2. /\ DOMAIN alloc = {} /\ alloc = EmptyMap
      /\ DOMAIN specs = {} /\ DOMAIN prepared = {} /\ orphans = {}
  BY <1>1, EmptyMapType DEF SystemInit, Init
<1>3. CallersTypeOK
  BY <1>2, EmptyMapType DEF SystemInit, CallersTypeOK
<1>4. AllocInv /\ RequestInv /\ AwaitInv
  BY <1>1, <1>2 DEF SystemInit, Init, AllocInv, RequestInv, AwaitInv
<1>5. FileInv /\ OrphanInv /\ RunningHasSpec /\ OneCrashIsSurvived
  BY <1>1, <1>2 DEF SystemInit, Init, FileInv, OrphanInv, RunningHasSpec,
     OneCrashIsSurvived, DeviceConflict
<1> QED
  BY <1>1, <1>3, <1>4, <1>5 DEF SystemInv, CallersInv

\* What an answer changes for the calls.
LEMMA AnsweredCalls ==
  ASSUME TypeOK, NEW k \in Calls, Answered(k)
  PROVE  /\ todo[k] = <<>> /\ pc[k] = "next" /\ pc'[k] = "idle"
         /\ UNCHANGED <<up, specs, prepared, orphans, todo, strays, crashes>>
         /\ \A j \in Calls \ {k} : /\ pc'[j] = pc[j] /\ op'[j] = op[j]
                                   /\ answers'[j] = answers[j]
         /\ \A j \in Calls : Claim(j)' = Claim(j) /\ HandleOf(j)' = HandleOf(j)
BY DEF Answered, Respond, disk, TypeOK, Claim, HandleOf

\* What an answer changes for a claim that waits for it, and for the others.
LEMMA AnsweredClaim ==
  ASSUME SystemInv, NEW k \in Calls, Answered(k), NEW c \in Claims
  PROVE  /\ awaiting[c] # k => awaiting'[c] = awaiting[c] /\ phase'[c] = phase[c]
         /\ awaiting[c] = k =>
              /\ awaiting'[c] = NoCall
              /\ phase'[c] = IF answers[k][c].error THEN phase[c]
                             ELSE IF op[k] = "prepare" THEN "prepared" ELSE "free"
         /\ phase'[c] # "free" => phase[c] # "free" /\ alloc'[c] = alloc[c]
         /\ c \in DOMAIN alloc' <=> phase'[c] # "free"
<1>1. /\ awaiting[c] # k => awaiting'[c] = awaiting[c] /\ phase'[c] = phase[c]
      /\ awaiting[c] = k =>
           /\ awaiting'[c] = NoCall
           /\ phase'[c] = IF answers[k][c].error THEN phase[c]
                          ELSE IF op[k] = "prepare" THEN "prepared" ELSE "free"
  BY DEF Answered
<1>2. awaiting[c] = k => phase[c] # "free"
  BY CallsAssumption DEF SystemInv, CallersInv, AwaitInv
<1>3. alloc' = [d \in {e \in DOMAIN alloc : phase'[e] # "free"} |-> alloc[d]]
  BY DEF Answered
<1>4. c \in DOMAIN alloc <=> phase[c] # "free"
  BY DEF SystemInv, CallersInv, CallersTypeOK
<1> QED
  BY <1>1, <1>2, <1>3, <1>4

\* What a handle for a claim changes.
LEMMA AllocateEffect ==
  ASSUME CallersTypeOK, NEW c \in Claims, NEW h \in Handles, Allocate(c, h)
  PROVE  /\ c \notin DOMAIN alloc /\ DOMAIN alloc' = DOMAIN alloc \cup {c}
         /\ alloc'[c] = h /\ \A d \in DOMAIN alloc : alloc'[d] = alloc[d] /\ d # c
         /\ phase'[c] = "allocated" /\ \A d \in Claims \ {c} : phase'[d] = phase[d]
         /\ UNCHANGED <<vars, awaiting, strays, timeouts>>
<1>1. c \notin DOMAIN alloc
  BY DEF Allocate, CallersTypeOK
<1>2. IsMap(alloc, Claims, Handles)
  BY DEF CallersTypeOK
<1>3. /\ DOMAIN alloc' = DOMAIN alloc \cup {c} /\ alloc'[c] = h
      /\ \A d \in DOMAIN alloc : d # c => alloc'[d] = alloc[d]
  BY <1>2, PutType DEF Allocate
<1>4. phase'[c] = "allocated" /\ \A d \in Claims \ {c} : phase'[d] = phase[d]
  BY DEF Allocate, CallersTypeOK
<1> QED
  BY <1>1, <1>3, <1>4 DEF Allocate

\* The callers keep their types.
LEMMA CallersTypeStep ==
  ASSUME SystemInv, [SystemNext]_allVars
  PROVE  CallersTypeOK'
<1> USE DEF CallersTypeOK, callers
<1>0. CallersTypeOK
  BY DEF SystemInv, CallersInv
<1>1. ASSUME NEW c \in Claims, NEW h \in Handles, Allocate(c, h)
      PROVE  CallersTypeOK'
  <2>1. IsMap(alloc', Claims, Handles)
    BY <1>0, <1>1, PutType DEF Allocate
  <2>2. phase' \in [Claims -> {"free", "allocated", "prepared", "released"}]
    BY <1>0, <1>1 DEF Allocate
  <2>3. DOMAIN alloc' = {d \in Claims : phase'[d] # "free"}
    BY <1>0, <1>1, AllocateEffect
  <2> QED
    BY <1>0, <1>1, <2>1, <2>2, <2>3 DEF Allocate
<1>2. ASSUME NEW c \in Claims, Release(c) \/ GiveUp(c)
      PROVE  CallersTypeOK'
  BY <1>0, <1>2, TimeoutAssumption DEF Release, GiveUp
<1>3. ASSUME NEW c \in Claims, NEW k \in Calls, AskPrepare(c, k) \/ AskUnprepare(c, k)
      PROVE  CallersTypeOK'
  BY <1>0, <1>3 DEF AskPrepare, AskUnprepare, Ask
<1>4. ASSUME NEW k \in Calls, Answered(k)
      PROVE  CallersTypeOK'
  <2>1. DOMAIN alloc' = {c \in Claims : phase'[c] # "free"}
    <3>1. DOMAIN alloc' \subseteq Claims
      BY <1>0, <1>4 DEF Answered
    <3> QED
      BY <1>4, <3>1, AnsweredClaim
  <2>2. IsMap(alloc', Claims, Handles)
    <3>1. /\ alloc' = [c \in DOMAIN alloc' |-> alloc[c]]
          /\ DOMAIN alloc' \subseteq DOMAIN alloc
      BY <1>4 DEF Answered
    <3> QED
      BY <1>0, <3>1 DEF IsMap
  <2> QED
    BY <1>0, <1>4, <2>1, <2>2 DEF Answered
<1>5. CASE PluginDies
  BY <1>0, <1>5 DEF PluginDies
<1>6. CASE UNCHANGED callers
  BY <1>0, <1>6
<1> QED
  BY <1>1, <1>2, <1>3, <1>4, <1>5, <1>6 DEF SystemNext, PluginStep, allVars

\* No device is allocated to two claims.
LEMMA AllocStep ==
  ASSUME SystemInv, [SystemNext]_allVars
  PROVE  AllocInv'
<1>0. CallersTypeOK /\ AllocInv
  BY DEF SystemInv, CallersInv
<1>1. ASSUME NEW c \in Claims, NEW h \in Handles, Allocate(c, h)
      PROVE  AllocInv'
  <2>1. \A d \in DOMAIN alloc : alloc[d].names \cap h.names = {}
    BY <1>1 DEF Allocate
  <2>2. /\ DOMAIN alloc' = DOMAIN alloc \cup {c} /\ alloc'[c] = h
        /\ \A d \in DOMAIN alloc : alloc'[d] = alloc[d]
    BY <1>0, <1>1, AllocateEffect
  <2> QED
    BY <1>0, <2>1, <2>2 DEF AllocInv
<1>2. ASSUME NEW k \in Calls, Answered(k)
      PROVE  AllocInv'
  <2>1. DOMAIN alloc' \subseteq DOMAIN alloc /\ \A c \in DOMAIN alloc' : alloc'[c] = alloc[c]
    BY <1>2 DEF Answered
  <2> QED
    BY <1>0, <2>1 DEF AllocInv
<1>3. CASE UNCHANGED alloc
  BY <1>0, <1>3 DEF AllocInv
<1> QED
  BY <1>1, <1>2, <1>3 DEF SystemNext, PluginStep, PluginDies, Release, GiveUp,
     AskPrepare, AskUnprepare, Ask, callers, allVars

\* What a call that is asked for changes.
LEMMA AskedEffect ==
  ASSUME SystemInv, NEW c \in Claims, NEW k \in Calls,
         AskPrepare(c, k) \/ AskUnprepare(c, k)
  PROVE  /\ todo'[k] # <<>> /\ Tail(todo'[k]) = <<>> /\ Claim(k)' = c
         /\ op'[k] = "prepare" => HandleOf(k)' = alloc[c] /\ alloc[c] \in Handles
         /\ phase[c] \in IF op'[k] = "prepare" THEN {"allocated", "prepared"} ELSE {"released"}
         /\ pc[k] = "idle" /\ pc'[k] = "next"
         /\ \A j \in Calls \ {k} : pc'[j] = pc[j] /\ op'[j] = op[j] /\ todo'[j] = todo[j]
         /\ awaiting[c] = NoCall /\ awaiting'[c] = k
         /\ \A d \in Claims \ {c} : awaiting'[d] = awaiting[d]
         /\ UNCHANGED <<up, disk, prepared, mutexes, answers, crashes, orphans>>
         /\ UNCHANGED <<phase, alloc, strays, timeouts>>
<1>0. TypeOK /\ CallersTypeOK
  BY DEF SystemInv, CallersInv
<1>1. PICK rpc \in {"prepare", "unprepare"}, h \in Handles \cup {NoHandle} :
        /\ Ask(c, k, rpc, h)
        /\ rpc = "prepare" => AskPrepare(c, k) /\ h = alloc[c] /\ h \in Handles
        /\ rpc = "unprepare" => AskUnprepare(c, k)
  BY <1>0, AskHandle
<1>2. /\ todo'[k] # <<>> /\ Tail(todo'[k]) = <<>> /\ Claim(k)' = c /\ HandleOf(k)' = h
  BY <1>0, <1>1, AskEffect
<1>3. /\ pc[k] = "idle" /\ pc'[k] = "next" /\ op'[k] = rpc
      /\ \A j \in Calls \ {k} : pc'[j] = pc[j] /\ op'[j] = op[j] /\ todo'[j] = todo[j]
      /\ awaiting[c] = NoCall /\ awaiting'[c] = k
      /\ \A d \in Claims \ {c} : awaiting'[d] = awaiting[d]
      /\ UNCHANGED <<up, disk, prepared, mutexes, answers, crashes, orphans>>
      /\ UNCHANGED <<phase, alloc, strays, timeouts>>
  BY <1>0, <1>1 DEF Ask, Receive, TypeOK, CallersTypeOK
<1>4. phase[c] \in IF rpc = "prepare" THEN {"allocated", "prepared"} ELSE {"released"}
  BY <1>1 DEF AskPrepare, AskUnprepare
<1> QED
  BY <1>1, <1>2, <1>3, <1>4

\* What is left of a request while its call is at work.
LEMMA WorkEffect ==
  ASSUME SystemInv, NEW k \in Calls, PluginStep(k)
  PROVE  /\ \A j \in Calls \ {k} : /\ todo'[j] = todo[j] /\ answers'[j] = answers[j]
                                   /\ Claim(j)' = Claim(j) /\ HandleOf(j)' = HandleOf(j)
         /\ \/ todo'[k] = <<>>
            \/ todo'[k] = todo[k] /\ Claim(k)' = Claim(k) /\ HandleOf(k)' = HandleOf(k)
<1>1. /\ \A j \in Calls \ {k} : todo'[j] = todo[j] /\ answers'[j] = answers[j]
      /\ todo'[k] = todo[k] \/ todo'[k] = Tail(todo[k])
  BY PluginStepEffect DEF SystemInv, CallersInv, TypeOK, Looks, Writes, Removes, Ends
<1>2. todo[k] # <<>> => Tail(todo[k]) = <<>>
  BY DEF SystemInv, CallersInv, RequestInv
<1>3. todo[k] # <<>>
  BY PluginStepEffect DEF SystemInv, CallersInv
<1> QED
  BY <1>1, <1>2, <1>3 DEF Claim, HandleOf

\* Death takes the calls and the memory.
LEMMA DeathEffect ==
  ASSUME PluginDies
  PROVE  /\ up /\ up' = FALSE /\ prepared' = EmptyMap /\ DOMAIN prepared' = {}
         /\ \A k \in Calls : pc'[k] = "idle" /\ todo'[k] = <<>>
         /\ \A c \in Claims : awaiting'[c] = NoCall
         /\ specs' = specs /\ orphans' = DOMAIN specs /\ crashes' = crashes + 1
         /\ UNCHANGED <<phase, alloc, strays>>
BY EmptyMapType DEF PluginDies, Crash, Die, disk

\* The start of a process finds no call and touches no spec file.
LEMMA StartEffect ==
  ASSUME SystemInv, Start
  PROVE  /\ UNCHANGED <<specs, pc, op, todo, answers, crashes, orphans>>
         /\ DOMAIN prepared' = {}
BY EmptyMapType DEF Start, NewDeviceState, calls

\* Every request is for one claim that waits for it.
LEMMA RequestStep ==
  ASSUME SystemInv, [SystemNext]_allVars
  PROVE  RequestInv'
<1> USE DEF RequestInv
<1>0. RequestInv
  BY DEF SystemInv, CallersInv
<1>1. ASSUME UNCHANGED <<op, todo, awaiting>>, strays \subseteq strays'
      PROVE  RequestInv'
  BY <1>0, <1>1 DEF Claim, HandleOf
<1>2. ASSUME NEW c \in Claims, \/ Release(c) \/ \E h \in Handles : Allocate(c, h)
      PROVE  RequestInv'
  BY <1>1, <1>2 DEF Release, Allocate, vars, calls
<1>3. ASSUME NEW c \in Claims, GiveUp(c)
      PROVE  RequestInv'
  <2>1. /\ UNCHANGED <<op, todo>> /\ strays' = strays \cup {c}
        /\ \A d \in Claims \ {c} : awaiting'[d] = awaiting[d]
    BY <1>3 DEF GiveUp, vars, calls, SystemInv, CallersInv, CallersTypeOK
  <2>2. \A k \in Calls : todo[k] # <<>> => Claim(k) \in Claims
    BY NextClaimType DEF SystemInv
  <2>3. \A k \in Calls : Claim(k)' = Claim(k) /\ HandleOf(k)' = HandleOf(k)
    BY <2>1 DEF Claim, HandleOf
  <2> QED
    BY <1>0, <2>1, <2>2, <2>3
<1>4. ASSUME NEW c \in Claims, NEW k \in Calls, AskPrepare(c, k) \/ AskUnprepare(c, k)
      PROVE  RequestInv'
  <2>1. \A j \in Calls \ {k} : Claim(j)' = Claim(j) /\ HandleOf(j)' = HandleOf(j)
    BY <1>4, AskedEffect DEF Claim, HandleOf
  <2>2. \A j \in Calls : todo[j] # <<>> => Claim(j) \in Claims
    BY NextClaimType DEF SystemInv
  <2>3. ASSUME NEW j \in Calls \ {k}, todo[j] # <<>>
        PROVE  awaiting'[Claim(j)] = j \/ Claim(j) \in strays
    BY <1>0, <1>4, <2>2, <2>3, AskedEffect, CallsAssumption
  <2> QED
    BY <1>0, <1>4, <2>1, <2>3, AskedEffect
<1>5. ASSUME NEW k \in Calls, Answered(k)
      PROVE  RequestInv'
  <2>1. /\ todo' = todo /\ strays' = strays /\ todo[k] = <<>>
        /\ \A j \in Calls : Claim(j)' = Claim(j) /\ HandleOf(j)' = HandleOf(j)
        /\ \A j \in Calls \ {k} : op'[j] = op[j]
    BY <1>5, AnsweredCalls DEF SystemInv
  <2>2. \A j \in Calls : todo[j] # <<>> => Claim(j) \in Claims
    BY NextClaimType DEF SystemInv
  <2>3. \A c \in Claims : awaiting[c] # k => awaiting'[c] = awaiting[c]
    BY <1>5, AnsweredClaim
  <2> QED
    BY <1>0, <2>1, <2>2, <2>3
<1>6. ASSUME NEW k \in Calls, PluginStep(k)
      PROVE  RequestInv'
  <2>1. UNCHANGED <<op, awaiting, strays>>
    BY <1>6, PluginStepEffect DEF SystemInv, CallersInv, callers
  <2> QED
    BY <1>0, <1>6, <2>1, WorkEffect
<1>7. CASE Start /\ UNCHANGED callers
  BY <1>1, <1>7, StartEffect DEF callers
<1>8. CASE PluginDies
  BY <1>8, DeathEffect
<1>9. CASE UNCHANGED allVars
  BY <1>1, <1>9 DEF allVars, vars, calls, callers
<1> QED
  BY <1>2, <1>3, <1>4, <1>5, <1>6, <1>7, <1>8, <1>9 DEF SystemNext

\* The call that a claim waits for is for that claim.
LEMMA AwaitStep ==
  ASSUME SystemInv, [SystemNext]_allVars
  PROVE  AwaitInv'
<1>0. AwaitInv /\ CallersTypeOK
  BY DEF SystemInv, CallersInv
<1>a. \A c \in Claims : awaiting[c] # NoCall => awaiting[c] \in Calls /\ c \in DOMAIN alloc
  BY <1>0 DEF AwaitInv, CallersTypeOK
<1>1. ASSUME UNCHANGED <<pc, op, todo>>,
             \A c \in Claims : awaiting'[c] # NoCall =>
               /\ awaiting'[c] = awaiting[c]
               /\ phase'[c] = phase[c] /\ alloc'[c] = alloc[c]
      PROVE  AwaitInv'
  BY <1>0, <1>1 DEF AwaitInv, Claim, HandleOf
<1>2. ASSUME NEW c \in Claims, NEW h \in Handles, Allocate(c, h)
      PROVE  AwaitInv'
  BY <1>0, <1>a, <1>1, <1>2, AllocateEffect DEF vars, calls, CallersTypeOK
<1>3. ASSUME NEW c \in Claims, Release(c) \/ GiveUp(c)
      PROVE  AwaitInv'
  BY <1>0, <1>1, <1>3 DEF Release, GiveUp, vars, calls, CallersTypeOK
<1>4. ASSUME NEW c \in Claims, NEW k \in Calls, AskPrepare(c, k) \/ AskUnprepare(c, k)
      PROVE  AwaitInv'
  <2>1. \A d \in Claims \ {c} : awaiting[d] # k
    BY <1>0, <1>4, AskedEffect, CallsAssumption DEF AwaitInv
  <2>2. \A j \in Calls \ {k} : Claim(j)' = Claim(j) /\ HandleOf(j)' = HandleOf(j)
    BY <1>4, AskedEffect DEF Claim, HandleOf
  <2>3. ASSUME NEW d \in Claims \ {c}, awaiting'[d] # NoCall
        PROVE  /\ awaiting'[d] = awaiting[d] /\ awaiting[d] \in Calls \ {k}
               /\ phase'[d] = phase[d] /\ alloc' = alloc
    BY <1>a, <1>4, <2>1, <2>3, AskedEffect
  <2>4. /\ awaiting'[c] = k /\ Claim(k)' = c /\ pc'[k] = "next"
        /\ op'[k] = "prepare" => HandleOf(k)' = alloc'[c]
        /\ phase'[c] \in IF op'[k] = "prepare" THEN {"allocated", "prepared"}
                         ELSE {"released"}
    BY <1>4, AskedEffect
  <2>5. \A j \in Calls \ {k} : pc'[j] = pc[j] /\ op'[j] = op[j] /\ todo'[j] = todo[j]
    BY <1>4, AskedEffect
  <2> QED
    BY <1>0, <2>2, <2>3, <2>4, <2>5 DEF AwaitInv
<1>5. ASSUME NEW k \in Calls, Answered(k)
      PROVE  AwaitInv'
  <2>1. /\ todo' = todo
        /\ \A j \in Calls : Claim(j)' = Claim(j) /\ HandleOf(j)' = HandleOf(j)
        /\ \A j \in Calls \ {k} : pc'[j] = pc[j] /\ op'[j] = op[j]
    BY <1>5, AnsweredCalls DEF SystemInv
  <2>2. ASSUME NEW d \in Claims, awaiting'[d] # NoCall
        PROVE  /\ awaiting'[d] = awaiting[d] /\ awaiting[d] \in Calls \ {k}
               /\ phase'[d] = phase[d] /\ alloc'[d] = alloc[d]
    <3>1. awaiting[d] # k /\ awaiting'[d] = awaiting[d] /\ phase'[d] = phase[d]
      BY <1>5, <2>2, AnsweredClaim
    <3>2. awaiting[d] \in Calls /\ phase[d] # "free"
      BY <1>0, <1>a, <2>2, <3>1 DEF CallersTypeOK
    <3> QED
      BY <1>5, <3>1, <3>2, AnsweredClaim
  <2> QED
    BY <1>0, <2>1, <2>2 DEF AwaitInv
<1>6. ASSUME NEW k \in Calls, PluginStep(k)
      PROVE  AwaitInv'
  <2>1. /\ UNCHANGED <<op, awaiting, phase, alloc>> /\ pc'[k] # "idle"
        /\ \A j \in Calls \ {k} : pc'[j] = pc[j]
    BY <1>6, PluginStepEffect DEF SystemInv, CallersInv, callers
  <2>2. ASSUME NEW c \in Claims, awaiting'[c] # NoCall
        PROVE  /\ awaiting[c] = awaiting'[c] /\ awaiting[c] \in Calls /\ pc'[awaiting[c]] # "idle"
               /\ \/ todo'[awaiting[c]] = <<>>
                  \/ /\ todo'[awaiting[c]] = todo[awaiting[c]]
                     /\ Claim(awaiting[c])' = Claim(awaiting[c])
                     /\ HandleOf(awaiting[c])' = HandleOf(awaiting[c])
    BY <1>0, <1>a, <1>6, <2>1, <2>2, WorkEffect DEF AwaitInv
  <2> QED
    BY <1>0, <2>1, <2>2 DEF AwaitInv
<1>7. CASE Start /\ UNCHANGED callers
  BY <1>1, <1>7, StartEffect DEF callers
<1>8. CASE PluginDies
  BY <1>8, DeathEffect DEF AwaitInv
<1>9. CASE UNCHANGED allVars
  BY <1>1, <1>9 DEF allVars, vars, calls, callers
<1> QED
  BY <1>2, <1>3, <1>4, <1>5, <1>6, <1>7, <1>8, <1>9 DEF SystemNext

\* The file of claim c is what FileInv says of it, before and after a step.
FileOf(c) == c \in DOMAIN specs \ orphans => c \in DOMAIN alloc /\ OwnSpec(c)

\* A claim whose file, allocation and call stay as they are relies on the same.
LEMMA FileFrame ==
  ASSUME FileInv, NEW c \in Claims \ strays, awaiting'[c] = awaiting[c],
         c \in DOMAIN specs' <=> c \in DOMAIN specs, specs'[c] = specs[c],
         c \in orphans' <=> c \in orphans,
         c \in DOMAIN alloc => c \in DOMAIN alloc', alloc'[c] = alloc[c],
         awaiting[c] # NoCall =>
           /\ todo'[awaiting[c]] = todo[awaiting[c]]
           /\ op'[awaiting[c]] = op[awaiting[c]]
           /\ answers'[awaiting[c]] = answers[awaiting[c]]
  PROVE  /\ FileOf(c)'
         /\ awaiting'[c] # NoCall /\ todo'[awaiting'[c]] = <<>>
              /\ ~answers'[awaiting'[c]][c].error =>
              IF op'[awaiting'[c]] = "prepare" THEN OwnSpec(c)'
              ELSE c \notin DOMAIN specs' \ orphans'
BY DEF FileInv, FileOf, OwnSpec

\* The call of a claim is the only one that may touch its file.
LEMMA OwnCall ==
  ASSUME SystemInv, NEW k \in Calls, todo[k] # <<>>, Claim(k) \notin strays
  PROVE  /\ Claim(k) \in Claims /\ awaiting[Claim(k)] = k
         /\ op[k] = "prepare" => /\ HandleOf(k) = alloc[Claim(k)]
                                 /\ Claim(k) \in DOMAIN alloc
         /\ op[k] # "prepare" => phase[Claim(k)] = "released"
<1>1. Claim(k) \in Claims
  BY NextClaimType DEF SystemInv
<1>2. awaiting[Claim(k)] = k
  BY DEF SystemInv, CallersInv, RequestInv
<1> QED
  BY <1>1, <1>2, CallsAssumption DEF SystemInv, CallersInv, AwaitInv, CallersTypeOK

\* Files and answers stay true for the claims that wait for them.
LEMMA FileStep ==
  ASSUME SystemInv, [SystemNext]_allVars
  PROVE  FileInv'
<1> DEFINE Good(c) ==
      /\ FileOf(c)'
      /\ awaiting'[c] # NoCall /\ todo'[awaiting'[c]] = <<>>
           /\ ~answers'[awaiting'[c]][c].error =>
           IF op'[awaiting'[c]] = "prepare" THEN OwnSpec(c)'
           ELSE c \notin DOMAIN specs' \ orphans'
<1>0. FileInv /\ CallersTypeOK /\ AwaitInv /\ TypeOK /\ HandlerInv /\ OrphanInv
  BY DEF SystemInv, CallersInv
<1>a. \A c \in Claims : awaiting[c] # NoCall => awaiting[c] \in Calls
  BY <1>0 DEF CallersTypeOK
<1>b. /\ \A c \in Claims : phase[c] # "free" <=> c \in DOMAIN alloc
      /\ \A c \in Claims : awaiting[c] # NoCall => c \in DOMAIN alloc
  BY <1>0 DEF CallersTypeOK, AwaitInv
<1> SUFFICES ASSUME NEW c \in Claims \ strays' PROVE Good(c)
  BY DEF FileInv, FileOf
<1>c. c \notin strays
  BY DEF SystemNext, Allocate, Release, GiveUp, AskPrepare, AskUnprepare, Ask, Answered,
     PluginStep, PluginDies, callers, allVars
<1>1. ASSUME UNCHANGED <<op, todo, answers, specs, orphans, alloc, awaiting>>
      PROVE  Good(c)
  BY <1>0, <1>1, <1>c, FileFrame
<1>2. ASSUME NEW d \in Claims, NEW h \in Handles, Allocate(d, h)
      PROVE  Good(c)
  <2>1. /\ UNCHANGED <<op, todo, answers, specs, orphans, awaiting>>
        /\ d \notin DOMAIN alloc
        /\ \A e \in DOMAIN alloc : e \in DOMAIN alloc' /\ alloc'[e] = alloc[e]
    BY <1>0, <1>2, AllocateEffect DEF vars, disk, calls
  <2>2. CASE c \in DOMAIN alloc
    BY <1>0, <1>c, <2>1, <2>2, FileFrame
  <2>3. CASE c \notin DOMAIN alloc
    BY <1>0, <1>b, <1>c, <2>1, <2>3 DEF FileInv, FileOf
  <2> QED
    BY <2>2, <2>3
<1>3. ASSUME NEW d \in Claims, Release(d)
      PROVE  Good(c)
  BY <1>1, <1>3 DEF Release, vars, disk, calls
<1>4. ASSUME NEW d \in Claims, GiveUp(d)
      PROVE  Good(c)
  <2>1. /\ UNCHANGED <<op, todo, answers, specs, orphans, alloc>>
        /\ c # d /\ awaiting'[c] = awaiting[c]
    BY <1>0, <1>4 DEF GiveUp, vars, disk, calls, CallersTypeOK
  <2> QED
    BY <1>0, <1>c, <2>1, FileFrame
<1>5. ASSUME NEW d \in Claims, NEW k \in Calls, AskPrepare(d, k) \/ AskUnprepare(d, k)
      PROVE  Good(c)
  <2>1. /\ UNCHANGED <<answers, specs, orphans, alloc>>
        /\ todo'[k] # <<>> /\ awaiting'[d] = k /\ pc[k] = "idle"
        /\ \A j \in Calls \ {k} : op'[j] = op[j] /\ todo'[j] = todo[j]
        /\ \A e \in Claims \ {d} : awaiting'[e] = awaiting[e]
    BY <1>5, AskedEffect DEF disk
  <2>2. CASE c = d
    BY <1>0, <1>c, <2>1, <2>2 DEF FileInv, FileOf, OwnSpec
  <2>3. CASE c # d
    <3>1. awaiting[c] # k
      BY <1>0, <2>1, CallsAssumption DEF AwaitInv
    <3> QED
      BY <1>0, <1>a, <1>c, <2>1, <2>3, <3>1, FileFrame
  <2> QED
    BY <2>2, <2>3
<1>6. ASSUME NEW k \in Calls, Answered(k)
      PROVE  Good(c)
  <2>1. /\ todo[k] = <<>> /\ UNCHANGED <<todo, specs, orphans>>
        /\ \A j \in Calls \ {k} : op'[j] = op[j] /\ answers'[j] = answers[j]
    BY <1>0, <1>6, AnsweredCalls
  <2>2. /\ awaiting[c] # k => awaiting'[c] = awaiting[c] /\ phase'[c] = phase[c]
        /\ awaiting[c] = k =>
              /\ awaiting'[c] = NoCall
              /\ phase'[c] = IF answers[k][c].error THEN phase[c]
                             ELSE IF op[k] = "prepare" THEN "prepared" ELSE "free"
        /\ phase'[c] # "free" => phase[c] # "free" /\ alloc'[c] = alloc[c]
        /\ c \in DOMAIN alloc' <=> phase'[c] # "free"
    BY <1>6, AnsweredClaim
  <2>3. CASE awaiting[c] # k
    <3>1. CASE phase[c] = "free"
      BY <1>0, <1>b, <1>c, <2>1, <2>2, <2>3, <3>1 DEF FileInv, FileOf
    <3>2. CASE phase[c] # "free"
      BY <1>0, <1>a, <1>c, <2>1, <2>2, <2>3, <3>2, FileFrame
    <3> QED
      BY <3>1, <3>2
  <2>4. CASE awaiting[c] = k
    <3>1. FileOf(c)
      BY <1>0, <1>c DEF FileInv, FileOf
    <3>2. CASE phase'[c] = "free"
      <4>1. (~answers[k][c].error /\ op[k] # "prepare") \/ phase[c] = "free"
        BY <2>2, <2>4, <3>2
      <4>2. phase[c] # "free"
        BY <1>b, <2>4, CallsAssumption
      <4>3. c \notin DOMAIN specs \ orphans
        BY <1>0, <1>c, <2>1, <2>4, <4>1, <4>2, CallsAssumption DEF FileInv
      <4> QED
        BY <2>1, <2>2, <2>4, <4>3 DEF FileOf
    <3>3. CASE phase'[c] # "free"
      BY <2>1, <2>2, <2>4, <3>1, <3>3 DEF FileOf, OwnSpec
    <3> QED
      BY <3>2, <3>3
  <2> QED
    BY <2>3, <2>4
<1>7. ASSUME NEW k \in Calls, PluginStep(k)
      PROVE  Good(c)
  <2>1. /\ UNCHANGED <<alloc, awaiting, phase, op>> /\ todo[k] # <<>>
        /\ Looks(k) \/ Writes(k) \/ Removes(k) \/ Ends(k)
    BY <1>0, <1>7, PluginStepEffect DEF callers
  <2>2. CASE Looks(k)
    BY <1>1, <2>1, <2>2 DEF Looks
  <2>3. CASE c # Claim(k)
    <3>1. UNCHANGED <<todo, answers>> \/ Ends(k)
      BY <2>1 DEF Looks, Writes, Removes
    <3>2. /\ c \in DOMAIN specs' <=> c \in DOMAIN specs
          /\ c \in DOMAIN specs => specs'[c] = specs[c]
          /\ c \in orphans' <=> c \in orphans
      BY <2>1, <2>3 DEF Looks, Writes, Removes, Ends, Put, Delete
    <3>3. awaiting[c] # k
      BY <1>0, <2>1, <2>3, CallsAssumption DEF AwaitInv
    <3>4. awaiting[c] # NoCall => /\ todo'[awaiting[c]] = todo[awaiting[c]]
                                  /\ answers'[awaiting[c]] = answers[awaiting[c]]
      BY <1>0, <1>a, <3>1, <3>3 DEF Ends, TypeOK
    <3> QED
      BY <1>0, <1>c, <2>1, <3>2, <3>4 DEF FileInv, FileOf, OwnSpec
  <2>4. CASE c = Claim(k) /\ ~Looks(k)
    <3>1. /\ awaiting[c] = k
          /\ op[k] = "prepare" => HandleOf(k) = alloc[c] /\ c \in DOMAIN alloc
      BY <1>c, <2>1, <2>4, OwnCall
    <3>2. FileOf(c)
      BY <1>0, <1>c DEF FileInv, FileOf
    <3>3. CASE Writes(k)
      <4>1. c \in DOMAIN specs' /\ specs'[c] = PreparedFakes(alloc[c])
        BY <2>4, <3>1, <3>3 DEF Writes, Put
      <4> QED
        BY <2>1, <3>1, <3>3, <4>1 DEF Writes, FileOf, OwnSpec
    <3>4. CASE Removes(k)
      BY <2>1, <2>4, <3>1, <3>4 DEF Removes, Delete, FileOf
    <3>5. CASE Ends(k)
      <4>1. ~answers'[k][c].error => (op[k] = "prepare" <=> c \in DOMAIN specs \ orphans)
        BY <2>4, <3>5 DEF Ends
      <4>2. UNCHANGED <<specs, orphans>>
        BY <3>5 DEF Ends
      <4> QED
        BY <2>1, <3>1, <3>2, <4>1, <4>2 DEF FileOf, OwnSpec
    <3> QED
      BY <2>1, <2>4, <3>3, <3>4, <3>5
  <2> QED
    BY <2>2, <2>3, <2>4
<1>8. CASE Start /\ UNCHANGED callers
  BY <1>1, <1>8, StartEffect DEF callers
<1>9. CASE PluginDies
  BY <1>9, DeathEffect DEF FileOf
<1>10. CASE UNCHANGED allVars
  BY <1>1, <1>10 DEF allVars, vars, disk, calls, callers
<1> QED
  BY <1>2, <1>3, <1>4, <1>5, <1>6, <1>7, <1>8, <1>9, <1>10 DEF SystemNext

\* The map knows no file of an earlier process.
LEMMA OrphanStep ==
  ASSUME SystemInv, [SystemNext]_allVars
  PROVE  OrphanInv'
<1>0. TypeOK /\ HandlerInv /\ OrphanInv /\ CallersTypeOK
  BY DEF SystemInv, CallersInv
<1>1. ASSUME UNCHANGED <<prepared, orphans, pc, todo, crashes>>
      PROVE  OrphanInv'
  BY <1>0, <1>1 DEF OrphanInv, Claim
<1>2. ASSUME NEW c \in Claims, NEW k \in Calls, AskPrepare(c, k) \/ AskUnprepare(c, k)
      PROVE  OrphanInv'
  <2>1. /\ UNCHANGED <<prepared, orphans, crashes>> /\ pc'[k] = "next"
        /\ \A j \in Calls \ {k} : pc'[j] = pc[j] /\ todo'[j] = todo[j]
    BY <1>2, AskedEffect
  <2> QED
    BY <1>0, <2>1 DEF OrphanInv, Claim
<1>3. ASSUME NEW k \in Calls, Answered(k)
      PROVE  OrphanInv'
  <2>1. /\ UNCHANGED <<prepared, orphans, todo, crashes>> /\ pc'[k] = "idle"
        /\ \A j \in Calls \ {k} : pc'[j] = pc[j]
    BY <1>0, <1>3, AnsweredCalls
  <2> QED
    BY <1>0, <2>1 DEF OrphanInv, Claim
<1>4. ASSUME NEW k \in Calls, PluginStep(k)
      PROVE  OrphanInv'
  <2>1. /\ crashes' = crashes
        /\ Looks(k) \/ Writes(k) \/ Removes(k) \/ Ends(k)
        /\ \A j \in Calls \ {k} : pc'[j] = pc[j]
    BY <1>0, <1>4, PluginStepEffect
  <2>2. orphans' \subseteq orphans /\ DOMAIN prepared' \cap orphans' = {}
    BY <1>0, <2>1 DEF Looks, Writes, Removes, Ends, OrphanInv
  <2>3. \A j \in Calls \ {k} : Claim(j)' = Claim(j)
    BY <1>4, WorkEffect
  <2>4. pc'[k] = "commit" => Claim(k)' \notin orphans'
    BY <2>1 DEF Looks, Writes, Removes, Ends, Claim
  <2>5. crashes' = 0 => orphans' = {}
    BY <1>0, <2>1, <2>2 DEF OrphanInv
  <2>6. \A j \in Calls : pc'[j] = "commit" => Claim(j)' \notin orphans'
    BY <1>0, <2>1, <2>2, <2>3, <2>4 DEF OrphanInv
  <2> QED
    BY <2>2, <2>5, <2>6 DEF OrphanInv
<1>5. CASE Start
  <2>1. /\ UNCHANGED <<orphans, pc, todo, crashes>> /\ DOMAIN prepared' = {}
    BY <1>5, StartEffect
  <2> QED
    BY <1>0, <2>1 DEF OrphanInv, Claim
<1>6. CASE PluginDies
  BY <1>0, <1>6, DeathEffect DEF OrphanInv, TypeOK
<1>7. ASSUME UNCHANGED vars
      PROVE  OrphanInv'
  BY <1>1, <1>7 DEF vars, calls
<1> QED
  BY <1>2, <1>3, <1>4, <1>5, <1>6, <1>7 DEF SystemNext, Allocate, Release, GiveUp, allVars

\* A running pod keeps its spec file.
LEMMA RunningStep ==
  ASSUME SystemInv, [SystemNext]_allVars
  PROVE  RunningHasSpec'
<1>0. /\ TypeOK /\ HandlerInv /\ OrphanInv /\ CallersTypeOK /\ FileInv
      /\ \A c \in Claims \ strays : phase[c] = "prepared" => OwnSpec(c)
  BY DEF SystemInv, CallersInv, RunningHasSpec, OwnSpec
<1> SUFFICES ASSUME NEW c \in Claims \ strays', phase'[c] = "prepared"
             PROVE  OwnSpec(c)'
  BY DEF RunningHasSpec, OwnSpec
<1>c. c \notin strays
  BY DEF SystemNext, Allocate, Release, GiveUp, AskPrepare, AskUnprepare, Ask, Answered,
     PluginStep, PluginDies, callers, allVars
<1>1. ASSUME phase[c] = "prepared", specs' = specs, alloc'[c] = alloc[c]
      PROVE  OwnSpec(c)'
  BY <1>0, <1>1, <1>c DEF OwnSpec
<1>2. ASSUME NEW d \in Claims, NEW h \in Handles, Allocate(d, h)
      PROVE  OwnSpec(c)'
  <2>1. c # d /\ phase[c] = "prepared"
    BY <1>0, <1>2, AllocateEffect
  <2>2. c \in DOMAIN alloc
    BY <1>0, <2>1 DEF CallersTypeOK
  <2> QED
    BY <1>0, <1>1, <1>2, <2>1, <2>2, AllocateEffect DEF vars, disk
<1>3. ASSUME NEW d \in Claims, Release(d) \/ GiveUp(d)
      PROVE  OwnSpec(c)'
  BY <1>0, <1>1, <1>3 DEF Release, GiveUp, vars, disk, CallersTypeOK
<1>4. ASSUME NEW d \in Claims, NEW k \in Calls, AskPrepare(d, k) \/ AskUnprepare(d, k)
      PROVE  OwnSpec(c)'
  BY <1>1, <1>4, AskedEffect DEF disk
<1>5. ASSUME NEW k \in Calls, Answered(k)
      PROVE  OwnSpec(c)'
  <2>1. todo[k] = <<>> /\ specs' = specs
    BY <1>0, <1>5, AnsweredCalls
  <2>2. /\ awaiting[c] # k => phase'[c] = phase[c]
        /\ awaiting[c] = k =>
              phase'[c] = IF answers[k][c].error THEN phase[c]
                          ELSE IF op[k] = "prepare" THEN "prepared" ELSE "free"
        /\ alloc'[c] = alloc[c]
    BY <1>5, AnsweredClaim
  <2>3. CASE phase[c] = "prepared"
    BY <1>1, <2>1, <2>2, <2>3
  <2>4. CASE phase[c] # "prepared"
    <3>1. awaiting[c] = k /\ ~answers[k][c].error /\ op[k] = "prepare"
      BY <2>2, <2>4
    <3>2. OwnSpec(c)
      BY <1>0, <1>c, <2>1, <3>1, CallsAssumption DEF FileInv
    <3> QED
      BY <2>1, <2>2, <3>2 DEF OwnSpec
  <2> QED
    BY <2>3, <2>4
<1>6. ASSUME NEW k \in Calls, PluginStep(k)
      PROVE  OwnSpec(c)'
  <2>1. /\ UNCHANGED <<alloc, phase>> /\ todo[k] # <<>>
        /\ Looks(k) \/ Writes(k) \/ Removes(k) \/ Ends(k)
    BY <1>0, <1>6, PluginStepEffect DEF callers
  <2>2. OwnSpec(c)
    BY <1>0, <1>c, <2>1
  <2>3. CASE specs' = specs
    BY <1>1, <2>1, <2>3
  <2>4. CASE Claim(k) # c
    BY <2>1, <2>2, <2>4 DEF Looks, Writes, Removes, Ends, Put, Delete, OwnSpec
  <2>5. CASE Claim(k) = c /\ Writes(k)
    <3>1. HandleOf(k) = alloc[c]
      BY <1>c, <2>1, <2>5, OwnCall DEF Writes
    <3> QED
      BY <2>1, <2>5, <3>1 DEF Writes, Put, OwnSpec
  <2>6. CASE Claim(k) = c /\ Removes(k)
    BY <1>c, <2>1, <2>6, OwnCall DEF Removes
  <2> QED
    BY <2>1, <2>3, <2>4, <2>5, <2>6 DEF Looks, Ends
<1>7. CASE Start /\ UNCHANGED callers
  BY <1>1, <1>7, StartEffect DEF callers
<1>8. CASE PluginDies
  BY <1>1, <1>8, DeathEffect
<1>9. CASE UNCHANGED allVars
  BY <1>1, <1>9 DEF allVars, vars, disk, callers
<1> QED
  BY <1>2, <1>3, <1>4, <1>5, <1>6, <1>7, <1>8, <1>9 DEF SystemNext

\* Two files that this process wrote define different devices.
LEMMA OwnFilesDiffer ==
  ASSUME SystemInv, NEW c \in DOMAIN specs \ (orphans \cup strays),
         NEW d \in DOMAIN specs \ (orphans \cup strays), c # d
  PROVE  /\ Parents(specs[c]) \cap Parents(specs[d]) = {}
         /\ specs[c] \cap specs[d] = {}
<1>1. c \in Claims \ strays /\ d \in Claims \ strays
  BY DEF SystemInv, TypeOK, IsMap
<1>2. /\ c \in DOMAIN alloc /\ specs[c] = PreparedFakes(alloc[c])
      /\ d \in DOMAIN alloc /\ specs[d] = PreparedFakes(alloc[d])
  BY <1>1 DEF SystemInv, CallersInv, FileInv, OwnSpec
<1>3. alloc[c] \in Handles /\ alloc[d] \in Handles
  BY <1>2 DEF SystemInv, CallersInv, CallersTypeOK, IsMap
<1>4. alloc[c].names \cap alloc[d].names = {}
  BY <1>2 DEF SystemInv, CallersInv, AllocInv
<1> QED
  BY <1>2, <1>3, <1>4, DisjointAllocations

\* The first crash finds the files of one process only.
LEMMA CrashStep ==
  ASSUME SystemInv, [SystemNext]_allVars
  PROVE  OneCrashIsSurvived'
<1>0. TypeOK /\ HandlerInv /\ OrphanInv /\ CallersTypeOK /\ OneCrashIsSurvived
  BY DEF SystemInv, CallersInv
<1>1. ASSUME UNCHANGED <<specs, crashes, strays>>, up' = FALSE => up = FALSE
      PROVE  OneCrashIsSurvived'
  BY <1>0, <1>1 DEF OneCrashIsSurvived, DeviceConflict, TypeOK
<1>2. ASSUME NEW c \in Claims, \/ Release(c) \/ \E h \in Handles : Allocate(c, h)
      PROVE  OneCrashIsSurvived'
  BY <1>1, <1>2 DEF Release, Allocate, vars, disk
<1>3. ASSUME NEW c \in Claims, GiveUp(c)
      PROVE  OneCrashIsSurvived'
  BY <1>3 DEF GiveUp, OneCrashIsSurvived
<1>4. ASSUME NEW c \in Claims, NEW k \in Calls, AskPrepare(c, k) \/ AskUnprepare(c, k)
      PROVE  OneCrashIsSurvived'
  BY <1>1, <1>4, AskedEffect DEF disk
<1>5. ASSUME NEW k \in Calls, Answered(k)
      PROVE  OneCrashIsSurvived'
  BY <1>0, <1>1, <1>5, AnsweredCalls
<1>6. ASSUME NEW k \in Calls, PluginStep(k)
      PROVE  OneCrashIsSurvived'
  <2>1. up' = up /\ up
    BY <1>0, <1>6, PluginStepEffect
  <2> QED
    BY <2>1 DEF OneCrashIsSurvived
<1>7. CASE Start /\ UNCHANGED callers
  <2>1. UNCHANGED <<specs, crashes, strays>> /\ up = FALSE
    BY <1>0, <1>7, StartEffect DEF Start, callers, TypeOK
  <2> QED
    BY <1>1, <2>1
<1>8. CASE PluginDies
  <2>1. crashes' <= 1 => orphans = {}
    BY <1>0, <1>8, DeathEffect DEF TypeOK, OrphanInv
  <2>2. specs' = specs /\ strays' = strays
    BY <1>8, DeathEffect
  <2> QED
    BY <2>1, <2>2, OwnFilesDiffer DEF OneCrashIsSurvived, DeviceConflict
<1>9. CASE UNCHANGED allVars
  BY <1>1, <1>9 DEF allVars, vars, disk, callers
<1> QED
  BY <1>2, <1>3, <1>4, <1>5, <1>6, <1>7, <1>8, <1>9 DEF SystemNext

-----------------------------------------------------------------------------
(***************************************************************************)
(* The theorems.                                                           *)
(***************************************************************************)

\* What the kubelet and the plugin know of each other, always holds.
THEOREM SystemInductive == SystemSpec => [](TypeOK /\ HandlerInv /\ CallersInv)
<1>1. SystemInv /\ [SystemNext]_allVars => SystemInv'
  <2> SUFFICES ASSUME SystemInv, [SystemNext]_allVars PROVE SystemInv'
    OBVIOUS
  <2>1. TypeOK' /\ HandlerInv'
    BY PluginWithin, HandlerStep DEF SystemInv, CallersInv
  <2> QED
    BY <2>1, CallersTypeStep, AllocStep, RequestStep, AwaitStep, FileStep, OrphanStep,
       RunningStep, CrashStep DEF SystemInv, CallersInv
<1> QED
  BY <1>1, InitSystemInv, PTL DEF SystemSpec, SystemInv

\* The calls of scheduler and kubelet are among those of KubeletPlugin: what is
\* proved of the plugin on its own holds among its callers.
THEOREM PluginInSystem == SystemSpec => Spec
<1>1. SystemInit => Init
  BY DEF SystemInit
<1>2. SystemInv /\ [SystemNext]_allVars => [Next]_vars
  BY PluginWithin DEF SystemInv, CallersInv
<1> QED
  BY <1>1, <1>2, SystemInductive, PTL DEF SystemSpec, Spec, SystemInv

\* While a pod may run, the spec file of its claim defines its devices.
THEOREM RunningPodsKeepSpecs == SystemSpec => []RunningHasSpec
<1>1. SystemInv => RunningHasSpec
  BY DEF SystemInv, CallersInv
<1> QED
  BY <1>1, SystemInductive, PTL DEF SystemInv

\* No device is in two spec files that this process wrote, split or whole.
THEOREM DevicesAreExclusive == SystemSpec => []ExclusiveDevices
<1>1. SystemInv => ExclusiveDevices
  BY OwnFilesDiffer DEF ExclusiveDevices
<1> QED
  BY <1>1, SystemInductive, PTL DEF SystemInv

\* After the first crash the plugin starts again.
THEOREM FirstCrashIsSurvived == SystemSpec => []OneCrashIsSurvived
<1>1. SystemInv => OneCrashIsSurvived
  BY DEF SystemInv, CallersInv
<1> QED
  BY <1>1, SystemInductive, PTL DEF SystemInv

\* No claim allocated from what is published ends the process.
THEOREM NoPanic == SystemSpec => []PanicIsOutOfReach
<1>1. SystemInv => PanicIsOutOfReach
  <2> SUFFICES ASSUME SystemInv, NEW k \in Calls, pc[k] = "store"
               PROVE  RequestedDevices(HandleOf(k)) \subseteq Allocatable
    BY DEF PanicIsOutOfReach
  <2>1. op[k] = "prepare" /\ todo[k] # <<>>
    BY DEF SystemInv, HandlerInv, CallInv, InHandler
  <2>2. HandleOf(k) \in Handles
    BY <2>1 DEF SystemInv, CallersInv, RequestInv
  <2> QED
    BY <2>2, HandlesAreKnown
<1> QED
  BY <1>1, SystemInductive, PTL DEF SystemInv
=============================================================================

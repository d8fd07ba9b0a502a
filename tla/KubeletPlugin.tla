--------------------------- MODULE KubeletPlugin ---------------------------
(***************************************************************************)
(* The kubelet plugin of one node: the gRPC handlers of driver.go, the     *)
(* device state of state.go and the CDI spec files of cdi.go.              *)
(*                                                                         *)
(* Every gRPC call runs in a goroutine of its own.  A call handles its     *)
(* claims one after the other and takes the driver's mutex anew for each   *)
(* of them; inside, DeviceState takes a second mutex.  What happens under  *)
(* the mutexes is split where the process can die with a different disk:   *)
(* look at the map of prepared claims, write (remove) the spec file,       *)
(* update the map and answer.                                              *)
(*                                                                         *)
(* The process may crash at any point.  The map, the calls and the mutexes *)
(* are lost, the spec files are not.  The callers are unconstrained here:  *)
(* any claim may be prepared or unprepared at any time, with any handle.   *)
(***************************************************************************)
EXTENDS NodeMessages

CONSTANTS
  Calls,        \* gRPC calls that may be in flight at the same time
  MaxCrashes,   \* bound: crashes of the process
  NoCall        \* the owner of a free mutex

ASSUME CallsAssumption  == NoCall \notin Calls
ASSUME CrashAssumption  == MaxCrashes \in Nat

VARIABLES
  up,           \* the process runs and serves
  common,       \* the common spec file is on disk
  specs,        \* specs[c]: the devices in the spec file of claim c
  prepared,     \* DeviceState.prepared
  driverMu,     \* the call that holds driver.Mutex, or NoCall
  stateMu,      \* the call that holds DeviceState.Mutex, or NoCall
  pc,           \* pc[k]: where call k is
  op,           \* op[k]: the RPC that call k serves
  todo,         \* todo[k]: the claims of the request still to be handled
  answers,      \* answers[k]: the response map of call k
  crashes,      \* number of crashes so far
  orphans       \* history: claims whose file was left by an earlier process

disk == <<common, specs>>
mutexes == <<driverMu, stateMu>>
calls == <<pc, op, todo, answers>>
vars == <<up, disk, prepared, mutexes, calls, crashes, orphans>>

Locations == {"idle", "next", "check", "store", "commit", "lookup", "remove", "forget"}

TypeOK ==
  /\ up \in BOOLEAN
  /\ common \in BOOLEAN
  /\ IsMap(specs, Claims, SUBSET Fakes)
  /\ IsMap(prepared, Claims, SUBSET Fakes)
  /\ driverMu \in Calls \cup {NoCall}
  /\ stateMu \in Calls \cup {NoCall}
  /\ pc \in [Calls -> Locations]
  /\ op \in [Calls -> {"none", "prepare", "unprepare"}]
  /\ todo \in [Calls -> Seq(ClaimRequest)]
  /\ answers = [k \in Calls |-> answers[k]]
  /\ \A k \in Calls : IsMap(answers[k], Claims, Answer)
  /\ crashes \in Nat
  /\ orphans \in SUBSET Claims

Init ==
  /\ up = FALSE
  /\ common = FALSE
  /\ specs = EmptyMap
  /\ prepared = EmptyMap
  /\ driverMu = NoCall
  /\ stateMu = NoCall
  /\ pc = [k \in Calls |-> "idle"]
  /\ op = [k \in Calls |-> "none"]
  /\ todo = [k \in Calls |-> <<>>]
  /\ answers = [k \in Calls |-> EmptyMap]
  /\ crashes = 0
  /\ orphans = {}

-----------------------------------------------------------------------------
(***************************************************************************)
(* Start, crash, panic.                                                    *)
(***************************************************************************)

\* Two spec files of the same directory that define the same device: the CDI
\* registry reports an error for both when it is refreshed.
DeviceConflict ==
  \E c, d \in DOMAIN specs : c # d /\ specs[c] \cap specs[d] # {}

\* Mutant: a starting process removes the files it does not know.
StartCleaning ==
  /\ ~up
  /\ crashes <= MaxCrashes
  /\ common' = TRUE
  /\ specs' = EmptyMap
  /\ up' \in BOOLEAN
  /\ prepared' = EmptyMap
  /\ UNCHANGED <<mutexes, calls, crashes, orphans>>

\* NewDeviceState: refresh the registry, write the common spec file, start with
\* an empty map.  When the refresh or the file fails nothing has happened yet.
NewDeviceState ==
  /\ ~DeviceConflict
  /\ common' = TRUE
  /\ prepared' = EmptyMap

\* StartPlugin: the state, then the sockets, which fail or are served.
Start ==
  /\ ~up
  /\ crashes <= MaxCrashes
  /\ NewDeviceState
  /\ up' \in BOOLEAN
  /\ UNCHANGED <<specs, mutexes, calls, crashes, orphans>>

\* The process dies: memory is lost, the disk stays.
Die ==
  /\ up' = FALSE
  /\ prepared' = EmptyMap
  /\ driverMu' = NoCall
  /\ stateMu' = NoCall
  /\ pc' = [k \in Calls |-> "idle"]
  /\ op' = [k \in Calls |-> "none"]
  /\ todo' = [k \in Calls |-> <<>>]
  /\ answers' = [k \in Calls |-> EmptyMap]
  /\ crashes' = crashes + 1
  /\ orphans' = DOMAIN specs
  /\ UNCHANGED disk

Crash ==
  /\ up
  /\ crashes < MaxCrashes
  /\ Die

-----------------------------------------------------------------------------
(***************************************************************************)
(* The loop of NodePrepareResources and NodeUnprepareResources.            *)
(***************************************************************************)

\* The claim call k is working on, and the handle it came with.
Claim(k) == Head(todo[k]).uid
HandleOf(k) == Head(todo[k]).handle

\* Receive a request.  Unprepare does not look at the handles.
Receive(k, rpc, request) ==
  /\ up
  /\ pc[k] = "idle"
  /\ pc' = [pc EXCEPT ![k] = "next"]
  /\ op' = [op EXCEPT ![k] = rpc]
  /\ todo' = [todo EXCEPT ![k] = request]
  /\ UNCHANGED <<up, disk, prepared, mutexes, answers, crashes, orphans>>

\* Mutant: the handler does not take the driver's mutex.
LockNothing(k) ==
  /\ pc[k] = "next"
  /\ todo[k] # <<>>
  /\ driverMu' = k
  /\ pc' = [pc EXCEPT ![k] = IF op[k] = "prepare" THEN "check" ELSE "lookup"]
  /\ UNCHANGED <<up, disk, prepared, stateMu, op, todo, answers, crashes, orphans>>

\* d.Lock() for the next claim of the request.
LockDriver(k) ==
  /\ pc[k] = "next"
  /\ todo[k] # <<>>
  /\ driverMu = NoCall
  /\ driverMu' = k
  /\ pc' = [pc EXCEPT ![k] = IF op[k] = "prepare" THEN "check" ELSE "lookup"]
  /\ UNCHANGED <<up, disk, prepared, stateMu, op, todo, answers, crashes, orphans>>

\* Mutant: the unlocks are not deferred, an early return keeps the mutexes.
FinishKeepingLocks(k, answer) ==
  /\ answers' = [answers EXCEPT ![k] = Put(@, Claim(k), answer)]
  /\ todo' = [todo EXCEPT ![k] = Tail(@)]
  /\ pc' = [pc EXCEPT ![k] = "next"]
  /\ driverMu' = IF answer.error THEN driverMu ELSE NoCall
  /\ stateMu' = IF answer.error THEN stateMu ELSE NoCall

\* The claim is done: the deferred unlocks run and its answer is recorded.
Finish(k, answer) ==
  /\ answers' = [answers EXCEPT ![k] = Put(@, Claim(k), answer)]
  /\ todo' = [todo EXCEPT ![k] = Tail(@)]
  /\ pc' = [pc EXCEPT ![k] = "next"]
  /\ driverMu' = NoCall
  /\ stateMu' = NoCall

\* All claims are handled: the response goes out.
Respond(k) ==
  /\ pc[k] = "next"
  /\ todo[k] = <<>>
  /\ pc' = [pc EXCEPT ![k] = "idle"]
  /\ op' = [op EXCEPT ![k] = "none"]
  /\ answers' = [answers EXCEPT ![k] = EmptyMap]
  /\ UNCHANGED <<up, disk, prepared, mutexes, todo, crashes, orphans>>

-----------------------------------------------------------------------------
(***************************************************************************)
(* nodePrepareResource.                                                    *)
(***************************************************************************)

IsPrepared(c) == c \in DOMAIN prepared

\* Mutant: a prepared claim is answered from the handle it comes with.
CheckPreparedFromHandle(k) ==
  /\ pc[k] = "check"
  /\ \/ /\ IsPrepared(Claim(k))
        /\ Finish(k, Success(ClaimDevices(PreparedFakes(HandleOf(k)))))
     \/ /\ ~IsPrepared(Claim(k))
        /\ HandleOf(k).kind \in {"missing", "malformed"}
        /\ Finish(k, Failure)
     \/ /\ ~IsPrepared(Claim(k))
        /\ HandleOf(k).kind = "ok"
        /\ pc' = [pc EXCEPT ![k] = "store"]
        /\ UNCHANGED <<mutexes, todo, answers>>
  /\ UNCHANGED <<up, disk, prepared, op, crashes, orphans>>

\* A prepared claim is answered from the map, and a claim whose handle is
\* missing or malformed is refused.
CheckPrepared(k) ==
  /\ pc[k] = "check"
  /\ \/ /\ IsPrepared(Claim(k))
        /\ Finish(k, Success(ClaimDevices(prepared[Claim(k)])))
     \/ /\ ~IsPrepared(Claim(k))
        /\ HandleOf(k).kind \in {"missing", "malformed"}
        /\ Finish(k, Failure)
     \/ /\ ~IsPrepared(Claim(k))
        /\ HandleOf(k).kind = "ok"
        /\ pc' = [pc EXCEPT ![k] = "store"]
        /\ UNCHANGED <<mutexes, todo, answers>>
  /\ UNCHANGED <<up, disk, prepared, op, crashes, orphans>>

\* Mutant: the error of CreateClaimSpecFile is dropped.
StoreSpecUnchecked(k) ==
  /\ pc[k] = "store"
  /\ stateMu = NoCall
  /\ RequestedDevices(HandleOf(k)) \subseteq Allocatable
  /\ \/ UNCHANGED <<specs, orphans>>
     \/ /\ specs' = Put(specs, Claim(k), PreparedFakes(HandleOf(k)))
        /\ orphans' = orphans \ {Claim(k)}
  /\ stateMu' = k
  /\ pc' = [pc EXCEPT ![k] = "commit"]
  /\ UNCHANGED <<up, common, prepared, driverMu, op, todo, answers, crashes>>

\* DeviceState.Prepare up to the spec file: s.Lock(), the second look at the
\* map, the devices, and the file, which is replaced by a rename or not at all.
StoreSpec(k) ==
  /\ pc[k] = "store"
  /\ stateMu = NoCall
  /\ IsPrepared(Claim(k)) \/ RequestedDevices(HandleOf(k)) \subseteq Allocatable
  /\ \/ /\ Finish(k, IF IsPrepared(Claim(k))
                       THEN Success(ClaimDevices(prepared[Claim(k)])) ELSE Failure)
        /\ UNCHANGED <<specs, orphans>>
     \/ /\ ~IsPrepared(Claim(k))
        /\ specs' = Put(specs, Claim(k), PreparedFakes(HandleOf(k)))
        /\ orphans' = orphans \ {Claim(k)}
        /\ stateMu' = k
        /\ pc' = [pc EXCEPT ![k] = "commit"]
        /\ UNCHANGED <<driverMu, todo, answers>>
  /\ UNCHANGED <<up, common, prepared, op, crashes>>

\* prepareDevices follows the NamedResources of a result, which may be nil, and
\* cuts the name off behind the prefix, which may be longer than the name.
MeetsForeignResult(k) ==
  /\ pc[k] = "check"
  /\ ~IsPrepared(Claim(k))
  /\ HandleOf(k).kind = "foreign"

\* prepareFakes reads s.allocatable[uuid].FakeInfo before it looks whether the
\* device is there: for a device that is not, a nil pointer is dereferenced.
MeetsUnknownDevice(k) ==
  /\ pc[k] = "store"
  /\ stateMu = NoCall
  /\ ~IsPrepared(Claim(k))
  /\ ~(RequestedDevices(HandleOf(k)) \subseteq Allocatable)

\* Nothing recovers: a handler that panics takes the process with it.
Panic(k) ==
  /\ MeetsForeignResult(k) \/ MeetsUnknownDevice(k)
  /\ Die

\* Mutant: the map records the devices before they are split.
CommitWholeDevices(k) ==
  LET fakes == RequestedDevices(HandleOf(k)) IN
  /\ pc[k] = "commit"
  /\ prepared' = Put(prepared, Claim(k), fakes)
  /\ Finish(k, Success(ClaimDevices(fakes)))
  /\ UNCHANGED <<up, disk, op, crashes, orphans>>

\* The rest of DeviceState.Prepare: the map entry, then the answer from it.
CommitPrepared(k) ==
  LET fakes == PreparedFakes(HandleOf(k)) IN
  /\ pc[k] = "commit"
  /\ prepared' = Put(prepared, Claim(k), fakes)
  /\ Finish(k, Success(ClaimDevices(fakes)))
  /\ UNCHANGED <<up, disk, op, crashes, orphans>>

-----------------------------------------------------------------------------
(***************************************************************************)
(* nodeUnprepareResource.                                                  *)
(***************************************************************************)

\* Mutant: a claim that is not in the map is an error.
CheckUnpreparedStrictly(k) ==
  /\ pc[k] = "lookup"
  /\ \/ /\ ~IsPrepared(Claim(k))
        /\ Finish(k, Failure)
     \/ /\ IsPrepared(Claim(k))
        /\ pc' = [pc EXCEPT ![k] = "remove"]
        /\ UNCHANGED <<mutexes, todo, answers>>
  /\ UNCHANGED <<up, disk, prepared, op, crashes, orphans>>

\* A claim that is not in the map counts as unprepared already.
CheckUnprepared(k) ==
  /\ pc[k] = "lookup"
  /\ \/ /\ ~IsPrepared(Claim(k))
        /\ Finish(k, Success({}))
     \/ /\ IsPrepared(Claim(k))
        /\ pc' = [pc EXCEPT ![k] = "remove"]
        /\ UNCHANGED <<mutexes, todo, answers>>
  /\ UNCHANGED <<up, disk, prepared, op, crashes, orphans>>

\* Mutant: the entry is deleted before the file, which may be left behind.
RemoveSpecAfterEntry(k) ==
  /\ pc[k] = "remove"
  /\ stateMu = NoCall
  /\ prepared' = Delete(prepared, Claim(k))
  /\ \/ /\ Finish(k, Failure)
        /\ UNCHANGED <<specs, orphans>>
     \/ /\ specs' = Delete(specs, Claim(k))
        /\ orphans' = orphans \ {Claim(k)}
        /\ stateMu' = k
        /\ pc' = [pc EXCEPT ![k] = "forget"]
        /\ UNCHANGED <<driverMu, todo, answers>>
  /\ UNCHANGED <<up, common, op, crashes>>

\* Mutant: the error of DeleteClaimSpecFile is dropped.
RemoveSpecUnchecked(k) ==
  /\ pc[k] = "remove"
  /\ stateMu = NoCall
  /\ \/ UNCHANGED <<specs, orphans>>
     \/ /\ specs' = Delete(specs, Claim(k))
        /\ orphans' = orphans \ {Claim(k)}
  /\ stateMu' = k
  /\ pc' = [pc EXCEPT ![k] = "forget"]
  /\ UNCHANGED <<up, common, prepared, driverMu, op, todo, answers, crashes>>

\* DeviceState.Unprepare up to the spec file: s.Lock(), the second look at the
\* map, and the removal, which may fail and leave file and entry in place.
RemoveSpec(k) ==
  /\ pc[k] = "remove"
  /\ stateMu = NoCall
  /\ \/ /\ Finish(k, IF IsPrepared(Claim(k)) THEN Failure ELSE Success({}))
        /\ UNCHANGED <<specs, orphans>>
     \/ /\ IsPrepared(Claim(k))
        /\ specs' = Delete(specs, Claim(k))
        /\ orphans' = orphans \ {Claim(k)}
        /\ stateMu' = k
        /\ pc' = [pc EXCEPT ![k] = "forget"]
        /\ UNCHANGED <<driverMu, todo, answers>>
  /\ UNCHANGED <<up, common, prepared, op, crashes>>

\* The rest of DeviceState.Unprepare: delete(s.prepared, claimUID).
ForgetPrepared(k) ==
  /\ pc[k] = "forget"
  /\ prepared' = Delete(prepared, Claim(k))
  /\ Finish(k, Success({}))
  /\ UNCHANGED <<up, disk, op, crashes, orphans>>

-----------------------------------------------------------------------------
Step(k) ==
  \/ CheckPrepared(k) \/ StoreSpec(k) \/ Panic(k) \/ CommitPrepared(k)
  \/ CheckUnprepared(k) \/ RemoveSpec(k) \/ ForgetPrepared(k)
  \/ Respond(k)

Next ==
  \/ Start
  \/ Crash
  \/ \E k \in Calls :
       \/ \E r \in PrepareRequests : Receive(k, "prepare", r)
       \/ \E r \in UnprepareRequests : Receive(k, "unprepare", r)
       \/ LockDriver(k)
       \/ Step(k)

Spec == Init /\ [][Next]_vars

\* Goroutines are scheduled, system calls return, and a goroutine that waits
\* for a sync.Mutex gets it in the end even when it is taken again and again.
Fairness == \A k \in Calls : WF_vars(Step(k)) /\ SF_vars(LockDriver(k))

FairSpec == Spec /\ Fairness

-----------------------------------------------------------------------------
(***************************************************************************)
(* Properties.                                                             *)
(***************************************************************************)

\* Call k is at a point of the handler of claim c.
AtWorkOn(k, c, location) == pc[k] = location /\ Claim(k) = c

\* The mutexes serialise the claims: two calls are never inside the handler of
\* one claim at the same time (driver.go:85, 180), whatever claims they handle.
InHandler(k) == pc[k] \notin {"idle", "next"}
OneCallAtATime == \A j, k \in Calls : InHandler(j) /\ InHandler(k) => j = k

\* A claim in the map has its spec file, with exactly the devices the map
\* records (state.go:102-105), except while Unprepare is between removing the
\* file and deleting the entry.  Cached answers are only as good as this.
PreparedHasSpec ==
  \A c \in DOMAIN prepared :
    \/ c \in DOMAIN specs /\ specs[c] = prepared[c]
    \/ \E k \in Calls : AtWorkOn(k, c, "forget")

\* No spec file is lost track of by a running process: a file is for a claim in
\* the map, for one that is about to be put there, or from an earlier process
\* (state.go:130-134: the entry outlives a file that could not be removed).
SpecIsAccountedFor ==
  \A c \in DOMAIN specs :
    \/ IsPrepared(c)
    \/ c \in orphans
    \/ \E k \in Calls : AtWorkOn(k, c, "commit")

\* What the handlers rely on at each location, under the mutexes: the holder
\* of the driver's mutex is the call inside a handler, the second look at the
\* map finds what the first one did, and file and map differ only in between.
MutexInv ==
  \A k \in Calls :
    /\ InHandler(k) <=> driverMu = k
    /\ pc[k] \in {"commit", "forget"} <=> stateMu = k
CallInv ==
  \A k \in Calls :
    /\ pc[k] = "idle" <=> op[k] = "none"
    /\ pc[k] \in {"check", "store", "commit"} => op[k] = "prepare"
    /\ pc[k] \in {"lookup", "remove", "forget"} => op[k] = "unprepare"
    /\ InHandler(k) => todo[k] # <<>>
    /\ pc[k] # "idle" => up
LookInv ==
  \A k \in Calls :
    /\ pc[k] \in {"store", "commit"} =>
         /\ ~IsPrepared(Claim(k))
         /\ HandleOf(k).kind = "ok"
    /\ pc[k] = "commit" =>
         /\ RequestedDevices(HandleOf(k)) \subseteq Allocatable
         /\ Claim(k) \in DOMAIN specs
         /\ specs[Claim(k)] = PreparedFakes(HandleOf(k))
    /\ pc[k] \in {"remove", "forget"} => IsPrepared(Claim(k))
    /\ pc[k] = "forget" => Claim(k) \notin DOMAIN specs
ProcessInv ==
  /\ up => common
  /\ ~up => prepared = EmptyMap

\* The inductive invariant: what the safety properties below follow from.
HandlerInv ==
  /\ MutexInv
  /\ CallInv
  /\ LookInv
  /\ ProcessInv
  /\ PreparedHasSpec
  /\ SpecIsAccountedFor

\* In this step call k answers claim c, successfully.
Succeeds(k, c) ==
  /\ InHandler(k) /\ pc'[k] = "next"
  /\ Claim(k) = c
  /\ ~answers'[k][c].error

\* Whatever the path, new or cached, a successful Prepare hands out devices
\* that the container runtime finds on disk at that moment: the common device
\* and those of the claim's own spec file, no more and no fewer.
AnswerIsOnDisk ==
  [][\A k \in Calls, c \in Claims :
       op[k] = "prepare" /\ Succeeds(k, c) =>
         /\ common
         /\ c \in DOMAIN specs'
         /\ answers'[k][c].devices = {Common} \cup specs'[c]]_vars

\* A successful Unprepare leaves no spec file of the claim, unless an earlier
\* process wrote it.
UnprepareRemovesOwnSpec ==
  [][\A k \in Calls, c \in Claims :
       op[k] = "unprepare" /\ Succeeds(k, c) => c \notin DOMAIN specs' \/ c \in orphans]_vars

\* A successful Unprepare leaves nothing of the claim to clean up ("Already
\* unprepared, nothing to do for claim", driver.go:194).
UnprepareRemovesSpec ==
  [][\A k \in Calls, c \in Claims :
       op[k] = "unprepare" /\ Succeeds(k, c) => c \notin DOMAIN specs']_vars

\* Every request is answered, unless the process dies first: no path through
\* the handlers keeps a mutex and no call waits for one forever.
EveryCallReturns ==
  \A k \in Calls : pc[k] # "idle" ~> pc[k] = "idle"

\* Seen from its callers the plugin handles each claim in one step and keeps
\* nothing but the table of bound claims: locations, mutexes, the second look
\* at the map and the order of file and entry cannot be told from outside.
Binding == INSTANCE ClaimBinding WITH bound <- prepared
ImplementsBinding == Binding!Spec
=============================================================================

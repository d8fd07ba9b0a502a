----------------------------- MODULE NodeSystem -----------------------------
(***************************************************************************)
(* The kubelet plugin among its callers: the scheduler, which allocates    *)
(* the devices that the plugin publishes to one claim at a time, and the   *)
(* kubelet, which has a claim prepared before the pod runs and unprepared  *)
(* after it, and reports it free only then.                                *)
(*                                                                         *)
(* Scheduler and kubelet are external.  The kubelet has one call for a     *)
(* claim at a time and calls again after an error; it may ask to prepare   *)
(* a prepared claim, as it does when it has restarted.  It gives up on a   *)
(* call that takes too long: the handlers do not look at the deadline      *)
(* (driver.go:81, 179), so such a call goes on all the same.               *)
(***************************************************************************)
EXTENDS KubeletPlugin

CONSTANT MaxTimeouts    \* bound: calls the kubelet gives up on

\* getResourceModelFromAllocatableDevices: the instances the scheduler knows.
Published == {AdvertisedName(u) : u \in Allocatable}

ASSUME PublishedAssumption ==
  \A h \in Handles : h.kind = "ok" /\ h.names \subseteq Published
ASSUME TimeoutAssumption == MaxTimeouts \in Nat

VARIABLES
  phase,        \* phase[c]: where claim c is in its life
  alloc,        \* alloc[c]: the handle that c is allocated
  awaiting,     \* awaiting[c]: the call the kubelet waits for, or NoCall
  strays,       \* history: claims with a call the kubelet gave up on
  timeouts      \* number of such calls

callers == <<phase, alloc, awaiting, strays, timeouts>>
allVars == <<vars, callers>>

SystemInit ==
  /\ Init
  /\ phase = [c \in Claims |-> "free"]
  /\ alloc = EmptyMap
  /\ awaiting = [c \in Claims |-> NoCall]
  /\ strays = {}
  /\ timeouts = 0

-----------------------------------------------------------------------------
Allocate(c, handle) ==
  /\ phase[c] = "free"
  /\ \A d \in DOMAIN alloc : alloc[d].names \cap handle.names = {}
  /\ alloc' = Put(alloc, c, handle)
  /\ phase' = [phase EXCEPT ![c] = "allocated"]
  /\ UNCHANGED <<vars, awaiting, strays, timeouts>>

\* The pod is gone, whether it ever ran or not.
Release(c) ==
  /\ phase[c] \in {"allocated", "prepared"}
  /\ awaiting[c] = NoCall
  /\ phase' = [phase EXCEPT ![c] = "released"]
  /\ UNCHANGED <<vars, alloc, awaiting, strays, timeouts>>

Ask(c, k, rpc, handle) ==
  /\ awaiting[c] = NoCall
  /\ Receive(k, rpc, <<[uid |-> c, handle |-> handle]>>)
  /\ awaiting' = [awaiting EXCEPT ![c] = k]
  /\ UNCHANGED <<phase, alloc, strays, timeouts>>

AskPrepare(c, k) ==
  /\ phase[c] \in {"allocated", "prepared"}
  /\ Ask(c, k, "prepare", alloc[c])

AskUnprepare(c, k) ==
  /\ phase[c] = "released"
  /\ Ask(c, k, "unprepare", NoHandle)

GiveUp(c) ==
  /\ awaiting[c] # NoCall
  /\ timeouts < MaxTimeouts
  /\ timeouts' = timeouts + 1
  /\ strays' = strays \cup {c}
  /\ awaiting' = [awaiting EXCEPT ![c] = NoCall]
  /\ UNCHANGED <<vars, phase, alloc>>

\* The answer arrives.  A claim that is unprepared is free again.
Answered(k) ==
  LET done == {c \in Claims : awaiting[c] = k /\ ~answers[k][c].error} IN
  /\ Respond(k)
  /\ awaiting' = [c \in Claims |-> IF awaiting[c] = k THEN NoCall ELSE awaiting[c]]
  /\ phase' = [c \in Claims |->
                 IF c \notin done THEN phase[c]
                 ELSE IF op[k] = "prepare" THEN "prepared" ELSE "free"]
  /\ alloc' = [c \in {d \in DOMAIN alloc : phase'[d] # "free"} |-> alloc[c]]
  /\ UNCHANGED <<strays, timeouts>>

\* Every call fails when the process dies.
PluginDies ==
  /\ Crash
  /\ awaiting' = [c \in Claims |-> NoCall]
  /\ UNCHANGED <<phase, alloc, strays, timeouts>>

PluginStep(k) ==
  /\ \/ LockDriver(k)
     \/ CheckPrepared(k) \/ StoreSpec(k) \/ CommitPrepared(k)
     \/ CheckUnprepared(k) \/ RemoveSpec(k) \/ ForgetPrepared(k)
  /\ UNCHANGED callers

SystemNext ==
  \/ \E c \in Claims, h \in Handles : Allocate(c, h)
  \/ \E c \in Claims : Release(c) \/ GiveUp(c)
  \/ \E c \in Claims, k \in Calls : AskPrepare(c, k) \/ AskUnprepare(c, k)
  \/ \E k \in Calls : Answered(k) \/ PluginStep(k)
  \/ Start /\ UNCHANGED callers
  \/ PluginDies

SystemSpec == SystemInit /\ [][SystemNext]_allVars

\* The plugin is started until it starts and its calls run (see KubeletPlugin);
\* the kubelet asks until a claim is unprepared, and a spec file that it asks
\* to remove again and again is removed in the end.
SystemFairness ==
  /\ WF_allVars(Start /\ up' /\ UNCHANGED callers)
  /\ \A k \in Calls :
       /\ WF_allVars(PluginStep(k) \/ Answered(k))
       /\ SF_allVars(LockDriver(k) /\ UNCHANGED callers)
  /\ \A c \in Claims :
       /\ WF_allVars(\E k \in Calls : AskUnprepare(c, k))
       /\ SF_allVars(\E k \in Calls :
                       AtWorkOn(k, c, "remove") /\ PluginStep(k) /\ pc'[k] = "forget")

FairSystemSpec == SystemSpec /\ SystemFairness

-----------------------------------------------------------------------------
(***************************************************************************)
(* Properties.                                                             *)
(***************************************************************************)

\* While a pod may run, the spec file of its claim is on disk and defines the
\* devices it was allocated, through crashes of the plugin, failing calls and
\* calls that are repeated.
RunningHasSpec ==
  \A c \in Claims \ strays :
    phase[c] = "prepared" => c \in DOMAIN specs /\ specs[c] = PreparedFakes(alloc[c])

\* The devices of the node that a set of fakes is made of.
Parents(fakes) == {Head(f.path) : f \in fakes}

\* A device, whole or in parts, is in the spec files of two claims only after
\* a crash left one of them behind or the kubelet gave up on a call for one.
ExclusiveDevices ==
  \A c, d \in DOMAIN specs \ (orphans \cup strays) :
    c # d => Parents(specs[c]) \cap Parents(specs[d]) = {}

\* A device that the node does not have would end the process (state.go:143
\* comes before the check of 145).  No handle that is allocated from what the
\* plugin published leads there: advertised names (state.go:169) come back as
\* the keys of the allocatable map (driver.go:159).
PanicIsOutOfReach ==
  \A k \in Calls :
    pc[k] = "store" => RequestedDevices(HandleOf(k)) \subseteq Allocatable

\* The first crash does no harm to the next start: no two spec files define
\* the same CDI device, which the refresh in NewCDIHandler would refuse
\* (cdi.go:36-39).  A second crash may.
OneCrashIsSurvived ==
  crashes <= 1 /\ ~up /\ strays = {} => ~DeviceConflict

\* What the kubelet and the plugin know of each other: every call is for one
\* claim, which waits for it unless the kubelet has given up on a call for it,
\* and carries the handle that the claim is allocated.
CallersTypeOK ==
  /\ phase \in [Claims -> {"free", "allocated", "prepared", "released"}]
  /\ IsMap(alloc, Claims, Handles)
  /\ DOMAIN alloc = {c \in Claims : phase[c] # "free"}
  /\ awaiting \in [Claims -> Calls \cup {NoCall}]
  /\ strays \subseteq Claims
  /\ timeouts \in Nat
AllocInv ==
  \A c, d \in DOMAIN alloc : c # d => alloc[c].names \cap alloc[d].names = {}
RequestInv ==
  \A k \in Calls : todo[k] # <<>> =>
    /\ Tail(todo[k]) = <<>>
    /\ op[k] = "prepare" => HandleOf(k) \in Handles
    /\ awaiting[Claim(k)] = k \/ Claim(k) \in strays
AwaitInv ==
  \A c \in Claims : awaiting[c] # NoCall =>
    LET k == awaiting[c] IN
    /\ pc[k] # "idle"
    /\ phase[c] \in IF op[k] = "prepare" THEN {"allocated", "prepared"} ELSE {"released"}
    /\ todo[k] # <<>> => Claim(k) = c /\ (op[k] = "prepare" => HandleOf(k) = alloc[c])

\* The spec file of claim c is the one of its allocation.
OwnSpec(c) == c \in DOMAIN specs /\ specs[c] = PreparedFakes(alloc[c])

\* What a claim may rely on while the kubelet has not given up on a call for
\* it: a file this process wrote is for its allocation, and an answer that is
\* on its way to the kubelet is still true.
FileInv ==
  \A c \in Claims \ strays :
    /\ c \in DOMAIN specs \ orphans => c \in DOMAIN alloc /\ OwnSpec(c)
    /\ LET k == awaiting[c] IN
       k # NoCall /\ todo[k] = <<>> /\ ~answers[k][c].error =>
         IF op[k] = "prepare" THEN OwnSpec(c) ELSE c \notin DOMAIN specs \ orphans
OrphanInv ==
  /\ DOMAIN prepared \cap orphans = {}
  /\ \A k \in Calls : pc[k] = "commit" => Claim(k) \notin orphans
  /\ crashes = 0 => orphans = {}

\* The inductive invariant: with HandlerInv, what the safety properties above
\* follow from.
CallersInv ==
  /\ CallersTypeOK
  /\ AllocInv
  /\ RequestInv
  /\ AwaitInv
  /\ FileInv
  /\ OrphanInv
  /\ RunningHasSpec
  /\ OneCrashIsSurvived

\* The devices of a pod that is gone are free again in the end: whatever call
\* fails, whatever the kubelet gives up on, and whichever process prepared the
\* claim (driver.go:193-196 answers for claims of a process before it).  Only
\* two spec files in conflict may prevent it, when the plugin cannot start.
ReleasedIsFreed ==
  \A c \in Claims : phase[c] = "released" ~> phase[c] = "free" \/ DeviceConflict
=============================================================================

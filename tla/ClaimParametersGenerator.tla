---------------------- MODULE ClaimParametersGenerator ----------------------
(***************************************************************************)
(* The controller (cmd/fake-dra-controller): for every FakeClaimParameters *)
(* object (FCP) that a user writes, it creates or updates one              *)
(* ResourceClaimParameters object (RCP), which the scheduler finds by the  *)
(* name of the FCP it was generated from.                                  *)
(*                                                                         *)
(* Each replica of the controller has an informer that queues an event for *)
(* every FCP created or updated and, when the controller or its watch      *)
(* starts, for every FCP there is.  One goroutine handles the events in    *)
(* order: it lists the RCPs and then updates the first one it finds for    *)
(* the FCP, or creates one.  Whatever fails is logged and forgotten.       *)
(*                                                                         *)
(* The API server, the garbage collector and the users are external: all   *)
(* objects are in one namespace, a request is handled in one step or not   *)
(* at all, its answer may be lost, and a request that was not handled dies *)
(* with its sender.                                                        *)
(***************************************************************************)
EXTENDS Integers, Sequences, FiniteSets

CONSTANTS
  Names,      \* names of FCPs
  Replicas,   \* processes that run the controller, old and new
  Ids,        \* generated names of RCPs, in the order they are listed
  NoName,     \* what an RCP is generated from that a user wrote by hand
  Selectors,  \* what an FCP's selector becomes: "expression", or "()"
  Budget      \* bounds: how often something may happen, by kind

Kinds == {"edit", "delete", "handmade", "failure", "start", "stop", "disconnect"}

ASSUME NameAssumption    == NoName \notin Names
ASSUME ReplicaAssumption == IsFiniteSet(Replicas)
ASSUME IdAssumption      == Ids \subseteq Nat
ASSUME BudgetAssumption  == Budget \in [Kinds -> Nat]

VARIABLES
  fcps,       \* fcps[n]: UID and version of the FCP with name n
  rcps,       \* rcps[i]: origin, owner, version and resource version of an RCP
  version,    \* the last version of an FCP, and the last UID
  revision,   \* the last resource version of an RCP
  dropped,    \* history: names whose last event ended in an error
  pc,         \* pc[r]: where replica r is
  watching,   \* watching[r]: its watch is established
  queue,      \* queue[r]: its events that are not handled yet
  match,      \* match[r]: the RCP to update, none if one is to be created
  budget      \* what is left of Budget

stored == <<fcps, rcps, version, revision>>
objects == <<stored, dropped>>
replicas == <<pc, watching, queue, match>>
vars == <<objects, replicas, budget>>

FCP == [uid : Nat, version : Nat, selector : Selectors]
Event == [name : Names, uid : Nat, version : Nat, selector : Selectors]
RCP == [from : Names \cup {NoName}, owner : Nat, version : Nat, revision : Nat]

TypeOK ==
  /\ DOMAIN fcps \subseteq Names
  /\ fcps \in [DOMAIN fcps -> FCP]
  /\ DOMAIN rcps \subseteq Ids
  /\ rcps \in [DOMAIN rcps -> RCP]
  /\ version \in Nat /\ revision \in Nat
  /\ dropped \subseteq Names
  /\ pc \in [Replicas -> {"down", "idle", "write"}]
  /\ watching \in [Replicas -> BOOLEAN]
  /\ queue \in [Replicas -> Seq(Event)]
  /\ match \in [Replicas -> SUBSET [id : Ids, owner : Nat, revision : Nat]]
  /\ budget \in [Kinds -> Nat]

Init ==
  /\ fcps = [n \in {} |-> n]
  /\ rcps = [i \in {} |-> i]
  /\ version = 0 /\ revision = 0
  /\ dropped = {}
  /\ pc = [r \in Replicas |-> "down"]
  /\ watching = [r \in Replicas |-> FALSE]
  /\ queue = [r \in Replicas |-> <<>>]
  /\ match = [r \in Replicas |-> {}]
  /\ budget = Budget

Spend(kind) ==
  /\ budget[kind] > 0
  /\ budget' = [budget EXCEPT ![kind] = @ - 1]

-----------------------------------------------------------------------------
(***************************************************************************)
(* Users write FCPs, and may write an RCP by hand.                         *)
(***************************************************************************)

\* The event of an FCP: a copy of the object as it is.
Snapshot(n) ==
  [name |-> n, uid |-> fcps[n].uid, version |-> fcps[n].version, selector |-> fcps[n].selector]

\* Mutant: the event of an update carries the object as it was.
PutFCPOldObject(n, uid, selector) ==
  /\ version' = version + 1
  /\ fcps' = [m \in DOMAIN fcps \cup {n} |->
                IF m = n THEN [uid |-> uid, version |-> version', selector |-> selector]
                ELSE fcps[m]]
  /\ queue' = [r \in Replicas |->
                 IF ~watching[r] THEN queue[r]
                 ELSE IF n \in DOMAIN fcps THEN Append(queue[r], Snapshot(n))
                 ELSE Append(queue[r], Snapshot(n)')]
  /\ UNCHANGED <<rcps, revision, dropped, pc, watching, match>>

\* Mutant: the event is put in front of those that wait.
PutFCPInFront(n, uid, selector) ==
  /\ version' = version + 1
  /\ fcps' = [m \in DOMAIN fcps \cup {n} |->
                IF m = n THEN [uid |-> uid, version |-> version', selector |-> selector]
                ELSE fcps[m]]
  /\ queue' = [r \in Replicas |->
                 IF watching[r] THEN <<Snapshot(n)'>> \o queue[r] ELSE queue[r]]
  /\ UNCHANGED <<rcps, revision, dropped, pc, watching, match>>

\* FCP n is written: every replica that watches has an event for it.
PutFCP(n, uid, selector) ==
  /\ version' = version + 1
  /\ fcps' = [m \in DOMAIN fcps \cup {n} |->
                IF m = n THEN [uid |-> uid, version |-> version', selector |-> selector]
                ELSE fcps[m]]
  /\ queue' = [r \in Replicas |->
                 IF watching[r] THEN Append(queue[r], Snapshot(n)') ELSE queue[r]]
  /\ UNCHANGED <<rcps, revision, dropped, pc, watching, match>>

CreateFCP(n) ==
  /\ n \notin DOMAIN fcps
  /\ Spend("edit")
  /\ \E selector \in Selectors : PutFCP(n, version + 1, selector)

UpdateFCP(n) ==
  /\ n \in DOMAIN fcps
  /\ Spend("edit")
  /\ \E selector \in Selectors : PutFCP(n, fcps[n].uid, selector)

\* There is no handler for deletions.
DeleteFCP(n) ==
  /\ n \in DOMAIN fcps
  /\ Spend("delete")
  /\ fcps' = [m \in DOMAIN fcps \ {n} |-> fcps[m]]
  /\ UNCHANGED <<rcps, version, revision, dropped, replicas>>

PutRCP(i, rcp) ==
  /\ revision' = revision + 1
  /\ rcps' = [j \in DOMAIN rcps \cup {i} |->
                IF j = i THEN [rcp EXCEPT !.revision = revision'] ELSE rcps[j]]

WriteRCPByHand(i) ==
  /\ i \notin DOMAIN rcps
  /\ Spend("handmade")
  /\ PutRCP(i, [from |-> NoName, owner |-> 0, version |-> 0, revision |-> 0])
  /\ UNCHANGED <<fcps, version, dropped, replicas>>

\* The garbage collector deletes an RCP whose owner is gone, be there another
\* FCP of the same name or not.
Garbage(i) == rcps[i].owner \notin {0} \cup {fcps[n].uid : n \in DOMAIN fcps}

CollectGarbage(i) ==
  /\ i \in DOMAIN rcps
  /\ Garbage(i)
  /\ rcps' = [j \in DOMAIN rcps \ {i} |-> rcps[j]]
  /\ UNCHANGED <<fcps, version, revision, dropped, replicas, budget>>

-----------------------------------------------------------------------------
(***************************************************************************)
(* The informer.  Its ListFunc and WatchFunc ignore the resource version   *)
(* they are given: list and watch both begin with every FCP there is.      *)
(***************************************************************************)

\* The events of all FCPs, in any order.
Snapshots ==
  {s \in [1..Cardinality(DOMAIN fcps) -> {Snapshot(n) : n \in DOMAIN fcps}] :
     \A n \in DOMAIN fcps : \E j \in DOMAIN s : s[j].name = n}

\* A replica starts: its informer lists the FCPs, and will watch them next.
StartReplica(r) ==
  /\ pc[r] = "down"
  /\ pc' = [pc EXCEPT ![r] = "idle"]
  /\ \E s \in Snapshots : queue' = [queue EXCEPT ![r] = s]
  /\ Spend("start")
  /\ UNCHANGED <<objects, watching, match>>

Die(r) ==
  /\ pc' = [pc EXCEPT ![r] = "down"]
  /\ watching' = [watching EXCEPT ![r] = FALSE]
  /\ queue' = [queue EXCEPT ![r] = <<>>]
  /\ match' = [match EXCEPT ![r] = {}]
  /\ UNCHANGED objects

\* A crash, an eviction, or a rollout of the Deployment.
StopReplica(r) ==
  /\ pc[r] # "down"
  /\ Spend("stop")
  /\ Die(r)

LoseWatch(r) ==
  /\ watching[r]
  /\ Spend("disconnect")
  /\ watching' = [watching EXCEPT ![r] = FALSE]
  /\ UNCHANGED <<objects, pc, queue, match>>

\* Mutant: the watch begins with what is written from now on.
WatchFromNow(r) ==
  /\ pc[r] # "down"
  /\ ~watching[r]
  /\ watching' = [watching EXCEPT ![r] = TRUE]
  /\ UNCHANGED <<objects, pc, queue, match, budget>>

\* The first watch, or the one after a watch that was lost.
Watch(r) ==
  /\ pc[r] # "down"
  /\ ~watching[r]
  /\ watching' = [watching EXCEPT ![r] = TRUE]
  /\ \E s \in Snapshots : queue' = [queue EXCEPT ![r] = @ \o s]
  /\ UNCHANGED <<objects, pc, match, budget>>

-----------------------------------------------------------------------------
(***************************************************************************)
(* createOrUpdateResourceClaimParameters, called by AddFunc and UpdateFunc *)
(* with the object of the event.                                           *)
(***************************************************************************)

\* newResourceClaimParametersFromFakeClaimParameters: what the RCP of an FCP
\* says of its origin, its owner and, as a version, of everything else.
NewRCP(event) ==
  [from |-> event.name, owner |-> event.uid, version |-> event.version, revision |-> 0]

\* The RCPs whose generatedFrom names FCP n.
GeneratedFrom(n) == {i \in DOMAIN rcps : rcps[i].from = n}

\* The first of them in the list.
FirstOf(ids) == {i \in ids : \A j \in ids : i <= j}

\* The loop over the list dereferences generatedFrom, which an RCP that was
\* written by hand does not have.
MeetsHandmade(n) ==
  \E i \in GeneratedFrom(NoName) : \A j \in GeneratedFrom(n) : i < j

\* The event is done with, one way or another.
Done(r) ==
  /\ pc' = [pc EXCEPT ![r] = "idle"]
  /\ queue' = [queue EXCEPT ![r] = Tail(@)]
  /\ match' = [match EXCEPT ![r] = {}]
  /\ UNCHANGED watching

Succeeds(r) == Done(r) /\ dropped' = dropped \ {Head(queue[r]).name}
Fails(r)    == Done(r) /\ dropped' = dropped \cup {Head(queue[r]).name}

\* Mutant: an RCP is found by the UID of its owner.
ListByOwner(r) ==
  /\ pc[r] = "idle"
  /\ queue[r] # <<>>
  /\ pc' = [pc EXCEPT ![r] = "write"]
  /\ match' = [match EXCEPT ![r] =
                 {[id |-> i, owner |-> rcps[i].owner, revision |-> rcps[i].revision] :
                    i \in FirstOf({j \in DOMAIN rcps : rcps[j].owner = Head(queue[r]).uid})}]
  /\ UNCHANGED <<objects, watching, queue, budget>>

\* The list of RCPs is searched for the first one generated from the FCP.
List(r) ==
  /\ pc[r] = "idle"
  /\ queue[r] # <<>>
  /\ ~MeetsHandmade(Head(queue[r]).name)
  /\ pc' = [pc EXCEPT ![r] = "write"]
  /\ match' = [match EXCEPT ![r] =
                 {[id |-> i, owner |-> rcps[i].owner, revision |-> rcps[i].revision] :
                    i \in FirstOf(GeneratedFrom(Head(queue[r]).name))}]
  /\ UNCHANGED <<objects, watching, queue, budget>>

\* The nil pointer is not recovered from: the process dies.
Panic(r) ==
  /\ pc[r] = "idle"
  /\ queue[r] # <<>>
  /\ MeetsHandmade(Head(queue[r]).name)
  /\ Die(r)
  /\ UNCHANGED budget

ListFails(r) ==
  /\ pc[r] = "idle"
  /\ queue[r] # <<>>
  /\ Spend("failure")
  /\ Fails(r)
  /\ UNCHANGED stored

\* The API server compiles selectors, and "()" is no CEL expression.
Valid(event) == event.selector # "()"

\* The API server accepts an update that is based on the current revision.
Accepted(m, event) ==
  m.id \in DOMAIN rcps /\ rcps[m.id].revision = m.revision /\ Valid(event)

\* It carries it out: the metadata of the RCP that was found, owner included,
\* goes into the update.  One that changes nothing makes no revision.
UpdateRCP(m, event) ==
  /\ Accepted(m, event)
  /\ IF rcps[m.id].version # event.version
     THEN PutRCP(m.id, [NewRCP(event) EXCEPT !.owner = m.owner])
     ELSE UNCHANGED <<rcps, revision>>

Update(r) ==
  /\ pc[r] = "write"
  /\ \E m \in match[r] :
       \/ UpdateRCP(m, Head(queue[r])) /\ Succeeds(r)
       \/ ~Accepted(m, Head(queue[r])) /\ Fails(r) /\ UNCHANGED <<rcps, revision>>
  /\ UNCHANGED <<fcps, version, budget>>

\* Mutant: the owner is named in place of its UID.
CreateOwnedByName(r) ==
  /\ pc[r] = "write"
  /\ match[r] = {}
  /\ Succeeds(r)
  /\ \E i \in Ids \ DOMAIN rcps :
       PutRCP(i, [NewRCP(Head(queue[r])) EXCEPT !.owner = Head(queue[r]).name])
  /\ UNCHANGED <<fcps, version, budget>>

\* The RCP that is created is owned by the FCP of the event.
CreateRCP(event) ==
  /\ Valid(event)
  /\ \E i \in Ids \ DOMAIN rcps : PutRCP(i, NewRCP(event))

Create(r) ==
  /\ pc[r] = "write"
  /\ match[r] = {}
  /\ \/ CreateRCP(Head(queue[r])) /\ Succeeds(r)
     \/ ~Valid(Head(queue[r])) /\ Fails(r) /\ UNCHANGED <<rcps, revision>>
  /\ UNCHANGED <<fcps, version, budget>>

\* Mutant: a write that fails is tried again after the other events.
WriteFailsRequeued(r) ==
  /\ pc[r] = "write"
  /\ Spend("failure")
  /\ pc' = [pc EXCEPT ![r] = "idle"]
  /\ queue' = [queue EXCEPT ![r] = Append(Tail(@), Head(@))]
  /\ match' = [match EXCEPT ![r] = {}]
  /\ UNCHANGED <<objects, watching>>

\* A failed list or write is logged; the event is not queued again.
WriteFails(r) ==
  /\ pc[r] = "write"
  /\ Spend("failure")
  /\ Fails(r)
  /\ UNCHANGED stored

\* So is one that the API server did carry out, when its answer is lost.
WriteAnswerLost(r) ==
  /\ pc[r] = "write"
  /\ Spend("failure")
  /\ IF match[r] = {} THEN CreateRCP(Head(queue[r]))
                      ELSE \E m \in match[r] : UpdateRCP(m, Head(queue[r]))
  /\ Fails(r)
  /\ UNCHANGED <<fcps, version>>

-----------------------------------------------------------------------------
Handle(r) == List(r) \/ Panic(r) \/ Update(r) \/ Create(r)

Next ==
  \/ \E n \in Names : CreateFCP(n) \/ UpdateFCP(n) \/ DeleteFCP(n)
  \/ \E i \in Ids : WriteRCPByHand(i) \/ CollectGarbage(i)
  \/ \E r \in Replicas :
       \/ StartReplica(r) \/ StopReplica(r) \/ LoseWatch(r) \/ Watch(r)
       \/ Handle(r) \/ ListFails(r) \/ WriteFails(r) \/ WriteAnswerLost(r)

Spec == Init /\ [][Next]_vars

\* The Deployment keeps the controller running, the reflector its watch, the
\* handler goroutine takes the next event, and garbage is collected.
Fairness ==
  /\ \A r \in Replicas : WF_vars(StartReplica(r)) /\ WF_vars(Watch(r)) /\ WF_vars(Handle(r))
  /\ \A i \in Ids : WF_vars(CollectGarbage(i))

FairSpec == Spec /\ Fairness

-----------------------------------------------------------------------------
(***************************************************************************)
(* Properties.                                                             *)
(***************************************************************************)

\* List and Create are two requests, so every replica can add an RCP for the
\* same FCP, but only one: a controller that runs alone never makes a second
\* RCP for a name, whatever fails or is delivered twice, whichever answer of the
\* API server is lost and however often it restarts, as long as no request
\* outlives its sender (claimparametersgen.go:159-181).
BoundedDuplicates ==
  \A n \in Names : Cardinality(GeneratedFrom(n)) <= Cardinality(Replicas)

\* The replicas that are about to add an RCP for FCP n.
Creating(n) ==
  {r \in Replicas : pc[r] = "write" /\ match[r] = {} /\ Head(queue[r]).name = n}

\* An object of this name, UID and version has been there, and if there still
\* is one with its name, or its UID, then it is what that one is or was.
Known(name, uid, v) ==
  /\ uid \in 1..version /\ v <= version
  /\ name \in DOMAIN fcps => v <= fcps[name].version
  /\ \A n \in DOMAIN fcps : fcps[n].uid = uid => n = name

\* What the handlers, the queues and the stored objects know of each other.  A
\* match is good for one update, as long as its RCP keeps the revision.
PcInv ==
  \A r \in Replicas :
    /\ pc[r] = "down" => ~watching[r] /\ queue[r] = <<>>
    /\ pc[r] = "write" => queue[r] # <<>>
    /\ pc[r] # "write" => match[r] = {}
MatchInv ==
  /\ \A i \in DOMAIN rcps : rcps[i].revision <= revision
  /\ \A r \in Replicas : \A m \in match[r] :
       /\ m.revision <= revision
       /\ m.id \in DOMAIN rcps /\ rcps[m.id].revision = m.revision =>
            rcps[m.id].from = Head(queue[r]).name /\ rcps[m.id].owner = m.owner
CountInv ==
  /\ IsFiniteSet(DOMAIN fcps) /\ IsFiniteSet(DOMAIN rcps)
  /\ \A n \in Names :
       Cardinality(GeneratedFrom(n)) + Cardinality(Creating(n)) <= Cardinality(Replicas)
OriginInv ==
  /\ \A n \in DOMAIN fcps : Known(n, fcps[n].uid, fcps[n].version)
  /\ \A r \in Replicas : \A p \in DOMAIN queue[r] :
       Known(queue[r][p].name, queue[r][p].uid, queue[r][p].version)
  /\ \A i \in DOMAIN rcps :
       rcps[i].from # NoName => Known(rcps[i].from, rcps[i].owner, rcps[i].version)

\* A watching replica that has an event for FCP n has its last version before
\* it as well.
TrackedInv ==
  \A r \in Replicas : watching[r] =>
    \A n \in DOMAIN fcps : \A p \in DOMAIN queue[r] : queue[r][p].name = n =>
      \E q \in DOMAIN queue[r] :
        p <= q /\ queue[r][q].name = n /\ queue[r][q].version = fcps[n].version

\* The inductive invariant, with any number of replicas.
GeneratorInv == PcInv /\ MatchInv /\ CountInv /\ OriginInv /\ TrackedInv

\* Two replicas may take turns, and one of them write an older version over a
\* newer one: then the newer one is still before it, in its queue or in the
\* watch that it has yet to begin, or the FCP is gone altogether.
RollbackIsTransient ==
  [][\A i \in DOMAIN rcps \cap DOMAIN rcps' :
       rcps'[i].version < rcps[i].version /\ ~Garbage(i)' =>
         \E r \in Replicas :
           /\ pc[r] = "write" /\ pc'[r] = "idle"
           /\ \/ ~watching[r]
              \/ \E k \in DOMAIN queue'[r] :
                   /\ queue'[r][k].name = rcps[i].from
                   /\ queue'[r][k].version >= rcps[i].version]_vars

\* FCP n has an RCP of its own with what it says now.
Converted(n) ==
  \E i \in GeneratedFrom(n) :
    rcps[i].owner = fcps[n].uid /\ rcps[i].version = fcps[n].version

\* Nothing is left to do: events are handled, watches are up, and the garbage
\* collector is done.
Settled ==
  /\ \E r \in Replicas : pc[r] # "down"
  /\ \A r \in Replicas :
       pc[r] # "down" => pc[r] = "idle" /\ watching[r] /\ queue[r] = <<>>
  /\ \A i \in DOMAIN rcps : ~Garbage(i)

\* "the Fake DRA driver converts FakeResourceClaims to ResourceClaimParameters"
\* (README.md:166): when the controller has nothing left to do, every FCP is
\* converted, but for those whose last event ended in an error, which nothing
\* repeats (claimparametersgen.go:62-65, 77-80).
SettledIsConverted == Settled => \A n \in DOMAIN fcps \ dropped : Converted(n)

\* What a controller that runs alone relies on while no FCP is deleted: events
\* of an FCP are in order and none is older than its RCP; everything there is
\* belongs to an FCP; and an FCP that is not converted, nor dropped, has an
\* event, or will have one when the watch begins.
OrderInv ==
  \A r \in Replicas : \A p \in DOMAIN queue[r] :
    /\ \A q \in DOMAIN queue[r] :
         p <= q /\ queue[r][p].name = queue[r][q].name =>
           queue[r][p].version <= queue[r][q].version
    /\ \A i \in GeneratedFrom(queue[r][p].name) : rcps[i].version <= queue[r][p].version
BelongInv ==
  /\ \A r \in Replicas : \A p \in DOMAIN queue[r] :
       queue[r][p].name \in DOMAIN fcps /\ queue[r][p].uid = fcps[queue[r][p].name].uid
  /\ \A i \in DOMAIN rcps : rcps[i].from # NoName =>
       rcps[i].from \in DOMAIN fcps /\ rcps[i].owner = fcps[rcps[i].from].uid
  /\ \A i \in GeneratedFrom(NoName) : rcps[i].owner = 0
PendingInv ==
  \A n \in DOMAIN fcps \ dropped :
    \/ Converted(n)
    \/ \E r \in Replicas : ~watching[r] \/ \E p \in DOMAIN queue[r] : queue[r][p].name = n
BudgetInv ==
  /\ budget["delete"] = 0
  /\ version + budget["edit"] = Budget["edit"]

\* With GeneratorInv inductive for one replica.
AloneInv == OrderInv /\ BelongInv /\ PendingInv /\ BudgetInv

\* These FCPs are converted in the end, and stay so until the next edit.
EventuallyConverted == <>[](\A n \in DOMAIN fcps \ dropped : Converted(n))

\* The version of FCP n that the scheduler finds an RCP for.
Given(n) ==
  LET first == FirstOf(GeneratedFrom(n))
  IN  IF first = {} THEN 0 ELSE rcps[CHOOSE i \in first : TRUE].version

\* Events that are delivered again or late, lists, restarts, lost watches and
\* revisions cannot be told from outside: a controller that runs alone follows
\* each FCP step by step, never back, and leaves out only what it dropped.
Mirror == INSTANCE ParametersMirror WITH
  Versions <- 1..Budget["edit"],
  wanted   <- [n \in Names |-> IF n \in DOMAIN fcps THEN fcps[n].version ELSE 0],
  given    <- [n \in Names |-> Given(n)],
  lost     <- dropped
ImplementsMirror == Mirror!Spec
=============================================================================

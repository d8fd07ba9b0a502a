-------------------- MODULE ClaimParametersGeneratorProofs --------------------
(***************************************************************************)
(* Theorems about ClaimParametersGenerator, for every number of FCPs and   *)
(* of replicas, every set of identifiers and every bound.                  *)
(***************************************************************************)
EXTENDS ClaimParametersGenerator, FiniteSetTheorems, SequenceTheorems,
        LeastNumber, TLAPS

-----------------------------------------------------------------------------
(***************************************************************************)
(* Events and queues.                                                      *)
(***************************************************************************)

\* The event of an FCP says what the FCP is.
LEMMA SnapshotType ==
  ASSUME TypeOK, NEW n \in DOMAIN fcps
  PROVE  /\ Snapshot(n) \in Event /\ Snapshot(n).name = n
         /\ Snapshot(n).uid = fcps[n].uid /\ Snapshot(n).version = fcps[n].version
<1>1. n \in Names /\ fcps[n] \in FCP
  BY DEF TypeOK
<1> QED
  BY <1>1 DEF Snapshot, Event, FCP

\* A list of the FCPs is a sequence of events, one at least for each of them.
LEMMA SnapshotsType ==
  ASSUME TypeOK, IsFiniteSet(DOMAIN fcps), NEW s \in Snapshots
  PROVE  /\ s \in Seq(Event)
         /\ \A p \in DOMAIN s : \E n \in DOMAIN fcps : s[p] = Snapshot(n)
         /\ \A n \in DOMAIN fcps : \E p \in DOMAIN s : s[p].name = n
<1> DEFINE events == {Snapshot(n) : n \in DOMAIN fcps}
<1>1. Cardinality(DOMAIN fcps) \in Nat
  BY FS_CardinalityType
<1>2. s \in [1..Cardinality(DOMAIN fcps) -> events]
  BY DEF Snapshots
<1>3. events \subseteq Event
  BY SnapshotType
<1>4. s \in Seq(Event)
  BY <1>1, <1>2, <1>3
<1>5. \A p \in DOMAIN s : s[p] \in events
  BY <1>2
<1>6. \A n \in DOMAIN fcps : \E p \in DOMAIN s : s[p].name = n
  BY DEF Snapshots
<1> QED
  BY <1>4, <1>5, <1>6

\* What is appended to a queue comes after what was there.
LEMMA Appended ==
  ASSUME NEW S, NEW s \in Seq(S), NEW e \in S
  PROVE  /\ Append(s, e) \in Seq(S) /\ Append(s, e) # <<>>
         /\ DOMAIN Append(s, e) = DOMAIN s \cup {Len(s) + 1}
         /\ Append(s, e)[Len(s) + 1] = e
         /\ \A p \in DOMAIN s : Append(s, e)[p] = s[p] /\ p < Len(s) + 1
         /\ s # <<>> => Head(Append(s, e)) = Head(s)
<1>1. /\ Append(s, e) \in Seq(S) /\ Append(s, e) # <<>>
      /\ Len(Append(s, e)) = Len(s) + 1
      /\ \A p \in 1..Len(s) : Append(s, e)[p] = s[p]
      /\ Append(s, e)[Len(s) + 1] = e
  BY AppendProperties
<1>2. DOMAIN s = 1..Len(s) /\ Len(s) \in Nat
  OBVIOUS
<1>3. DOMAIN Append(s, e) = 1..Len(Append(s, e))
  BY <1>1
<1>4. s # <<>> => Head(Append(s, e)) = Head(s)
  BY HeadTailAppend
<1> QED
  BY <1>1, <1>2, <1>3, <1>4

\* The same of a sequence that is appended to a queue.
LEMMA Concatenated ==
  ASSUME NEW S, NEW s \in Seq(S), NEW t \in Seq(S)
  PROVE  /\ s \o t \in Seq(S)
         /\ DOMAIN s \subseteq DOMAIN (s \o t)
         /\ \A p \in DOMAIN s : (s \o t)[p] = s[p]
         /\ \A q \in DOMAIN t : /\ q + Len(s) \in DOMAIN (s \o t)
                                /\ (s \o t)[q + Len(s)] = t[q]
                                /\ \A p \in DOMAIN s : p < q + Len(s)
         /\ \A p \in DOMAIN (s \o t) \ DOMAIN s :
              \E q \in DOMAIN t : p = q + Len(s)
         /\ s # <<>> => s \o t # <<>> /\ Head(s \o t) = Head(s)
<1>1. /\ s \o t \in Seq(S) /\ Len(s \o t) = Len(s) + Len(t)
      /\ \A i \in 1..Len(s) + Len(t) : (s \o t)[i] = IF i <= Len(s) THEN s[i]
                                                     ELSE t[i - Len(s)]
  BY ConcatProperties
<1>2. /\ DOMAIN s = 1..Len(s) /\ Len(s) \in Nat
      /\ DOMAIN t = 1..Len(t) /\ Len(t) \in Nat
  OBVIOUS
<1>3. DOMAIN (s \o t) = 1..Len(s) + Len(t)
  BY <1>1
<1>4. ASSUME NEW q \in DOMAIN t
      PROVE  /\ q + Len(s) \in 1..Len(s) + Len(t)
             /\ (s \o t)[q + Len(s)] = t[q]
             /\ \A p \in DOMAIN s : p < q + Len(s)
  BY <1>1, <1>2
<1>5. ASSUME NEW p \in (1..Len(s) + Len(t)) \ DOMAIN s
      PROVE  \E q \in DOMAIN t : p = q + Len(s)
  <2>1. p - Len(s) \in DOMAIN t /\ p = (p - Len(s)) + Len(s)
    BY <1>2
  <2> QED
    BY <2>1
<1>6. s # <<>> => s \o t # <<>> /\ Head(s \o t) = Head(s)
  BY <1>1, <1>2
<1> QED
  BY <1>1, <1>2, <1>3, <1>4, <1>5, <1>6

\* The events that are left when the first one is done with.
LEMMA Handled ==
  ASSUME NEW S, NEW s \in Seq(S), s # <<>>
  PROVE  /\ Head(s) \in S /\ Head(s) = s[1] /\ 1 \in DOMAIN s
         /\ Tail(s) \in Seq(S)
         /\ \A p \in DOMAIN Tail(s) : p + 1 \in DOMAIN s /\ Tail(s)[p] = s[p + 1]
         /\ \A p \in DOMAIN s : p \in Nat /\ (p = 1 \/ (p - 1 \in DOMAIN Tail(s)))
<1>1. /\ Head(s) \in S /\ Tail(s) \in Seq(S) /\ Len(Tail(s)) = Len(s) - 1
      /\ \A i \in 1..Len(Tail(s)) : Tail(s)[i] = s[i + 1]
  BY HeadTailProperties
<1>2. DOMAIN s = 1..Len(s) /\ Len(s) \in Nat \ {0} /\ DOMAIN Tail(s) = 1..Len(Tail(s))
  BY <1>1, EmptySeq
<1>3. Head(s) = s[1]
  OBVIOUS
<1> QED
  BY <1>1, <1>2, <1>3

-----------------------------------------------------------------------------
(***************************************************************************)
(* What the steps change.                                                  *)
(***************************************************************************)

\* The users write FCPs: a new one has a UID of its own.
WriteFCP(n, uid) ==
  /\ IF n \in DOMAIN fcps THEN uid = fcps[n].uid ELSE uid = version + 1
  /\ \E selector \in Selectors : PutFCP(n, uid, selector)
  /\ Spend("edit")

\* A creation or an update writes the FCP.
LEMMA WriteFCPCases ==
  ASSUME NEW n \in Names, CreateFCP(n) \/ UpdateFCP(n)
  PROVE  \E uid : WriteFCP(n, uid)
BY DEF CreateFCP, UpdateFCP, WriteFCP

\* What the write of an FCP changes.
LEMMA WriteFCPEffect ==
  ASSUME TypeOK, NEW n \in Names, NEW uid, WriteFCP(n, uid)
  PROVE  /\ uid \in Nat /\ version' = version + 1
         /\ DOMAIN fcps' = DOMAIN fcps \cup {n}
         /\ \A m \in DOMAIN fcps \ {n} : fcps'[m] = fcps[m]
         /\ fcps'[n] \in FCP /\ fcps'[n].uid = uid /\ fcps'[n].version = version + 1
         /\ fcps' \in [DOMAIN fcps' -> FCP]
         /\ Snapshot(n)' \in Event /\ Snapshot(n)'.name = n
         /\ Snapshot(n)'.uid = uid /\ Snapshot(n)'.version = version + 1
         /\ \A r \in Replicas :
              queue'[r] = IF watching[r] THEN Append(queue[r], Snapshot(n)') ELSE queue[r]
         /\ queue' = [r \in Replicas |-> queue'[r]]
         /\ UNCHANGED <<rcps, revision, dropped, pc, watching, match>>
<1>1. PICK selector \in Selectors : PutFCP(n, uid, selector)
  BY DEF WriteFCP
<1>2. uid \in Nat
  BY DEF WriteFCP, TypeOK, FCP
<1>3. /\ version' = version + 1 /\ version' \in Nat
      /\ fcps' = [m \in DOMAIN fcps \cup {n} |->
                IF m = n THEN [uid |-> uid, version |-> version', selector |-> selector]
                ELSE fcps[m]]
  BY <1>1 DEF PutFCP, TypeOK
<1>4. fcps'[n] = [uid |-> uid, version |-> version + 1, selector |-> selector]
  BY <1>3
<1>5. fcps'[n] \in FCP
  BY <1>2, <1>3, <1>4 DEF FCP
<1>6. fcps' \in [DOMAIN fcps' -> FCP]
  BY <1>3, <1>4, <1>5 DEF TypeOK
<1>7. Snapshot(n)' = [name |-> n, uid |-> uid, version |-> version + 1, selector |-> selector]
  BY <1>4 DEF Snapshot
<1>8. Snapshot(n)' \in Event
  BY <1>2, <1>3, <1>7 DEF Event
<1>9. queue' = [r \in Replicas |->
                 IF watching[r] THEN Append(queue[r], Snapshot(n)') ELSE queue[r]]
  BY <1>1 DEF PutFCP
<1> QED
  BY <1>1, <1>2, <1>3, <1>4, <1>5, <1>6, <1>7, <1>8, <1>9 DEF PutFCP

\* What is spent is a number still.
LEMMA SpendType ==
  ASSUME TypeOK, NEW kind \in Kinds, Spend(kind)
  PROVE  budget' \in [Kinds -> Nat] /\ budget[kind] > 0
         /\ budget'[kind] = budget[kind] - 1
         /\ \A other \in Kinds \ {kind} : budget'[other] = budget[other]
BY DEF TypeOK, Spend

\* What the write of an RCP changes.
LEMMA PutRCPEffect ==
  ASSUME TypeOK, NEW i \in Ids, NEW rcp \in RCP, PutRCP(i, rcp)
  PROVE  /\ revision' = revision + 1 /\ DOMAIN rcps' = DOMAIN rcps \cup {i}
         /\ \A j \in DOMAIN rcps \ {i} : rcps'[j] = rcps[j]
         /\ rcps'[i].from = rcp.from /\ rcps'[i].owner = rcp.owner
         /\ rcps'[i].version = rcp.version /\ rcps'[i].revision = revision + 1
         /\ DOMAIN rcps' \subseteq Ids /\ rcps' \in [DOMAIN rcps' -> RCP]
<1>1. /\ revision' = revision + 1 /\ revision' \in Nat
      /\ rcps' = [j \in DOMAIN rcps \cup {i} |->
                IF j = i THEN [rcp EXCEPT !.revision = revision'] ELSE rcps[j]]
  BY DEF PutRCP, TypeOK
<1>2. /\ [rcp EXCEPT !.revision = revision'] \in RCP
      /\ [rcp EXCEPT !.revision = revision'].from = rcp.from
      /\ [rcp EXCEPT !.revision = revision'].owner = rcp.owner
      /\ [rcp EXCEPT !.revision = revision'].version = rcp.version
      /\ [rcp EXCEPT !.revision = revision'].revision = revision'
  BY <1>1 DEF RCP
<1> QED
  BY <1>1, <1>2 DEF TypeOK

\* What the end of an event changes, for its replica and for the others.
LEMMA DoneEffect ==
  ASSUME TypeOK, PcInv, NEW r \in Replicas, pc[r] # "down", queue[r] # <<>>, Done(r)
  PROVE  /\ pc'[r] = "idle" /\ queue'[r] = Tail(queue[r]) /\ match'[r] = {}
         /\ \A o \in Replicas \ {r} : /\ pc'[o] = pc[o] /\ queue'[o] = queue[o]
                                      /\ match'[o] = match[o]
         /\ watching' = watching
         /\ Head(queue[r]) \in Event /\ Tail(queue[r]) \in Seq(Event)
         /\ pc' \in [Replicas -> {"down", "idle", "write"}]
         /\ queue' \in [Replicas -> Seq(Event)]
         /\ match' \in [Replicas -> SUBSET [id : Ids, owner : Nat, revision : Nat]]
<1>1. queue[r] \in Seq(Event)
  BY DEF TypeOK
<1>2. Head(queue[r]) \in Event /\ Tail(queue[r]) \in Seq(Event)
  BY <1>1, Handled
<1> QED
  BY <1>2 DEF Done, TypeOK

\* What is written for an event.
LEMMA NewRCPType ==
  ASSUME NEW event \in Event
  PROVE  /\ NewRCP(event) \in RCP /\ NewRCP(event).from = event.name
         /\ NewRCP(event).owner = event.uid /\ NewRCP(event).version = event.version
         /\ \A owner \in Nat :
              /\ [NewRCP(event) EXCEPT !.owner = owner] \in RCP
              /\ [NewRCP(event) EXCEPT !.owner = owner].from = event.name
              /\ [NewRCP(event) EXCEPT !.owner = owner].owner = owner
              /\ [NewRCP(event) EXCEPT !.owner = owner].version = event.version
BY DEF NewRCP, Event, RCP

\* Replica r is done with a write that was carried out, whether it knows or not.
Closes(r) ==
  \/ Succeeds(r) /\ budget' = budget
  \/ Fails(r) /\ Spend("failure")

\* Replica r updates the RCP it found, with what the event says.
Rewrites(r, m) ==
  /\ pc[r] = "write" /\ m \in match[r]
  /\ m.id \in DOMAIN rcps /\ rcps[m.id].revision = m.revision
  /\ rcps[m.id].version # Head(queue[r]).version
  /\ PutRCP(m.id, [NewRCP(Head(queue[r])) EXCEPT !.owner = m.owner])
  /\ Closes(r)
  /\ UNCHANGED <<fcps, version>>

\* Replica r finds that the RCP says already what the event says.
Confirms(r, m) ==
  /\ pc[r] = "write" /\ m \in match[r]
  /\ m.id \in DOMAIN rcps /\ rcps[m.id].revision = m.revision
  /\ rcps[m.id].version = Head(queue[r]).version
  /\ Succeeds(r)
  /\ UNCHANGED <<stored, budget>>

\* Replica r adds an RCP for the event.
Adds(r, i) ==
  /\ pc[r] = "write" /\ match[r] = {} /\ i \in Ids \ DOMAIN rcps
  /\ PutRCP(i, NewRCP(Head(queue[r])))
  /\ Closes(r)
  /\ UNCHANGED <<fcps, version>>

\* Replica r drops the event.
Drops(r) ==
  /\ pc[r] # "down" /\ queue[r] # <<>>
  /\ Fails(r)
  /\ UNCHANGED stored
  /\ budget' = budget \/ Spend("failure")

\* The end of a write keeps the types of what it counts.
LEMMA ClosingType ==
  ASSUME TypeOK, NEW r \in Replicas, Closes(r), Head(queue[r]) \in Event
  PROVE  budget' \in [Kinds -> Nat] /\ dropped' \subseteq Names
<1>1. "failure" \in Kinds
  BY DEF Kinds
<1>2. budget' \in [Kinds -> Nat]
  BY <1>1, SpendType DEF Closes, TypeOK
<1>3. dropped' \subseteq Names
  BY DEF Closes, Succeeds, Fails, Event, TypeOK
<1> QED
  BY <1>2, <1>3

\* A step is one of these.
LEMMA Cases ==
  ASSUME PcInv, [Next]_vars
  PROVE  \/ \E n \in Names : \E uid : WriteFCP(n, uid)
         \/ \E n \in Names : DeleteFCP(n)
         \/ \E i \in Ids : WriteRCPByHand(i) \/ CollectGarbage(i)
         \/ \E r \in Replicas :
              \/ StartReplica(r) \/ Watch(r) \/ LoseWatch(r) \/ List(r)
              \/ Die(r) /\ (budget' = budget \/ Spend("stop"))
              \/ \E m \in match[r] : Rewrites(r, m) \/ Confirms(r, m)
              \/ \E i \in Ids : Adds(r, i)
              \/ Drops(r)
         \/ UNCHANGED vars
<1>1. ASSUME NEW n \in Names, CreateFCP(n) \/ UpdateFCP(n)
      PROVE  \E uid : WriteFCP(n, uid)
  BY <1>1, WriteFCPCases
<1>2. ASSUME NEW r \in Replicas, StopReplica(r) \/ Panic(r)
      PROVE  Die(r) /\ (budget' = budget \/ Spend("stop"))
  BY <1>2 DEF StopReplica, Panic
<1>3. ASSUME NEW r \in Replicas, Update(r)
      PROVE  \/ \E m \in match[r] : Rewrites(r, m) \/ Confirms(r, m)
             \/ Drops(r)
  BY <1>3 DEF Update, UpdateRCP, Accepted, Rewrites, Confirms, Closes, Drops, PcInv, stored
<1>4. ASSUME NEW r \in Replicas, Create(r)
      PROVE  (\E i \in Ids : Adds(r, i)) \/ Drops(r)
  BY <1>4 DEF Create, CreateRCP, Adds, Closes, Drops, PcInv, stored
<1>5. ASSUME NEW r \in Replicas, ListFails(r) \/ WriteFails(r)
      PROVE  Drops(r)
  BY <1>5 DEF ListFails, WriteFails, Drops, PcInv
<1>6. ASSUME NEW r \in Replicas, WriteAnswerLost(r)
      PROVE  \/ \E m \in match[r] : Rewrites(r, m)
             \/ \E i \in Ids : Adds(r, i)
             \/ Drops(r)
  <2>1. pc[r] = "write" /\ Spend("failure") /\ Fails(r) /\ UNCHANGED <<fcps, version>>
    BY <1>6 DEF WriteAnswerLost
  <2>2. CASE match[r] = {}
    BY <1>6, <2>1, <2>2 DEF WriteAnswerLost, CreateRCP, Adds, Closes
  <2>3. CASE match[r] # {}
    <3>1. PICK m \in match[r] : UpdateRCP(m, Head(queue[r]))
      BY <1>6, <2>3 DEF WriteAnswerLost
    <3> QED
      BY <2>1, <3>1 DEF UpdateRCP, Accepted, Rewrites, Closes, Drops, PcInv, stored
  <2> QED
    BY <2>2, <2>3
<1> QED
  BY <1>1, <1>2, <1>3, <1>4, <1>5, <1>6 DEF Next, Handle

-----------------------------------------------------------------------------
(***************************************************************************)
(* Type correctness, and the locations of the replicas.                    *)
(***************************************************************************)

\* Every step keeps the types.
LEMMA TypeStep ==
  ASSUME TypeOK, PcInv, IsFiniteSet(DOMAIN fcps), [Next]_vars
  PROVE  TypeOK'
<1> USE DEF objects, stored, replicas
<1>0. \A kind \in {"edit", "delete", "handmade", "failure", "start", "stop", "disconnect"} :
        kind \in Kinds
  BY DEF Kinds
<1>1. ASSUME NEW n \in Names, NEW uid, WriteFCP(n, uid)
      PROVE  TypeOK'
  <2>1. ASSUME NEW r \in Replicas
        PROVE  queue'[r] \in Seq(Event)
    <3>1. /\ Snapshot(n)' \in Event
          /\ queue'[r] = IF watching[r] THEN Append(queue[r], Snapshot(n)') ELSE queue[r]
      BY <1>1, WriteFCPEffect
    <3>2. queue[r] \in Seq(Event)
      BY DEF TypeOK
    <3>3. Append(queue[r], Snapshot(n)') \in Seq(Event)
      BY <3>1, <3>2, AppendProperties
    <3> QED
      BY <3>1, <3>2, <3>3
  <2>2. queue' \in [Replicas -> Seq(Event)]
    BY <1>1, <2>1, WriteFCPEffect
  <2>3. budget' \in [Kinds -> Nat]
    BY <1>1, <1>0, SpendType DEF WriteFCP
  <2>4. DOMAIN fcps' \subseteq Names /\ fcps' \in [DOMAIN fcps' -> FCP] /\ version' \in Nat
    <3>1. /\ DOMAIN fcps' = DOMAIN fcps \cup {n} /\ version' = version + 1
          /\ fcps' \in [DOMAIN fcps' -> FCP]
      BY <1>1, WriteFCPEffect
    <3> QED
      BY <3>1 DEF TypeOK
  <2>5. UNCHANGED <<rcps, revision, dropped, pc, watching, match>>
    BY <1>1, WriteFCPEffect
  <2> QED
    BY <2>2, <2>3, <2>4, <2>5 DEF TypeOK
<1>2. ASSUME NEW n \in Names, DeleteFCP(n)
      PROVE  TypeOK'
  <2>1. budget' \in [Kinds -> Nat]
    BY <1>2, <1>0, SpendType DEF DeleteFCP
  <2> QED
    BY <1>2, <2>1 DEF DeleteFCP, TypeOK
<1>3. ASSUME NEW i \in Ids, WriteRCPByHand(i)
      PROVE  TypeOK'
  <2>1. [from |-> NoName, owner |-> 0, version |-> 0, revision |-> 0] \in RCP
    BY DEF RCP
  <2>2. budget' \in [Kinds -> Nat]
    BY <1>3, <1>0, SpendType DEF WriteRCPByHand
  <2>3. /\ revision' = revision + 1
        /\ DOMAIN rcps' \subseteq Ids /\ rcps' \in [DOMAIN rcps' -> RCP]
    BY <1>3, <2>1, PutRCPEffect DEF WriteRCPByHand
  <2> QED
    BY <1>3, <2>2, <2>3 DEF WriteRCPByHand, TypeOK
<1>4. ASSUME NEW i \in Ids, CollectGarbage(i)
      PROVE  TypeOK'
  BY <1>4 DEF CollectGarbage, TypeOK
<1>5. ASSUME NEW r \in Replicas, StartReplica(r)
      PROVE  TypeOK'
  <2>1. \A s \in Snapshots : s \in Seq(Event)
    BY SnapshotsType
  <2>2. budget' \in [Kinds -> Nat]
    BY <1>5, <1>0, SpendType DEF StartReplica
  <2> QED
    BY <1>5, <2>1, <2>2 DEF StartReplica, TypeOK
<1>6. ASSUME NEW r \in Replicas, Watch(r)
      PROVE  TypeOK'
  <2>1. \A s \in Snapshots : s \in Seq(Event)
    BY SnapshotsType
  <2>2. \A s \in Snapshots : queue[r] \o s \in Seq(Event)
    BY <2>1, Concatenated DEF TypeOK
  <2> QED
    BY <1>6, <2>2 DEF Watch, TypeOK
<1>7. ASSUME NEW r \in Replicas, LoseWatch(r)
      PROVE  TypeOK'
  BY <1>7, <1>0, SpendType DEF LoseWatch, TypeOK
<1>8. ASSUME NEW r \in Replicas, List(r)
      PROVE  TypeOK'
  <2>1. {[id |-> i, owner |-> rcps[i].owner, revision |-> rcps[i].revision] :
           i \in FirstOf(GeneratedFrom(Head(queue[r]).name))}
          \in SUBSET [id : Ids, owner : Nat, revision : Nat]
    BY DEF TypeOK, RCP, FirstOf, GeneratedFrom
  <2> QED
    BY <1>8, <2>1 DEF List, TypeOK
<1>9. ASSUME NEW r \in Replicas, Die(r), budget' = budget \/ Spend("stop")
      PROVE  TypeOK'
  <2>1. budget' \in [Kinds -> Nat]
    BY <1>9, <1>0, SpendType DEF TypeOK
  <2> QED
    BY <1>9, <2>1 DEF Die, TypeOK
<1>10. ASSUME NEW r \in Replicas, NEW m \in match[r], Rewrites(r, m)
       PROVE  TypeOK'
  <2>1. queue[r] # <<>> /\ m.id \in Ids /\ m.owner \in Nat
    BY <1>10 DEF Rewrites, PcInv, TypeOK
  <2>2. /\ Head(queue[r]) \in Event
        /\ pc' \in [Replicas -> {"down", "idle", "write"}]
        /\ queue' \in [Replicas -> Seq(Event)] /\ watching' = watching
        /\ match' \in [Replicas -> SUBSET [id : Ids, owner : Nat, revision : Nat]]
    BY <1>10, <2>1, DoneEffect DEF Rewrites, Closes, Succeeds, Fails
  <2>3. /\ revision' = revision + 1
        /\ DOMAIN rcps' \subseteq Ids /\ rcps' \in [DOMAIN rcps' -> RCP]
    BY <1>10, <2>1, <2>2, NewRCPType, PutRCPEffect DEF Rewrites
  <2>4. budget' \in [Kinds -> Nat] /\ dropped' \subseteq Names
    BY <1>0, <1>10, <2>2, ClosingType DEF Rewrites
  <2> QED
    BY <1>10, <2>2, <2>3, <2>4 DEF Rewrites, TypeOK
<1>11. ASSUME NEW r \in Replicas, NEW m \in match[r], Confirms(r, m)
       PROVE  TypeOK'
  <2>1. queue[r] # <<>>
    BY <1>11 DEF Confirms, PcInv
  <2>2. /\ pc' \in [Replicas -> {"down", "idle", "write"}]
        /\ queue' \in [Replicas -> Seq(Event)] /\ watching' = watching
        /\ match' \in [Replicas -> SUBSET [id : Ids, owner : Nat, revision : Nat]]
    BY <1>11, <2>1, DoneEffect DEF Confirms, Succeeds
  <2> QED
    BY <1>11, <2>2 DEF Confirms, Succeeds, TypeOK
<1>12. ASSUME NEW r \in Replicas, NEW i \in Ids, Adds(r, i)
       PROVE  TypeOK'
  <2>1. queue[r] # <<>>
    BY <1>12 DEF Adds, PcInv
  <2>2. /\ Head(queue[r]) \in Event
        /\ pc' \in [Replicas -> {"down", "idle", "write"}]
        /\ queue' \in [Replicas -> Seq(Event)] /\ watching' = watching
        /\ match' \in [Replicas -> SUBSET [id : Ids, owner : Nat, revision : Nat]]
    BY <1>12, <2>1, DoneEffect DEF Adds, Closes, Succeeds, Fails
  <2>3. /\ revision' = revision + 1
        /\ DOMAIN rcps' \subseteq Ids /\ rcps' \in [DOMAIN rcps' -> RCP]
    BY <1>12, <2>2, NewRCPType, PutRCPEffect DEF Adds
  <2>4. budget' \in [Kinds -> Nat] /\ dropped' \subseteq Names
    BY <1>0, <1>12, <2>2, ClosingType DEF Adds
  <2> QED
    BY <1>12, <2>2, <2>3, <2>4 DEF Adds, TypeOK
<1>13. ASSUME NEW r \in Replicas, Drops(r)
       PROVE  TypeOK'
  <2>1. /\ Head(queue[r]) \in Event
        /\ pc' \in [Replicas -> {"down", "idle", "write"}]
        /\ queue' \in [Replicas -> Seq(Event)] /\ watching' = watching
        /\ match' \in [Replicas -> SUBSET [id : Ids, owner : Nat, revision : Nat]]
    BY <1>13, DoneEffect DEF Drops, Fails
  <2>2. budget' \in [Kinds -> Nat]
    BY <1>13, <1>0, SpendType DEF Drops, TypeOK
  <2>3. dropped' \subseteq Names
    BY <1>13, <2>1 DEF Drops, Fails, Event, TypeOK
  <2> QED
    BY <1>13, <2>1, <2>2, <2>3 DEF Drops, TypeOK
<1>14. CASE UNCHANGED vars
  BY <1>14 DEF vars, TypeOK
<1> QED
  BY <1>1, <1>2, <1>3, <1>4, <1>5, <1>6, <1>7, <1>8, <1>9, <1>10, <1>11, <1>12, <1>13,
     <1>14, Cases

\* Nothing happens to replica r itself, and its events are no fewer than those
\* it is owed.
Rests(r) ==
  /\ UNCHANGED <<pc[r], queue[r], match[r]>>
  /\ watching'[r] => watching[r]
  /\ \/ fcps' = fcps
     \/ \E n \in Names : DeleteFCP(n)
     \/ ~watching[r] /\ \E n \in Names : \E uid : WriteFCP(n, uid)

\* Replica r is told of an FCP that is written.
Hears(r) ==
  /\ watching[r] /\ UNCHANGED <<pc[r], watching[r], match[r]>>
  /\ \E n \in Names : \E uid : WriteFCP(n, uid) /\ queue'[r] = Append(queue[r], Snapshot(n)')

\* Replica r dies.
Ends(r) ==
  /\ pc'[r] = "down" /\ ~watching'[r] /\ queue'[r] = <<>> /\ match'[r] = {}
  /\ UNCHANGED fcps

\* Replica r starts.
Begins(r) ==
  /\ pc[r] = "down" /\ pc'[r] = "idle" /\ queue'[r] \in Snapshots
  /\ UNCHANGED <<fcps, watching[r], match[r]>>

\* Replica r begins to watch.
Watches(r) ==
  /\ pc[r] # "down" /\ ~watching[r]
  /\ \E s \in Snapshots : queue'[r] = queue[r] \o s
  /\ UNCHANGED <<fcps, pc[r], match[r]>>

\* Replica r has listed the RCPs, or is done with an event.
Proceeds(r) ==
  /\ pc[r] # "down" /\ queue[r] # <<>>
  /\ \/ pc[r] = "idle" /\ pc'[r] = "write" /\ queue'[r] = queue[r] /\ List(r)
     \/ pc'[r] = "idle" /\ queue'[r] = Tail(queue[r]) /\ match'[r] = {}
  /\ UNCHANGED <<fcps, watching[r]>>

\* What a step does to one replica.
LEMMA ReplicaCases ==
  ASSUME TypeOK, PcInv, [Next]_vars, NEW r \in Replicas
  PROVE  Rests(r) \/ Hears(r) \/ Ends(r) \/ Begins(r) \/ Watches(r) \/ Proceeds(r)
<1> USE DEF objects, stored, replicas
<1>1. ASSUME NEW n \in Names, NEW uid, WriteFCP(n, uid)
      PROVE  Rests(r) \/ Hears(r)
  <2>1. /\ queue'[r] = IF watching[r] THEN Append(queue[r], Snapshot(n)') ELSE queue[r]
        /\ UNCHANGED <<pc, watching, match>>
    BY <1>1, WriteFCPEffect
  <2> QED
    BY <1>1, <2>1 DEF Rests, Hears
<1>2. ASSUME UNCHANGED <<pc, watching, queue, match>>,
             fcps' = fcps \/ \E n \in Names : DeleteFCP(n)
      PROVE  Rests(r)
  BY <1>2 DEF Rests
<1>3. ASSUME NEW i \in Ids, WriteRCPByHand(i) \/ CollectGarbage(i)
      PROVE  Rests(r)
  BY <1>2, <1>3 DEF WriteRCPByHand, CollectGarbage
<1>4. ASSUME NEW o \in Replicas, o # r, fcps' = fcps,
             \A a \in Replicas \ {o} :
               UNCHANGED <<pc[a], watching[a], queue[a], match[a]>>
      PROVE  Rests(r)
  BY <1>4 DEF Rests
<1>5. ASSUME NEW o \in Replicas, StartReplica(o)
      PROVE  Rests(r) \/ Begins(r)
  <2>1. CASE o = r
    BY <1>5, <2>1 DEF StartReplica, Begins, TypeOK
  <2>2. CASE o # r
    BY <1>4, <1>5, <2>2 DEF StartReplica, TypeOK
  <2> QED
    BY <2>1, <2>2
<1>6. ASSUME NEW o \in Replicas, Watch(o)
      PROVE  Rests(r) \/ Watches(r)
  <2>1. CASE o = r
    BY <1>6, <2>1 DEF Watch, Watches, TypeOK
  <2>2. CASE o # r
    BY <1>4, <1>6, <2>2 DEF Watch, TypeOK
  <2> QED
    BY <2>1, <2>2
<1>7. ASSUME NEW o \in Replicas, LoseWatch(o)
      PROVE  Rests(r)
  <2>1. UNCHANGED <<fcps, pc, queue, match>> /\ watching'[r] => watching[r]
    BY <1>7 DEF LoseWatch, TypeOK
  <2> QED
    BY <1>7, <2>1 DEF LoseWatch, Rests, TypeOK
<1>8. ASSUME NEW o \in Replicas, List(o)
      PROVE  Rests(r) \/ Proceeds(r)
  <2>1. CASE o = r
    BY <1>8, <2>1 DEF List, Proceeds, TypeOK
  <2>2. CASE o # r
    BY <1>4, <1>8, <2>2 DEF List, TypeOK
  <2> QED
    BY <2>1, <2>2
<1>9. ASSUME NEW o \in Replicas, Die(o)
      PROVE  Rests(r) \/ Ends(r)
  <2>1. CASE o = r
    BY <1>9, <2>1 DEF Die, Ends, TypeOK
  <2>2. CASE o # r
    BY <1>4, <1>9, <2>2 DEF Die, TypeOK
  <2> QED
    BY <2>1, <2>2
<1>10. ASSUME NEW o \in Replicas, pc[o] # "down", queue[o] # <<>>, Done(o), fcps' = fcps
       PROVE  Rests(r) \/ Proceeds(r)
  <2>1. /\ pc'[o] = "idle" /\ queue'[o] = Tail(queue[o]) /\ match'[o] = {}
        /\ \A a \in Replicas \ {o} : /\ pc'[a] = pc[a] /\ queue'[a] = queue[a]
                                     /\ match'[a] = match[a]
        /\ watching' = watching
    BY <1>10, DoneEffect
  <2>2. CASE o = r
    BY <1>10, <2>1, <2>2 DEF Proceeds
  <2>3. CASE o # r
    BY <1>4, <1>10, <2>1, <2>3
  <2> QED
    BY <2>2, <2>3
<1>11. ASSUME NEW o \in Replicas, \/ \E m \in match[o] : Rewrites(o, m) \/ Confirms(o, m)
                                  \/ \E i \in Ids : Adds(o, i)
                                  \/ Drops(o)
       PROVE  Rests(r) \/ Proceeds(r)
  BY <1>10, <1>11 DEF Rewrites, Confirms, Adds, Closes, Drops, Succeeds, Fails, PcInv
<1>12. CASE UNCHANGED vars
  BY <1>2, <1>12 DEF vars
<1> QED
  BY <1>1, <1>2, <1>3, <1>5, <1>6, <1>7, <1>8, <1>9, <1>11, <1>12, Cases DEF DeleteFCP

\* A replica that is down has no events, and one that writes has one.
LEMMA PcStep ==
  ASSUME TypeOK, PcInv, [Next]_vars
  PROVE  PcInv'
<1> SUFFICES ASSUME NEW r \in Replicas
             PROVE  /\ pc'[r] = "down" => ~watching'[r] /\ queue'[r] = <<>>
                    /\ pc'[r] = "write" => queue'[r] # <<>>
                    /\ pc'[r] # "write" => match'[r] = {}
  BY DEF PcInv
<1>1. /\ pc[r] = "down" => ~watching[r] /\ queue[r] = <<>>
      /\ pc[r] = "write" => queue[r] # <<>>
      /\ pc[r] # "write" => match[r] = {}
      /\ queue[r] \in Seq(Event)
  BY DEF PcInv, TypeOK
<1>2. CASE Rests(r)
  BY <1>1, <1>2 DEF Rests
<1>3. CASE Hears(r)
  <2>1. PICK n \in Names, uid \in Nat : /\ queue'[r] = Append(queue[r], Snapshot(n)')
                                        /\ Snapshot(n)' \in Event
    BY <1>3, WriteFCPEffect DEF Hears
  <2>2. queue'[r] # <<>>
    BY <1>1, <2>1, AppendProperties
  <2> QED
    BY <1>1, <1>3, <2>2 DEF Hears
<1>4. CASE Ends(r)
  BY <1>4 DEF Ends
<1>5. CASE Begins(r)
  BY <1>1, <1>5 DEF Begins
<1>6. CASE Watches(r)
  BY <1>1, <1>6 DEF Watches
<1>7. CASE Proceeds(r)
  BY <1>1, <1>7 DEF Proceeds
<1> QED
  BY <1>2, <1>3, <1>4, <1>5, <1>6, <1>7, ReplicaCases

-----------------------------------------------------------------------------
(***************************************************************************)
(* What is known of an object stays true.                                  *)
(***************************************************************************)

\* Only users write and delete FCPs.
LEMMA FCPCases ==
  ASSUME PcInv, [Next]_vars
  PROVE  \/ UNCHANGED <<fcps, version>>
         \/ \E n \in Names : DeleteFCP(n)
         \/ \E n \in Names : \E uid : WriteFCP(n, uid)
<1> USE DEF objects, stored
<1>1. ASSUME NEW i \in Ids, WriteRCPByHand(i) \/ CollectGarbage(i)
      PROVE  UNCHANGED <<fcps, version>>
  BY <1>1 DEF WriteRCPByHand, CollectGarbage
<1>2. ASSUME NEW r \in Replicas,
             StartReplica(r) \/ Watch(r) \/ LoseWatch(r) \/ List(r) \/ Die(r)
      PROVE  UNCHANGED <<fcps, version>>
  BY <1>2 DEF StartReplica, Watch, LoseWatch, List, Die
<1>3. ASSUME NEW r \in Replicas, \/ \E m \in match[r] : Rewrites(r, m) \/ Confirms(r, m)
                                 \/ \E i \in Ids : Adds(r, i)
                                 \/ Drops(r)
      PROVE  UNCHANGED <<fcps, version>>
  BY <1>3 DEF Rewrites, Confirms, Adds, Drops
<1>4. UNCHANGED vars => UNCHANGED <<fcps, version>>
  BY DEF vars
<1> QED
  BY <1>1, <1>2, <1>3, <1>4, Cases

\* Names, UIDs and versions of objects that have been there.
LEMMA KnownStep ==
  ASSUME TypeOK, PcInv, OriginInv, [Next]_vars, NEW x, NEW u, NEW v \in Nat, Known(x, u, v)
  PROVE  Known(x, u, v)'
<1> USE DEF Known
<1>0. version \in Nat
  BY DEF TypeOK
<1>1. CASE UNCHANGED <<fcps, version>>
  BY <1>1
<1>2. ASSUME NEW n \in Names, DeleteFCP(n)
      PROVE  Known(x, u, v)'
  BY <1>2 DEF DeleteFCP
<1>3. ASSUME NEW n \in Names, NEW uid, WriteFCP(n, uid)
      PROVE  Known(x, u, v)'
  <2>1. /\ version' = version + 1 /\ DOMAIN fcps' = DOMAIN fcps \cup {n}
        /\ \A m \in DOMAIN fcps \ {n} : fcps'[m] = fcps[m]
        /\ fcps'[n].uid = uid /\ fcps'[n].version = version + 1
    BY <1>3, WriteFCPEffect
  <2>2. u \in 1..version' /\ v <= version'
    BY <1>0, <2>1
  <2>3. x \in DOMAIN fcps' => v <= fcps'[x].version
    BY <1>0, <2>1
  <2>4. uid = u => n = x
    BY <1>0, <1>3 DEF WriteFCP
  <2>5. ASSUME NEW m \in DOMAIN fcps', fcps'[m].uid = u
        PROVE  m = x
    BY <2>1, <2>4, <2>5
  <2> QED
    BY <2>2, <2>3, <2>5
<1> QED
  BY <1>1, <1>2, <1>3, FCPCases

\* The FCPs are known.
LEMMA FCPsKnown ==
  ASSUME TypeOK, PcInv, OriginInv, [Next]_vars, NEW n \in DOMAIN fcps'
  PROVE  Known(n, fcps[n].uid, fcps[n].version)'
<1>0. /\ version \in Nat /\ \A m \in DOMAIN fcps : fcps[m].version \in Nat
      /\ \A m \in DOMAIN fcps : Known(m, fcps[m].uid, fcps[m].version)
  BY DEF TypeOK, OriginInv, FCP
<1>1. CASE n \in DOMAIN fcps /\ fcps'[n] = fcps[n]
  BY <1>0, <1>1, KnownStep
<1>2. CASE UNCHANGED <<fcps, version>>
  BY <1>1, <1>2
<1>3. ASSUME NEW m \in Names, DeleteFCP(m)
      PROVE  n \in DOMAIN fcps /\ fcps'[n] = fcps[n]
  BY <1>3 DEF DeleteFCP
<1>4. ASSUME NEW m \in Names, NEW uid, WriteFCP(m, uid)
      PROVE  Known(n, fcps[n].uid, fcps[n].version)'
  <2>1. /\ version' = version + 1 /\ DOMAIN fcps' = DOMAIN fcps \cup {m} /\ uid \in Nat
        /\ \A o \in DOMAIN fcps \ {m} : fcps'[o] = fcps[o]
        /\ fcps'[m].uid = uid /\ fcps'[m].version = version + 1
    BY <1>4, WriteFCPEffect
  <2>2. CASE n # m
    BY <1>1, <2>1, <2>2
  <2>3. CASE n = m
    <3>1. uid \in 1..version'
      BY <1>0, <1>4, <2>1 DEF WriteFCP, Known
    <3>2. ASSUME NEW o \in DOMAIN fcps \ {m}, fcps[o].uid = uid
          PROVE  FALSE
      BY <1>0, <1>4, <3>2 DEF WriteFCP, Known
    <3> QED
      BY <1>0, <2>1, <2>3, <3>1, <3>2 DEF Known
  <2> QED
    BY <2>2, <2>3
<1> QED
  BY <1>1, <1>2, <1>3, <1>4, FCPCases

\* Every event there is has been there, or is of an FCP as it is now.
LEMMA EventOrigin ==
  ASSUME TypeOK, PcInv, IsFiniteSet(DOMAIN fcps), [Next]_vars,
         NEW r \in Replicas, NEW p \in DOMAIN queue'[r]
  PROVE  \/ \E q \in DOMAIN queue[r] : queue'[r][p] = queue[r][q]
         \/ \E n \in DOMAIN fcps' : queue'[r][p] = Snapshot(n)'
<1>0. queue[r] \in Seq(Event)
  BY DEF TypeOK
<1>1. CASE Rests(r)
  BY <1>1 DEF Rests
<1>2. CASE Hears(r)
  <2>1. PICK n \in Names, uid \in Nat :
          /\ queue'[r] = Append(queue[r], Snapshot(n)')
          /\ Snapshot(n)' \in Event /\ n \in DOMAIN fcps'
    BY <1>2, WriteFCPEffect DEF Hears
  <2> QED
    BY <1>0, <2>1, Appended
<1>3. CASE Ends(r)
  BY <1>3 DEF Ends
<1>4. \A s \in Snapshots :
        s \in Seq(Event) /\ \A q \in DOMAIN s : \E n \in DOMAIN fcps : s[q] = Snapshot(n)
  BY SnapshotsType
<1>5. fcps' = fcps => \A n \in DOMAIN fcps : n \in DOMAIN fcps' /\ Snapshot(n)' = Snapshot(n)
  BY DEF Snapshot
<1>6. CASE Begins(r)
  BY <1>4, <1>5, <1>6 DEF Begins
<1>7. CASE Watches(r)
  <2>1. PICK s \in Snapshots : queue'[r] = queue[r] \o s
    BY <1>7 DEF Watches
  <2>2. CASE p \in DOMAIN queue[r]
    BY <1>0, <1>4, <2>1, <2>2, Concatenated
  <2>3. CASE p \notin DOMAIN queue[r]
    <3>1. PICK q \in DOMAIN s : p = q + Len(queue[r]) /\ queue'[r][p] = s[q]
      BY <1>0, <1>4, <2>1, <2>3, Concatenated
    <3> QED
      BY <1>4, <1>5, <1>7, <3>1 DEF Watches
  <2> QED
    BY <2>2, <2>3
<1>8. CASE Proceeds(r)
  <2>1. CASE queue'[r] = queue[r]
    BY <2>1
  <2>2. CASE queue[r] # <<>> /\ queue'[r] = Tail(queue[r])
    <3>1. p + 1 \in DOMAIN queue[r] /\ Tail(queue[r])[p] = queue[r][p + 1]
      BY <1>0, <2>2, Handled
    <3> QED
      BY <2>2, <3>1
  <2> QED
    BY <1>8, <2>1, <2>2 DEF Proceeds
<1> QED
  BY <1>1, <1>2, <1>3, <1>6, <1>7, <1>8, ReplicaCases

\* A step keeps what an RCP is generated from; its owner is the one it had, or
\* that of the event it is created for.
LEMMA RCPOrigin ==
  ASSUME TypeOK, PcInv, MatchInv, [Next]_vars,
         NEW i \in DOMAIN rcps'
  PROVE  \/ /\ i \in DOMAIN rcps /\ rcps'[i] = rcps[i]
         \/ /\ i \notin DOMAIN rcps
            /\ rcps'[i].from = NoName /\ rcps'[i].owner = 0
         \/ \E r \in Replicas :
              /\ pc[r] = "write" /\ queue[r] # <<>> /\ Head(queue[r]) \in Event
              /\ rcps'[i].from = Head(queue[r]).name
              /\ rcps'[i].version = Head(queue[r]).version
              /\ \/ /\ i \notin DOMAIN rcps /\ match[r] = {}
                    /\ rcps'[i].owner = Head(queue[r]).uid /\ Adds(r, i)
                 \/ \E m \in match[r] :
                      /\ i \in DOMAIN rcps /\ i = m.id /\ Rewrites(r, m)
                      /\ rcps'[i].from = rcps[i].from
                      /\ rcps'[i].owner = rcps[i].owner
<1> USE DEF objects, stored
<1>1. ASSUME NEW n \in Names, NEW uid, WriteFCP(n, uid)
      PROVE  rcps' = rcps
  BY <1>1, WriteFCPEffect
<1>2. ASSUME NEW n \in Names, DeleteFCP(n)
      PROVE  rcps' = rcps
  BY <1>2 DEF DeleteFCP
<1>3. ASSUME NEW j \in Ids, WriteRCPByHand(j)
      PROVE  \/ i \in DOMAIN rcps /\ rcps'[i] = rcps[i]
             \/ i \notin DOMAIN rcps /\ rcps'[i].from = NoName /\ rcps'[i].owner = 0
  <2>1. [from |-> NoName, owner |-> 0, version |-> 0, revision |-> 0] \in RCP
    BY DEF RCP
  <2>2. /\ DOMAIN rcps' = DOMAIN rcps \cup {j} /\ j \notin DOMAIN rcps
        /\ \A k \in DOMAIN rcps \ {j} : rcps'[k] = rcps[k]
        /\ rcps'[j].from = NoName /\ rcps'[j].owner = 0
    BY <1>3, <2>1, PutRCPEffect DEF WriteRCPByHand
  <2> QED
    BY <2>2
<1>4. ASSUME NEW j \in Ids, CollectGarbage(j)
      PROVE  i \in DOMAIN rcps /\ rcps'[i] = rcps[i]
  BY <1>4 DEF CollectGarbage
<1>5. ASSUME NEW r \in Replicas,
             \/ StartReplica(r) \/ Watch(r) \/ LoseWatch(r) \/ List(r) \/ Die(r)
             \/ Drops(r) \/ \E m \in match[r] : Confirms(r, m)
      PROVE  rcps' = rcps
  BY <1>5 DEF StartReplica, Watch, LoseWatch, List, Die, Drops, Confirms
<1>6. ASSUME NEW r \in Replicas, pc[r] = "write"
      PROVE  queue[r] # <<>> /\ Head(queue[r]) \in Event
  <2>1. queue[r] # <<>> /\ queue[r] \in Seq(Event)
    BY <1>6 DEF PcInv, TypeOK
  <2> QED
    BY <2>1, Handled
<1>7. ASSUME NEW r \in Replicas, NEW m \in match[r], Rewrites(r, m)
      PROVE  \/ i \in DOMAIN rcps /\ rcps'[i] = rcps[i]
             \/ /\ pc[r] = "write" /\ i \in DOMAIN rcps /\ i = m.id
                /\ rcps'[i].from = Head(queue[r]).name
                /\ rcps'[i].version = Head(queue[r]).version
                /\ rcps'[i].from = rcps[i].from
                /\ rcps'[i].owner = rcps[i].owner
  <2>1. /\ pc[r] = "write" /\ m.id \in DOMAIN rcps /\ rcps[m.id].revision = m.revision
        /\ PutRCP(m.id, [NewRCP(Head(queue[r])) EXCEPT !.owner = m.owner])
    BY <1>7 DEF Rewrites
  <2>2. m.id \in Ids /\ m.owner \in Nat /\ Head(queue[r]) \in Event
    BY <1>6, <2>1 DEF TypeOK
  <2>3. rcps[m.id].from = Head(queue[r]).name /\ rcps[m.id].owner = m.owner
    BY <2>1 DEF MatchInv
  <2> DEFINE new == [NewRCP(Head(queue[r])) EXCEPT !.owner = m.owner]
  <2>4. /\ new \in RCP /\ new.from = Head(queue[r]).name /\ new.owner = m.owner
        /\ new.version = Head(queue[r]).version
    BY <2>2, NewRCPType
  <2> HIDE DEF new
  <2>5. /\ DOMAIN rcps' = DOMAIN rcps \cup {m.id}
        /\ \A j \in DOMAIN rcps \ {m.id} : rcps'[j] = rcps[j]
        /\ rcps'[m.id].from = new.from /\ rcps'[m.id].owner = new.owner
        /\ rcps'[m.id].version = new.version
    BY <2>1, <2>2, <2>4, PutRCPEffect DEF new
  <2> QED
    BY <2>1, <2>3, <2>4, <2>5
<1>8. ASSUME NEW r \in Replicas, NEW j \in Ids, Adds(r, j)
      PROVE  \/ i \in DOMAIN rcps /\ rcps'[i] = rcps[i]
             \/ /\ pc[r] = "write" /\ i \notin DOMAIN rcps /\ match[r] = {} /\ i = j
                /\ rcps'[i].from = Head(queue[r]).name
                /\ rcps'[i].version = Head(queue[r]).version
                /\ rcps'[i].owner = Head(queue[r]).uid
  <2>1. /\ pc[r] = "write" /\ match[r] = {} /\ j \notin DOMAIN rcps
        /\ PutRCP(j, NewRCP(Head(queue[r])))
    BY <1>8 DEF Adds
  <2>2. Head(queue[r]) \in Event
    BY <1>6, <2>1
  <2>3. /\ DOMAIN rcps' = DOMAIN rcps \cup {j}
        /\ \A k \in DOMAIN rcps \ {j} : rcps'[k] = rcps[k]
        /\ rcps'[j].from = Head(queue[r]).name /\ rcps'[j].owner = Head(queue[r]).uid
        /\ rcps'[j].version = Head(queue[r]).version
    BY <2>1, <2>2, NewRCPType, PutRCPEffect
  <2> QED
    BY <2>1, <2>3
<1>9. UNCHANGED vars => rcps' = rcps
  BY DEF vars
<1>10. CASE i \in DOMAIN rcps /\ rcps'[i] = rcps[i]
  BY <1>10
<1>11. CASE \E r \in Replicas : \E m \in match[r] : Rewrites(r, m)
  BY <1>6, <1>7, <1>11
<1>12. CASE \E r \in Replicas : \E j \in Ids : Adds(r, j)
  BY <1>6, <1>8, <1>12
<1> QED
  BY <1>1, <1>2, <1>3, <1>4, <1>5, <1>9, <1>10, <1>11, <1>12, Cases

\* What the events, the FCPs and the RCPs know of each other stays true.
LEMMA OriginStep ==
  ASSUME TypeOK, PcInv, MatchInv, OriginInv, IsFiniteSet(DOMAIN fcps), [Next]_vars
  PROVE  OriginInv'
<1>1. ASSUME NEW n \in DOMAIN fcps'
      PROVE  Known(n, fcps[n].uid, fcps[n].version)'
  BY FCPsKnown
<1>2. ASSUME NEW x, NEW u, NEW v \in Nat, Known(x, u, v)
      PROVE  Known(x, u, v)'
  BY <1>2, KnownStep
<1>3. ASSUME NEW r \in Replicas, NEW q \in DOMAIN queue[r]
      PROVE  \E x, u : \E v \in Nat :
               /\ x = queue[r][q].name /\ u = queue[r][q].uid /\ v = queue[r][q].version
               /\ Known(x, u, v)'
  <2>1. queue[r][q] \in Event /\ Known(queue[r][q].name, queue[r][q].uid, queue[r][q].version)
    BY DEF TypeOK, OriginInv
  <2>2. PICK x, u : \E v \in Nat :
               /\ x = queue[r][q].name /\ u = queue[r][q].uid /\ v = queue[r][q].version
               /\ Known(x, u, v)
    BY <2>1 DEF Event
  <2> QED
    BY <1>2, <2>2
<1>4. ASSUME NEW r \in Replicas, NEW p \in DOMAIN queue'[r]
      PROVE  Known(queue[r][p].name, queue[r][p].uid, queue[r][p].version)'
  <2>1. CASE \E q \in DOMAIN queue[r] : queue'[r][p] = queue[r][q]
    BY <1>3, <2>1 DEF Known
  <2>2. CASE \E n \in DOMAIN fcps' : queue'[r][p] = Snapshot(n)'
    BY <1>1, <2>2 DEF Known, Snapshot
  <2> QED
    BY <2>1, <2>2, EventOrigin
<1>5. ASSUME NEW i \in DOMAIN rcps', rcps'[i].from # NoName
      PROVE  Known(rcps[i].from, rcps[i].owner, rcps[i].version)'
  <2>0. ASSUME NEW r \in Replicas, queue[r] # <<>>
        PROVE  1 \in DOMAIN queue[r] /\ Head(queue[r]) = queue[r][1]
    BY <2>0, Handled DEF TypeOK
  <2>1. ASSUME i \in DOMAIN rcps, rcps'[i].from = rcps[i].from, rcps'[i].owner = rcps[i].owner
        PROVE  \E x, u : \E v \in Nat :
                 /\ x = rcps'[i].from /\ u = rcps'[i].owner /\ v = rcps[i].version
                 /\ Known(x, u, v)'
    <3>1. Known(rcps[i].from, rcps[i].owner, rcps[i].version) /\ rcps[i] \in RCP
      BY <1>5, <2>1 DEF OriginInv, TypeOK
    <3>2. PICK x, u : \E v \in Nat :
                 /\ x = rcps[i].from /\ u = rcps[i].owner /\ v = rcps[i].version
                 /\ Known(x, u, v)
      BY <3>1 DEF RCP
    <3> QED
      BY <1>2, <2>1, <3>2
  <2>2. CASE i \in DOMAIN rcps /\ rcps'[i] = rcps[i]
    BY <2>1, <2>2 DEF Known
  <2>3. ASSUME NEW r \in Replicas, queue[r] # <<>>,
               rcps'[i].from = Head(queue[r]).name, rcps'[i].version = Head(queue[r]).version,
               rcps'[i].owner = Head(queue[r]).uid
        PROVE  Known(rcps[i].from, rcps[i].owner, rcps[i].version)'
    BY <1>3, <2>0, <2>3 DEF Known
  <2>4. ASSUME NEW r \in Replicas, queue[r] # <<>>,
               rcps'[i].from = Head(queue[r]).name, rcps'[i].version = Head(queue[r]).version,
               i \in DOMAIN rcps, rcps'[i].from = rcps[i].from, rcps'[i].owner = rcps[i].owner
        PROVE  Known(rcps[i].from, rcps[i].owner, rcps[i].version)'
    <3>1. PICK x, u : \E v \in Nat :
                 /\ x = rcps'[i].from /\ u = rcps'[i].owner
                 /\ Known(x, u, v)'
      BY <2>1, <2>4
    <3>2. PICK y, t : \E w \in Nat :
                 /\ y = rcps'[i].from /\ w = rcps'[i].version
                 /\ Known(y, t, w)'
      BY <1>3, <2>0, <2>4
    <3> QED
      BY <3>1, <3>2 DEF Known
  <2> QED
    BY <1>5, <2>2, <2>3, <2>4, RCPOrigin
<1> QED
  BY <1>1, <1>4, <1>5 DEF OriginInv

\* A replica that watches keeps the last version of an FCP before it until it
\* has handled every event of that FCP.
LEMMA TrackedStep ==
  ASSUME TypeOK, PcInv, TrackedInv, IsFiniteSet(DOMAIN fcps), [Next]_vars
  PROVE  TrackedInv'
<1> SUFFICES ASSUME NEW r \in Replicas, watching'[r], NEW n \in DOMAIN fcps',
                    NEW p \in DOMAIN queue'[r], queue'[r][p].name = n
             PROVE  \E q \in DOMAIN queue'[r] :
                      /\ p <= q /\ queue'[r][q].name = n
                      /\ queue'[r][q].version = fcps'[n].version
  BY DEF TrackedInv
<1>0. queue[r] \in Seq(Event) /\ DOMAIN queue[r] = 1..Len(queue[r]) /\ Len(queue[r]) \in Nat
  BY DEF TypeOK
<1>1. ASSUME watching[r], n \in DOMAIN fcps, NEW o \in DOMAIN queue[r], queue[r][o].name = n
      PROVE  \E q \in DOMAIN queue[r] : /\ o <= q /\ queue[r][q].name = n
                                       /\ queue[r][q].version = fcps[n].version
  BY <1>1 DEF TrackedInv
<1>2. CASE Rests(r)
  <2>1. watching[r] /\ queue'[r] = queue[r]
    BY <1>2 DEF Rests
  <2>2. n \in DOMAIN fcps /\ fcps'[n] = fcps[n]
    BY <1>2, <2>1 DEF Rests, DeleteFCP
  <2> QED
    BY <1>1, <2>1, <2>2
<1>3. CASE Hears(r)
  <2>1. PICK m \in Names :
          /\ watching[r] /\ queue'[r] = Append(queue[r], Snapshot(m)')
          /\ Snapshot(m)' \in Event /\ Snapshot(m)'.name = m
          /\ Snapshot(m)'.version = fcps'[m].version
          /\ DOMAIN fcps' = DOMAIN fcps \cup {m}
          /\ \A o \in DOMAIN fcps \ {m} : fcps'[o] = fcps[o]
    <3>1. PICK m \in Names : \E uid : /\ WriteFCP(m, uid)
                                     /\ queue'[r] = Append(queue[r], Snapshot(m)')
      BY <1>3 DEF Hears
    <3>2. /\ Snapshot(m)' \in Event /\ Snapshot(m)'.name = m
          /\ Snapshot(m)'.version = fcps'[m].version
          /\ DOMAIN fcps' = DOMAIN fcps \cup {m}
          /\ \A o \in DOMAIN fcps \ {m} : fcps'[o] = fcps[o]
      BY <3>1, WriteFCPEffect
    <3> QED
      BY <1>3, <3>1, <3>2 DEF Hears
  <2>2. /\ DOMAIN queue'[r] = DOMAIN queue[r] \cup {Len(queue[r]) + 1}
        /\ queue'[r][Len(queue[r]) + 1] = Snapshot(m)'
        /\ \A o \in DOMAIN queue[r] : queue'[r][o] = queue[r][o] /\ o < Len(queue[r]) + 1
    BY <1>0, <2>1, Appended
  <2>3. CASE n = m
    BY <1>0, <2>1, <2>2, <2>3
  <2>4. CASE n # m
    <3>1. p \in DOMAIN queue[r] /\ queue[r][p].name = n
      BY <2>1, <2>2, <2>4
    <3>2. PICK q \in DOMAIN queue[r] : /\ p <= q /\ queue[r][q].name = n
                                      /\ queue[r][q].version = fcps[n].version
      BY <1>1, <2>1, <2>4, <3>1
    <3> QED
      BY <2>1, <2>2, <2>4, <3>2
  <2> QED
    BY <2>3, <2>4
<1>4. CASE Ends(r)
  BY <1>4 DEF Ends
<1>5. CASE Begins(r)
  BY <1>5 DEF Begins, PcInv
<1>6. CASE Watches(r)
  <2>1. PICK s \in Snapshots : queue'[r] = queue[r] \o s
    BY <1>6 DEF Watches
  <2>2. /\ s \in Seq(Event)
        /\ \A q \in DOMAIN s : \E m \in DOMAIN fcps : s[q] = Snapshot(m)
        /\ \A m \in DOMAIN fcps : \E q \in DOMAIN s : s[q].name = m
    BY SnapshotsType
  <2>3. \A q \in DOMAIN s : s[q].name = n => s[q].version = fcps[n].version
    BY <2>2, SnapshotType
  <2>4. n \in DOMAIN fcps /\ fcps' = fcps
    BY <1>6 DEF Watches
  <2>5. /\ \A q \in DOMAIN s : /\ q + Len(queue[r]) \in DOMAIN queue'[r]
                                /\ queue'[r][q + Len(queue[r])] = s[q]
                                /\ \A o \in DOMAIN queue[r] : o < q + Len(queue[r])
        /\ \A o \in DOMAIN queue'[r] \ DOMAIN queue[r] :
              \E q \in DOMAIN s : o = q + Len(queue[r])
    <3>1. queue[r] \in Seq(Event) /\ s \in Seq(Event)
      BY <1>0, <2>2
    <3>2. /\ \A q \in DOMAIN s : /\ q + Len(queue[r]) \in DOMAIN (queue[r] \o s)
                                  /\ (queue[r] \o s)[q + Len(queue[r])] = s[q]
                                  /\ \A o \in DOMAIN queue[r] : o < q + Len(queue[r])
          /\ \A o \in DOMAIN (queue[r] \o s) \ DOMAIN queue[r] :
                \E q \in DOMAIN s : o = q + Len(queue[r])
      BY <3>1, Concatenated
    <3> QED
      BY <2>1, <3>2
  <2>6. CASE p \in DOMAIN queue[r]
    <3>1. PICK q \in DOMAIN s : s[q].name = n
      BY <2>2, <2>4
    <3>2. /\ q + Len(queue[r]) \in DOMAIN queue'[r] /\ p < q + Len(queue[r])
          /\ queue'[r][q + Len(queue[r])] = s[q]
      BY <2>5, <2>6
    <3>3. p <= q + Len(queue[r])
      BY <1>0, <2>2, <2>6, <3>2
    <3> QED
      BY <2>3, <2>4, <3>1, <3>2, <3>3
  <2>7. CASE p \notin DOMAIN queue[r]
    <3>1. PICK q \in DOMAIN s : p = q + Len(queue[r]) /\ queue'[r][p] = s[q]
      BY <2>5, <2>7
    <3>2. queue'[r][p].version = fcps'[n].version
      BY <2>3, <2>4, <3>1
    <3>3. q \in Int
      BY <2>2
    <3>4. p <= p
      BY <1>0, <3>1, <3>3
    <3> QED
      BY <3>2, <3>4
  <2> QED
    BY <2>6, <2>7
<1>7. CASE Proceeds(r)
  <2>1. watching[r] /\ n \in DOMAIN fcps /\ fcps' = fcps
    BY <1>7 DEF Proceeds
  <2>2. CASE queue'[r] = queue[r]
    BY <1>1, <2>1, <2>2
  <2>3. CASE queue[r] # <<>> /\ queue'[r] = Tail(queue[r])
    <3>1. /\ \A o \in DOMAIN queue'[r] : o + 1 \in DOMAIN queue[r] /\ queue'[r][o] = queue[r][o + 1]
          /\ \A o \in DOMAIN queue[r] : o \in Nat /\ (o = 1 \/ (o - 1 \in DOMAIN queue'[r]))
          /\ queue'[r] \in Seq(Event)
      BY <1>0, <2>3, Handled
    <3>2. PICK q \in DOMAIN queue[r] : /\ p + 1 <= q /\ queue[r][q].name = n
                                      /\ queue[r][q].version = fcps[n].version
      BY <1>1, <2>1, <3>1
    <3>3. DOMAIN queue'[r] = 1..Len(queue'[r]) /\ Len(queue'[r]) \in Nat
      BY <3>1
    <3>4. p \in Nat /\ p >= 1 /\ q \in Nat /\ q # 1 /\ p <= q - 1 /\ (q - 1) + 1 = q
      BY <1>0, <3>2, <3>3
    <3>5. q - 1 \in DOMAIN queue'[r] /\ queue'[r][q - 1] = queue[r][q]
      BY <3>1, <3>4
    <3> QED
      BY <2>1, <3>2, <3>4, <3>5
  <2> QED
    BY <1>7, <2>2, <2>3 DEF Proceeds
<1> QED
  BY <1>2, <1>3, <1>4, <1>5, <1>6, <1>7, ReplicaCases

-----------------------------------------------------------------------------
(***************************************************************************)
(* Matches, and how many RCPs there are.                                   *)
(***************************************************************************)

\* A step leaves an RCP as it is or gives it a revision that was never used.
LEMMA RCPRevision ==
  ASSUME TypeOK, PcInv, [Next]_vars
  PROVE  /\ revision' >= revision
         /\ \A i \in DOMAIN rcps' :
              \/ i \in DOMAIN rcps /\ rcps'[i] = rcps[i]
              \/ rcps'[i].revision = revision' /\ revision' = revision + 1
         /\ IsFiniteSet(DOMAIN rcps) => IsFiniteSet(DOMAIN rcps')
<1> USE DEF objects, stored
<1> DEFINE Kept == revision' = revision /\ rcps' = rcps
<1>0. revision \in Nat
  BY DEF TypeOK
<1>1. ASSUME NEW i \in Ids, NEW rcp \in RCP, PutRCP(i, rcp)
      PROVE  /\ revision' >= revision
             /\ \A j \in DOMAIN rcps' :
                  \/ j \in DOMAIN rcps /\ rcps'[j] = rcps[j]
                  \/ rcps'[j].revision = revision' /\ revision' = revision + 1
             /\ DOMAIN rcps' = DOMAIN rcps \cup {i}
  <2>1. /\ revision' = revision + 1 /\ DOMAIN rcps' = DOMAIN rcps \cup {i}
        /\ \A j \in DOMAIN rcps \ {i} : rcps'[j] = rcps[j]
        /\ rcps'[i].revision = revision + 1
    BY <1>1, PutRCPEffect
  <2> QED
    BY <1>0, <2>1
<1>2. ASSUME NEW i \in Ids, DOMAIN rcps' = DOMAIN rcps \cup {i}, IsFiniteSet(DOMAIN rcps)
      PROVE  IsFiniteSet(DOMAIN rcps')
  BY <1>2, FS_AddElement
<1>3. ASSUME NEW n \in Names, (\E uid : WriteFCP(n, uid)) \/ DeleteFCP(n)
      PROVE  Kept
  BY <1>3, WriteFCPEffect DEF DeleteFCP
<1>4. ASSUME NEW i \in Ids, WriteRCPByHand(i)
      PROVE  \E rcp \in RCP : PutRCP(i, rcp)
  <2>1. [from |-> NoName, owner |-> 0, version |-> 0, revision |-> 0] \in RCP
    BY DEF RCP
  <2> QED
    BY <1>4, <2>1 DEF WriteRCPByHand
<1>5. ASSUME NEW i \in Ids, CollectGarbage(i)
      PROVE  /\ revision' = revision /\ DOMAIN rcps' \subseteq DOMAIN rcps
             /\ \A j \in DOMAIN rcps' : rcps'[j] = rcps[j]
  BY <1>5 DEF CollectGarbage
<1>6. ASSUME NEW r \in Replicas,
             \/ StartReplica(r) \/ Watch(r) \/ LoseWatch(r) \/ List(r) \/ Die(r)
             \/ Drops(r) \/ \E m \in match[r] : Confirms(r, m)
      PROVE  Kept
  BY <1>6 DEF StartReplica, Watch, LoseWatch, List, Die, Drops, Confirms
<1>7. ASSUME NEW r \in Replicas, pc[r] = "write"
      PROVE  Head(queue[r]) \in Event
  <2>1. queue[r] # <<>> /\ queue[r] \in Seq(Event)
    BY <1>7 DEF PcInv, TypeOK
  <2> QED
    BY <2>1, Handled
<1>8. ASSUME NEW r \in Replicas, NEW m \in match[r], Rewrites(r, m)
      PROVE  \E i \in Ids : \E rcp \in RCP : PutRCP(i, rcp)
  <2>1. m.id \in Ids /\ m.owner \in Nat /\ Head(queue[r]) \in Event
    BY <1>7, <1>8 DEF Rewrites, TypeOK
  <2> QED
    BY <1>8, <2>1, NewRCPType DEF Rewrites
<1>9. ASSUME NEW r \in Replicas, NEW i \in Ids, Adds(r, i)
      PROVE  \E rcp \in RCP : PutRCP(i, rcp)
  BY <1>7, <1>9, NewRCPType DEF Adds
<1>10. UNCHANGED vars => Kept
  BY DEF vars
<1>11. CASE Kept
  BY <1>0, <1>11
<1>12. CASE \E i \in Ids : CollectGarbage(i)
  <2>1. /\ revision' = revision /\ DOMAIN rcps' \subseteq DOMAIN rcps
        /\ \A j \in DOMAIN rcps' : rcps'[j] = rcps[j]
    BY <1>5, <1>12
  <2>2. IsFiniteSet(DOMAIN rcps) => IsFiniteSet(DOMAIN rcps')
    BY <2>1, FS_Subset
  <2> QED
    BY <1>0, <2>1, <2>2
<1>13. CASE \E i \in Ids : \E rcp \in RCP : PutRCP(i, rcp)
  BY <1>1, <1>2, <1>13
<1> QED
  <2> HIDE DEF Kept
  <2> QED
    BY <1>3, <1>4, <1>6, <1>8, <1>9, <1>10, <1>11, <1>12, <1>13, Cases

\* There are finitely many FCPs.
LEMMA FiniteFCPs ==
  ASSUME TypeOK, PcInv, [Next]_vars, IsFiniteSet(DOMAIN fcps)
  PROVE  IsFiniteSet(DOMAIN fcps')
<1>1. ASSUME NEW n \in Names, DeleteFCP(n)
      PROVE  DOMAIN fcps' \subseteq DOMAIN fcps
  BY <1>1 DEF DeleteFCP
<1>2. ASSUME NEW n \in Names, NEW uid, WriteFCP(n, uid)
      PROVE  DOMAIN fcps' = DOMAIN fcps \cup {n}
  BY <1>2, WriteFCPEffect
<1> QED
  BY <1>1, <1>2, FCPCases, FS_AddElement, FS_Subset

\* While replica r is about to write, it writes for the same event.
LEMMA Writing ==
  ASSUME TypeOK, PcInv, IsFiniteSet(DOMAIN fcps), [Next]_vars,
         NEW r \in Replicas, pc'[r] = "write"
  PROVE  \/ pc[r] = "write" /\ match'[r] = match[r] /\ Head(queue'[r]) = Head(queue[r])
         \/ List(r) /\ queue'[r] = queue[r]
<1>1. /\ pc[r] = "write" => queue[r] # <<>>
      /\ queue[r] \in Seq(Event)
  BY DEF PcInv, TypeOK
<1>2. CASE Rests(r)
  BY <1>2 DEF Rests
<1>3. CASE Hears(r)
  <2>1. PICK n \in Names : /\ queue'[r] = Append(queue[r], Snapshot(n)')
                           /\ Snapshot(n)' \in Event
    BY <1>3, WriteFCPEffect DEF Hears
  <2>2. pc[r] = "write" /\ queue[r] # <<>> /\ match'[r] = match[r]
    BY <1>1, <1>3 DEF Hears
  <2>3. Head(Append(queue[r], Snapshot(n)')) = Head(queue[r])
    BY <1>1, <2>1, <2>2, HeadTailAppend
  <2> QED
    BY <2>1, <2>2, <2>3
<1>4. CASE Ends(r)
  BY <1>4 DEF Ends
<1>5. CASE Begins(r)
  BY <1>5 DEF Begins
<1>6. CASE Watches(r)
  <2>1. PICK s \in Snapshots : queue'[r] = queue[r] \o s
    BY <1>6 DEF Watches
  <2>2. pc[r] = "write" /\ queue[r] # <<>> /\ match'[r] = match[r]
    BY <1>1, <1>6 DEF Watches
  <2>3. s \in Seq(Event)
    BY SnapshotsType
  <2>4. Head(queue[r] \o s) = Head(queue[r])
    BY <1>1, <2>2, <2>3, Concatenated
  <2> QED
    BY <2>1, <2>2, <2>4
<1>7. CASE Proceeds(r)
  BY <1>7 DEF Proceeds
<1> QED
  BY <1>2, <1>3, <1>4, <1>5, <1>6, <1>7, ReplicaCases

\* A match is good for one update, as long as its RCP keeps its revision.
LEMMA MatchStep ==
  ASSUME TypeOK, PcInv, MatchInv, IsFiniteSet(DOMAIN fcps), [Next]_vars
  PROVE  MatchInv'
<1>0. /\ revision \in Nat /\ revision' \in Nat /\ revision' >= revision
      /\ \A i \in DOMAIN rcps' :
           \/ i \in DOMAIN rcps /\ rcps'[i] = rcps[i]
           \/ rcps'[i].revision = revision' /\ revision' = revision + 1
      /\ \A i \in DOMAIN rcps : rcps[i].revision \in Nat /\ rcps[i].revision <= revision
  <2>1. TypeOK'
    BY TypeStep
  <2>2. revision \in Nat /\ \A i \in DOMAIN rcps : rcps[i].revision \in Nat
    BY DEF TypeOK, RCP
  <2> QED
    BY <2>1, <2>2, RCPRevision DEF MatchInv, TypeOK
<1>1. ASSUME NEW i \in DOMAIN rcps'
      PROVE  rcps'[i].revision <= revision'
  BY <1>0
<1>2. ASSUME NEW r \in Replicas, NEW m \in match'[r]
      PROVE  /\ m.revision <= revision'
             /\ m.id \in DOMAIN rcps' /\ rcps'[m.id].revision = m.revision =>
                  rcps'[m.id].from = Head(queue'[r]).name /\ rcps'[m.id].owner = m.owner
  <2>1. pc'[r] = "write"
    BY <1>2, PcStep DEF PcInv
  <2>2. CASE m \in match[r] /\ Head(queue'[r]) = Head(queue[r])
    <3>1. m.revision \in Nat
      BY <2>2 DEF TypeOK
    <3>2. /\ m.revision <= revision
          /\ m.id \in DOMAIN rcps /\ rcps[m.id].revision = m.revision =>
               rcps[m.id].from = Head(queue[r]).name /\ rcps[m.id].owner = m.owner
      BY <2>2 DEF MatchInv
    <3> QED
      BY <1>0, <2>2, <3>1, <3>2
  <2>3. CASE List(r) /\ queue'[r] = queue[r]
    <3>1. /\ rcps' = rcps
          /\ match'[r] = {[id |-> i, owner |-> rcps[i].owner, revision |-> rcps[i].revision] :
                            i \in FirstOf(GeneratedFrom(Head(queue[r]).name))}
      BY <2>3 DEF List, objects, stored, TypeOK
    <3>2. PICK i \in FirstOf(GeneratedFrom(Head(queue[r]).name)) :
            m = [id |-> i, owner |-> rcps[i].owner, revision |-> rcps[i].revision]
      BY <1>2, <3>1
    <3>3. i \in DOMAIN rcps /\ rcps[i].from = Head(queue[r]).name
      BY <3>2 DEF FirstOf, GeneratedFrom
    <3> QED
      BY <1>0, <2>3, <3>1, <3>2, <3>3
  <2> QED
    BY <1>2, <2>1, <2>2, <2>3, Writing
<1> QED
  BY <1>1, <1>2 DEF MatchInv

\* Of the RCPs of a name, if there are any, one is the first in the list.
LEMMA FirstExists ==
  ASSUME TypeOK, NEW n, GeneratedFrom(n) # {}
  PROVE  \E i \in GeneratedFrom(n) : FirstOf(GeneratedFrom(n)) = {i}
<1>1. GeneratedFrom(n) \subseteq Nat
  BY IdAssumption DEF GeneratedFrom, TypeOK
<1>2. PICK i \in GeneratedFrom(n) : \A j \in GeneratedFrom(n) : i <= j
  BY <1>1, LeastElement
<1> QED
  BY <1>1, <1>2 DEF FirstOf

\* A replica that gets to add an RCP for a name has found none.
LEMMA CreatingCases ==
  ASSUME TypeOK, PcInv, IsFiniteSet(DOMAIN fcps), [Next]_vars,
         NEW n \in Names, NEW r \in Creating(n)'
  PROVE  \/ r \in Creating(n) /\ pc'[r] = "write"
         \/ List(r) /\ GeneratedFrom(n) = {} /\ GeneratedFrom(n)' = {}
<1>1. r \in Replicas /\ pc'[r] = "write" /\ match'[r] = {} /\ Head(queue'[r]).name = n
  BY DEF Creating
<1>2. CASE pc[r] = "write" /\ match'[r] = match[r] /\ Head(queue'[r]) = Head(queue[r])
  BY <1>1, <1>2 DEF Creating
<1>3. CASE List(r) /\ queue'[r] = queue[r]
  <2>1. /\ rcps' = rcps
        /\ match'[r] = {[id |-> i, owner |-> rcps[i].owner, revision |-> rcps[i].revision] :
                          i \in FirstOf(GeneratedFrom(Head(queue[r]).name))}
    BY <1>1, <1>3 DEF List, objects, stored, TypeOK
  <2>2. FirstOf(GeneratedFrom(n)) = {}
    BY <1>1, <1>3, <2>1
  <2>3. GeneratedFrom(n) = {}
    BY <2>2, FirstExists
  <2> QED
    BY <1>3, <2>1, <2>3 DEF GeneratedFrom
<1> QED
  BY <1>1, <1>2, <1>3, Writing

\* An RCP that there was not is added by a replica that was about to.
LEMMA GeneratedCases ==
  ASSUME TypeOK, PcInv, MatchInv, [Next]_vars,
         NEW n \in Names, NEW i \in GeneratedFrom(n)' \ GeneratedFrom(n)
  PROVE  \E r \in Creating(n) : pc'[r] = "idle" /\ GeneratedFrom(n)' \subseteq GeneratedFrom(n) \cup {i}
<1>1. i \in DOMAIN rcps' /\ rcps'[i].from = n /\ n # NoName
  BY NameAssumption DEF GeneratedFrom
<1>2. ~(i \in DOMAIN rcps /\ rcps[i].from = n)
  BY DEF GeneratedFrom
<1>3. PICK r \in Replicas : /\ pc[r] = "write" /\ queue[r] # <<>> /\ Head(queue[r]) \in Event
                            /\ rcps'[i].from = Head(queue[r]).name
                            /\ i \notin DOMAIN rcps /\ match[r] = {} /\ Adds(r, i)
  BY <1>1, <1>2, RCPOrigin
<1>4. r \in Creating(n)
  BY <1>1, <1>3 DEF Creating
<1>5. i \in Ids /\ PutRCP(i, NewRCP(Head(queue[r]))) /\ NewRCP(Head(queue[r])) \in RCP
  BY <1>3, NewRCPType DEF Adds
<1>6. /\ DOMAIN rcps' = DOMAIN rcps \cup {i}
      /\ \A j \in DOMAIN rcps \ {i} : rcps'[j] = rcps[j]
  BY <1>5, PutRCPEffect
<1>7. GeneratedFrom(n)' \subseteq GeneratedFrom(n) \cup {i}
  BY <1>6 DEF GeneratedFrom
<1>8. pc'[r] = "idle"
  BY <1>3, DoneEffect DEF Adds, Closes, Succeeds, Fails
<1> QED
  BY <1>4, <1>7, <1>8

\* The replicas that are about to add an RCP for a name, and the RCPs there
\* are, are no more than the replicas.
LEMMA CountStep ==
  ASSUME TypeOK, PcInv, MatchInv, CountInv, [Next]_vars
  PROVE  CountInv'
<1>1. IsFiniteSet(DOMAIN fcps) /\ IsFiniteSet(DOMAIN fcps') /\ IsFiniteSet(DOMAIN rcps')
  BY RCPRevision, FiniteFCPs DEF CountInv
<1>2. ASSUME NEW n \in Names
      PROVE  Cardinality(GeneratedFrom(n)') + Cardinality(Creating(n)') <= Cardinality(Replicas)
  <2> DEFINE G == GeneratedFrom(n)  C == Creating(n)
             H == GeneratedFrom(n)' D == Creating(n)'
  <2>1. /\ G \subseteq DOMAIN rcps /\ H \subseteq DOMAIN rcps'
        /\ C \subseteq Replicas /\ D \subseteq Replicas
    BY DEF GeneratedFrom, Creating
  <2>2. /\ Cardinality(G) + Cardinality(C) <= Cardinality(Replicas)
        /\ IsFiniteSet(DOMAIN rcps)
    BY DEF CountInv
  <2>3. \A r \in D : \/ r \in C /\ pc'[r] = "write"
                     \/ H = {}
    BY <1>1, CreatingCases
  <2>4. \A i \in H \ G : \E r \in C : pc'[r] = "idle" /\ H \subseteq G \cup {i}
    BY GeneratedCases
  <2> HIDE DEF G, C, H, D
  <2>5. /\ IsFiniteSet(G) /\ IsFiniteSet(H) /\ IsFiniteSet(C) /\ IsFiniteSet(D)
        /\ Cardinality(G) \in Nat /\ Cardinality(H) \in Nat
        /\ Cardinality(C) \in Nat /\ Cardinality(D) \in Nat
        /\ Cardinality(Replicas) \in Nat /\ Cardinality(D) <= Cardinality(Replicas)
    BY <1>1, <2>1, <2>2, FS_Subset, FS_CardinalityType, ReplicaAssumption
  <2>6. CASE H = {}
    <3>1. Cardinality(H) = 0
      BY <2>6, FS_EmptySet
    <3> QED
      BY <2>5, <3>1 DEF H, D
  <2>7. CASE H # {} /\ H \subseteq G
    <3>1. Cardinality(H) <= Cardinality(G) /\ Cardinality(D) <= Cardinality(C)
      BY <2>3, <2>5, <2>7, FS_Subset
    <3> QED
      BY <2>2, <2>5, <3>1 DEF H, D
  <2>8. ASSUME NEW i \in H \ G
        PROVE  Cardinality(H) + Cardinality(D) <= Cardinality(Replicas)
    <3>1. PICK r \in C : pc'[r] = "idle" /\ H \subseteq G \cup {i}
      BY <2>4
    <3>2. D \subseteq C \ {r}
      BY <2>3, <2>8, <3>1
    <3>3. Cardinality(G \cup {i}) = Cardinality(G) + 1 /\ IsFiniteSet(G \cup {i})
      BY <2>5, <2>8, FS_AddElement
    <3>4. Cardinality(C \ {r}) = Cardinality(C) - 1 /\ IsFiniteSet(C \ {r})
      BY <2>5, <3>1, FS_RemoveElement
    <3>5. Cardinality(H) <= Cardinality(G) + 1 /\ Cardinality(D) <= Cardinality(C) - 1
      BY <3>1, <3>2, <3>3, <3>4, FS_Subset
    <3> QED
      BY <2>2, <2>5, <3>5
  <2> QED
    BY <2>6, <2>7, <2>8 DEF H, D
<1> QED
  BY <1>1, <1>2 DEF CountInv

-----------------------------------------------------------------------------
(***************************************************************************)
(* The inductive invariant, and what follows from it.                      *)
(***************************************************************************)

\* TypeOK and GeneratorInv hold to begin with, and every step keeps them.
THEOREM GeneratorInductive == Spec => [](TypeOK /\ GeneratorInv)
<1>1. Init => TypeOK /\ GeneratorInv
  <2> SUFFICES ASSUME Init
               PROVE  TypeOK /\ GeneratorInv
    OBVIOUS
  <2> USE DEF Init
  <2>1. DOMAIN fcps = {} /\ DOMAIN rcps = {}
    OBVIOUS
  <2>2. TypeOK
    BY <2>1, BudgetAssumption DEF TypeOK
  <2>3. PcInv /\ MatchInv /\ OriginInv /\ TrackedInv
    BY <2>1 DEF PcInv, MatchInv, OriginInv, TrackedInv
  <2>4. CountInv
    <3>1. ASSUME NEW n \in Names
          PROVE  GeneratedFrom(n) = {} /\ Creating(n) = {}
      BY <2>1 DEF GeneratedFrom, Creating
    <3>2. IsFiniteSet({}) /\ Cardinality({}) = 0 /\ Cardinality(Replicas) \in Nat
      BY FS_EmptySet, FS_CardinalityType, ReplicaAssumption
    <3>3. ASSUME NEW n \in Names
          PROVE  Cardinality(GeneratedFrom(n)) + Cardinality(Creating(n)) <= Cardinality(Replicas)
      <4>1. Cardinality(GeneratedFrom(n)) = 0
        BY <3>1, <3>2, Zenon
      <4>2. Cardinality(Creating(n)) = 0
        BY <3>1, <3>2, Zenon
      <4> QED
        BY <3>2, <4>1, <4>2
    <3>4. IsFiniteSet(DOMAIN fcps) /\ IsFiniteSet(DOMAIN rcps)
      BY <2>1, <3>2
    <3> QED
      BY <3>3, <3>4 DEF CountInv
  <2> QED
    BY <2>2, <2>3, <2>4 DEF GeneratorInv
<1>2. TypeOK /\ GeneratorInv /\ [Next]_vars => (TypeOK /\ GeneratorInv)'
  BY TypeStep, PcStep, MatchStep, CountStep, OriginStep, TrackedStep DEF GeneratorInv, CountInv
<1> QED
  BY <1>1, <1>2, PTL DEF Spec

\* The variables keep their types.
THEOREM GeneratorTypes == Spec => []TypeOK
<1>1. TypeOK /\ GeneratorInv => TypeOK
  OBVIOUS
<1> QED
  BY <1>1, GeneratorInductive, PTL

\* However the replicas interleave, no FCP has more RCPs than there are
\* replicas: each adds at most one that it did not find.
THEOREM DuplicatesAreBounded == Spec => []BoundedDuplicates
<1>1. TypeOK /\ GeneratorInv => BoundedDuplicates
  <2> SUFFICES ASSUME TypeOK, GeneratorInv, NEW n \in Names
               PROVE  Cardinality(GeneratedFrom(n)) <= Cardinality(Replicas)
    BY DEF BoundedDuplicates
  <2>1. /\ Cardinality(GeneratedFrom(n)) + Cardinality(Creating(n)) <= Cardinality(Replicas)
        /\ IsFiniteSet(DOMAIN rcps)
    BY DEF GeneratorInv, CountInv
  <2>2. GeneratedFrom(n) \subseteq DOMAIN rcps /\ Creating(n) \subseteq Replicas
    BY DEF GeneratedFrom, Creating
  <2>3. IsFiniteSet(GeneratedFrom(n)) /\ IsFiniteSet(Creating(n))
    BY <2>1, <2>2, FS_Subset, ReplicaAssumption
  <2>4. /\ Cardinality(GeneratedFrom(n)) \in Nat /\ Cardinality(Creating(n)) \in Nat
        /\ Cardinality(Replicas) \in Nat
    BY <2>3, FS_CardinalityType, ReplicaAssumption
  <2> QED
    BY <2>1, <2>4
<1> QED
  BY <1>1, GeneratorInductive, PTL

\* When a replica writes an older version over a newer one, of an FCP that is
\* still there, the newer one is before it still.
THEOREM RollbacksAreTransient == Spec => RollbackIsTransient
<1> DEFINE Step ==
      \A i \in DOMAIN rcps \cap DOMAIN rcps' :
        rcps'[i].version < rcps[i].version /\ ~Garbage(i)' =>
          \E r \in Replicas :
            /\ pc[r] = "write" /\ pc'[r] = "idle"
            /\ \/ ~watching[r]
               \/ \E k \in DOMAIN queue'[r] :
                    /\ queue'[r][k].name = rcps[i].from
                    /\ queue'[r][k].version >= rcps[i].version
<1>1. TypeOK /\ GeneratorInv /\ [Next]_vars => Step
  <2> SUFFICES ASSUME TypeOK, GeneratorInv, [Next]_vars,
                      NEW i \in DOMAIN rcps \cap DOMAIN rcps',
                      rcps'[i].version < rcps[i].version, ~Garbage(i)'
               PROVE  \E r \in Replicas :
                        /\ pc[r] = "write" /\ pc'[r] = "idle"
                        /\ \/ ~watching[r]
                           \/ \E k \in DOMAIN queue'[r] :
                                /\ queue'[r][k].name = rcps[i].from
                                /\ queue'[r][k].version >= rcps[i].version
    OBVIOUS
  <2>0. PcInv /\ MatchInv /\ OriginInv /\ TrackedInv
    BY DEF GeneratorInv
  <2>1. rcps[i].version \in Nat /\ rcps[i] \in RCP
    BY DEF TypeOK, RCP
  <2>2. PICK r \in Replicas :
          /\ pc[r] = "write" /\ queue[r] # <<>> /\ Head(queue[r]) \in Event
          /\ rcps'[i].from = Head(queue[r]).name /\ rcps'[i].version = Head(queue[r]).version
          /\ \E m \in match[r] : Rewrites(r, m)
          /\ rcps'[i].from = rcps[i].from /\ rcps'[i].owner = rcps[i].owner
    BY <2>0, <2>1, RCPOrigin
  <2>3. /\ pc'[r] = "idle" /\ queue'[r] = Tail(queue[r]) /\ fcps' = fcps
        /\ queue[r] \in Seq(Event)
    <3>1. Done(r) /\ fcps' = fcps
      BY <2>2 DEF Rewrites, Closes, Succeeds, Fails
    <3> QED
      BY <2>0, <2>2, <3>1, DoneEffect DEF TypeOK
  <2>4. /\ Known(rcps[i].from, rcps[i].owner, rcps[i].version)
        /\ rcps[i].from \in Names
    BY <2>0, <2>2, NameAssumption DEF OriginInv, Event
  <2>5. rcps[i].owner # 0
    BY <2>4 DEF Known, TypeOK
  <2>6. PICK n \in DOMAIN fcps : fcps[n].uid = rcps[i].owner
    BY <2>2, <2>3, <2>5 DEF Garbage
  <2>7. n = rcps[i].from /\ rcps[i].version <= fcps[n].version
    BY <2>4, <2>6 DEF Known
  <2>8. ASSUME watching[r]
        PROVE  \E k \in DOMAIN queue'[r] :
                 /\ queue'[r][k].name = rcps[i].from
                 /\ queue'[r][k].version >= rcps[i].version
    <3>1. /\ Head(queue[r]) = queue[r][1] /\ 1 \in DOMAIN queue[r]
          /\ \A p \in DOMAIN Tail(queue[r]) : Tail(queue[r])[p] = queue[r][p + 1]
          /\ \A p \in DOMAIN queue[r] : p \in Nat /\ (p = 1 \/ (p - 1 \in DOMAIN Tail(queue[r])))
      BY <2>2, <2>3, Handled
    <3>2. PICK q \in DOMAIN queue[r] : /\ queue[r][q].name = n
                                      /\ queue[r][q].version = fcps[n].version
      BY <2>0, <2>2, <2>7, <2>8, <3>1 DEF TrackedInv
    <3>3. fcps[n].version \in Nat /\ rcps'[i].version \in Nat
      BY <2>2 DEF TypeOK, FCP, Event
    <3>4. q # 1
      BY <2>1, <2>2, <2>7, <3>1, <3>2, <3>3
    <3>5. q - 1 \in DOMAIN Tail(queue[r]) /\ Tail(queue[r])[q - 1] = queue[r][q]
      <4>1. q \in Nat /\ q - 1 \in DOMAIN Tail(queue[r]) /\ (q - 1) + 1 = q
        BY <3>1, <3>4
      <4> QED
        BY <3>1, <4>1
    <3> QED
      BY <2>1, <2>3, <2>7, <3>2, <3>3, <3>5
  <2> QED
    BY <2>2, <2>3, <2>8
<1> QED
  BY <1>1, GeneratorInductive, PTL DEF Spec, RollbackIsTransient

-----------------------------------------------------------------------------
(***************************************************************************)
(* A controller that runs alone, while no FCP is deleted.                  *)
(***************************************************************************)

\* The Deployment has one replica, and users delete no FCP.
Alone(r) == Replicas = {r} /\ Budget["delete"] = 0

\* The queue of a replica is kept, emptied, shortened at its head, or followed
\* by events of FCPs as they are.
LEMMA QueueCases ==
  ASSUME TypeOK, PcInv, IsFiniteSet(DOMAIN fcps), [Next]_vars, NEW r \in Replicas
  PROVE  \/ queue'[r] = queue[r]
         \/ queue[r] # <<>> /\ queue'[r] = Tail(queue[r])
         \/ queue'[r] = <<>>
         \/ \E t \in Seq(Event) :
              /\ queue'[r] = queue[r] \o t
              /\ \A j \in DOMAIN t : \E n \in DOMAIN fcps' : t[j] = Snapshot(n)'
<1>0. queue[r] \in Seq(Event)
  BY DEF TypeOK
<1>1. CASE Rests(r)
  BY <1>1 DEF Rests
<1>2. CASE Hears(r)
  <2>1. PICK n \in Names :
          /\ queue'[r] = Append(queue[r], Snapshot(n)')
          /\ Snapshot(n)' \in Event /\ n \in DOMAIN fcps'
    BY <1>2, WriteFCPEffect DEF Hears
  <2>2. Append(queue[r], Snapshot(n)') = queue[r] \o <<Snapshot(n)'>>
    BY <1>0, <2>1
  <2>3. <<Snapshot(n)'>> \in Seq(Event)
    BY <2>1
  <2>4. \A j \in DOMAIN <<Snapshot(n)'>> : <<Snapshot(n)'>>[j] = Snapshot(n)'
    OBVIOUS
  <2> QED
    BY <2>1, <2>2, <2>3, <2>4
<1>3. CASE Ends(r)
  BY <1>3 DEF Ends
<1>4. ASSUME fcps' = fcps, NEW s \in Snapshots
      PROVE  /\ s \in Seq(Event)
             /\ \A j \in DOMAIN s : \E n \in DOMAIN fcps' : s[j] = Snapshot(n)'
  <2>1. \A n \in DOMAIN fcps : n \in DOMAIN fcps' /\ Snapshot(n)' = Snapshot(n)
    BY <1>4 DEF Snapshot
  <2> QED
    BY <2>1, SnapshotsType
<1>5. CASE Begins(r)
  <2>1. queue[r] = <<>> /\ queue'[r] \in Snapshots /\ fcps' = fcps
    BY <1>5 DEF Begins, PcInv
  <2>2. queue'[r] \in Seq(Event)
    BY <1>4, <2>1
  <2>3. queue'[r] = queue[r] \o queue'[r]
    BY <2>1, <2>2
  <2> QED
    BY <1>4, <2>1, <2>2, <2>3
<1>6. CASE Watches(r)
  BY <1>4, <1>6 DEF Watches
<1>7. CASE Proceeds(r)
  BY <1>7 DEF Proceeds
<1> QED
  BY <1>1, <1>2, <1>3, <1>5, <1>6, <1>7, ReplicaCases

\* Two events in their order were in that order before, or the later one is of
\* an FCP as it is now.
LEMMA EventPairs ==
  ASSUME TypeOK, PcInv, IsFiniteSet(DOMAIN fcps), [Next]_vars, NEW r \in Replicas,
         NEW p \in DOMAIN queue'[r], NEW q \in DOMAIN queue'[r], p <= q
  PROVE  \/ \E n \in DOMAIN fcps' : queue'[r][q] = Snapshot(n)'
         \/ \E a, b \in DOMAIN queue[r] :
              a <= b /\ queue'[r][p] = queue[r][a] /\ queue'[r][q] = queue[r][b]
<1>0. /\ queue[r] \in Seq(Event) /\ queue'[r] \in Seq(Event)
      /\ DOMAIN queue[r] = 1..Len(queue[r]) /\ Len(queue[r]) \in Nat
      /\ DOMAIN queue'[r] = 1..Len(queue'[r]) /\ Len(queue'[r]) \in Nat
  BY TypeStep DEF TypeOK
<1>1. CASE queue'[r] = queue[r]
  BY <1>1
<1>2. CASE queue[r] # <<>> /\ queue'[r] = Tail(queue[r])
  <2>1. \A o \in DOMAIN queue'[r] : o + 1 \in DOMAIN queue[r] /\ queue'[r][o] = queue[r][o + 1]
    <3>1. queue[r] \in Seq(Event) /\ queue[r] # <<>>
      BY <1>0, <1>2
    <3>2. \A o \in DOMAIN Tail(queue[r]) :
            o + 1 \in DOMAIN queue[r] /\ Tail(queue[r])[o] = queue[r][o + 1]
      BY <3>1, Handled
    <3> QED
      BY <1>2, <3>2
  <2>2. p + 1 <= q + 1
    BY <1>0
  <2> QED
    BY <2>1, <2>2
<1>3. CASE queue'[r] = <<>>
  BY <1>3
<1>4. ASSUME NEW t \in Seq(Event), queue'[r] = queue[r] \o t,
             \A j \in DOMAIN t : \E n \in DOMAIN fcps' : t[j] = Snapshot(n)'
      PROVE  \/ \E n \in DOMAIN fcps' : queue'[r][q] = Snapshot(n)'
             \/ \E a, b \in DOMAIN queue[r] :
                  a <= b /\ queue'[r][p] = queue[r][a] /\ queue'[r][q] = queue[r][b]
  <2>1. queue[r] \in Seq(Event)
    BY <1>0
  <2>2. /\ \A o \in DOMAIN queue[r] : (queue[r] \o t)[o] = queue[r][o]
        /\ \A o \in DOMAIN t : (queue[r] \o t)[o + Len(queue[r])] = t[o]
        /\ \A o \in DOMAIN (queue[r] \o t) \ DOMAIN queue[r] :
              \E j \in DOMAIN t : o = j + Len(queue[r])
    BY <2>1, Concatenated
  <2>3. CASE q \in DOMAIN queue[r]
    <3>1. p \in DOMAIN queue[r]
      BY <1>0, <2>3
    <3> QED
      BY <1>4, <2>2, <2>3, <3>1
  <2>4. CASE q \notin DOMAIN queue[r]
    BY <1>4, <2>2, <2>4
  <2> QED
    BY <2>3, <2>4
<1> QED
  BY <1>1, <1>2, <1>3, <1>4, QueueCases

\* FCPs that are there stay, with their UIDs.
LEMMA FCPsStay ==
  ASSUME TypeOK, PcInv, BudgetInv, [Next]_vars, NEW n \in DOMAIN fcps
  PROVE  n \in DOMAIN fcps' /\ fcps'[n].uid = fcps[n].uid
<1>1. ASSUME NEW m \in Names, DeleteFCP(m)
      PROVE  FALSE
  BY <1>1 DEF DeleteFCP, Spend, BudgetInv
<1>2. ASSUME NEW m \in Names, NEW uid, WriteFCP(m, uid)
      PROVE  n \in DOMAIN fcps' /\ fcps'[n].uid = fcps[n].uid
  <2>1. /\ DOMAIN fcps' = DOMAIN fcps \cup {m} /\ fcps'[m].uid = uid
        /\ \A o \in DOMAIN fcps \ {m} : fcps'[o] = fcps[o]
    BY <1>2, WriteFCPEffect
  <2>2. m \in DOMAIN fcps => uid = fcps[m].uid
    BY <1>2 DEF WriteFCP
  <2> QED
    BY <2>1, <2>2
<1> QED
  BY <1>1, <1>2, FCPCases

\* The events of an FCP stay in order, and none is older than its RCP.
LEMMA OrderStep ==
  ASSUME NEW r, Alone(r), TypeOK, GeneratorInv, AloneInv, [Next]_vars
  PROVE  OrderInv'
<1>0. /\ r \in Replicas /\ \A o \in Replicas : o = r
      /\ PcInv /\ MatchInv /\ IsFiniteSet(DOMAIN fcps)
      /\ OrderInv /\ BelongInv /\ BudgetInv /\ queue[r] \in Seq(Event)
  BY DEF Alone, GeneratorInv, CountInv, AloneInv, TypeOK
<1>1. /\ TypeOK' /\ OriginInv' /\ \A p \in DOMAIN queue'[r] : queue'[r][p] \in Event
  <2>1. TypeOK' /\ OriginInv'
    BY <1>0, TypeStep, OriginStep DEF GeneratorInv
  <2> QED
    BY <1>0, <2>1 DEF TypeOK
<1>2. ASSUME NEW n \in DOMAIN fcps'
      PROVE  Snapshot(n)'.name = n /\ Snapshot(n)'.version = fcps'[n].version
  BY DEF Snapshot
<1>3. ASSUME NEW p \in DOMAIN queue'[r], NEW q \in DOMAIN queue'[r], p <= q,
             queue'[r][p].name = queue'[r][q].name
      PROVE  queue'[r][p].version <= queue'[r][q].version
  <2>1. ASSUME NEW n \in DOMAIN fcps', queue'[r][q] = Snapshot(n)'
        PROVE  queue'[r][p].version <= queue'[r][q].version
    <3>1. queue'[r][p].name = n /\ queue'[r][q].version = fcps'[n].version
      BY <1>2, <1>3, <2>1
    <3>2. Known(queue[r][p].name, queue[r][p].uid, queue[r][p].version)'
      BY <1>0, <1>1, <1>3 DEF OriginInv
    <3> QED
      BY <3>1, <3>2, <2>1 DEF Known
  <2>2. ASSUME NEW a \in DOMAIN queue[r], NEW b \in DOMAIN queue[r],
               a <= b, queue'[r][p] = queue[r][a], queue'[r][q] = queue[r][b]
        PROVE  queue'[r][p].version <= queue'[r][q].version
    BY <1>0, <1>3, <2>2 DEF OrderInv
  <2> QED
    BY <1>0, <1>3, <2>1, <2>2, EventPairs
<1>4. ASSUME NEW p \in DOMAIN queue'[r],
             NEW i \in GeneratedFrom(queue[r][p].name)'
      PROVE  rcps'[i].version <= queue'[r][p].version
  <2>1. i \in DOMAIN rcps' /\ rcps'[i].from = queue'[r][p].name /\ rcps'[i].from # NoName
    BY <1>1, NameAssumption DEF GeneratedFrom, Event
  <2>2. ASSUME NEW n \in DOMAIN fcps', queue'[r][p] = Snapshot(n)'
        PROVE  rcps'[i].version <= queue'[r][p].version
    <3>1. Known(rcps[i].from, rcps[i].owner, rcps[i].version)'
      BY <1>1, <2>1 DEF OriginInv
    <3> QED
      BY <1>2, <2>1, <2>2, <3>1 DEF Known
  <2>3. ASSUME NEW b \in DOMAIN queue[r], queue'[r][p] = queue[r][b]
        PROVE  rcps'[i].version <= queue'[r][p].version
    <3>1. CASE i \in DOMAIN rcps /\ rcps'[i] = rcps[i]
      <4>1. i \in GeneratedFrom(queue[r][b].name)
        BY <2>1, <2>3, <3>1 DEF GeneratedFrom
      <4> QED
        BY <1>0, <2>3, <3>1, <4>1 DEF OrderInv
    <3>2. CASE \E o \in Replicas : /\ queue[o] # <<>>
                                   /\ rcps'[i].from = Head(queue[o]).name
                                   /\ rcps'[i].version = Head(queue[o]).version
      <4>1. /\ queue[r] # <<>> /\ rcps'[i].from = Head(queue[r]).name
            /\ rcps'[i].version = Head(queue[r]).version
        BY <1>0, <3>2
      <4>2. 1 \in DOMAIN queue[r] /\ Head(queue[r]) = queue[r][1]
        BY <1>0, <4>1, Handled
      <4>3. 1 <= b
        BY <1>0, <2>3
      <4> QED
        BY <1>0, <2>1, <2>3, <4>1, <4>2, <4>3 DEF OrderInv
    <3> QED
      BY <1>0, <2>1, <3>1, <3>2, RCPOrigin
  <2> QED
    BY <1>0, <2>2, <2>3, EventOrigin
<1> QED
  BY <1>0, <1>3, <1>4 DEF OrderInv

\* Every event, and every RCP but those written by hand, belongs to an FCP.
LEMMA BelongStep ==
  ASSUME NEW r, Alone(r), TypeOK, GeneratorInv, AloneInv, [Next]_vars
  PROVE  BelongInv'
<1>0. /\ PcInv /\ MatchInv /\ IsFiniteSet(DOMAIN fcps)
      /\ BelongInv /\ BudgetInv
      /\ \A n \in DOMAIN fcps : n \in DOMAIN fcps' /\ fcps'[n].uid = fcps[n].uid
  BY FCPsStay DEF GeneratorInv, CountInv, AloneInv
<1>1. ASSUME NEW o \in Replicas, NEW p \in DOMAIN queue'[o]
      PROVE  /\ queue'[o][p].name \in DOMAIN fcps'
             /\ queue'[o][p].uid = fcps'[queue'[o][p].name].uid
  <2>1. CASE \E q \in DOMAIN queue[o] : queue'[o][p] = queue[o][q]
    BY <1>0, <2>1 DEF BelongInv
  <2>2. CASE \E n \in DOMAIN fcps' : queue'[o][p] = Snapshot(n)'
    BY <2>2 DEF Snapshot
  <2> QED
    BY <1>0, <2>1, <2>2, EventOrigin
<1>2. ASSUME NEW i \in DOMAIN rcps', rcps'[i].from # NoName
      PROVE  rcps'[i].from \in DOMAIN fcps' /\ rcps'[i].owner = fcps'[rcps'[i].from].uid
  <2>1. CASE /\ i \in DOMAIN rcps
             /\ rcps'[i].from = rcps[i].from /\ rcps'[i].owner = rcps[i].owner
    BY <1>0, <1>2, <2>1 DEF BelongInv
  <2>2. ASSUME NEW o \in Replicas, queue[o] # <<>>,
               rcps'[i].from = Head(queue[o]).name, rcps'[i].owner = Head(queue[o]).uid
        PROVE  rcps'[i].from \in DOMAIN fcps' /\ rcps'[i].owner = fcps'[rcps'[i].from].uid
    <3>1. 1 \in DOMAIN queue[o] /\ Head(queue[o]) = queue[o][1]
      BY <2>2, Handled DEF TypeOK
    <3> QED
      BY <1>0, <2>2, <3>1 DEF BelongInv
  <2> QED
    BY <1>0, <1>2, <2>1, <2>2, RCPOrigin
<1>3. ASSUME NEW i \in GeneratedFrom(NoName)'
      PROVE  rcps'[i].owner = 0
  <2>1. i \in DOMAIN rcps' /\ rcps'[i].from = NoName
    BY DEF GeneratedFrom
  <2>2. ASSUME NEW o \in Replicas, Head(queue[o]) \in Event, rcps'[i].from = Head(queue[o]).name
        PROVE  FALSE
    BY <2>1, <2>2, NameAssumption DEF Event
  <2>3. CASE i \in DOMAIN rcps /\ rcps'[i] = rcps[i]
    BY <1>0, <2>1, <2>3 DEF BelongInv, GeneratedFrom
  <2> QED
    BY <1>0, <2>1, <2>2, <2>3, RCPOrigin
<1> QED
  BY <1>1, <1>2, <1>3 DEF BelongInv

\* Every version has its edit in the budget.
LEMMA BudgetStep ==
  ASSUME TypeOK, GeneratorInv, BudgetInv, [Next]_vars
  PROVE  BudgetInv'
<1>0. /\ PcInv /\ budget["delete"] = 0 /\ version + budget["edit"] = Budget["edit"]
      /\ version \in Nat /\ budget \in [Kinds -> Nat]
      /\ \A kind \in {"edit", "delete", "handmade", "failure", "start", "stop", "disconnect"} :
           kind \in Kinds
  BY DEF GeneratorInv, BudgetInv, TypeOK, Kinds
<1>1. ASSUME NEW n \in Names, NEW uid, WriteFCP(n, uid)
      PROVE  BudgetInv'
  <2>1. version' = version + 1
    BY <1>1, WriteFCPEffect
  <2>2. /\ budget' \in [Kinds -> Nat] /\ budget'["edit"] = budget["edit"] - 1
        /\ \A other \in Kinds \ {"edit"} : budget'[other] = budget[other]
    BY <1>0, <1>1, SpendType DEF WriteFCP
  <2>3. budget'["delete"] = budget["delete"] /\ budget["edit"] \in Nat
    BY <1>0, <2>2
  <2> QED
    BY <1>0, <2>1, <2>2, <2>3 DEF BudgetInv
<1>2. ASSUME version' = version,
             \/ budget' = budget
             \/ \E kind \in Kinds \ {"edit", "delete"} : Spend(kind)
      PROVE  BudgetInv'
  <2>1. budget'["edit"] = budget["edit"] /\ budget'["delete"] = budget["delete"]
    BY <1>0, <1>2, SpendType
  <2> QED
    BY <1>0, <1>2, <2>1 DEF BudgetInv
<1>3. ASSUME NEW n \in Names, DeleteFCP(n)
      PROVE  FALSE
  BY <1>0, <1>3 DEF DeleteFCP, Spend
<1> USE DEF objects, stored
<1>4. ASSUME NEW i \in Ids, WriteRCPByHand(i) \/ CollectGarbage(i)
      PROVE  BudgetInv'
  BY <1>0, <1>2, <1>4 DEF WriteRCPByHand, CollectGarbage
<1>5. ASSUME NEW r \in Replicas,
             \/ StartReplica(r) \/ Watch(r) \/ LoseWatch(r) \/ List(r)
             \/ Die(r) /\ (budget' = budget \/ Spend("stop"))
             \/ \E m \in match[r] : Rewrites(r, m) \/ Confirms(r, m)
             \/ \E i \in Ids : Adds(r, i)
             \/ Drops(r)
      PROVE  BudgetInv'
  BY <1>0, <1>2, <1>5
     DEF StartReplica, Watch, LoseWatch, List, Die, Rewrites, Confirms, Adds, Closes, Drops
<1>6. CASE UNCHANGED vars
  BY <1>2, <1>6 DEF vars
<1> QED
  BY <1>0, <1>1, <1>3, <1>4, <1>5, <1>6, Cases

\* Replica r has RCP i say what its next event says, whether it knows or not.
Converts(r, i) ==
  /\ pc[r] # "down" /\ queue[r] # <<>> /\ Head(queue[r]) \in Event
  /\ Head(queue[r]).name \in DOMAIN fcps
  /\ DOMAIN rcps' = DOMAIN rcps \cup {i}
  /\ rcps'[i].from = Head(queue[r]).name
  /\ rcps'[i].owner = fcps[Head(queue[r]).name].uid
  /\ rcps'[i].version = Head(queue[r]).version
  /\ i \in DOMAIN rcps => rcps[i].from = Head(queue[r]).name
  /\ \A j \in DOMAIN rcps \ {i} : rcps'[j] = rcps[j]
  /\ Done(r)
  /\ dropped' \in {dropped \ {Head(queue[r]).name}, dropped \cup {Head(queue[r]).name}}
  /\ UNCHANGED fcps

\* Replica r starts, dies, lists the RCPs, or begins or loses its watch.
Moves(r) ==
  /\ UNCHANGED objects
  /\ \/ ~watching'[r]
     \/ watching[r] /\ queue'[r] = queue[r]
     \/ \A n \in DOMAIN fcps : \E p \in DOMAIN queue'[r] : queue'[r][p].name = n

\* A write that is carried out converts the FCP of the event.
LEMMA Conversions ==
  ASSUME NEW r, Alone(r), TypeOK, GeneratorInv, AloneInv,
         \/ \E m \in match[r] : Rewrites(r, m) \/ Confirms(r, m)
         \/ \E i \in Ids : Adds(r, i)
  PROVE  \E i : Converts(r, i)
<1>0. /\ r \in Replicas /\ pc[r] = "write" /\ queue[r] # <<>> /\ queue[r] \in Seq(Event)
  BY DEF Alone, GeneratorInv, PcInv, TypeOK, Rewrites, Confirms, Adds
<1>1. /\ Head(queue[r]) \in Event /\ Head(queue[r]) = queue[r][1] /\ 1 \in DOMAIN queue[r]
  BY <1>0, Handled
<1>2. /\ Head(queue[r]).name \in DOMAIN fcps /\ Head(queue[r]).name # NoName
      /\ Head(queue[r]).uid = fcps[Head(queue[r]).name].uid
  BY <1>0, <1>1, NameAssumption DEF AloneInv, BelongInv, Event
<1>3. ASSUME NEW m \in match[r], m.id \in DOMAIN rcps, rcps[m.id].revision = m.revision
      PROVE  /\ rcps[m.id].from = Head(queue[r]).name /\ rcps[m.id].owner = m.owner
             /\ rcps[m.id].owner = fcps[Head(queue[r]).name].uid
             /\ m.id \in Ids /\ m.owner \in Nat
  <2>1. rcps[m.id].from = Head(queue[r]).name /\ rcps[m.id].owner = m.owner
    BY <1>0, <1>3 DEF GeneratorInv, MatchInv
  <2> QED
    BY <1>0, <1>2, <1>3, <2>1 DEF AloneInv, BelongInv, TypeOK
<1>4. ASSUME NEW m \in match[r], Rewrites(r, m)
      PROVE  Converts(r, m.id)
  <2>1. /\ m.id \in DOMAIN rcps /\ rcps[m.id].revision = m.revision
        /\ PutRCP(m.id, [NewRCP(Head(queue[r])) EXCEPT !.owner = m.owner])
        /\ Closes(r) /\ fcps' = fcps
    BY <1>4 DEF Rewrites
  <2>2. /\ rcps[m.id].from = Head(queue[r]).name /\ rcps[m.id].owner = m.owner
        /\ rcps[m.id].owner = fcps[Head(queue[r]).name].uid
        /\ m.id \in Ids /\ m.owner \in Nat
    BY <1>3, <2>1
  <2> DEFINE new == [NewRCP(Head(queue[r])) EXCEPT !.owner = m.owner]
  <2>3. /\ new \in RCP /\ new.from = Head(queue[r]).name /\ new.owner = m.owner
        /\ new.version = Head(queue[r]).version
    BY <1>1, <2>2, NewRCPType
  <2> HIDE DEF new
  <2>4. /\ DOMAIN rcps' = DOMAIN rcps \cup {m.id}
        /\ \A j \in DOMAIN rcps \ {m.id} : rcps'[j] = rcps[j]
        /\ rcps'[m.id].from = new.from /\ rcps'[m.id].owner = new.owner
        /\ rcps'[m.id].version = new.version
    BY <2>1, <2>2, <2>3, PutRCPEffect DEF new
  <2> QED
    BY <1>0, <1>1, <1>2, <2>1, <2>2, <2>3, <2>4 DEF Converts, Closes, Succeeds, Fails
<1>5. ASSUME NEW m \in match[r], Confirms(r, m)
      PROVE  Converts(r, m.id)
  <2>1. /\ m.id \in DOMAIN rcps /\ rcps[m.id].revision = m.revision
        /\ rcps[m.id].version = Head(queue[r]).version
        /\ Succeeds(r) /\ fcps' = fcps /\ rcps' = rcps
    BY <1>5 DEF Confirms, stored
  <2>2. /\ rcps[m.id].from = Head(queue[r]).name
        /\ rcps[m.id].owner = fcps[Head(queue[r]).name].uid
    BY <1>3, <2>1
  <2> QED
    BY <1>0, <1>1, <1>2, <2>1, <2>2 DEF Converts, Succeeds
<1>6. ASSUME NEW i \in Ids, Adds(r, i)
      PROVE  Converts(r, i)
  <2>1. /\ PutRCP(i, NewRCP(Head(queue[r]))) /\ i \notin DOMAIN rcps
        /\ Closes(r) /\ fcps' = fcps
    BY <1>6 DEF Adds
  <2>2. /\ DOMAIN rcps' = DOMAIN rcps \cup {i}
        /\ \A j \in DOMAIN rcps \ {i} : rcps'[j] = rcps[j]
        /\ rcps'[i].from = Head(queue[r]).name /\ rcps'[i].owner = Head(queue[r]).uid
        /\ rcps'[i].version = Head(queue[r]).version
    BY <1>1, <2>1, NewRCPType, PutRCPEffect
  <2> QED
    BY <1>0, <1>1, <1>2, <2>1, <2>2 DEF Converts, Closes, Succeeds, Fails
<1> QED
  BY <1>4, <1>5, <1>6

\* What happens to a controller that runs alone.
LEMMA AloneCases ==
  ASSUME NEW r, Alone(r), TypeOK, GeneratorInv, AloneInv, [Next]_vars
  PROVE  \/ \E n \in Names : \E uid : WriteFCP(n, uid)
         \/ \E i \in Ids : WriteRCPByHand(i)
         \/ \E i : Converts(r, i)
         \/ Drops(r)
         \/ Moves(r)
<1>0. /\ r \in Replicas /\ \A o \in Replicas : o = r
      /\ PcInv /\ IsFiniteSet(DOMAIN fcps) /\ BelongInv /\ BudgetInv
      /\ queue[r] \in Seq(Event) /\ watching[r] \in BOOLEAN
  BY DEF Alone, GeneratorInv, CountInv, AloneInv, TypeOK
<1>1. ASSUME NEW n \in Names, DeleteFCP(n)
      PROVE  FALSE
  BY <1>0, <1>1 DEF DeleteFCP, Spend, BudgetInv
<1>2. ASSUME NEW i \in Ids, CollectGarbage(i)
      PROVE  FALSE
  BY <1>0, <1>2 DEF CollectGarbage, Garbage, BelongInv, GeneratedFrom
<1>3. ASSUME StartReplica(r)
      PROVE  Moves(r)
  BY <1>0, <1>3 DEF StartReplica, Moves, PcInv
<1>4. ASSUME Watch(r)
      PROVE  Moves(r)
  <2>1. PICK s \in Snapshots : queue'[r] = queue[r] \o s
    BY <1>0, <1>4 DEF Watch, TypeOK
  <2>2. s \in Seq(Event) /\ \A n \in DOMAIN fcps : \E p \in DOMAIN s : s[p].name = n
    BY <1>0, SnapshotsType
  <2>3. \A p \in DOMAIN s : /\ p + Len(queue[r]) \in DOMAIN (queue[r] \o s)
                            /\ (queue[r] \o s)[p + Len(queue[r])] = s[p]
    BY <1>0, <2>2, Concatenated
  <2>4. \A n \in DOMAIN fcps : \E p \in DOMAIN queue'[r] : queue'[r][p].name = n
    BY <2>1, <2>2, <2>3
  <2> QED
    BY <1>4, <2>4 DEF Watch, Moves
<1>5. ASSUME LoseWatch(r)
      PROVE  Moves(r)
  BY <1>0, <1>5 DEF LoseWatch, Moves, TypeOK
<1>6. ASSUME List(r)
      PROVE  Moves(r)
  <2>1. UNCHANGED objects /\ watching' = watching /\ queue' = queue
    BY <1>6 DEF List
  <2>2. CASE watching[r]
    BY <2>1, <2>2 DEF Moves
  <2>3. CASE ~watching[r]
    BY <2>1, <2>3 DEF Moves
  <2> QED
    BY <2>2, <2>3
<1>7. ASSUME Die(r)
      PROVE  Moves(r)
  BY <1>0, <1>7 DEF Die, Moves, TypeOK
<1>8. CASE UNCHANGED vars
  <2>1. UNCHANGED objects /\ watching' = watching /\ queue' = queue
    BY <1>8 DEF vars, replicas
  <2>2. CASE watching[r]
    BY <2>1, <2>2 DEF Moves
  <2>3. CASE ~watching[r]
    BY <2>1, <2>3 DEF Moves
  <2> QED
    BY <2>2, <2>3
<1>9. ASSUME \/ \E m \in match[r] : Rewrites(r, m) \/ Confirms(r, m)
             \/ \E i \in Ids : Adds(r, i)
      PROVE  \E i : Converts(r, i)
  BY <1>9, Conversions
<1> QED
  BY <1>0, <1>1, <1>2, <1>3, <1>4, <1>5, <1>6, <1>7, <1>8, <1>9, Cases

\* An FCP that is neither converted nor dropped has an event, or will have one.
LEMMA PendingStep ==
  ASSUME NEW r, Alone(r), TypeOK, GeneratorInv, AloneInv, [Next]_vars
  PROVE  PendingInv'
<1>0. /\ r \in Replicas /\ PcInv /\ PendingInv /\ TrackedInv
      /\ queue[r] \in Seq(Event) /\ \A o \in Replicas : o = r
  BY DEF Alone, GeneratorInv, AloneInv, TypeOK
<1> SUFFICES ASSUME NEW n \in DOMAIN fcps' \ dropped', watching'[r],
                    \A p \in DOMAIN queue'[r] : queue'[r][p].name # n
             PROVE  Converted(n)'
  BY <1>0 DEF PendingInv
<1>1. ASSUME n \in DOMAIN fcps \ dropped, watching[r],
             \A p \in DOMAIN queue[r] : queue[r][p].name # n
      PROVE  Converted(n)
  BY <1>0, <1>1 DEF PendingInv
<1>2. ASSUME fcps'[n] = fcps[n], Converted(n),
             \A i \in GeneratedFrom(n) : i \in DOMAIN rcps' /\ rcps'[i] = rcps[i]
      PROVE  Converted(n)'
  BY <1>2 DEF Converted, GeneratedFrom
<1>3. ASSUME NEW m \in Names, NEW uid, WriteFCP(m, uid)
      PROVE  Converted(n)'
  <2>1. /\ Snapshot(m)' \in Event /\ Snapshot(m)'.name = m
        /\ queue'[r] = IF watching[r] THEN Append(queue[r], Snapshot(m)') ELSE queue[r]
        /\ DOMAIN fcps' = DOMAIN fcps \cup {m}
        /\ \A o \in DOMAIN fcps \ {m} : fcps'[o] = fcps[o]
        /\ UNCHANGED <<rcps, dropped, watching>>
    BY <1>0, <1>3, WriteFCPEffect
  <2>2. watching[r] /\ queue'[r] = Append(queue[r], Snapshot(m)')
    BY <2>1
  <2>3. /\ DOMAIN queue'[r] = DOMAIN queue[r] \cup {Len(queue[r]) + 1}
        /\ queue'[r][Len(queue[r]) + 1] = Snapshot(m)'
        /\ \A p \in DOMAIN queue[r] : queue'[r][p] = queue[r][p]
    BY <1>0, <2>1, <2>2, Appended
  <2>4. n # m /\ n \in DOMAIN fcps \ dropped
    BY <2>1, <2>3
  <2>5. Converted(n)
    BY <1>1, <2>2, <2>3, <2>4
  <2> QED
    BY <1>2, <2>1, <2>4, <2>5 DEF GeneratedFrom
<1>4. ASSUME NEW i \in Ids, WriteRCPByHand(i)
      PROVE  Converted(n)'
  <2>1. [from |-> NoName, owner |-> 0, version |-> 0, revision |-> 0] \in RCP
    BY DEF RCP
  <2>2. /\ DOMAIN rcps' = DOMAIN rcps \cup {i} /\ i \notin DOMAIN rcps
        /\ \A k \in DOMAIN rcps \ {i} : rcps'[k] = rcps[k]
        /\ fcps' = fcps /\ dropped' = dropped /\ watching' = watching /\ queue' = queue
    BY <1>4, <2>1, PutRCPEffect DEF WriteRCPByHand, replicas
  <2>3. n \in DOMAIN fcps \ dropped
    BY <2>2
  <2>4. watching[r]
    BY <2>2
  <2>5. Converted(n)
    BY <1>1, <2>2, <2>3, <2>4
  <2> QED
    BY <1>2, <2>2, <2>5 DEF GeneratedFrom
<1>5. ASSUME pc[r] # "down", queue[r] # <<>>, Done(r)
      PROVE  /\ watching[r] /\ Head(queue[r]) = queue[r][1] /\ 1 \in DOMAIN queue[r]
             /\ \A p \in DOMAIN queue[r] : queue[r][p].name = n => p = 1
  <2>1. queue'[r] = Tail(queue[r]) /\ watching' = watching
    BY <1>0, <1>5, DoneEffect
  <2>2. watching[r]
    BY <2>1
  <2>3. /\ Head(queue[r]) = queue[r][1] /\ 1 \in DOMAIN queue[r]
        /\ \A p \in DOMAIN Tail(queue[r]) : Tail(queue[r])[p] = queue[r][p + 1]
        /\ \A p \in DOMAIN queue[r] : p \in Nat /\ (p = 1 \/ (p - 1 \in DOMAIN Tail(queue[r])))
    BY <1>0, <1>5, Handled
  <2>4. ASSUME NEW p \in DOMAIN queue[r], queue[r][p].name = n, p # 1
        PROVE  FALSE
    <3>1. p \in Nat /\ p - 1 \in DOMAIN Tail(queue[r]) /\ (p - 1) + 1 = p
      BY <2>3, <2>4
    <3> QED
      BY <2>1, <2>3, <2>4, <3>1
  <2> QED
    BY <2>2, <2>3, <2>4
<1>6. ASSUME NEW i, Converts(r, i)
      PROVE  Converted(n)'
  <2> DEFINE event == Head(queue[r])
  <2>1. /\ pc[r] # "down" /\ queue[r] # <<>> /\ Done(r) /\ fcps' = fcps
        /\ dropped' \in {dropped \ {event.name}, dropped \cup {event.name}}
    BY <1>6 DEF Converts
  <2>2. /\ watching[r] /\ event = queue[r][1] /\ 1 \in DOMAIN queue[r]
        /\ \A p \in DOMAIN queue[r] : queue[r][p].name = n => p = 1
    BY <1>5, <2>1
  <2>3. /\ DOMAIN rcps' = DOMAIN rcps \cup {i}
        /\ rcps'[i].from = event.name /\ rcps'[i].owner = fcps[event.name].uid
        /\ rcps'[i].version = event.version
        /\ i \in DOMAIN rcps => rcps[i].from = event.name
        /\ \A j \in DOMAIN rcps \ {i} : rcps'[j] = rcps[j]
    BY <1>6 DEF Converts
  <2> HIDE DEF event
  <2>4. CASE n = event.name
    <3>1. event.version = fcps[n].version
      BY <1>0, <2>1, <2>2, <2>4 DEF TrackedInv
    <3> QED
      BY <2>1, <2>3, <2>4, <3>1 DEF Converted, GeneratedFrom
  <2>5. CASE n # event.name
    <3>1. Converted(n)
      BY <1>1, <2>1, <2>2, <2>5
    <3> QED
      BY <1>2, <2>1, <2>3, <2>5, <3>1 DEF GeneratedFrom
  <2> QED
    BY <2>4, <2>5
<1>7. ASSUME Drops(r)
      PROVE  Converted(n)'
  <2>1. /\ pc[r] # "down" /\ queue[r] # <<>> /\ Done(r) /\ fcps' = fcps /\ rcps' = rcps
        /\ dropped' = dropped \cup {Head(queue[r]).name}
    BY <1>7 DEF Drops, Fails, stored
  <2>2. /\ watching[r] /\ Head(queue[r]) = queue[r][1]
        /\ \A p \in DOMAIN queue[r] : queue[r][p].name = n => p = 1
    BY <1>5, <2>1
  <2>3. Converted(n)
    BY <1>1, <2>1, <2>2
  <2> QED
    BY <1>2, <2>1, <2>3 DEF GeneratedFrom
<1>8. ASSUME Moves(r)
      PROVE  Converted(n)'
  <2>1. UNCHANGED <<fcps, rcps, dropped>> /\ watching[r] /\ queue'[r] = queue[r]
    BY <1>8 DEF Moves, objects, stored
  <2>2. Converted(n)
    BY <1>1, <2>1
  <2> QED
    BY <1>2, <2>1, <2>2 DEF GeneratedFrom
<1> QED
  BY <1>3, <1>4, <1>6, <1>7, <1>8, AloneCases

\* With one replica and no deletions, AloneInv holds too.
THEOREM AloneInductive ==
  ASSUME NEW r, Alone(r)
  PROVE  Spec => [](TypeOK /\ GeneratorInv /\ AloneInv)
<1>1. Init => AloneInv
  <2> SUFFICES ASSUME Init
               PROVE  AloneInv
    OBVIOUS
  <2>1. /\ DOMAIN fcps = {} /\ DOMAIN rcps = {} /\ \A o \in Replicas : DOMAIN queue[o] = {}
        /\ version = 0 /\ budget = Budget
    BY DEF Init
  <2>2. OrderInv /\ BelongInv /\ PendingInv
    BY <2>1 DEF OrderInv, BelongInv, PendingInv, GeneratedFrom
  <2>3. BudgetInv
    BY <2>1, BudgetAssumption DEF BudgetInv, Alone, Kinds
  <2> QED
    BY <2>2, <2>3 DEF AloneInv
<1>2. /\ TypeOK /\ GeneratorInv /\ TypeOK' /\ GeneratorInv' /\ AloneInv /\ [Next]_vars
      => AloneInv'
  BY OrderStep, BelongStep, PendingStep, BudgetStep DEF AloneInv
<1>3. Spec => [](TypeOK /\ GeneratorInv)
  BY GeneratorInductive
<1> QED
  BY <1>1, <1>2, <1>3, PTL DEF Spec

\* When a controller that runs alone has nothing left to do, every FCP is
\* converted, but for those whose last event ended in an error.
THEOREM SettledMeansConverted ==
  ASSUME NEW r, Alone(r)
  PROVE  Spec => []SettledIsConverted
<1>1. TypeOK /\ GeneratorInv /\ AloneInv => SettledIsConverted
  BY DEF Alone, AloneInv, PendingInv, SettledIsConverted, Settled
<1>2. Spec => [](TypeOK /\ GeneratorInv /\ AloneInv)
  BY AloneInductive
<1> QED
  BY <1>1, <1>2, PTL

-----------------------------------------------------------------------------
(***************************************************************************)
(* A controller that runs alone follows each FCP.                          *)
(***************************************************************************)

\* An FCP has at most one RCP, and what is given is its version.
OneRCP ==
  \A n \in Names :
    /\ GeneratedFrom(n) = {} => Given(n) = 0
    /\ \A i \in GeneratedFrom(n) : GeneratedFrom(n) = {i} /\ Given(n) = rcps[i].version

\* OneRCP follows from the invariant.
LEMMA GivenByOne ==
  ASSUME NEW r, Alone(r), TypeOK, GeneratorInv
  PROVE  OneRCP
<1> SUFFICES ASSUME NEW n \in Names
             PROVE  /\ GeneratedFrom(n) = {} => Given(n) = 0
                    /\ \A i \in GeneratedFrom(n) :
                         GeneratedFrom(n) = {i} /\ Given(n) = rcps[i].version
  BY DEF OneRCP
<1>1. GeneratedFrom(n) = {} => Given(n) = 0
  BY DEF Given, FirstOf
<1>2. ASSUME NEW i \in GeneratedFrom(n)
      PROVE  GeneratedFrom(n) = {i} /\ Given(n) = rcps[i].version
  <2>1. GeneratedFrom(n) = {i}
    <3>1. /\ Cardinality(GeneratedFrom(n)) + Cardinality(Creating(n)) <= Cardinality(Replicas)
          /\ IsFiniteSet(DOMAIN rcps)
      BY DEF GeneratorInv, CountInv
    <3>2. GeneratedFrom(n) \subseteq DOMAIN rcps /\ Creating(n) \subseteq Replicas
      BY DEF GeneratedFrom, Creating
    <3>3. IsFiniteSet(GeneratedFrom(n)) /\ IsFiniteSet(Creating(n))
      BY <3>1, <3>2, FS_Subset, ReplicaAssumption
    <3>4. Cardinality(Replicas) = 1
      BY FS_Singleton DEF Alone
    <3>5. Cardinality(GeneratedFrom(n)) \in Nat /\ Cardinality(Creating(n)) \in Nat
      BY <3>3, FS_CardinalityType
    <3>6. Cardinality(GeneratedFrom(n)) <= 1
      BY <3>1, <3>4, <3>5
    <3>7. ASSUME NEW j \in GeneratedFrom(n), j # i
          PROVE  FALSE
      <4>1. {i, j} \subseteq GeneratedFrom(n)
        BY <1>2, <3>7
      <4>2. IsFiniteSet({i}) /\ Cardinality({i}) = 1 /\ {i} \cup {j} = {i, j} /\ j \notin {i}
        BY <3>7, FS_Singleton
      <4>3. IsFiniteSet({i, j}) /\ Cardinality({i, j}) = 2
        BY <4>2, FS_AddElement
      <4>4. Cardinality({i, j}) <= Cardinality(GeneratedFrom(n))
        BY <3>3, <4>1, FS_Subset
      <4> QED
        BY <3>5, <3>6, <4>3, <4>4
    <3> QED
      BY <1>2, <3>7
  <2>2. i \in Nat
    BY <1>2, IdAssumption DEF GeneratedFrom, TypeOK
  <2>3. FirstOf({i}) = {i}
    BY <2>2 DEF FirstOf
  <2> QED
    BY <2>1, <2>3 DEF Given
<1> QED
  BY <1>1, <1>2

\* A step of a controller that runs alone is one of its promise, or none.
LEMMA MirrorStep ==
  ASSUME NEW r, Alone(r), TypeOK, GeneratorInv, AloneInv, OneRCP, OneRCP', [Next]_vars
  PROVE  [Mirror!Next]_(Mirror!vars)
<1> DEFINE wanted == [n \in Names |-> IF n \in DOMAIN fcps THEN fcps[n].version ELSE 0]
           given  == [n \in Names |-> Given(n)]
<1>0. /\ DOMAIN fcps \subseteq Names /\ version \in Nat /\ BudgetInv
      /\ r \in Replicas /\ PcInv /\ queue[r] \in Seq(Event)
      /\ \A n \in DOMAIN fcps : fcps[n].version \in Nat /\ fcps[n].version <= version
      /\ Budget["edit"] \in Nat
  BY BudgetAssumption
     DEF Alone, TypeOK, FCP, GeneratorInv, AloneInv, OriginInv, Known, PcInv, Kinds
<1>1. ASSUME UNCHANGED <<fcps, dropped>>, \A n \in Names : Given(n)' = Given(n)
      PROVE  UNCHANGED Mirror!vars
  BY <1>1 DEF Mirror!vars
<1>2. ASSUME NEW n \in Names, GeneratedFrom(n)' = GeneratedFrom(n),
             \A i \in GeneratedFrom(n) : rcps'[i] = rcps[i]
      PROVE  Given(n)' = Given(n)
  <2>1. CASE GeneratedFrom(n) = {}
    BY <1>2, <2>1 DEF OneRCP
  <2>2. ASSUME NEW i \in GeneratedFrom(n)
        PROVE  Given(n)' = Given(n)
    BY <1>2, <2>2 DEF OneRCP
  <2> QED
    BY <2>1, <2>2
<1>3. ASSUME NEW m \in Names, NEW uid, WriteFCP(m, uid)
      PROVE  Mirror!Write(m)
  <2>1. /\ version' = version + 1 /\ DOMAIN fcps' = DOMAIN fcps \cup {m}
        /\ \A o \in DOMAIN fcps \ {m} : fcps'[o] = fcps[o]
        /\ fcps'[m].version = version + 1
        /\ rcps' = rcps /\ dropped' = dropped
    BY <1>3, WriteFCPEffect
  <2>2. budget["edit"] > 0 /\ budget["edit"] \in Nat
    BY <1>3 DEF WriteFCP, Spend, TypeOK, Kinds
  <2>3. version + 1 \in 1..Budget["edit"]
    BY <1>0, <2>2 DEF BudgetInv
  <2>4. version + 1 > wanted[m]
    BY <1>0
  <2>5. wanted' = [wanted EXCEPT ![m] = version + 1]
    BY <1>0, <2>1
  <2>6. \A n \in Names : Given(n)' = Given(n)
    BY <1>2, <2>1 DEF GeneratedFrom
  <2>7. given' = given
    BY <2>6
  <2> QED
    BY <2>1, <2>3, <2>4, <2>5, <2>7 DEF Mirror!Write
<1>4. ASSUME NEW i \in Ids, WriteRCPByHand(i)
      PROVE  UNCHANGED Mirror!vars
  <2>1. [from |-> NoName, owner |-> 0, version |-> 0, revision |-> 0] \in RCP
    BY DEF RCP
  <2>2. /\ DOMAIN rcps' = DOMAIN rcps \cup {i} /\ i \notin DOMAIN rcps
        /\ \A k \in DOMAIN rcps \ {i} : rcps'[k] = rcps[k]
        /\ rcps'[i].from = NoName
        /\ fcps' = fcps /\ dropped' = dropped
    BY <1>4, <2>1, PutRCPEffect DEF WriteRCPByHand
  <2>3. \A n \in Names : /\ GeneratedFrom(n)' = GeneratedFrom(n)
                         /\ \A j \in GeneratedFrom(n) : rcps'[j] = rcps[j]
    BY <2>2, NameAssumption DEF GeneratedFrom
  <2> QED
    BY <1>1, <1>2, <2>2, <2>3
<1>5. ASSUME queue[r] # <<>>, NEW event, event = Head(queue[r])
      PROVE  /\ event.name \in DOMAIN fcps /\ event.name \in Names /\ event.version \in Nat
             /\ Given(event.name) \in Nat /\ Given(event.name) <= event.version
             /\ event.version <= fcps[event.name].version
  <2>1. event = queue[r][1] /\ 1 \in DOMAIN queue[r] /\ event \in Event
    BY <1>0, <1>5, Handled
  <2>2. event.name \in Names /\ event.version \in Nat
    BY <2>1 DEF Event
  <2>3. event.name \in DOMAIN fcps
    BY <1>0, <2>1 DEF AloneInv, BelongInv
  <2>4. Given(event.name) <= event.version /\ Given(event.name) \in Nat
    <3>1. CASE GeneratedFrom(event.name) = {}
      BY <2>2, <3>1 DEF OneRCP
    <3>2. ASSUME NEW j \in GeneratedFrom(event.name)
          PROVE  Given(event.name) <= event.version /\ Given(event.name) \in Nat
      <4>1. Given(event.name) = rcps[j].version
        BY <2>2 DEF OneRCP
      <4>2. rcps[j].version \in Nat
        BY DEF GeneratedFrom, TypeOK, RCP
      <4>3. rcps[j].version <= event.version
        BY <1>0, <2>1 DEF AloneInv, OrderInv
      <4> QED
        BY <4>1, <4>2, <4>3
    <3> QED
      BY <3>1, <3>2
  <2>5. event.version <= fcps[event.name].version
    BY <1>0, <2>1, <2>3 DEF GeneratorInv, OriginInv, Known
  <2> QED
    BY <2>2, <2>3, <2>4, <2>5
<1>6. ASSUME NEW i, Converts(r, i)
      PROVE  \E n \in Names : Mirror!Translate(n) \/ Mirror!Lose(n)
  <2>0. PICK event \in Event : event = Head(queue[r])
    BY <1>6 DEF Converts
  <2>1. /\ queue[r] # <<>> /\ fcps' = fcps
        /\ dropped' \in {dropped \ {event.name}, dropped \cup {event.name}}
        /\ DOMAIN rcps' = DOMAIN rcps \cup {i}
        /\ rcps'[i].from = event.name /\ rcps'[i].version = event.version
        /\ i \in DOMAIN rcps => rcps[i].from = event.name
        /\ \A j \in DOMAIN rcps \ {i} : rcps'[j] = rcps[j]
    BY <1>6, <2>0 DEF Converts
  <2>2. /\ event.name \in DOMAIN fcps /\ event.name \in Names /\ event.version \in Nat
        /\ Given(event.name) \in Nat /\ Given(event.name) <= event.version
        /\ event.version <= fcps[event.name].version
    BY <1>5, <2>0, <2>1
  <2>3. Given(event.name)' = event.version
    BY <2>1, <2>2 DEF OneRCP, GeneratedFrom
  <2>4. \A n \in Names \ {event.name} : Given(n)' = Given(n)
    <3>1. \A n \in Names \ {event.name} :
            /\ GeneratedFrom(n)' = GeneratedFrom(n)
            /\ \A j \in GeneratedFrom(n) : rcps'[j] = rcps[j]
      BY <2>1 DEF GeneratedFrom
    <3> QED
      BY <1>2, <3>1
  <2>5. given' = [given EXCEPT ![event.name] = event.version]
    BY <2>2, <2>3, <2>4
  <2>6. event.version \in given[event.name]..wanted[event.name]
    BY <1>0, <2>2
  <2>7. wanted' = wanted
    BY <2>1
  <2> HIDE DEF given, wanted
  <2>8. /\ \E v \in given[event.name]..wanted[event.name] :
             given' = [given EXCEPT ![event.name] = v]
        /\ wanted' = wanted
    BY <2>5, <2>6, <2>7
  <2>9. CASE dropped' = dropped \ {event.name}
    BY <2>2, <2>8, <2>9 DEF Mirror!Translate, given, wanted
  <2>10. CASE dropped' = dropped \cup {event.name}
    BY <2>2, <2>8, <2>10 DEF Mirror!Lose, given, wanted
  <2> QED
    BY <2>1, <2>9, <2>10
<1>7. ASSUME Drops(r)
      PROVE  \E n \in Names : Mirror!Lose(n)
  <2>0. PICK event \in Event : event = Head(queue[r])
    BY <1>0, <1>7, Handled DEF Drops
  <2>1. /\ fcps' = fcps /\ rcps' = rcps /\ queue[r] # <<>>
        /\ dropped' = dropped \cup {event.name}
    BY <1>7, <2>0 DEF Drops, Fails, stored
  <2>2. /\ event.name \in DOMAIN fcps /\ event.name \in Names /\ event.version \in Nat
        /\ Given(event.name) \in Nat /\ Given(event.name) <= event.version
        /\ event.version <= fcps[event.name].version
    BY <1>5, <2>0, <2>1
  <2>3. \A n \in Names : Given(n)' = Given(n)
    BY <1>2, <2>1 DEF GeneratedFrom
  <2>4. given' = [given EXCEPT ![event.name] = given[event.name]] /\ wanted' = wanted
    BY <2>1, <2>3
  <2>5. given[event.name] \in given[event.name]..wanted[event.name]
    BY <1>0, <2>2
  <2> HIDE DEF given, wanted
  <2>6. \E v \in given[event.name]..wanted[event.name] :
          given' = [given EXCEPT ![event.name] = v]
    BY <2>4, <2>5
  <2> QED
    BY <2>1, <2>2, <2>4, <2>6 DEF Mirror!Lose, given, wanted
<1>8. ASSUME Moves(r)
      PROVE  UNCHANGED Mirror!vars
  <2>1. UNCHANGED <<fcps, rcps, dropped>>
    BY <1>8 DEF Moves, objects, stored
  <2>2. \A n \in Names : Given(n)' = Given(n)
    BY <1>2, <2>1 DEF GeneratedFrom
  <2> QED
    BY <1>1, <2>1, <2>2
<1> QED
  BY <1>3, <1>4, <1>6, <1>7, <1>8, AloneCases DEF Mirror!Next

\* Events that are delivered again or late, lists, restarts, lost watches,
\* failures and revisions cannot be told from outside: each FCP is followed
\* step by step, never back, but for what is dropped.
THEOREM ControllerMirrors ==
  ASSUME NEW r, Alone(r)
  PROVE  Spec => Mirror!Safety
<1>1. Init => Mirror!Init
  <2> SUFFICES ASSUME Init
               PROVE  Mirror!Init
    OBVIOUS
  <2>1. /\ DOMAIN fcps = {} /\ dropped = {}
        /\ \A n \in Names : GeneratedFrom(n) = {}
    BY DEF Init, GeneratedFrom
  <2>2. \A n \in Names : Given(n) = 0
    BY <2>1 DEF Given, FirstOf
  <2> QED
    BY <2>1, <2>2 DEF Mirror!Init
<1>2. /\ TypeOK /\ GeneratorInv /\ AloneInv /\ OneRCP /\ OneRCP' /\ [Next]_vars
      => [Mirror!Next]_(Mirror!vars)
  BY MirrorStep
<1>3. TypeOK /\ GeneratorInv => OneRCP
  BY GivenByOne
<1>4. Spec => [](TypeOK /\ GeneratorInv /\ AloneInv)
  BY AloneInductive
<1> QED
  BY <1>1, <1>2, <1>3, <1>4, PTL DEF Spec, Mirror!Safety
==============================================================================

------------------------- MODULE ClaimJourneyProofs -------------------------
(***************************************************************************)
(* Theorems about ClaimJourney, for any number of claims and devices and   *)
(* for all parameters, splits and counts beyond any bound included.        *)
(***************************************************************************)
EXTENDS ClaimJourney, FiniteSetTheorems, SequenceTheorems, TLAPS

-----------------------------------------------------------------------------
(***************************************************************************)
(* Devices by their positions.                                             *)
(***************************************************************************)

Advertised(i) == [prefix |-> "fake-", path |-> <<i>>]
Whole(i) == [prefix |-> "FAKE-", path |-> <<i>>]
Part(i, j) == [prefix |-> "FAKE-", path |-> Append(<<i>>, j)]

Positions(names) == {i \in 1..PerNodeFakeDevices : Advertised(i) \in names}
AdvertisedNames == {AdvertisedName(u) : u \in Allocatable}

Parts(split) == IF split > 0 THEN split ELSE 1

\* A set that a finite set is mapped onto, one to one.
LEMMA OneToOne ==
  ASSUME NEW S, NEW T, IsFiniteSet(S), NEW f \in [S -> T],
         \A a, b \in S : f[a] = f[b] => a = b,
         \A t \in T : \E s \in S : f[s] = t
  PROVE  IsFiniteSet(T) /\ Cardinality(T) = Cardinality(S)
<1>1. f \in Bijection(S, T)
  BY DEF Bijection, Injection, IsInjective, Surjection
<1> QED
  BY <1>1, FS_Bijection DEF ExistsBijection

\* The node's devices are whole ones.
LEMMA AllocatableDevices == Allocatable = {Whole(i) : i \in 1..PerNodeFakeDevices}
BY DEF Allocatable, GenerateUUIDs, Whole

\* What is advertised is a lower-case name of each position.
LEMMA AdvertisedDevices == AdvertisedNames = {Advertised(i) : i \in 1..PerNodeFakeDevices}
<1>1. \A i \in 1..PerNodeFakeDevices : AdvertisedName(Whole(i)) = Advertised(i)
  BY DEF AdvertisedName, Whole, Advertised
<1> QED
  BY <1>1, AllocatableDevices DEF AdvertisedNames

\* Positions and names are the same.
LEMMA PositionsCount ==
  ASSUME NEW names \in SUBSET AdvertisedNames
  PROVE  /\ IsFiniteSet(Positions(names))
         /\ Cardinality(Positions(names)) = Cardinality(names)
         /\ names = {Advertised(i) : i \in Positions(names)}
<1> DEFINE f == [i \in Positions(names) |-> Advertised(i)]
<1>1. names = {Advertised(i) : i \in Positions(names)}
  BY AdvertisedDevices DEF Positions
<1>2. IsFiniteSet(Positions(names))
  <2>1. IsFiniteSet(1..PerNodeFakeDevices)
    BY FS_Interval, PerNodeAssumption
  <2> QED
    BY <2>1, FS_Subset DEF Positions
<1>3. Cardinality(names) = Cardinality(Positions(names))
  <2>1. f \in [Positions(names) -> names]
    BY <1>1
  <2>2. \A i, j \in Positions(names) : f[i] = f[j] => i = j
    BY DEF Advertised
  <2>3. \A n \in names : \E i \in Positions(names) : f[i] = n
    BY <1>1
  <2> QED
    BY <1>2, <2>1, <2>2, <2>3, OneToOne
<1> QED
  BY <1>1, <1>2, <1>3

\* A part has one parent, which its path begins with, and one number.
LEMMA PathOfPart ==
  ASSUME NEW i \in Nat, NEW j \in Nat
  PROVE  /\ Head(Part(i, j).path) = i
         /\ Part(i, j).path[2] = j
<1>1. <<i>> \in Seq(Nat) /\ Len(<<i>>) = 1 /\ <<i>>[1] = i
  OBVIOUS
<1>2. /\ Append(<<i>>, j) \in Seq(Nat)
      /\ Append(<<i>>, j) # <<>>
      /\ Append(<<i>>, j)[1] = i
      /\ Append(<<i>>, j)[2] = j
  BY <1>1, AppendProperties
<1>3. Head(Append(<<i>>, j)) = i
  BY <1>2
<1> QED
  BY <1>2, <1>3 DEF Part

\* What is prepared for a handle, and how much of it there is.
LEMMA PreparedDevices ==
  ASSUME NEW h, h.names \in SUBSET AdvertisedNames, h.split \in Int
  PROVE  PreparedFakes(h) =
           IF h.split > 0
           THEN {Part(i, j) : i \in Positions(h.names), j \in 1..h.split}
           ELSE {Whole(i) : i \in Positions(h.names)}
<1>1. RequestedDevices(h) = {Whole(i) : i \in Positions(h.names)}
  <2>1. h.names = {Advertised(i) : i \in Positions(h.names)}
    BY PositionsCount
  <2>2. \A i : FakeUUID(Advertised(i)) = Whole(i)
    BY DEF FakeUUID, Advertised, Whole
  <2> QED
    BY <2>1, <2>2 DEF RequestedDevices
<1>2. ASSUME NEW i \in 1..PerNodeFakeDevices
      PROVE  SplitFakes(Whole(i), h.split) = {Part(i, j) : j \in 1..h.split}
  BY DEF SplitFakes, GenerateUUIDs, Whole, Part
<1>3. UNION {SplitFakes(d, h.split) : d \in RequestedDevices(h)}
        = {Part(i, j) : i \in Positions(h.names), j \in 1..h.split}
  BY <1>1, <1>2 DEF Positions
<1>4. CASE h.split > 0
  <2>1. PreparedFakes(h) = UNION {SplitFakes(d, h.split) : d \in RequestedDevices(h)}
    BY <1>4 DEF PreparedFakes
  <2> QED
    BY <1>3, <1>4, <2>1
<1>5. CASE ~(h.split > 0)
  BY <1>1, <1>5 DEF PreparedFakes
<1> QED
  BY <1>4, <1>5

\* As many devices as names, each in as many parts as the handle says.
LEMMA PreparedCount ==
  ASSUME NEW h, h.names \in SUBSET AdvertisedNames, h.split \in Int
  PROVE  /\ IsFiniteSet(PreparedFakes(h))
         /\ Cardinality(PreparedFakes(h)) = Cardinality(h.names) * Parts(h.split)
<1> DEFINE P == Positions(h.names)
<1>1. IsFiniteSet(P) /\ Cardinality(P) = Cardinality(h.names) /\ Cardinality(P) \in Nat
  BY PositionsCount, FS_CardinalityType
<1>2. CASE h.split > 0
  <2> DEFINE f == [q \in P \X (1..h.split) |-> Part(q[1], q[2])]
  <2>1. PreparedFakes(h) = {Part(i, j) : i \in P, j \in 1..h.split}
    BY <1>2, PreparedDevices
  <2>2. IsFiniteSet(1..h.split) /\ Cardinality(1..h.split) = h.split
    BY <1>2, FS_Interval
  <2>3. /\ IsFiniteSet(P \X (1..h.split))
        /\ Cardinality(P \X (1..h.split)) = Cardinality(P) * h.split
    <3>1. Cardinality(P \X (1..h.split)) = Cardinality(P) * Cardinality(1..h.split)
      BY <1>1, <2>2, FS_Product
    <3>2. IsFiniteSet(P \X (1..h.split))
      BY <1>1, <2>2, FS_Product
    <3> QED
      BY <2>2, <3>1, <3>2
  <2>4. /\ IsFiniteSet(PreparedFakes(h))
        /\ Cardinality(PreparedFakes(h)) = Cardinality(P \X (1..h.split))
    <3>1. f \in [P \X (1..h.split) -> PreparedFakes(h)]
      BY <2>1
    <3>2. \A q, r \in P \X (1..h.split) : f[q] = f[r] => q = r
      <4> TAKE q, r \in P \X (1..h.split)
      <4>1. q[1] \in Nat /\ q[2] \in Nat /\ r[1] \in Nat /\ r[2] \in Nat
        BY <1>2, PerNodeAssumption DEF Positions
      <4>2. f[q] = Part(q[1], q[2]) /\ f[r] = Part(r[1], r[2])
        OBVIOUS
      <4>3. f[q] = f[r] => q[1] = r[1] /\ q[2] = r[2]
        <5> HIDE DEF f
        <5>1. Head(Part(q[1], q[2]).path) = q[1] /\ Part(q[1], q[2]).path[2] = q[2]
          BY <4>1, PathOfPart
        <5>2. Head(Part(r[1], r[2]).path) = r[1] /\ Part(r[1], r[2]).path[2] = r[2]
          BY <4>1, PathOfPart
        <5> QED
          BY <4>2, <5>1, <5>2
      <4> QED
        BY <4>3
    <3>3. \A x \in PreparedFakes(h) : \E q \in P \X (1..h.split) : f[q] = x
      <4>1. ASSUME NEW i \in P, NEW j \in 1..h.split
            PROVE  \E q \in P \X (1..h.split) : f[q] = Part(i, j)
        <5>1. <<i, j>> \in P \X (1..h.split) /\ f[<<i, j>>] = Part(i, j)
          OBVIOUS
        <5> QED
          BY <5>1
      <4>2. TAKE x \in PreparedFakes(h)
      <4>3. PICK i \in P, j \in 1..h.split : x = Part(i, j)
        BY <2>1
      <4> QED
        BY <4>1, <4>3
    <3> HIDE DEF f, P
    <3> QED
      BY <2>3, <3>1, <3>2, <3>3, OneToOne
  <2> QED
    BY <1>1, <1>2, <2>3, <2>4 DEF Parts
<1>3. CASE ~(h.split > 0)
  <2> DEFINE f == [i \in P |-> Whole(i)]
  <2>1. PreparedFakes(h) = {Whole(i) : i \in P}
    BY <1>3, PreparedDevices
  <2>2. /\ IsFiniteSet(PreparedFakes(h))
        /\ Cardinality(PreparedFakes(h)) = Cardinality(P)
    <3>1. f \in [P -> PreparedFakes(h)]
      BY <2>1
    <3>2. \A i, j \in P : f[i] = f[j] => i = j
      BY DEF Whole
    <3>3. \A x \in PreparedFakes(h) : \E i \in P : f[i] = x
      BY <2>1
    <3> HIDE DEF f, P
    <3> QED
      BY <1>1, <3>1, <3>2, <3>3, OneToOne
  <2> QED
    BY <1>1, <1>3, <2>2 DEF Parts
<1> QED
  BY <1>2, <1>3

\* Every device, and every part of one, begins with the position of a name.
LEMMA ParentOfPrepared ==
  ASSUME NEW h, h.names \in SUBSET AdvertisedNames, h.split \in Int,
         NEW x \in PreparedFakes(h)
  PROVE  Head(x.path) \in Positions(h.names)
<1>1. CASE h.split > 0
  <2>1. PICK i \in Positions(h.names), j \in 1..h.split : x = Part(i, j)
    BY <1>1, PreparedDevices
  <2>2. i \in Nat /\ j \in Nat
    BY PerNodeAssumption DEF Positions
  <2> QED
    BY <2>1, <2>2, PathOfPart
<1>2. CASE ~(h.split > 0)
  <2>1. PICK i \in Positions(h.names) : x = Whole(i)
    BY <1>2, PreparedDevices
  <2>2. Head(<<i>>) = i
    OBVIOUS
  <2> QED
    BY <2>1, <2>2 DEF Whole
<1> QED
  BY <1>1, <1>2

\* The devices of one claim, as its variables show them.
LEMMA NumberedDevices ==
  ASSUME NEW fakes, IsFiniteSet(fakes), NEW f \in Numbered(fakes)
  PROVE  /\ DOMAIN f = 0..(Cardinality(fakes) - 1)
         /\ Cardinality(DOMAIN f) = Cardinality(fakes)
         /\ {f[i] : i \in DOMAIN f} = fakes
<1>1. f \in [0..(Cardinality(fakes) - 1) -> fakes] /\ \A d \in fakes : \E i \in DOMAIN f : f[i] = d
  BY DEF Numbered
<1>2. Cardinality(fakes) \in Nat
  BY FS_CardinalityType
<1>3. Cardinality(0..(Cardinality(fakes) - 1)) = Cardinality(fakes)
  BY <1>2, FS_Interval
<1> QED
  BY <1>1, <1>3

-----------------------------------------------------------------------------
(***************************************************************************)
(* Requests.                                                               *)
(***************************************************************************)

Count(s) == IF s.count < 0 THEN 0 ELSE IF s.count = 0 THEN 1 ELSE s.count

\* A request for each device, all with the selector of the parameters.
LEMMA RequestsCount ==
  ASSUME NEW s \in FakeClaimParametersSpec
  PROVE  /\ Count(s) \in Nat
         /\ Len(Requests(s)) = Count(s)
         /\ DOMAIN Requests(s) = 1..Count(s)
         /\ \A i \in DOMAIN Requests(s) : Requests(s)[i] = Selector(s)
<1>1. s.count \in Int
  BY DEF FakeClaimParametersSpec
<1>2. Count(s) \in Nat /\ 1..ResourceCount(s) = 1..Count(s)
  BY <1>1 DEF Count, ResourceCount
<1>3. Requests(s) = [i \in 1..Count(s) |-> Selector(s)]
  BY <1>2 DEF Requests
<1>4. Len([i \in 1..Count(s) |-> Selector(s)]) = Count(s)
  BY <1>2
<1> QED
  BY <1>2, <1>3, <1>4

-----------------------------------------------------------------------------
(***************************************************************************)
(* The invariant, one step of the journey after the other.                 *)
(***************************************************************************)

SpecInv ==
  /\ model \in Models
  /\ DOMAIN spec \subseteq Claims
  /\ DOMAIN requests = DOMAIN spec
  /\ \A c \in DOMAIN spec : /\ spec[c] \in FakeClaimParametersSpec
                            /\ requests[c] = Requests(spec[c])

\* As many instances as devices are asked for, of the model that is selected.
HandleInv ==
  /\ DOMAIN handle \subseteq DOMAIN spec
  /\ \A c \in DOMAIN handle :
       /\ handle[c].split = spec[c].split
       /\ handle[c].names \in SUBSET AdvertisedNames
       /\ Cardinality(handle[c].names) = Count(spec[c])
       /\ Count(spec[c]) > 0 => Selector(spec[c]) \in {"true", model}
  /\ \A c, d \in DOMAIN handle : c # d => handle[c].names \cap handle[d].names = {}

EnvInv ==
  /\ DOMAIN env \subseteq DOMAIN handle
  /\ \A c \in DOMAIN env :
       /\ env[c].device \in Numbered(PreparedFakes(handle[c]))
       /\ env[c].model = {model : d \in PreparedFakes(handle[c])}

\* The container has the variables of the largest claim so far, each from a
\* claim, and a model as soon as it has a device.
Size(c) == Cardinality(PreparedFakes(handle[c]))
ContainerInv ==
  /\ injected \subseteq Claims
  /\ injected # {} => DOMAIN env = Claims
  /\ injected = {} => container = NoVariables
  /\ injected # {} => \E d \in injected : /\ \A c \in injected : Size(c) <= Size(d)
                                          /\ DOMAIN container.device = 0..(Size(d) - 1)
  /\ \A i \in DOMAIN container.device :
       \E c \in injected : /\ i \in DOMAIN env[c].device
                           /\ container.device[i] = env[c].device[i]
  /\ container.model \subseteq {model}
  /\ container.model = {} <=> \A c \in injected : PreparedFakes(handle[c]) = {}

JourneyInv == SpecInv /\ HandleInv /\ EnvInv /\ ContainerInv

\* Where a claim stands, put together.
LEMMA ClaimFacts ==
  ASSUME JourneyInv, NEW c \in DOMAIN env
  PROVE  /\ c \in DOMAIN handle
         /\ handle[c].names \in SUBSET AdvertisedNames
         /\ handle[c].split = spec[c].split /\ handle[c].split \in Int
         /\ IsFiniteSet(PreparedFakes(handle[c]))
         /\ Size(c) \in Nat
         /\ Size(c) = Count(spec[c]) * Parts(spec[c].split)
         /\ DOMAIN env[c].device = 0..(Size(c) - 1)
         /\ Cardinality(DOMAIN env[c].device) = Size(c)
         /\ Devices(c) = PreparedFakes(handle[c])
<1>1. /\ c \in DOMAIN handle /\ c \in DOMAIN spec
      /\ handle[c].names \in SUBSET AdvertisedNames
      /\ handle[c].split = spec[c].split
      /\ Cardinality(handle[c].names) = Count(spec[c])
  BY DEF JourneyInv, EnvInv, HandleInv
<1>2. spec[c].split \in Int
  BY <1>1 DEF JourneyInv, SpecInv, FakeClaimParametersSpec
<1>3. /\ IsFiniteSet(PreparedFakes(handle[c]))
      /\ Size(c) = Count(spec[c]) * Parts(spec[c].split)
  BY <1>1, <1>2, PreparedCount DEF Size
<1>4. Size(c) \in Nat
  BY <1>3, FS_CardinalityType DEF Size
<1>5. env[c].device \in Numbered(PreparedFakes(handle[c]))
  BY DEF JourneyInv, EnvInv
<1>6. /\ DOMAIN env[c].device = 0..(Size(c) - 1)
      /\ Cardinality(DOMAIN env[c].device) = Size(c)
      /\ Devices(c) = PreparedFakes(handle[c])
  BY <1>3, <1>5, NumberedDevices DEF Size, Devices
<1> QED
  BY <1>1, <1>2, <1>3, <1>4, <1>6

\* Nothing is injected before the last claim is prepared.
LEMMA NotInjectedYet ==
  ASSUME JourneyInv, NEW c \in Claims, c \notin DOMAIN env
  PROVE  injected = {} /\ container = NoVariables
BY DEF JourneyInv, ContainerInv

\* A container without a claim has nothing.
LEMMA EmptyContainer ==
  ASSUME injected' = {}, container' = NoVariables
  PROVE  ContainerInv'
BY DEF ContainerInv, NoVariables, Variables, EmptyMap

\* New parameters become requests.
LEMMA TranslateStep ==
  ASSUME JourneyInv, NEW c \in Claims, NEW s \in Parameters, Translate(c, s)
  PROVE  JourneyInv'
<1>1. /\ c \notin DOMAIN spec /\ c \notin DOMAIN handle /\ c \notin DOMAIN env
      /\ spec' = Put(spec, c, s) /\ requests' = Put(requests, c, Requests(s))
      /\ UNCHANGED <<model, handle, env, injected, container>>
  BY DEF Translate, JourneyInv, SpecInv, HandleInv, EnvInv
<1>2. /\ DOMAIN spec' = DOMAIN spec \cup {c} /\ spec'[c] = s
      /\ \A d \in DOMAIN spec : spec'[d] = spec[d]
  BY <1>1 DEF Put
<1>3. /\ DOMAIN requests' = DOMAIN requests \cup {c} /\ requests'[c] = Requests(s)
      /\ \A d \in DOMAIN requests : d # c => requests'[d] = requests[d]
  BY <1>1 DEF Put
<1>4. SpecInv'
  BY <1>1, <1>2, <1>3, ParametersAssumption DEF JourneyInv, SpecInv
<1>5. HandleInv'
  BY <1>1, <1>2 DEF JourneyInv, HandleInv
<1>6. EnvInv'
  BY <1>1 DEF JourneyInv, EnvInv
<1>7. ContainerInv'
  BY <1>1, NotInjectedYet, EmptyContainer
<1> QED
  BY <1>4, <1>5, <1>6, <1>7 DEF JourneyInv

\* A claim gets names that no other claim has.
LEMMA AllocateStep ==
  ASSUME JourneyInv, NEW c \in Claims, Allocate(c)
  PROVE  JourneyInv'
<1>1. /\ c \in DOMAIN spec /\ c \notin DOMAIN handle /\ c \notin DOMAIN env
      /\ requests[c] = Requests(spec[c]) /\ spec[c] \in FakeClaimParametersSpec
      /\ \A i \in DOMAIN requests[c] : requests[c][i] \in {"true", model}
      /\ UNCHANGED <<model, spec, requests, env, injected, container>>
  BY DEF Allocate, JourneyInv, SpecInv, EnvInv
<1>2. PICK names \in SUBSET AdvertisedNames :
        /\ Cardinality(names) = Len(requests[c])
        /\ \A d \in DOMAIN handle : handle[d].names \cap names = {}
        /\ handle' = Put(handle, c, [kind |-> "ok", split |-> spec[c].split, names |-> names])
  BY DEF Allocate, AdvertisedNames
<1>3. /\ DOMAIN handle' = DOMAIN handle \cup {c}
      /\ handle'[c].split = spec[c].split /\ handle'[c].names = names
      /\ \A d \in DOMAIN handle : handle'[d] = handle[d]
  BY <1>1, <1>2 DEF Put
<1>4. /\ Len(requests[c]) = Count(spec[c])
      /\ Count(spec[c]) > 0 => Selector(spec[c]) \in {"true", model}
  <2>1. /\ Count(spec[c]) \in Nat
        /\ Len(requests[c]) = Count(spec[c])
        /\ DOMAIN requests[c] = 1..Count(spec[c])
        /\ \A i \in DOMAIN requests[c] : requests[c][i] = Selector(spec[c])
    BY <1>1, RequestsCount
  <2>2. Count(spec[c]) > 0 => 1 \in DOMAIN requests[c]
    BY <2>1
  <2> QED
    BY <1>1, <2>1, <2>2
<1>5. SpecInv'
  BY <1>1 DEF JourneyInv, SpecInv
<1>6. HandleInv'
  <2>1. DOMAIN handle' \subseteq DOMAIN spec'
    BY <1>1, <1>3 DEF JourneyInv, HandleInv
  <2>2. ASSUME NEW d \in DOMAIN handle'
        PROVE  /\ handle'[d].split = spec'[d].split
               /\ handle'[d].names \in SUBSET AdvertisedNames
               /\ Cardinality(handle'[d].names) = Count(spec'[d])
               /\ Count(spec'[d]) > 0 => Selector(spec'[d]) \in {"true", model'}
    <3>1. CASE d = c
      BY <1>1, <1>2, <1>3, <1>4, <3>1
    <3>2. CASE d # c
      <4>1. d \in DOMAIN handle /\ handle'[d] = handle[d]
        BY <1>3, <3>2
      <4> QED
        BY <1>1, <4>1 DEF JourneyInv, HandleInv
    <3> QED
      BY <3>1, <3>2
  <2>3. \A d, e \in DOMAIN handle' : d # e => handle'[d].names \cap handle'[e].names = {}
    BY <1>1, <1>2, <1>3 DEF JourneyInv, HandleInv
  <2> QED
    BY <2>1, <2>2, <2>3 DEF HandleInv
<1>7. EnvInv'
  BY <1>1, <1>3 DEF JourneyInv, EnvInv
<1>8. ContainerInv'
  BY <1>1, NotInjectedYet, EmptyContainer
<1> QED
  BY <1>5, <1>6, <1>7, <1>8 DEF JourneyInv

\* A claim's devices become the variables of its spec file.
LEMMA PrepareStep ==
  ASSUME JourneyInv, NEW c \in Claims, Prepare(c)
  PROVE  JourneyInv'
<1>1. /\ c \in DOMAIN handle /\ c \notin DOMAIN env
      /\ UNCHANGED <<model, spec, requests, handle, injected, container>>
  BY DEF Prepare
<1>2. PICK numbered \in Numbered(PreparedFakes(handle[c])) :
        env' = Put(env, c, Variables(numbered, {model : d \in PreparedFakes(handle[c])}))
  BY DEF Prepare
<1>3. /\ DOMAIN env' = DOMAIN env \cup {c}
      /\ env'[c].device = numbered
      /\ env'[c].model = {model : d \in PreparedFakes(handle[c])}
      /\ \A d \in DOMAIN env : env'[d] = env[d]
  BY <1>1, <1>2 DEF Put, Variables
<1>4. SpecInv' /\ HandleInv'
  BY <1>1 DEF JourneyInv, SpecInv, HandleInv
<1>5. EnvInv'
  <2>1. ASSUME NEW d \in DOMAIN env'
        PROVE  /\ env'[d].device \in Numbered(PreparedFakes(handle[d]))
               /\ env'[d].model = {model : x \in PreparedFakes(handle[d])}
    <3>1. CASE d = c
      BY <1>2, <1>3, <3>1
    <3>2. CASE d # c
      BY <1>3, <3>2 DEF JourneyInv, EnvInv
    <3> QED
      BY <3>1, <3>2
  <2> QED
    BY <1>1, <1>3, <2>1 DEF JourneyInv, EnvInv
<1>6. ContainerInv'
  BY <1>1, NotInjectedYet, EmptyContainer
<1> QED
  BY <1>4, <1>5, <1>6 DEF JourneyInv

\* The largest of the claims that are injected and of the one that comes is
\* the one or the other.
LEMMA InjectStep ==
  ASSUME JourneyInv, NEW c \in Claims, Inject(c)
  PROVE  JourneyInv'
<1>1. /\ DOMAIN env = Claims /\ c \in DOMAIN env
      /\ injected' = injected \cup {c}
      /\ container'.device = Overridden(container.device, env[c].device)
      /\ container'.model = IF env[c].model = {} THEN container.model ELSE env[c].model
      /\ UNCHANGED <<model, spec, requests, handle, env>>
  BY DEF Inject, Variables
<1>2. /\ DOMAIN container'.device = DOMAIN container.device \cup DOMAIN env[c].device
      /\ \A i \in DOMAIN container'.device :
           container'.device[i] = IF i \in DOMAIN env[c].device THEN env[c].device[i]
                                  ELSE container.device[i]
  BY <1>1 DEF Overridden
<1>3. injected \subseteq Claims
  BY DEF JourneyInv, ContainerInv
<1>4. \A d \in Claims : Size(d) \in Nat /\ DOMAIN env[d].device = 0..(Size(d) - 1)
  BY <1>1, ClaimFacts
<1>5. \E d \in injected' : /\ \A e \in injected' : Size(e) <= Size(d)
                           /\ DOMAIN container'.device = 0..(Size(d) - 1)
  <2>1. CASE injected = {}
    <3>1. DOMAIN container.device = {}
      BY <2>1 DEF JourneyInv, ContainerInv, NoVariables, Variables, EmptyMap
    <3> QED
      BY <1>1, <1>2, <1>4, <2>1, <3>1
  <2>2. CASE injected # {}
    <3>1. PICK d \in injected : /\ \A e \in injected : Size(e) <= Size(d)
                                /\ DOMAIN container.device = 0..(Size(d) - 1)
      BY <2>2 DEF JourneyInv, ContainerInv
    <3>2. Size(d) \in Nat /\ Size(c) \in Nat /\ \A e \in injected : Size(e) \in Nat
      BY <1>3, <1>4
    <3>3. DOMAIN container'.device = 0..(Size(d) - 1) \cup 0..(Size(c) - 1)
      BY <1>2, <1>4, <3>1
    <3>4. CASE Size(c) <= Size(d)
      <4>1. DOMAIN container'.device = 0..(Size(d) - 1)
        BY <3>2, <3>3, <3>4
      <4> QED
        BY <1>1, <3>1, <3>4, <4>1
    <3>5. CASE Size(d) < Size(c)
      <4>1. DOMAIN container'.device = 0..(Size(c) - 1)
        BY <3>2, <3>3, <3>5
      <4>2. \A e \in injected' : Size(e) <= Size(c)
        BY <1>1, <3>1, <3>2, <3>5
      <4> QED
        BY <1>1, <4>1, <4>2
    <3> QED
      BY <3>2, <3>4, <3>5
  <2> QED
    BY <2>1, <2>2
<1>6. \A i \in DOMAIN container'.device :
        \E d \in injected' : i \in DOMAIN env[d].device /\ container'.device[i] = env[d].device[i]
  <2> TAKE i \in DOMAIN container'.device
  <2>1. CASE i \in DOMAIN env[c].device
    BY <1>1, <1>2, <2>1
  <2>2. CASE i \notin DOMAIN env[c].device
    <3>1. i \in DOMAIN container.device /\ container'.device[i] = container.device[i]
      BY <1>2, <2>2
    <3>2. PICK d \in injected : i \in DOMAIN env[d].device
                                /\ container.device[i] = env[d].device[i]
      BY <3>1 DEF JourneyInv, ContainerInv
    <3> QED
      BY <1>1, <3>1, <3>2
  <2> QED
    BY <2>1, <2>2
<1>7. /\ container'.model \subseteq {model}
      /\ container'.model = {} <=> \A d \in injected' : PreparedFakes(handle[d]) = {}
  <2>1. /\ container.model \subseteq {model}
        /\ container.model = {} <=> \A d \in injected : PreparedFakes(handle[d]) = {}
    BY DEF JourneyInv, ContainerInv
  <2>2. env[c].model = {model : d \in PreparedFakes(handle[c])}
    BY <1>1 DEF JourneyInv, EnvInv
  <2>3. CASE PreparedFakes(handle[c]) = {}
    <3>1. env[c].model = {}
      BY <2>2, <2>3
    <3> QED
      BY <1>1, <2>1, <2>3, <3>1
  <2>4. CASE PreparedFakes(handle[c]) # {}
    <3>1. env[c].model = {model}
      BY <2>2, <2>4
    <3> QED
      BY <1>1, <2>4, <3>1
  <2> QED
    BY <2>3, <2>4
<1>8. SpecInv' /\ HandleInv' /\ EnvInv'
  BY <1>1 DEF JourneyInv, SpecInv, HandleInv, EnvInv
<1>9. ContainerInv'
  <2>1. \A d : Size(d)' = Size(d)
    BY <1>1 DEF Size
  <2> QED
    BY <1>1, <1>3, <1>5, <1>6, <1>7, <2>1 DEF ContainerInv
<1> QED
  BY <1>8, <1>9 DEF JourneyInv

-----------------------------------------------------------------------------
\* The invariant holds at the start, and every step of a claim keeps it.
THEOREM JourneyInductive == Spec => []JourneyInv
<1>1. Init => JourneyInv
  <2> SUFFICES ASSUME Init PROVE JourneyInv
    OBVIOUS
  <2>1. SpecInv /\ HandleInv /\ EnvInv
    BY DEF Init, SpecInv, HandleInv, EnvInv, EmptyMap
  <2>2. ContainerInv
    BY DEF Init, ContainerInv, NoVariables, Variables, EmptyMap
  <2> QED
    BY <2>1, <2>2 DEF JourneyInv
<1>2. JourneyInv /\ [Next]_vars => JourneyInv'
  <2> SUFFICES ASSUME JourneyInv, [Next]_vars PROVE JourneyInv'
    OBVIOUS
  <2>1. ASSUME NEW c \in Claims, NEW s \in Parameters, Translate(c, s) PROVE JourneyInv'
    BY <2>1, TranslateStep
  <2>2. ASSUME NEW c \in Claims, Allocate(c) PROVE JourneyInv'
    BY <2>2, AllocateStep
  <2>3. ASSUME NEW c \in Claims, Prepare(c) PROVE JourneyInv'
    BY <2>3, PrepareStep
  <2>4. ASSUME NEW c \in Claims, Inject(c) PROVE JourneyInv'
    BY <2>4, InjectStep
  <2>5. CASE UNCHANGED vars
    BY <2>5 DEF vars, JourneyInv, SpecInv, HandleInv, EnvInv, ContainerInv, Size
  <2> QED
    BY <2>1, <2>2, <2>3, <2>4, <2>5 DEF Next
<1> QED
  BY <1>1, <1>2, PTL DEF Spec

\* A claim gets the devices and the parts that its parameters ask for, however
\* many those are (CountTimesSplit).
THEOREM ClaimsGetWhatTheyAskFor == Spec => []CountTimesSplit
<1>1. JourneyInv => CountTimesSplit
  <2> SUFFICES ASSUME JourneyInv, NEW c \in DOMAIN env
               PROVE  /\ Cardinality(DOMAIN env[c].device) = Count(spec[c]) * Parts(spec[c].split)
                      /\ Cardinality(Devices(c)) = Count(spec[c]) * Parts(spec[c].split)
    BY DEF CountTimesSplit, Count, Parts
  <2> QED
    BY ClaimFacts DEF Size
<1> QED
  BY <1>1, JourneyInductive, PTL

\* However claims are split, no two of them have parts of one device
\* (ClaimsAreDistinct).
THEOREM DevicesAreDistinct == Spec => []ClaimsAreDistinct
<1>1. JourneyInv => ClaimsAreDistinct
  <2> SUFFICES ASSUME JourneyInv, NEW c \in DOMAIN env, NEW d \in DOMAIN env, c # d,
                      NEW x \in Devices(c), NEW y \in Devices(d)
               PROVE  Head(x.path) # Head(y.path)
    BY DEF ClaimsAreDistinct
  <2>1. Head(x.path) \in Positions(handle[c].names)
    BY ClaimFacts, ParentOfPrepared
  <2>2. Head(y.path) \in Positions(handle[d].names)
    BY ClaimFacts, ParentOfPrepared
  <2>3. handle[c].names \cap handle[d].names = {}
    BY ClaimFacts DEF JourneyInv, HandleInv
  <2> QED
    BY <2>1, <2>2, <2>3 DEF Positions
<1> QED
  BY <1>1, JourneyInductive, PTL

\* A container with one claim that has devices is shown these, and nothing else
\* (ClaimAloneIsShown).
THEOREM AClaimAloneIsShown == Spec => []ClaimAloneIsShown
<1>1. JourneyInv => ClaimAloneIsShown
  <2> SUFFICES ASSUME JourneyInv, injected = Claims, NEW c \in Claims,
                      \A d \in Claims \ {c} : Injected(d) = {}
               PROVE  /\ DOMAIN container.device = 0..(Cardinality(Injected(c)) - 1)
                      /\ Shown = Injected(c)
    BY DEF ClaimAloneIsShown
  <2>1. DOMAIN env = Claims
    BY UseAssumption DEF JourneyInv, ContainerInv
  <2>2. \A d \in Claims : Size(d) \in Nat /\ DOMAIN env[d].device = 0..(Size(d) - 1)
    BY <2>1, ClaimFacts
  <2>3. /\ \A d \in Claims : Cardinality(Injected(d)) = Size(d)
        /\ Devices(c) = Injected(c)
    BY <2>1, ClaimFacts DEF Size, Injected
  <2>4. \A d \in Claims \ {c} : Size(d) = 0
    BY <2>3, FS_EmptySet
  <2>5. PICK d \in Claims : /\ \A e \in Claims : Size(e) <= Size(d)
                            /\ DOMAIN container.device = 0..(Size(d) - 1)
    BY UseAssumption DEF JourneyInv, ContainerInv
  <2>6. Size(d) = Size(c)
    BY <2>2, <2>4, <2>5
  <2>7. DOMAIN container.device = 0..(Size(c) - 1)
    BY <2>5, <2>6
  <2>8. ASSUME NEW i \in DOMAIN container.device
        PROVE  container.device[i] = env[c].device[i]
    <3>1. PICK e \in Claims : /\ i \in DOMAIN env[e].device
                              /\ container.device[i] = env[e].device[i]
      BY DEF JourneyInv, ContainerInv
    <3>2. CASE e = c
      BY <3>1, <3>2
    <3>3. CASE e # c
      <4>1. Size(e) = 0 /\ DOMAIN env[e].device = 0..(Size(e) - 1)
        BY <2>2, <2>4, <3>3
      <4> QED
        BY <3>1, <4>1
    <3> QED
      BY <3>2, <3>3
  <2>9. Shown = Devices(c)
    <3>1. DOMAIN env[c].device = DOMAIN container.device
      BY <2>2, <2>7
    <3> QED
      BY <2>8, <3>1 DEF Shown, Devices
  <2> QED
    BY <2>3, <2>7, <2>9
<1> QED
  BY <1>1, JourneyInductive, PTL

\* The model that a container is shown is the one that each of its claims with
\* a device asked for (ModelAsAsked).
THEOREM ModelIsAsAsked == Spec => []ModelAsAsked
<1>1. JourneyInv => ModelAsAsked
  <2> SUFFICES ASSUME JourneyInv, injected = Claims PROVE ModelAsAsked
    BY DEF ModelAsAsked
  <2>1. DOMAIN env = Claims
    BY UseAssumption DEF JourneyInv, ContainerInv
  <2>2. \A c \in Claims : Devices(c) = PreparedFakes(handle[c])
    BY <2>1, ClaimFacts
  <2>3. /\ container.model \subseteq {model}
        /\ container.model = {} <=> \A c \in Claims : Devices(c) = {}
    BY <2>2 DEF JourneyInv, ContainerInv
  <2>4. ASSUME NEW c \in Claims, Devices(c) # {}, spec[c].selector \in Models
        PROVE  container.model = {spec[c].selector}
    <3>1. Count(spec[c]) > 0
      <4>1. Size(c) # 0
        BY <2>1, <2>2, <2>4, ClaimFacts, FS_EmptySet DEF Size
      <4>2. Count(spec[c]) \in Nat
        BY <2>1, RequestsCount DEF JourneyInv, SpecInv, HandleInv, EnvInv
      <4>3. Size(c) = Count(spec[c]) * Parts(spec[c].split) /\ Parts(spec[c].split) \in Int
        BY <2>1, ClaimFacts DEF Parts
      <4> QED
        BY <4>1, <4>2, <4>3
    <3>2. Selector(spec[c]) \in {"true", model}
      BY <2>1, <3>1 DEF JourneyInv, HandleInv, EnvInv
    <3>3. Selector(spec[c]) = spec[c].selector /\ spec[c].selector # "true"
      BY <2>4, ModelsAssumption DEF Selector
    <3> QED
      BY <2>3, <2>4, <3>2, <3>3
  <2> QED
    BY <2>3, <2>4 DEF ModelAsAsked
<1> QED
  BY <1>1, JourneyInductive, PTL
==============================================================================

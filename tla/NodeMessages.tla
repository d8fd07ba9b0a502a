---------------------------- MODULE NodeMessages ---------------------------
(***************************************************************************)
(* The messages of the kubelet's DRA gRPC service as the plugin reads them *)
(* (driver.go), and the devices it hands out for them (state.go, cdi.go).  *)
(***************************************************************************)
EXTENDS FakeDevices, FiniteSets

CONSTANTS
  Claims,       \* claim UIDs
  Handles,      \* the structured resource handles a claim may come with
  MaxBatch      \* bound: claims in one request

\* What a claim of a NodePrepareResources request carries: no handle at all,
\* vendor parameters that do not unmarshal, a result that is no named resource
\* or is shorter than the prefix of a name, or a split and allocated names.
Handle ==
  [kind : {"missing", "malformed", "foreign", "ok"}, split : Int, names : SUBSET Names]
NoHandle == [kind |-> "missing", split |-> 0, names |-> {}]

ASSUME HandleAssumption == Handles \subseteq Handle
ASSUME BatchAssumption  == MaxBatch \in Nat \ {0}

\* Every request of at most MaxBatch claims.  Unprepare reads no handle.
ClaimRequest == [uid : Claims, handle : Handles \cup {NoHandle}]
PrepareRequests ==
  UNION {[1..n -> [uid : Claims, handle : Handles]] : n \in 1..MaxBatch}
UnprepareRequests ==
  UNION {[1..n -> [uid : Claims, handle : {NoHandle}]] : n \in 1..MaxBatch}

\* A CDI device: a fake, or the device "common" that every claim gets.
Common == [prefix |-> "common", path |-> <<>>]
CDIDevices == Fakes \cup {Common}

Answer == [error : BOOLEAN, devices : SUBSET CDIDevices]
Success(devices) == [error |-> FALSE, devices |-> devices]
Failure == [error |-> TRUE, devices |-> {}]

\* prepareDevices: the UUIDs of the allocated names.
RequestedDevices(handle) == {FakeUUID(n) : n \in handle.names}

\* prepareFakes: the parts of every device when the claim splits them.
PreparedFakes(handle) ==
  IF handle.split > 0
  THEN UNION {SplitFakes(d, handle.split) : d \in RequestedDevices(handle)}
  ELSE RequestedDevices(handle)

\* GetClaimDevices: the common device and the claim's own.
ClaimDevices(fakes) == {Common} \cup fakes

\* Go maps are functions on the keys they hold.
IsMap(map, K, V) == DOMAIN map \subseteq K /\ map \in [DOMAIN map -> V]
EmptyMap == [x \in {} |-> x]
Put(map, key, value) ==
  [x \in DOMAIN map \cup {key} |-> IF x = key THEN value ELSE map[x]]
Delete(map, key) == [x \in DOMAIN map \ {key} |-> map[x]]
=============================================================================

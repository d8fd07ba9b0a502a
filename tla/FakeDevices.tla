---------------------------- MODULE FakeDevices ----------------------------
(***************************************************************************)
(* The devices of one node (cmd/fake-dra-kubeletplugin/emulator.go) and    *)
(* the names they go by.                                                   *)
(*                                                                         *)
(* A generated UUID is a function of the seed and of its position: the     *)
(* node's devices are generated from the node name, the parts of a split   *)
(* device from the UUID of the device.  A UUID is therefore identified by  *)
(* the path of positions from the node name to it: <<i>> is the i-th       *)
(* device of the node, <<i, j>> the j-th part of that device.  Two seeds   *)
(* are taken to have different hashes.                                     *)
(***************************************************************************)
EXTENDS Integers, Sequences

CONSTANT PerNodeFakeDevices    \* perNodeFakeDevices, 8 in the code

ASSUME PerNodeAssumption == PerNodeFakeDevices \in Nat \ {0}

\* Every string of the form prefix + UUID; Fakes are the well-formed ones.
Names == [prefix : {"FAKE-", "fake-"}, path : Seq(Nat)]
Fakes == [prefix : {"FAKE-"}, path : Seq(Nat)]

\* generateUUIDs(seed, count), as the set of its elements.
GenerateUUIDs(seed, count) ==
  {[prefix |-> "FAKE-", path |-> Append(seed, i)] : i \in 1..count}

\* enumerateAllPossibleDevices: the keys of the allocatable map.
Allocatable == GenerateUUIDs(<<>>, PerNodeFakeDevices)

\* strings.ToLower(device.uuid), the instance name that is advertised: only
\* the prefix has capitals, the rest is lower-case hexadecimal.
AdvertisedName(uuid) == [uuid EXCEPT !.prefix = "fake-"]

\* Mutant: the parts go by the names the scheduler would know them by.
SplitFakesLowerCase(parent, split) ==
  {AdvertisedName(u) : u \in GenerateUUIDs(parent.path, split)}

\* Mutant: the parts are not seeded by their parent.
SplitFakesUnseeded(parent, split) == GenerateUUIDs(<<PerNodeFakeDevices + 1>>, split)

\* enumerateSplittedFakeDevices, seeded by the UUID of the parent.
SplitFakes(parent, split) == GenerateUUIDs(parent.path, split)

\* Mutant: the name is taken as it is.
FakeUUIDAsAdvertised(name) == name

\* fakeDevicePrefix + name[fakeDevicePrefixLength:], the way back.
FakeUUID(name) == [name EXCEPT !.prefix = "FAKE-"]
=============================================================================

-------------------------- MODULE MCKubeletPlugin --------------------------
(***************************************************************************)
(* Instances of KubeletPlugin for TLC: a node with two devices, two claims *)
(* and handles that ask for a whole device, for the same device split in   *)
(* two, for both devices (a negative split is no split), for a device that *)
(* the node does not have, and for nothing that can be understood, which   *)
(* is refused or ends the process.                                         *)
(***************************************************************************)
EXTENDS KubeletPlugin, TLC

Advertised(i) == AdvertisedName([prefix |-> "FAKE-", path |-> <<i>>])
Ok(split, names) == [kind |-> "ok", split |-> split, names |-> names]

Split     == Ok(2, {Advertised(1)})
Both      == Ok(-1, {Advertised(1), Advertised(2)})
Unknown   == Ok(0, {Advertised(2), Advertised(3)})
Malformed == [kind |-> "malformed", split |-> 0, names |-> {}]
Foreign   == [kind |-> "foreign", split |-> 0, names |-> {}]

AllHandles     == {Split, Both, Unknown, Malformed, Foreign}
UnknownHandles == {Split, Unknown, NoHandle}

Symmetry == Permutations(Calls) \cup Permutations(Claims)
=============================================================================

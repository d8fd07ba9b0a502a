---------------------------- MODULE MCNodeSystem ----------------------------
(***************************************************************************)
(* Instances of NodeSystem for TLC: claims compete for the devices of the  *)
(* node; one handle splits the first device, one takes the second whole.   *)
(***************************************************************************)
EXTENDS NodeSystem

Advertised(i) == AdvertisedName([prefix |-> "FAKE-", path |-> <<i>>])
Ok(split, names) == [kind |-> "ok", split |-> split, names |-> names]

Contended == {Ok(2, {Advertised(1)}), Ok(0, {Advertised(2)})}
=============================================================================

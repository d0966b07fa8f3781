--------------------------- MODULE MCAddressPool ---------------------------
(***************************************************************************)
(* Instances of AddressPool for TLC.                                       *)
(***************************************************************************)
EXTENDS AddressPool, TLC

\* A pool of two addresses, which fills up, and one that begins at its end.
LeaseRanges == {<<1, 2>>}
OverlappingRanges == {<<1, 2>>, <<2, 2>>}

Symmetry == Permutations(Conns) \cup Permutations(Ids)
====

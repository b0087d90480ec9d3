---------------------------- MODULE MCHostAlloc ----------------------------
(***************************************************************************)
(* Small machines for HostAlloc: pages of 4 bytes, 4-bit words, the VMM's  *)
(* memory in pages 1 to 12 with its bitmap at page 2.                      *)
(***************************************************************************)
EXTENDS HostAlloc, HostAllocRefinement

Ram(a, s) == [addr |-> a, size |-> s, ram |-> TRUE]
Reserved(a, s) == [addr |-> a, size |-> s, ram |-> FALSE]

(* RAM that ends below, inside and above the VMM's memory; a hole in the   *)
(* heap, regions that do not start or end on a page, one after the other,  *)
(* overlapping, too small for a page; no RAM at all; too many regions.     *)
SmallMaps ==
    { <<Ram(0, 8)>>, <<Ram(0, 32)>>, <<Ram(0, 45)>>, <<Ram(0, 64)>>,
      <<Ram(0, 30), Ram(30, 30)>>,
      <<Ram(0, 26), Reserved(26, 5), Ram(31, 33)>>,
      <<Ram(0, 40), Ram(24, 40)>>,
      <<Ram(17, 6), Ram(33, 3), Ram(36, 20)>>,
      <<Reserved(0, 64)>>,
      <<Ram(0, 9), Ram(9, 1), Ram(10, 30), Reserved(40, 3)>> }

SmallRequests == {<<1, 1>>, <<2, 1>>, <<3, 1>>, <<2, 2>>}
=============================================================================

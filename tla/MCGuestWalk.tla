---------------------------- MODULE MCGuestWalk ----------------------------
(***************************************************************************)
(* A guest with a directory of 4 entries in frame 0, page tables in frames *)
(* 1 and 2, and all its memory in the lower half of the physical space,    *)
(* which is what the nested page table maps.                               *)
(***************************************************************************)
EXTENDS GuestWalk

Present(b) == [p |-> TRUE, ps |-> FALSE, base |-> b]
Large(b) == [p |-> TRUE, ps |-> TRUE, base |-> b]

(* Absent entries with and without a stale page size bit and base; 4 KB    *)
(* entries; 4 MB entries, one with a bit set below its base.               *)
SmallEntries ==
    { Absent, [p |-> FALSE, ps |-> TRUE, base |-> 1], [p |-> FALSE, ps |-> FALSE, base |-> 1],
      Present(1), Present(2), Large(2), Large(1) }

SmallSlots == {<<0, 0>>, <<0, 3>>, <<1, 0>>, <<1, 1>>, <<2, 0>>}

Bases == [a \in 0 .. Space - 1 |-> IF a = 4 THEN 9 ELSE a % 3]
=============================================================================

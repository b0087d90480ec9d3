--------------------------- MODULE PageAllocator ---------------------------
(***************************************************************************)
(* What the page allocator promises its callers: a pool of free pages is   *)
(* fixed when the machine boots; a request takes a run of pages out of the *)
(* pool for good, or stops the machine.  How the pool is represented and   *)
(* which run is taken is left open.                                        *)
(***************************************************************************)
EXTENDS Integers

CONSTANT Requests

VARIABLES up, free, granted

Run(first, nr) == first .. first + nr - 1

Init == up = "boot" /\ free = {} /\ granted = {}

Boot == up = "boot" /\ up' = "yes" /\ free' \in SUBSET Nat /\ UNCHANGED granted

Grant(nr, align) ==
    /\ up = "yes"
    /\ \E first \in free :
          /\ first % align = 0 /\ Run(first, nr) \subseteq free
          /\ free' = free \ Run(first, nr)
          /\ granted' = granted \cup {<<first, nr>>}
    /\ UNCHANGED up

Stop == up' = "no" /\ free' = {} /\ UNCHANGED granted

Next == Boot \/ (\E r \in Requests : Grant(r[1], r[2])) \/ Stop

Spec == Init /\ [][Next]_<<up, free, granted>>
=============================================================================

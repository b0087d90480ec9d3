------------------------ MODULE HostAllocRefinement ------------------------
(***************************************************************************)
(* HostAlloc implements PageAllocator: the pool is the set of pages whose  *)
(* bit is clear, from the moment the bitmap is built.                      *)
(***************************************************************************)
EXTENDS HostAlloc

FreePages == {p \in 0 .. max_page - 1 : ~allocated_in_map(tbl, p)}

Abstract == INSTANCE PageAllocator WITH
    up <- CASE phase = "ready" -> "yes" [] phase = "failed" -> "no" [] OTHER -> "boot",
    free <- IF phase = "ready" THEN FreePages ELSE {}

(* Every grant of the bitmap allocator takes an aligned run of free pages  *)
(* and nothing else leaves the pool.                                       *)
ImplementsPageAllocator == Abstract!Spec
=============================================================================

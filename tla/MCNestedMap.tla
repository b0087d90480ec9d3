---------------------------- MODULE MCNestedMap ----------------------------
(* A machine with 2 MB pages of 4 units and tables of 3 entries.  The      *)
(* layouts start and end on and off a page boundary, below, across and     *)
(* after the pages of the loop.                                            *)
EXTENDS NestedMap

SmallLayouts == {0, 8, 10, 15, 36, 70} \X {1, 4, 6, 8, 13}
=============================================================================

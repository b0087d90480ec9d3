---------------------------- MODULE MCIntercept ----------------------------
(***************************************************************************)
(* Instances of Intercept for TLC: the sets a .cfg cannot write.           *)
(***************************************************************************)
EXTENDS Intercept

CONSTANTS t1, t2, mm1, mm2, f1

(* Two processes.                                                          *)
OwnMm == [t \in {t1, t2} |-> IF t = t1 THEN mm1 ELSE mm2]

(* mavmm-u sends one flag at a time.                                       *)
SyscallRequests == {{"TASKSWITCH"}, {"SYSCALL"}, {"SWINT"}}
UnpackRequests == {{"TASKSWITCH"}, {"UNPACK"}, {"STEP"}}

(* open returns a descriptor or an error.                                  *)
OpenResults == {3, -2}
=============================================================================

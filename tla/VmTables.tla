------------------------------ MODULE VmTables ------------------------------
(***************************************************************************)
(* The tables of struct vm_info that the trap handlers keep in a host      *)
(* page each (kernel/vm.c): fmap, from the id of an opened file to its     *)
(* name, and syscallmap, from a thread to the system call it waits on.     *)
(* Both are arrays with a count; here they are sequences of records, the   *)
(* count being their length.  Nothing ever removes an entry of fmap, and   *)
(* what is looked up in it is only printed.  ptracked is the list of the   *)
(* process names to be tracked.                                            *)
(***************************************************************************)
EXTENDS Naturals, Sequences, SequencesExt

NULL == "NULL"

(* vm_add_fileid2name_map and vm_add_waiting_thread store at index count   *)
(* and increment the count: no search for the key, no test of the room.    *)
vm_add_fileid2name_map(map, id, name) == Append(map, [fid |-> id, fname |-> name])

(* Faulty: the two fields of the entry are exchanged.                      *)
Fault_add_swapped(map, tid, no) == Append(map, [tid |-> no, syscallno |-> tid])

vm_add_waiting_thread(map, tid, no) == Append(map, [tid |-> tid, syscallno |-> no])

(* The lookup returns the entry found first.                               *)
vm_get_waiting_syscall(map, tid) ==
    LET i == SelectInSeq(map, LAMBDA e : e.tid = tid)
    IN  IF i = 0 THEN NULL ELSE map[i].syscallno

(* Faulty: the count is not decremented, so nothing is removed.            *)
Fault_remove_nothing(map, tid) == map

(* Removal scans the array once, index i going up on every round.  A match *)
(* moves the entries above it down by one, yet i still moves on, so the    *)
(* entry that took its place is not looked at.  After[i] is the table once *)
(* the first i rounds are done.                                            *)
vm_remove_waiting_thread(map, tid) ==
    LET After[i \in 0 .. Len(map)] ==
            IF i = 0 THEN map
            ELSE LET m == After[i - 1]
                 IN  IF i <= Len(m) /\ m[i].tid = tid THEN RemoveAt(m, i) ELSE m
    IN  After[Len(map)]

(* The list of tracked names: the scan stops at the first match.           *)
vm_remove_tracked_process(names, pname) ==
    LET i == SelectInSeq(names, LAMBDA n : n = pname)
    IN  IF i = 0 THEN names ELSE RemoveAt(names, i)

(* vm_is_process_tracked returns 1 before it reads the list.               *)
vm_is_process_tracked(names, pname) == TRUE

vm_add_tracked_process(names, pname) ==
    IF vm_is_process_tracked(names, pname) THEN names ELSE Append(names, pname)
=============================================================================

---------------------------- MODULE SectorCache ----------------------------
(***************************************************************************)
(* The one-sector cache under the FAT32 driver of hostfs/fat32.c: the      *)
(* buffer of tf_info, the number of the sector it holds and its dirty      *)
(* flag, in front of a disk that the driver reaches through read_sector    *)
(* and write_sector.  The two are stubs in the repository ("USERLAND"),    *)
(* so the disk is external: it keeps what is written, and a request for a  *)
(* sector that is bad, or past the end, fails and changes nothing.         *)
(*                                                                         *)
(* A cache is a record, and the operations are functions from caches to    *)
(* caches; rc is the return code of the last one.  A sector is a sequence  *)
(* of cells, a cell being one directory entry, one FAT entry or one byte   *)
(* of a file.                                                              *)
(***************************************************************************)
EXTENDS Integers, Sequences

CONSTANTS
    SectorCells,   \* cells in a sector (512 bytes)
    LastSector,    \* highest sector number of the disk
    Cell,          \* what a cell can hold
    NoSector       \* currentSector before anything was fetched (-1)

Sectors == 0 .. LastSector
Contents == [0 .. SectorCells - 1 -> Cell]

ASSUME CacheAssumption ==
    /\ SectorCells \in Nat \ {0}
    /\ LastSector \in Nat
    /\ NoSector \in Int \ Sectors

(* read_sector and write_sector.                                           *)
Fails(c, k) == k \in c.bad \/ k \notin Sectors
read_sector(c, k) == IF Fails(c, k) THEN c.buffer ELSE c.disk[k]
write_sector(c, k) == IF Fails(c, k) THEN c.disk ELSE [c.disk EXCEPT ![k] = c.buffer]

(* The flag is cleared before the outcome of the write is known.           *)
tf_store(c) ==
    [c EXCEPT !.dirty = FALSE,
              !.disk = write_sector(c, c.currentSector),
              !.rc = IF Fails(c, c.currentSector) THEN 1 ELSE 0,
              !.failed = @ \/ Fails(c, c.currentSector)]

(* The buffer of s becomes sector k, whose number is remembered only if    *)
(* all went well.                                                          *)
Refill(s, k) ==
    [s EXCEPT !.buffer = read_sector(s, k),
              !.currentSector = IF s.rc = 0 /\ ~Fails(s, k) THEN k ELSE @,
              !.rc = IF s.rc = 0 /\ ~Fails(s, k) THEN 0 ELSE 1,
              !.failed = @ \/ Fails(s, k)]

(* Mutant: a miss does not write a dirty buffer back.                      *)
FetchForgets(c, k) ==
    IF k = c.currentSector THEN [c EXCEPT !.rc = 0]
    ELSE Refill([c EXCEPT !.rc = 0, !.dirty = FALSE], k)

(* A hit costs nothing; a miss writes a dirty buffer back before it reads. *)
tf_fetch(c, k) ==
    IF k = c.currentSector THEN [c EXCEPT !.rc = 0]
    ELSE Refill(IF c.dirty THEN tf_store(c) ELSE [c EXCEPT !.rc = 0], k)

(* What a reader that fetches sector k is given.                           *)
View(c, k) == IF k = c.currentSector THEN c.buffer ELSE c.disk[k]
=============================================================================

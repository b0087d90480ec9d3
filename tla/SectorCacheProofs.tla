------------------------- MODULE SectorCacheProofs -------------------------
(***************************************************************************)
(* Proofs about the one-sector cache of hostfs: the operations under the   *)
(* invariant CacheCoherent of Fat32, for sectors of any size and disks of  *)
(* any length.  Fat32 itself is beyond the prover, because its loops are   *)
(* RECURSIVE operators; what they do to the cache is a sequence of the     *)
(* steps below.                                                            *)
(***************************************************************************)
EXTENDS SectorCache, TLAPS

Caches ==
    [disk : [Sectors -> Contents], buffer : Contents, currentSector : Sectors \cup {NoSector},
     dirty : BOOLEAN, bad : SUBSET Sectors, rc : {0, 1}, failed : BOOLEAN]

(* The conjunct of CacheCoherent for the sectors S: a reader sees image,   *)
(* and a buffer that is not dirty holds nothing the disk does not.         *)
Coherent(c, image, S) ==
    \A k \in S : View(c, k) = image[k] /\ (~c.dirty => c.disk[k] = image[k])

(* A cell of the buffer is written, as tf_fwrite does after its fetch.     *)
Written(c, i, v) == [c EXCEPT !.buffer[i] = v, !.dirty = TRUE]

(* A cell is written and the buffer not marked, as in tf_set_fat_entry.    *)
Unmarked(c, i, v) == [c EXCEPT !.buffer[i] = v]

(* tf_store gives a cache, with the same buffer.                           *)
LEMMA StoreType ==
    ASSUME NEW c \in Caches
    PROVE  /\ tf_store(c) \in Caches
           /\ tf_store(c).buffer = c.buffer /\ tf_store(c).currentSector = c.currentSector
           /\ tf_store(c).bad = c.bad /\ ~tf_store(c).dirty
           /\ tf_store(c).failed <=> (c.failed \/ Fails(c, c.currentSector))
           /\ tf_store(c).rc = IF Fails(c, c.currentSector) THEN 1 ELSE 0
           /\ tf_store(c).disk = write_sector(c, c.currentSector)
  <1>1. write_sector(c, c.currentSector) \in [Sectors -> Contents]
    BY DEF write_sector, Caches, Fails
  <1>2. Fails(c, c.currentSector) \in BOOLEAN
    BY DEF Fails
  <1> QED BY <1>1, <1>2 DEF tf_store, Caches

(* What refilling the buffer of a cache leaves.                            *)
LEMMA RefillType ==
    ASSUME NEW s \in Caches, NEW k \in Int
    PROVE  /\ Refill(s, k) \in Caches
           /\ Refill(s, k).disk = s.disk /\ Refill(s, k).dirty = s.dirty
           /\ Refill(s, k).buffer = read_sector(s, k)
           /\ Refill(s, k).currentSector = IF s.rc = 0 /\ ~Fails(s, k) THEN k ELSE s.currentSector
           /\ Refill(s, k).rc = IF s.rc = 0 /\ ~Fails(s, k) THEN 0 ELSE 1
           /\ Refill(s, k).failed <=> (s.failed \/ Fails(s, k))
  <1>1. read_sector(s, k) \in Contents
    BY DEF read_sector, Caches, Fails
  <1>2. Fails(s, k) \in BOOLEAN
    BY DEF Fails
  <1>3. s.rc = 0 /\ ~Fails(s, k) => k \in Sectors
    BY DEF Fails
  <1> QED BY <1>1, <1>2, <1>3 DEF Refill, Caches

(* tf_store, called by tf_fflush and by a miss: if the disk does not       *)
(* refuse, the disk itself holds what a reader saw, for every sector.      *)
THEOREM StoreSaves ==
    ASSUME NEW c \in Caches, NEW image, NEW S \in SUBSET Sectors,
           Coherent(c, image, S), ~tf_store(c).failed
    PROVE  /\ Coherent(tf_store(c), image, S)
           /\ \A k \in S : tf_store(c).disk[k] = image[k]
  <1>1. ~Fails(c, c.currentSector)
    BY StoreType
  <1>2. tf_store(c).disk = [c.disk EXCEPT ![c.currentSector] = c.buffer]
    BY <1>1, StoreType DEF write_sector
  <1>3. c.disk \in [Sectors -> Contents] /\ c.currentSector \in Sectors
    BY <1>1 DEF Caches, Fails
  <1>4. \A k \in S : tf_store(c).disk[k] = View(c, k)
    BY <1>2, <1>3 DEF View
  <1>5. \A k \in S : tf_store(c).disk[k] = image[k]
    BY <1>4 DEF Coherent
  <1>6. \A k \in S : View(tf_store(c), k) = View(c, k)
    BY <1>4, StoreType DEF View
  <1> QED BY <1>5, <1>6 DEF Coherent

(* tf_fetch, hit or miss, whatever the buffer held and whether or not it   *)
(* had to be written back: if the disk refuses neither the write nor the   *)
(* read, every sector of S still reads as before, the buffer is the sector *)
(* asked for and the return code says so; if it refuses one of them, the   *)
(* return code tells.                                                      *)
THEOREM FetchKeepsViews ==
    ASSUME NEW c \in Caches, NEW k \in Int, NEW image, NEW S \in SUBSET Sectors,
           Coherent(c, image, S), ~c.failed
    PROVE  /\ tf_fetch(c, k) \in Caches
           /\ tf_fetch(c, k).failed <=> tf_fetch(c, k).rc # 0
           /\ ~tf_fetch(c, k).failed =>
                 /\ Coherent(tf_fetch(c, k), image, S)
                 /\ tf_fetch(c, k).currentSector = k
                 /\ k \in S => tf_fetch(c, k).buffer = image[k]
  <1>1. CASE k = c.currentSector
    <2>1. tf_fetch(c, k) = [c EXCEPT !.rc = 0]
      BY <1>1 DEF tf_fetch
    <2>2. /\ tf_fetch(c, k) \in Caches /\ tf_fetch(c, k).rc = 0 /\ tf_fetch(c, k).failed = c.failed
          /\ tf_fetch(c, k).disk = c.disk /\ tf_fetch(c, k).buffer = c.buffer
          /\ tf_fetch(c, k).currentSector = c.currentSector /\ tf_fetch(c, k).dirty = c.dirty
      BY <2>1 DEF Caches
    <2>3. Coherent(tf_fetch(c, k), image, S)
      BY <2>2 DEF Coherent, View
    <2>4. k \in S => tf_fetch(c, k).buffer = image[k]
      BY <1>1, <2>2 DEF Coherent, View
    <2> QED BY <1>1, <2>2, <2>3, <2>4
  <1>2. CASE k # c.currentSector
    <2> DEFINE s == IF c.dirty THEN tf_store(c) ELSE [c EXCEPT !.rc = 0]
    <2>1. tf_fetch(c, k) = Refill(s, k)
      BY <1>2 DEF tf_fetch
    <2>2. s \in Caches /\ (s.failed <=> s.rc # 0) /\ ~s.dirty
          /\ s.currentSector = c.currentSector /\ s.buffer = c.buffer
      <3>1. CASE c.dirty
        BY <3>1, StoreType
      <3>2. CASE ~c.dirty
        BY <3>2 DEF Caches
      <3> QED BY <3>1, <3>2
    <2>3. ~s.failed => Coherent(s, image, S)
      <3>1. CASE c.dirty
        BY <3>1, StoreSaves
      <3>2. CASE ~c.dirty
        <4>1. s.disk = c.disk /\ s.dirty = c.dirty
          BY <3>2 DEF Caches
        <4> QED BY <4>1, <2>2 DEF Coherent, View
      <3> QED BY <3>1, <3>2
    <2> HIDE DEF s
    <2> DEFINE r == Refill(s, k)
    <2>4. r \in Caches /\ (r.failed <=> r.rc # 0)
      <3>1. r \in Caches
        BY <2>2, RefillType
      <3>2. r.failed <=> (s.failed \/ Fails(s, k))
        BY <2>2, RefillType
      <3>3. r.rc = IF s.rc = 0 /\ ~Fails(s, k) THEN 0 ELSE 1
        BY <2>2, RefillType
      <3>4. r.rc # 0 <=> (s.rc # 0 \/ Fails(s, k))
        BY <3>3
      <3> QED BY <2>2, <3>1, <3>2, <3>4
    <2>5. ASSUME ~r.failed
          PROVE  Coherent(r, image, S) /\ r.currentSector = k /\ (k \in S => r.buffer = image[k])
      <3>1. ~s.failed /\ s.rc = 0 /\ ~Fails(s, k)
        BY <2>2, <2>5, RefillType
      <3>2. r.disk = s.disk /\ ~r.dirty /\ r.currentSector = k /\ r.buffer = s.disk[k]
        BY <2>2, <3>1, RefillType DEF read_sector
      <3>3. \A j \in S : s.disk[j] = image[j]
        BY <2>2, <2>3, <3>1 DEF Coherent
      <3> HIDE DEF r
      <3> QED BY <3>2, <3>3 DEF Coherent, View
    <2> QED BY <2>1, <2>4, <2>5
  <1> QED BY <1>1, <1>2

(* A cell written into the buffer of the current sector, which is marked   *)
(* dirty (the loop of tf_fwrite), changes that cell of what a reader sees, *)
(* and nothing else.                                                       *)
THEOREM WriteSeen ==
    ASSUME NEW c \in Caches, NEW image \in [Sectors -> Contents], NEW S \in SUBSET Sectors,
           NEW i \in 0 .. SectorCells - 1, NEW v \in Cell,
           Coherent(c, image, S), c.currentSector \in S
    PROVE  /\ Written(c, i, v) \in Caches
           /\ Coherent(Written(c, i, v), [image EXCEPT ![c.currentSector][i] = v], S)
  <1> DEFINE w == Written(c, i, v)
             m == c.currentSector
  <1>1. c.buffer \in Contents /\ [c.buffer EXCEPT ![i] = v] \in Contents
    BY DEF Caches, Contents
  <1>2. /\ w \in Caches /\ w.buffer = [c.buffer EXCEPT ![i] = v] /\ w.dirty
        /\ w.disk = c.disk /\ w.currentSector = m
    BY <1>1 DEF Written, Caches
  <1>3. m \in Sectors /\ image[m] = c.buffer
    BY DEF Coherent, View
  <1>4. [image EXCEPT ![m][i] = v][m] = [c.buffer EXCEPT ![i] = v]
    BY <1>3
  <1>5. \A k \in S : k # m => [image EXCEPT ![m][i] = v][k] = image[k]
    OBVIOUS
  <1>6. \A k \in S : View(w, k) = [image EXCEPT ![m][i] = v][k]
    <2> SUFFICES ASSUME NEW k \in S PROVE View(w, k) = [image EXCEPT ![m][i] = v][k]
      OBVIOUS
    <2>1. CASE k = m
      BY <2>1, <1>2, <1>4 DEF View
    <2>2. CASE k # m
      BY <2>2, <1>2, <1>5 DEF View, Coherent
    <2> QED BY <2>1, <2>2
  <1> QED BY <1>2, <1>6 DEF Coherent

(* A cell written without the mark (tf_set_fat_entry) is seen by no reader *)
(* of another sector, and is lost if the buffer is not dirty: the next     *)
(* fetch of another sector that succeeds leaves the disk as it was.        *)
THEOREM UnmarkedIsLost ==
    ASSUME NEW c \in Caches, NEW image, NEW S \in SUBSET Sectors, NEW k \in Int,
           NEW i \in 0 .. SectorCells - 1, NEW v \in Cell,
           Coherent(c, image, S), c.currentSector \notin S
    PROVE  /\ Unmarked(c, i, v) \in Caches
           /\ Coherent(Unmarked(c, i, v), image, S)
           /\ ~c.dirty /\ k # c.currentSector => tf_fetch(Unmarked(c, i, v), k).disk = c.disk
  <1> DEFINE w == Unmarked(c, i, v)
  <1>1. c.buffer \in Contents /\ [c.buffer EXCEPT ![i] = v] \in Contents
    BY DEF Caches, Contents
  <1>2. /\ w \in Caches /\ w.dirty = c.dirty /\ w.disk = c.disk
        /\ w.currentSector = c.currentSector
    BY <1>1 DEF Unmarked, Caches
  <1>3. Coherent(w, image, S)
    BY <1>2 DEF Coherent, View
  <1>4. ASSUME ~c.dirty, k # c.currentSector PROVE tf_fetch(w, k).disk = c.disk
    <2>1. tf_fetch(w, k) = Refill([w EXCEPT !.rc = 0], k)
      BY <1>2, <1>4 DEF tf_fetch
    <2>2. [w EXCEPT !.rc = 0] \in Caches /\ [w EXCEPT !.rc = 0].disk = w.disk
      BY <1>2 DEF Caches
    <2> QED BY <1>2, <2>1, <2>2, RefillType
  <1> QED BY <1>2, <1>3, <1>4
=============================================================================

------------------------------- MODULE Fat32 -------------------------------
(***************************************************************************)
(* The FAT32 driver of hostfs/fat32.c on the sector cache of SectorCache,  *)
(* used by one caller that opens, reads, writes, seeks, closes and removes *)
(* files while sectors of the disk may stop and resume answering.          *)
(*                                                                         *)
(* The driver is sequential: a call is one action, made of the functions   *)
(* of fat32.c as operators from driver states to driver states.  A state   *)
(* is a record: the cache (disk, buffer, currentSector, dirty, bad, rc,    *)
(* failed), the handles fh, the result ret and the cell val of the last    *)
(* operation, and how a call can fail to return: crash (a NULL handle is   *)
(* used) and hang (a directory search that never meets a terminator).  Two *)
(* fields are history: image, the disk as the writes of the driver would   *)
(* leave it without a cache, and beyond, whether a position ever left the  *)
(* first cluster of its file.                                              *)
(*                                                                         *)
(* Positions count cells.  A path is the sequence of its names; a name is  *)
(* known by its 13-character segments and by its 8.3 spelling.  The modes  *)
(* that decide nothing in the code (mode bits, ROOT flag) are left out, so *)
(* is currentByte, which is pos modulo the cluster size.                   *)
(***************************************************************************)
EXTENDS SectorCache, FiniteSets

CONSTANTS
    Names,             \* file names
    Segments,          \* Segments[n]: the long-name segments of n, in order
    Shorter,           \* <<a, b>>: segment a is a proper prefix of segment b
    ShortOf,           \* ShortOf[n]: tf_shorten_filename(n), as the text compared
    Paths,             \* paths the caller uses
    Reads,             \* numbers of bytes the caller reads
    Positions,         \* positions it seeks to
    TF_FILE_HANDLES,   \* handles of the driver (4)
    MinClusters,       \* clusters that make a disk FAT32 (65525)
    DirSize,           \* size given to a directory handle (0xffffffff)
    Formats,           \* contents of the boot sector, with the directories on the disk
    FormattedDisk,     \* the disk when it is mounted
    Layouts,           \* whether the compiler packs the entries: the Makefile does not ask
    Failing,           \* sectors that can stop answering
    MaxCalls,          \* bound: calls the caller makes
    MaxWrite           \* bound: bytes of one write

VARIABLES
    fs,       \* the driver and its disk
    format,   \* what tf_init read from the boot sector
    phase,    \* "off", "mounted" or "refused"
    held,     \* handles the caller has opened and not closed
    len,      \* len[p]: bytes in file p, as its caller counts; 0 for no file
    gone,     \* files removed at some time
    calls     \* number of calls so far

vars == <<fs, format, phase, held, len, gone, calls>>

Zero == [kind |-> "zero"]
Lfn(seq, text) == [kind |-> "lfn", seq |-> seq, text |-> text]
Entry(short, cluster, size, dir) ==
    [kind |-> "file", short |-> short, cluster |-> cluster, size |-> size, dir |-> dir]
FatEntry(v) == [kind |-> "fat", v |-> v]
Byte(v) == [kind |-> "byte", v |-> v]
EOC == -8

(* A free handle; the fields of a closed one are never read.               *)
Free == [open |-> FALSE, dirty |-> FALSE, sizechanged |-> FALSE, dir |-> FALSE, start |-> 0,
         cluster |-> 0, cidx |-> 0, pos |-> 0, size |-> 0, path |-> <<>>]

(* ------------------------- geometry and the FAT ------------------------ *)
ClusterCells == format.SectorsPerCluster * SectorCells
root_dir_sectors(f) == (f.RootEntryCount + SectorCells - 1) \div SectorCells
firstDataSector == format.ReservedSectorCount + format.NumFATs * format.FATSize
                   + root_dir_sectors(format)
cluster_count(f) ==
    (f.TotalSectors - (f.ReservedSectorCount + f.NumFATs * f.FATSize + root_dir_sectors(f)))
        \div f.SectorsPerCluster

tf_first_sector(cluster) == (cluster - 2) * format.SectorsPerCluster + firstDataSector
FatSector(cluster) == format.ReservedSectorCount + cluster \div SectorCells
DataSectors == firstDataSector .. LastSector

(* It returns what the fetch returns, not the entry.                       *)
ReturnCode(t) == [t EXCEPT !.ret = t.rc]
tf_get_fat_entry(s, cluster) == ReturnCode(tf_fetch(s, FatSector(cluster)))

(* The sector is changed in the buffer and not marked dirty.               *)
tf_set_fat_entry(s, cluster, value) ==
    [tf_fetch(s, FatSector(cluster)) EXCEPT !.buffer[cluster % SectorCells] = FatEntry(value)]

(* The first number, from firstDataSector on, whose entry reads as 0.      *)
RECURSIVE FreeFrom(_, _)
FreeAt(t, i) == IF t.ret = 0 THEN [t EXCEPT !.ret = i] ELSE FreeFrom(t, i + 1)
FreeFrom(s, i) ==
    IF i >= format.TotalSectors THEN [s EXCEPT !.ret = i] ELSE FreeAt(tf_get_fat_entry(s, i), i)
tf_find_free_cluster(s) == FreeFrom(s, firstDataSector)

(* ------------------------------ positions ------------------------------ *)
(* n clusters forward along the chain of handle h; a zero entry gets a new *)
(* cluster linked in, and the handle stays where it is.                    *)
RECURSIVE FollowChain(_, _, _)
LinkNew(u, c) == tf_set_fat_entry(tf_set_fat_entry(u, c, u.ret), u.ret, EOC)
FollowEntry(t, h, n) ==
    FollowChain(IF t.ret # 0 THEN [t EXCEPT !.fh[h].cluster = t.ret]
                ELSE LinkNew(tf_find_free_cluster(t), t.fh[h].cluster), h, n)
FollowChain(s, h, n) ==
    IF n = 0 THEN [s EXCEPT !.ret = 0]
    ELSE FollowEntry(tf_get_fat_entry(s, s.fh[h].cluster), h, n - 1)

(* ret is 0 or TF_ERR_INVALID_SEEK.  One past the end grows the file.  The *)
(* position is a long and the callers of src only go back over entries     *)
(* that they have read, so it is never below 0.                            *)
tf_unsafe_fseek(s, h, pos) ==
    LET f == s.fh[h]
        g == IF pos = f.size THEN [f EXCEPT !.size = @ + 1, !.sizechanged = TRUE] ELSE f
        idx == pos \div ClusterCells
    IN IF pos > f.size THEN [s EXCEPT !.ret = 1]
       ELSE [FollowChain(IF idx = f.cidx THEN [s EXCEPT !.fh[h] = g]
                         ELSE [s EXCEPT !.fh[h] = [g EXCEPT !.cidx = idx, !.cluster = f.start],
                                        !.beyond = @ \/ idx > 0],
                         h, IF idx = f.cidx THEN 0 ELSE idx)
             EXCEPT !.fh[h].pos = pos]

tf_fseek(s, h, pos) ==
    IF pos >= s.fh[h].size THEN [s EXCEPT !.ret = 1] ELSE tf_unsafe_fseek(s, h, pos)

Where(f) == tf_first_sector(f.cluster) + (f.pos % ClusterCells) \div SectorCells
Offset(f) == (f.pos % ClusterCells) % SectorCells

(* One turn of the loops of tf_fread and tf_fwrite.                        *)
TakeCell(t, h) ==
    tf_fseek([t EXCEPT !.val = t.buffer[Offset(t.fh[h])]], h, t.fh[h].pos + 1)
ReadCell(s, h) == TakeCell(tf_fetch(s, Where(s.fh[h])), h)

WriteCell(s, h, v) ==
    LET f == s.fh[h]
        k == Where(f)
    IN tf_unsafe_fseek([tf_fetch(s, k) EXCEPT
                            !.fh[h].dirty = TRUE,
                            !.buffer[Offset(f)] = v,
                            !.dirty = TRUE,
                            !.image = IF k \in Sectors THEN [@ EXCEPT ![k][Offset(f)] = v] ELSE @],
                       h, f.pos + 1)

RECURSIVE tf_fread(_, _, _)
ReadRest(t, h, n) == IF t.ret # 0 THEN [t EXCEPT !.ret = -1] ELSE tf_fread(t, h, n)
tf_fread(s, h, n) == IF n = 0 THEN [s EXCEPT !.ret = 0] ELSE ReadRest(ReadCell(s, h), h, n - 1)

RECURSIVE tf_fwrite(_, _, _)
WriteRest(t, h, q) == IF t.ret # 0 THEN [t EXCEPT !.ret = -1] ELSE tf_fwrite(t, h, q)
tf_fwrite(s, h, q) ==
    IF q = <<>> THEN [s EXCEPT !.ret = 0] ELSE WriteRest(WriteCell(s, h, Head(q)), h, Tail(q))

Skip(s, h, n) == tf_fseek(s, h, s.fh[h].pos + n)
(* ------------------------------ directories ---------------------------- *)
(* In the unpacked layout the attribute of a long-name entry is written at *)
(* byte 12 and looked for at byte 11: the entry passes for an 8.3 one.     *)
IsLongName(e) == format.packed /\ e.kind = "lfn"

(* tf_compare_filename_segment: segment i of the name against an entry.    *)
(* The comparison of a long-name segment stops at the end of the name, and *)
(* an 8.3 entry, whose text always has a dot, equals no name that another  *)
(* follows in the path.                                                    *)
SegmentMatches(e, name, i, isLast) ==
    \/ /\ e.kind = "file" /\ isLast /\ i = 1
       /\ e.short = name
    \/ /\ IsLongName(e) /\ i <= Len(Segments[name])
       /\ \/ Segments[name][i] = e.text
          \/ i = Len(Segments[name]) /\ <<Segments[name][i], e.text>> \in Shorter

(* The chain of n long-name entries is compared from its last entry, which *)
(* is the one before the position, backwards.  ret 1: the position is the  *)
(* entry after the chain; ret 0: it is n - i - 1 past the entry compared.  *)
RECURSIVE MatchChain(_, _, _, _, _, _)
MatchEntry(t, h, name, n, i, isLast) ==
    IF SegmentMatches(t.val, name, i + 1, isLast)
    THEN MatchChain(Skip(t, h, -1), h, name, n, i + 1, isLast)
    ELSE [Skip(t, h, n - i - 1) EXCEPT !.ret = 0]
MatchChain(s, h, name, n, i, isLast) ==
    IF i = n THEN [Skip(s, h, n) EXCEPT !.ret = 1]
    ELSE MatchEntry(ReadCell(Skip(s, h, -1), h), h, name, n, i, isLast)

(* ret -1 at the end of the directory, 1 at a match, 0 otherwise.          *)
CompareEntry(t, h, name, isLast) ==
    LET e == t.val
    IN IF e = Zero THEN [t EXCEPT !.ret = -1]
       ELSE IF IsLongName(e) THEN MatchChain(Skip(t, h, e.seq - 1), h, name, e.seq, 0, isLast)
       ELSE IF SegmentMatches(e, name, 1, isLast) THEN [Skip(t, h, -1) EXCEPT !.ret = 1]
       ELSE [t EXCEPT !.ret = 0]
tf_compare_filename(s, h, name, isLast) == CompareEntry(ReadCell(s, h), h, name, isLast)

(* A scan that came to t from position pos goes on forever when it makes   *)
(* no headway, or has passed twice over the cluster and so seen all that   *)
(* it ever will.                                                           *)
Lost(pos, t, h) == t.fh[h].pos <= pos \/ t.fh[h].pos > 2 * ClusterCells

RECURSIVE Search(_, _, _, _)
SearchOn(t, pos, h, name, isLast) ==
    IF t.ret # 0 THEN [t EXCEPT !.ret = IF t.ret = 1 THEN 0 ELSE -1]
    ELSE IF Lost(pos, t, h) THEN [t EXCEPT !.hang = TRUE, !.ret = -1]
    ELSE Search(t, h, name, isLast)
Search(s, h, name, isLast) ==
    SearchOn(tf_compare_filename(s, h, name, isLast), s.fh[h].pos, h, name, isLast)
tf_find_file(s, h, name, isLast) == Search(tf_fseek(s, h, 0), h, name, isLast)

(* -------------------------------- handles ------------------------------ *)
Stuck(s) == s.crash \/ s.hang

(* Mutant: the last handle is never given out.                             *)
LastHandleUnused(s) ==
    LET free == {h \in 1 .. TF_FILE_HANDLES - 1 : ~s.fh[h].open}
    IN IF free = {} THEN 0 ELSE CHOOSE h \in free : \A g \in free : h <= g

tf_get_free_handle(s) ==
    LET free == {h \in 1 .. TF_FILE_HANDLES : ~s.fh[h].open}
    IN IF free = {} THEN 0 ELSE CHOOSE h \in free : \A g \in free : h <= g

(* The handle becomes that of the entry found; an entry that is not one of *)
(* a file gives a handle to whatever its bytes say.                        *)
Opened(f, e) ==
    [f EXCEPT !.start = IF e.kind = "file" THEN e.cluster ELSE 0,
              !.cluster = IF e.kind = "file" THEN e.cluster ELSE 0,
              !.dir = e.kind = "file" /\ e.dir,
              !.cidx = 0, !.pos = 0, !.dirty = FALSE, !.sizechanged = FALSE,
              !.size = IF e.kind # "file" THEN 0 ELSE IF e.dir THEN DirSize ELSE e.size]

RECURSIVE tf_walk(_, _, _)
WalkInto(u, h, path) == tf_walk([u EXCEPT !.fh[h] = Opened(@, u.val)], h, path)
WalkFound(t, h, path) ==
    IF t.ret # 0 THEN [t EXCEPT !.ret = 0, !.fh[h] = Free] ELSE WalkInto(ReadCell(t, h), h, path)
tf_walk(s, h, path) ==
    IF path = <<>> THEN [s EXCEPT !.ret = h]
    ELSE WalkFound(tf_find_file(s, h, Head(path), Len(path) = 1), h, Tail(path))

(* ret is the handle, or 0 for NULL; without a free handle NULL is used.   *)
OpenEnd(t, h, path, mode) ==
    IF t.ret = 0 THEN t
    ELSE [(IF mode = "a" THEN tf_unsafe_fseek(t, h, t.fh[h].size) ELSE t)
          EXCEPT !.ret = h, !.fh[h].path = path]
OpenWith(s, h, path, mode) ==
    LET root == [Free EXCEPT !.open = TRUE, !.dir = TRUE, !.start = 2, !.cluster = 2, !.size = DirSize]
    IN IF h = 0 THEN [s EXCEPT !.crash = TRUE]
       ELSE OpenEnd(tf_walk([s EXCEPT !.fh[h] = root], h, path), h, path, mode)
tf_fnopen(s, path, mode) ==
    IF Stuck(s) THEN s ELSE OpenWith(s, tf_get_free_handle(s), path, mode)

Front(path) == SubSeq(path, 1, Len(path) - 1)
Name(path) == path[Len(path)]
tf_parent(s, path) == tf_fnopen(s, Front(path), "rw")

RECURSIVE tf_fclose(_, _)

(* Mutants: the size of the handle, one too high, is recorded as it is; it *)
(* is corrected twice.                                                     *)
SizeNotCorrected(e, n) == IF e.kind = "file" THEN [e EXCEPT !.size = n + 1] ELSE e
SizeCorrectedTwice(e, n) == IF e.kind = "file" THEN [e EXCEPT !.size = n - 2] ELSE e

WithSize(e, n) == IF e.kind = "file" THEN [e EXCEPT !.size = n] ELSE e

(* The size goes into the entry found under the name of the file in its    *)
(* directory, wherever the search stopped; a NULL directory is used too.   *)
WriteSize(t, d, f) ==
    IF t.hang THEN t
    ELSE tf_fclose(tf_fwrite(Skip(t, d, -1), d, <<WithSize(t.val, f.size - 1)>>), d)
SizeInto(p, f) ==
    IF Stuck(p) \/ p.ret = 0 THEN [p EXCEPT !.crash = ~p.hang]
    ELSE WriteSize(ReadCell(tf_find_file(p, p.ret, Name(f.path), TRUE), p.ret), p.ret, f)
RecordSize(s, f) == SizeInto(tf_parent(s, f.path), f)

(* Writes the buffer, whichever file it belongs to, and the size of a file *)
(* that grew; a directory has none to record.                              *)
Flushed(u, h) == IF Stuck(u) THEN u ELSE [u EXCEPT !.fh[h].dirty = FALSE, !.ret = 0]
FlushSize(t, h) ==
    Flushed(IF t.fh[h].sizechanged /\ ~t.fh[h].dir THEN RecordSize(t, t.fh[h]) ELSE t, h)
tf_fflush(s, h) ==
    IF ~s.fh[h].dirty THEN [s EXCEPT !.ret = 0]
    ELSE FlushSize(IF s.dirty THEN tf_store(s) ELSE s, h)

(* Mutant: the file is closed without a flush.                             *)
CloseWithoutFlush(s, h) == [s EXCEPT !.fh[h] = Free, !.ret = 0]

Closed(t, h) == IF Stuck(t) THEN t ELSE [t EXCEPT !.fh[h] = Free]
tf_fclose(s, h) == Closed(tf_fflush(s, h), h)

(* --------------------------- create and remove ------------------------- *)
RECURSIVE SeekEnd(_, _)
SeekOn(t, pos, h) ==
    IF t.val = Zero THEN Skip(t, h, -1)
    ELSE IF Lost(pos, t, h) THEN [t EXCEPT !.hang = TRUE] ELSE SeekEnd(t, h)
SeekEnd(s, h) == SeekOn(ReadCell(s, h), s.fh[h].pos, h)

(* The 8.3 spelling cuts a name after six characters; which name it makes  *)
(* of a name is data of the model.                                         *)
tf_shorten_filename(name) == ShortOf[name]

(* The segments from the last to the first.                                *)
tf_place_lfn_chain(name) ==
    LET n == Len(Segments[name])
    IN [i \in 1 .. n |-> Lfn(n - i + 1, Segments[name][n - i + 1])]

(* The long-name chain, the 8.3 entry with size 1, and a new terminator,   *)
(* at the end of the parent directory.                                     *)
WriteEntries(c, d, name) ==
    tf_fclose(tf_fwrite(tf_set_fat_entry(c, c.ret, EOC), d,
                        tf_place_lfn_chain(name) \o <<Entry(tf_shorten_filename(name), c.ret, 1, FALSE), Zero>>), d)
AddEntry(e, d, name) == IF e.hang THEN e ELSE WriteEntries(tf_find_free_cluster(e), d, name)
CreateIn(b, name) ==
    IF Stuck(b) \/ b.ret = 0 THEN [b EXCEPT !.crash = ~b.hang]
    ELSE AddEntry(SeekEnd(b, b.ret), b.ret, name)
CreateBelow(a, path) ==
    IF Stuck(a) \/ a.ret = 0 THEN a
    ELSE CreateIn(tf_parent(tf_fclose(a, a.ret), path), Name(path))
tf_create(s, path) == CreateBelow(tf_parent(s, path), path)

(* A file that is there is opened twice, and the first handle is lost.     *)
OpenAgain(a, path, mode) ==
    IF Stuck(a) THEN a
    ELSE tf_fnopen(IF a.ret = 0 /\ mode # "r" THEN tf_create(a, path) ELSE a, path, mode)
tf_fopen(s, path, mode) == OpenAgain(tf_fnopen(s, path, mode), path, mode)

(* Every entry behind the one at the position moves one place up.          *)
RECURSIVE ShiftUp(_, _)
ShiftOn(c, pos, h, last) ==
    IF last THEN c ELSE IF Lost(pos, c, h) THEN [c EXCEPT !.hang = TRUE] ELSE ShiftUp(c, h)
Shift(b, pos, h) == ShiftOn(tf_fwrite(Skip(b, h, -2), h, <<b.val>>), pos, h, b.val = Zero)
ShiftFrom(a, pos, h) == IF a.ret # 0 THEN a ELSE Shift(ReadCell(a, h), pos, h)
ShiftUp(s, h) == ShiftFrom(Skip(s, h, 1), s.fh[h].pos, h)

Shrunk(g, d) == [g EXCEPT !.fh[d].size = @ - 1, !.fh[d].sizechanged = TRUE]
RemoveClose(w, d) == IF Stuck(w) THEN w ELSE tf_fclose(w, d)
RemoveFound(e, d) == RemoveClose(IF e.ret # 0 THEN e ELSE Shrunk(ShiftUp(e, d), d), d)
RemoveFrom(b, name) ==
    IF Stuck(b) \/ b.ret = 0 THEN [b EXCEPT !.crash = ~b.hang]
    ELSE RemoveFound(tf_find_file(b, b.ret, name, TRUE), b.ret)
RemoveOpened(a, path) ==
    IF Stuck(a) THEN a
    ELSE IF a.ret = 0 THEN [a EXCEPT !.ret = -1]
    ELSE RemoveFrom(tf_parent(tf_fclose(a, a.ret), path), Name(path))
tf_remove(s, path) == RemoveOpened(tf_fopen(s, path, "r"), path)

(* -------------------------------- the calls ---------------------------- *)
Init ==
    /\ format \in {[f EXCEPT !.packed = b] : f \in Formats, b \in Layouts}
    /\ fs = [disk |-> FormattedDisk, buffer |-> [i \in 0 .. SectorCells - 1 |-> Zero],
              currentSector |-> NoSector, dirty |-> FALSE, bad |-> {}, rc |-> 0, failed |-> FALSE,
              fh |-> [h \in 1 .. TF_FILE_HANDLES |-> Free], ret |-> 0, val |-> Zero,
              crash |-> FALSE, hang |-> FALSE, beyond |-> FALSE, image |-> FormattedDisk]
    /\ phase = "off"
    /\ held = {}
    /\ len = [p \in Paths |-> 0]
    /\ gone = {}
    /\ calls = 0

(* The call has returned, or never will, in state s; the results are the   *)
(* caller's.                                                               *)
Done(s) == [s EXCEPT !.val = Zero, !.ret = 0, !.rc = 0]

(* Reads the boot sector, refuses a disk with too few clusters, and reads  *)
(* the root directory to its end.  The code is not checked: with nothing   *)
(* read, the clusters are counted by a division by 0.                      *)
Mounted(c, h) == IF Stuck(c) THEN c ELSE tf_fclose(c, h)
ReadRoot(b) == Mounted(SeekEnd(b, b.ret), b.ret)
tf_init ==
    \E a \in {tf_fetch(fs, 0)} :
        /\ phase = "off"
        /\ \/ a.rc # 0 /\ fs' = [a EXCEPT !.crash = TRUE] /\ phase' = "refused"
           \/ /\ a.rc = 0 /\ cluster_count(format) < MinClusters
              /\ fs' = a /\ phase' = "refused"
           \/ /\ a.rc = 0 /\ cluster_count(format) >= MinClusters
              /\ fs' = Done(ReadRoot(tf_fopen(a, <<>>, "r"))) /\ phase' = "mounted"
        /\ UNCHANGED <<format, held, len, gone, calls>>

Calling == phase = "mounted" /\ ~Stuck(fs) /\ calls < MaxCalls

Returns(s) ==
    /\ fs' = Done(s)
    /\ calls' = calls + 1
    /\ UNCHANGED <<format, phase>>

Holding(p) == \E h \in held : fs.fh[h].path = p

(* The caller keeps one handle to a file at a time.                        *)
Fopen(p, mode) ==
    /\ Calling /\ ~Holding(p)
    /\ \E s \in {tf_fopen(fs, p, mode)} :
        /\ Returns(s)
        /\ held' = IF Stuck(s) \/ s.ret = 0 THEN held ELSE held \cup {s.ret}
        /\ len' = IF ~Stuck(s) /\ s.ret # 0 /\ len[p] = 0 THEN [len EXCEPT ![p] = 1] ELSE len
    /\ UNCHANGED gone

Fread(h, n) ==
    /\ Calling
    /\ Returns(tf_fread(fs, h, n))
    /\ UNCHANGED <<held, len, gone>>

Larger(a, b) == IF a > b THEN a ELSE b

(* tf_fwrite and tf_fputs; each call writes a byte of its own.             *)
Fwrite(h, n) ==
    LET f == fs.fh[h]
    IN /\ Calling
       /\ Returns(tf_fwrite(fs, h, [i \in 1 .. n |-> Byte(calls)]))
       /\ len' = [len EXCEPT ![f.path] = Larger(@, f.pos + n)]
       /\ UNCHANGED <<held, gone>>

Fseek(h, pos) ==
    /\ Calling
    /\ Returns(tf_fseek(fs, h, pos))
    /\ UNCHANGED <<held, len, gone>>

Fflush(h) ==
    /\ Calling
    /\ Returns(tf_fflush(fs, h))
    /\ UNCHANGED <<held, len, gone>>

Fclose(h) ==
    /\ Calling
    /\ Returns(tf_fclose(fs, h))
    /\ held' = held \ {h}
    /\ UNCHANGED <<len, gone>>

Remove(p) ==
    /\ Calling /\ ~Holding(p)
    /\ \E s \in {tf_remove(fs, p)} :
        /\ Returns(s)
        /\ len' = IF ~Stuck(s) /\ s.ret = 0 THEN [len EXCEPT ![p] = 0] ELSE len
        /\ gone' = IF ~Stuck(s) /\ s.ret = 0 THEN gone \cup {p} ELSE gone
    /\ UNCHANGED held

(* The disk stops answering for one sector, and answers again after it has *)
(* refused a request.  The boot sector matters only before it is read.     *)
SectorFails(k) ==
    /\ phase # "refused" /\ ~Stuck(fs) /\ calls < MaxCalls /\ fs.bad = {} /\ ~fs.failed
    /\ k = 0 => phase = "off"
    /\ fs' = [fs EXCEPT !.bad = {k}]
    /\ UNCHANGED <<format, phase, held, len, gone, calls>>

SectorHeals ==
    /\ Calling /\ fs.bad # {} /\ fs.failed
    /\ fs' = [fs EXCEPT !.bad = {}]
    /\ UNCHANGED <<format, phase, held, len, gone, calls>>

Next ==
    \/ tf_init
    \/ \E p \in Paths, mode \in {"r", "w", "a"} : Fopen(p, mode)
    \/ \E p \in Paths : Remove(p)
    \/ \E h \in held, n \in Reads : Fread(h, n)
    \/ \E h \in held, n \in 1 .. MaxWrite : Fwrite(h, n)
    \/ \E h \in held, pos \in Positions : Fseek(h, pos)
    \/ \E h \in held : Fflush(h) \/ Fclose(h)
    \/ \E k \in Failing : SectorFails(k)
    \/ SectorHeals

Spec == Init /\ [][Next]_vars

(* ------------------------------ properties ----------------------------- *)
(* The types of the driver's state; the sizes in the entries on the disk   *)
(* are natural numbers, so tf_fflush never lets one wrap below 0.          *)
TypeOK ==
    /\ fs.disk \in [Sectors -> Contents] /\ fs.buffer \in Contents
    /\ fs.currentSector \in Sectors \cup {NoSector} /\ fs.bad \subseteq Sectors
    /\ held \subseteq 1 .. TF_FILE_HANDLES /\ gone \subseteq Paths
    /\ len \in [Paths -> Nat] /\ calls \in 0 .. MaxCalls
    /\ phase \in {"off", "mounted", "refused"}

(* While the disk answers, the driver sees every data sector as its writes *)
(* made it, and a buffer that is not marked dirty holds nothing the disk   *)
(* does not: no write is lost when tf_fetch replaces the buffer.           *)
CacheCoherent ==
    ~fs.failed =>
        \A k \in DataSectors :
            /\ View(fs, k) = fs.image[k]
            /\ ~fs.dirty => fs.disk[k] = fs.image[k]

(* A buffer waits to be written only while some open handle is marked      *)
(* dirty, so closing what was written (tf_fclose, and tf_create and        *)
(* tf_remove by themselves) leaves nothing in memory, even when the disk   *)
(* refused a sector on the way.                                            *)
DirtyOwned ==
    fs.dirty /\ ~Stuck(fs) =>
        \E h \in 1 .. TF_FILE_HANDLES : fs.fh[h].open /\ fs.fh[h].dirty

(* While the disk answers, the driver uses NULL only for want of a handle: *)
(* the searches whose result is not checked (the parent directory of a     *)
(* flush, a create or a remove) always find what they look for.            *)
NullMeansExhausted ==
    fs.crash /\ ~fs.failed => \A h \in 1 .. TF_FILE_HANDLES : fs.fh[h].open

DirCells(cluster) ==
    [i \in 0 .. ClusterCells - 1 |->
        View(fs, tf_first_sector(cluster) + i \div SectorCells)[i % SectorCells]]

(* Entries of a directory before its terminator.                           *)
Listed(cluster) ==
    LET c == DirCells(cluster)
    IN {i \in DOMAIN c : \A j \in 0 .. i : c[j] # Zero}

(* The names the driver can find: in the unpacked layout, those that are   *)
(* their own 8.3 spelling.                                                 *)
Findable(n) == format.packed \/ ShortOf[n] = n

(* While the disk answers and no directory or file outgrows its cluster, a *)
(* directory lists each file exactly once, with the size of what was       *)
(* written to it when no handle to it is open, and nothing that was        *)
(* removed: tf_create, tf_fflush and the shifting of tf_remove agree.  In  *)
(* the packed layout this ends with the first removal, which leaves the    *)
(* long name behind.                                                       *)
DirectoryExact ==
    /\ phase = "mounted" /\ ~Stuck(fs) /\ ~fs.failed /\ ~fs.beyond
    /\ format.packed => gone = {}
    => \A p \in Paths : Findable(Name(p)) =>
        LET c == format.dirs[Front(p)]
            hits == {i \in Listed(c) : DirCells(c)[i].kind = "file" /\ DirCells(c)[i].short = ShortOf[Name(p)]}
        IN /\ Cardinality(hits) = IF len[p] = 0 THEN 0 ELSE 1
           /\ ~Holding(p) => \A i \in hits : DirCells(c)[i].size = len[p]

(* tf_create says of the cluster it takes that it is "no longer free": no  *)
(* two files of a directory start in the same cluster.                     *)
ClustersNotShared ==
    \A c \in {format.dirs[d] : d \in DOMAIN format.dirs} : \A i, j \in Listed(c) :
        LET a == DirCells(c)[i]
            b == DirCells(c)[j]
        IN a.kind = "file" /\ b.kind = "file" /\ i # j => a.cluster # b.cluster
=============================================================================

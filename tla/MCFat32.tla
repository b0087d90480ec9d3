------------------------------ MODULE MCFat32 ------------------------------
(* A disk with one directory below the root: sectors 1-4 are the two FATs, *)
(* 5-6 the root (cluster 2), 7-8 the directory dd (cluster 3), and a file  *)
(* the driver creates gets cluster 5, sectors 11-12.  aa is its own 8.3    *)
(* spelling, bb has two long-name segments and a short name of its own.    *)
(* The second format has too few clusters.                                 *)
EXTENDS Fat32, TLC

MCNoSector == -1
MCNames == {"aa", "bb", "dd"}
MCSegments == [n \in MCNames |-> IF n = "bb" THEN <<"bb1", "bb2">> ELSE <<n>>]
MCShortOf == [n \in MCNames |-> IF n = "aa" THEN "aa" ELSE n \o "~1"]
MCPaths == {<<"aa">>, <<"bb">>, <<"dd", "aa">>}

MCCell ==
    {Zero} \cup [kind : {"lfn"}, seq : Nat, text : {"aa", "bb1", "bb2", "dd"}]
    \cup [kind : {"file"}, short : STRING, cluster : Nat, size : Nat, dir : BOOLEAN]
    \cup [kind : {"fat"}, v : Int] \cup [kind : {"byte"}, v : Nat]

Blank == [i \in 0 .. SectorCells - 1 |-> Zero]
MCDisk ==
    [k \in 0 .. LastSector |->
        IF k = 5 THEN [Blank EXCEPT ![0] = Lfn(1, "dd"), ![1] = Entry("dd~1", 3, 0, TRUE)] ELSE Blank]

MCFormat ==
    [ReservedSectorCount |-> 1, NumFATs |-> 2, FATSize |-> 2, RootEntryCount |-> 0,
     SectorsPerCluster |-> 2, TotalSectors |-> 13, packed |-> FALSE,
     dirs |-> (<<>> :> 2 @@ <<"dd">> :> 3)]
MCFormats == {MCFormat, [MCFormat EXCEPT !.TotalSectors = 11]}
=============================================================================

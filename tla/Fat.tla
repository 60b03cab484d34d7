--------------------------------- MODULE Fat ---------------------------------
(***************************************************************************)
(* The FAT32 driver (FAT32/src): files and directories as chains of        *)
(* clusters in one file allocation table, the FSInfo sector with its two   *)
(* hints, and the operations that create, read and extend files.           *)
(*                                                                         *)
(* The DeviceLock of the file system device makes the operations           *)
(* exclusive; each access to the volume is a step of its own that may      *)
(* fail, and power may be lost there as well: nothing but the FILE_OBJECT  *)
(* is kept in memory.  A failed read leaves what the failure of the next   *)
(* write leaves and is listed only where it does not.  Names are model     *)
(* values, contents of a sector the path it was written for; dates,        *)
(* attributes and long names are left out.                                 *)
(*                                                                         *)
(* Where the code hands out a cluster that a chain holds already, the      *)
(* model ends: volumeStatus records how it came to it.                     *)
(***************************************************************************)
EXTENDS Integers, SequencesExt

CONSTANTS
    CountOfClusters,
    SectorsPerCluster,
    DirEntries,             \* directory entries in a cluster
    FatEntries,             \* FAT entries in a sector
    ReservedSectors,        \* sectors in front of the FAT
    FAT32_UNKNOWN,          \* the largest DWORD
    Volumes,                \* the volumes that are mounted: [fat, info, dirs]
    Paths,                  \* paths that are opened and created, sequences of names
    Transfers,              \* <<SectorOffset, number of sectors>> of reads and writes
    MaxFaults               \* accesses to the volume that fail

FAT32_EOC_MARK == FAT32_UNKNOWN + 2
FAT32_BAD_CLUSTER == FAT32_UNKNOWN + 1
Root == 2
Clusters == 2 .. CountOfClusters + 1

ASSUME FatAssumption ==
    /\ {CountOfClusters, SectorsPerCluster, DirEntries, FatEntries, ReservedSectors} \subseteq Nat \ {0}
    /\ FAT32_UNKNOWN > CountOfClusters + 2
    /\ Transfers \subseteq Nat \X Nat
    /\ MaxFaults \in Nat

VARIABLES
    fat,            \* the entry of every cluster: 0 (free), the next cluster, a bad or an EOC mark
    info,           \* FSINFO: [free, next]
    dirs,           \* the entries of every cluster of a directory
    data,           \* data[c][i]: sector i of cluster c
    file,           \* the open FILE_OBJECT with its FCB, or NoFile
    op,             \* the operation in progress, or NoOperation
    volumeStatus,   \* "ok", "panic" or how a cluster came into two chains
    written,        \* the sectors of every path that were written
    faults,         \* the accesses that failed
    unlinked        \* the paths whose new cluster was used although it could not be linked

fatVars == <<fat, info, dirs, data, file, op, volumeStatus, written, faults, unlinked>>
disk == <<fat, info, dirs, data>>

NoOperation == [kind |-> "idle"]
NoFile == [path |-> <<>>, type |-> "none", first |-> 0, parent |-> 0]
FREE_ALL == [name |-> "FREE_ALL"]
FREE_ENTRY == [name |-> "FREE_ENTRY"]
DirEntry(name, type, cluster) == [name |-> name, type |-> type, cluster |-> cluster, size |-> 0]
InUse(e) == e \notin {FREE_ALL, FREE_ENTRY}

----------------------------------------------------------------------------
\* Chains

\* NextClusterInChain: zero and the bad mark end a chain as well.
NextClusterInChain(c) == IF fat[c] \in {0, FAT32_BAD_CLUSTER} THEN FAT32_EOC_MARK ELSE fat[c]

\* ... and zero is replaced by the EOC mark on the volume.
Healed(cs) == [c \in DOMAIN fat |-> IF c \in cs /\ fat[c] = 0 THEN FAT32_EOC_MARK ELSE fat[c]]

\* The clusters from c on.
Chain(c) ==
    LET chain[n \in 0 .. CountOfClusters] ==
            IF n = 0 THEN <<c>>
            ELSE LET p == chain[n - 1]
                     next == NextClusterInChain(Last(p))
                 IN  IF next \in Clusters THEN Append(p, next) ELSE p
    IN  IF c \in Clusters THEN chain[CountOfClusters] ELSE <<>>

ChainSet(c) == ToSet(Chain(c))

\* _FirstFreeCluster: the scan of the FAT stops at sector entriesPerFat / FatEntries of
\* the volume, not of the FAT.
SectorsPerFat == (CountOfClusters + 2) \div FatEntries
ScanBegins(first) == ReservedSectors + first \div FatEntries < SectorsPerFat
FreeFrom(first) == {c \in first .. (SectorsPerFat - ReservedSectors) * FatEntries - 1 : fat[c] = 0}

----------------------------------------------------------------------------
\* Directories

\* FatSearchDirectoryEntry: the position of the name in the entries of the whole chain, 0
\* if there is none.  The loop looks for FREE_ALL before it moves on to an entry, except to
\* the first one of a cluster.
\* A cluster no directory was written to yet has no entries that a search would look at.
EntriesOf(c) ==
    FoldLeft(LAMBDA es, d : es \o (IF d \in DOMAIN dirs THEN dirs[d] ELSE <<>>), <<>>, Chain(c))

SearchEnds(es, i) == es[i] = FREE_ALL /\ i % DirEntries # 1

EntryPosition(c, name) ==
    LET es == EntriesOf(c)
        found == {i \in DOMAIN es : /\ InUse(es[i]) /\ es[i].name = name
                                    /\ \A j \in 1 .. i : ~SearchEnds(es, j)}
    IN  IF found = {} THEN 0 ELSE Min(found)

\* The first cluster of the entry, 0 if it is missing, of another type or out of range.
FatSearchDirectoryEntry(c, name, type) ==
    LET i == EntryPosition(c, name)
        e == EntriesOf(c)[i]
    IN  IF c # 0 /\ i # 0 /\ e.type = type /\ e.cluster \in Clusters THEN e.cluster ELSE 0

\* FatSearch, the directories of the path and then its last name.
ParentOf(path) ==
    FoldLeft(LAMBDA c, name : IF c = 0 THEN 0 ELSE FatSearchDirectoryEntry(c, name, "dir"),
             Root, Front(path))

FatSearch(path, type) ==
    IF ParentOf(path) = 0 THEN 0 ELSE FatSearchDirectoryEntry(ParentOf(path), Last(path), type)

\* The cluster of the directory with the entry in it (ParentSector).
EntryCluster(path) ==
    Chain(ParentOf(path))[1 + (EntryPosition(ParentOf(path), Last(path)) - 1) \div DirEntries]

\* A search that does not end before walks over the whole chain.
Walked(c) ==
    IF \E i \in DOMAIN EntriesOf(c) : SearchEnds(EntriesOf(c), i) THEN {} ELSE ChainSet(c)

\* The FILE_OBJECT that _FatDispatchCreate completes.
Opened(path, type) ==
    LET c == FatSearch(path, type)
    IN  IF c = 0 THEN NoFile
        ELSE [path |-> path, type |-> type, first |-> c, parent |-> EntryCluster(path)]

\* The clusters of all directories and files.
Owners == {Root} \cup {e.cluster : e \in {x \in UNION {ToSet(dirs[c]) : c \in DOMAIN dirs} :
                                             InUse(x) /\ x.name \notin {".", ".."}}}
Owned == UNION {ChainSet(c) : c \in Owners}

\* An access to the volume succeeds, or fails while that may happen.
Access(succeeds) ==
    /\ succeeds \/ faults < MaxFaults
    /\ faults' = IF succeeds THEN faults ELSE faults + 1

----------------------------------------------------------------------------
FatInitVolume ==
    /\ \E v \in Volumes : fat = v.fat /\ info = v.info /\ dirs = v.dirs
    /\ data = [c \in Clusters |-> [i \in 0 .. SectorsPerCluster - 1 |-> <<"old">>]]
    /\ file = NoFile
    /\ op = NoOperation
    /\ volumeStatus = "ok"
    /\ written = [p \in Paths |-> {}]
    /\ faults = 0
    /\ unlinked = {}

\* _FatDispatchCreate without the create flag.
FatOpen(path, type) ==
    /\ op = NoOperation /\ file = NoFile
    /\ file' = Opened(path, type)
    /\ LET parent == ParentOf(path)
       IN  fat' = IF parent # 0 /\ EntryPosition(parent, Last(path)) = 0 THEN Healed(Walked(parent)) ELSE fat
    /\ UNCHANGED <<info, dirs, data, op, volumeStatus, written, faults, unlinked>>

\* _FatDispatchClose
FatClose ==
    /\ op = NoOperation /\ file # NoFile
    /\ file' = NoFile
    /\ UNCHANGED <<disk, op, volumeStatus, written, faults, unlinked>>

\* FatQueryDirectory: the entries are listed up to FREE_ALL or the end of the chain.
FatQueryDirectory ==
    /\ op = NoOperation /\ file.type = "dir"
    /\ fat' = Healed(Walked(file.first))
    /\ UNCHANGED <<info, dirs, data, file, op, volumeStatus, written, faults, unlinked>>

----------------------------------------------------------------------------
\* FatCreateDirectoryEntry

\* The first free entry of the last cluster of the parent, behind the reserved ones of the root.
FreeEntries(c) == {i \in (IF c = Root THEN 3 ELSE 1) .. DirEntries : ~InUse(dirs[c][i])}

\* Step 2 takes a file whose cluster is out of range for missing.
Exists(path) ==
    LET i == EntryPosition(ParentOf(path), Last(path))
        e == EntriesOf(ParentOf(path))[i]
    IN  i # 0 /\ (e.type = "file" => e.cluster \in Clusters)

CreateBegin(path, type) ==
    /\ op = NoOperation /\ file = NoFile
    /\ ParentOf(path) # 0 /\ ~Exists(path)
    /\ fat' = Healed(ChainSet(ParentOf(path)))
    /\ LET last == Last(Chain(ParentOf(path)))
       IN  op' = IF FreeEntries(last) = {} \/ info.free = 0 THEN NoOperation
                 ELSE [kind |-> "create", pc |-> "info", path |-> path, type |-> type,
                       parent |-> ParentOf(path), last |-> last, index |-> Min(FreeEntries(last)),
                       cluster |-> info.next]
    /\ UNCHANGED <<info, dirs, data, file, volumeStatus, written, faults, unlinked>>

\* Mutant: FSI_Nxt_Free is not moved on.
CreateInfoKeepsNext ==
    /\ op.kind = "create" /\ op.pc = "info"
    /\ info' = [info EXCEPT !.free = @ - 1]
    /\ op' = [op EXCEPT !.pc = "parent"]
    /\ UNCHANGED <<fat, dirs, data, file, volumeStatus, written, faults, unlinked>>

CreateInfo ==
    /\ op.kind = "create" /\ op.pc = "info"
    /\ info' = [free |-> info.free - 1, next |-> (info.next + 1) % (FAT32_UNKNOWN + 1)]
    /\ op' = [op EXCEPT !.pc = "parent"]
    /\ UNCHANGED <<fat, dirs, data, file, volumeStatus, written, faults, unlinked>>

\* The entry is written; a cluster out of range is noticed only behind it.
CreateParent ==
    /\ op.kind = "create" /\ op.pc = "parent"
    /\ dirs' = [dirs EXCEPT ![op.last][op.index] = DirEntry(Last(op.path), op.type, op.cluster)]
    /\ volumeStatus' = IF op.cluster \in Owned THEN "created in use" ELSE volumeStatus
    /\ op' = IF op.cluster \in Clusters THEN [op EXCEPT !.pc = "content"] ELSE NoOperation
    /\ UNCHANGED <<fat, info, data, file, written, faults, unlinked>>

CreateContent ==
    /\ op.kind = "create" /\ op.pc = "content"
    /\ LET dots == <<DirEntry(".", "dir", op.cluster),
                     DirEntry("..", "dir", IF op.parent = Root THEN 0 ELSE op.parent)>>
       IN  IF op.type = "dir"
           THEN /\ dirs' = (op.cluster :> (dots \o [i \in 1 .. DirEntries - 2 |-> FREE_ALL])) @@ dirs
                /\ UNCHANGED data
           ELSE /\ data' = [data EXCEPT ![op.cluster] = [i \in 0 .. SectorsPerCluster - 1 |-> <<"zero">>]]
                /\ UNCHANGED dirs
    /\ op' = [op EXCEPT !.pc = "eoc"]
    /\ UNCHANGED <<fat, info, file, volumeStatus, written, faults, unlinked>>

CreateEoc ==
    /\ op.kind = "create" /\ op.pc = "eoc"
    /\ fat' = [fat EXCEPT ![op.cluster] = FAT32_EOC_MARK]
    /\ op' = NoOperation
    /\ file' = Opened(op.path, op.type)
    /\ UNCHANGED <<info, dirs, data, volumeStatus, written, faults, unlinked>>

----------------------------------------------------------------------------
\* FatReadFile and FatWriteFile, for a FILE_OBJECT that is no directory

TransferBegin(kind, t) ==
    /\ op = NoOperation /\ file.type = "file" /\ t[2] > 0
    /\ op' = [kind |-> kind, pc |-> IF SectorsPerCluster <= t[1] THEN "seek" ELSE "transfer",
              cluster |-> file.first, offset |-> t[1], left |-> t[2], traversed |-> 0,
              position |-> t[1], new |-> 0, buffer |-> <<>>]
    /\ UNCHANGED <<disk, file, volumeStatus, written, faults, unlinked>>

\* The loop goes on at cluster c: one step of the seek is done, or the transfer continues.
GoOn(c) ==
    LET traversed == op.traversed + SectorsPerCluster
    IN  IF op.pc \in {"next", "linkNext", "infoNext"} THEN [op EXCEPT !.cluster = c, !.pc = "transfer"]
        ELSE [op EXCEPT !.cluster = c, !.traversed = traversed,
                        !.pc = IF traversed + SectorsPerCluster <= op.offset THEN "seek" ELSE "transfer"]

\* NextSectorInClusterChain where the chain goes on.
NextSector ==
    /\ op.kind \in {"read", "write"} /\ op.pc \in {"seek", "next"}
    /\ NextClusterInChain(op.cluster) \in Clusters
    /\ op' = GoOn(NextClusterInChain(op.cluster))
    /\ UNCHANGED <<disk, file, volumeStatus, written, faults, unlinked>>

\* ... where it ends and is read.  A seek that ends here fails its assertion, one that goes on
\* finds no cluster for sector 0.
ReadEnds ==
    /\ op.kind = "read" /\ op.pc \in {"seek", "next"}
    /\ NextClusterInChain(op.cluster) \notin Clusters
    /\ fat' = Healed({op.cluster})
    /\ op' = IF op.pc = "next" THEN [op EXCEPT !.pc = "entry"] ELSE NoOperation
    /\ volumeStatus' = IF op.pc = "seek" /\ GoOn(0).pc = "transfer" THEN "panic" ELSE volumeStatus
    /\ UNCHANGED <<info, dirs, data, file, written, faults, unlinked>>

\* FSInfo when there is no cluster: _FirstFreeCluster reports none (a start behind the last
\* cluster included, which FAT32_UNKNOWN is), or fails because its loop has no iteration.
NoneFound(infoRead) ==
    LET none == infoRead /\ info.free # 0 /\ (info.next >= CountOfClusters + 2 \/ ScanBegins(info.next))
        panic == none /\ info.free # FAT32_UNKNOWN
    IN  /\ info' = CASE ~infoRead -> [free |-> 0, next |-> 0]
                     [] infoRead /\ info.free = 0 -> [info EXCEPT !.next = FAT32_UNKNOWN]
                     [] none /\ ~panic -> [free |-> 0, next |-> FAT32_UNKNOWN]
                     [] OTHER -> info
        /\ volumeStatus' = IF panic THEN "panic" ELSE volumeStatus

\* _AddNewClusterToChain, up to the write of the EOC mark of the new cluster.  Without one,
\* or when FSInfo cannot be read, the FSINFO buffer is written back and the call fails.
AddNewCluster(infoRead) ==
    /\ op.kind = "write" /\ op.pc \in {"seek", "next"}
    /\ NextClusterInChain(op.cluster) \notin Clusters
    /\ Access(infoRead)
    /\ LET new == Min(FreeFrom(info.next))
           none == ~infoRead \/ info.free = 0 \/ FreeFrom(info.next) = {}
           healed == Healed({op.cluster})
       IN  IF none
           THEN /\ op' = NoOperation
                /\ fat' = healed
                /\ NoneFound(infoRead)
           ELSE /\ op' = [op EXCEPT !.new = new, !.pc = IF op.pc = "seek" THEN "linkSeek" ELSE "linkNext"]
                /\ fat' = [healed EXCEPT ![new] = FAT32_EOC_MARK]
                /\ volumeStatus' = IF new \in Owned THEN "extended in use" ELSE volumeStatus
                /\ UNCHANGED info
    /\ UNCHANGED <<dirs, data, file, written, unlinked>>

\* The cluster is linked to the end of the chain.  If that fails the status is overwritten by
\* the one of the last write, and the caller goes on with a cluster outside its chain.
LinkCluster(linked) ==
    /\ op.kind = "write" /\ op.pc \in {"linkSeek", "linkNext"}
    /\ Access(linked)
    /\ IF linked
       THEN /\ fat' = [fat EXCEPT ![op.cluster] = op.new]
            /\ op' = [op EXCEPT !.pc = IF op.pc = "linkSeek" THEN "infoSeek" ELSE "infoNext"]
            /\ UNCHANGED unlinked
       ELSE /\ op' = GoOn(op.new)
            /\ unlinked' = unlinked \cup {file.path}
            /\ UNCHANGED fat
    /\ UNCHANGED <<info, dirs, data, file, volumeStatus, written>>

WriteInfo ==
    /\ op.kind = "write" /\ op.pc \in {"infoSeek", "infoNext"}
    /\ info' = [next |-> op.new,
                free |-> IF info.free = FAT32_UNKNOWN THEN Cardinality(FreeFrom(op.new + 1)) ELSE info.free - 1]
    /\ op' = GoOn(op.new)
    /\ UNCHANGED <<fat, dirs, data, file, volumeStatus, written, faults, unlinked>>

\* The sectors of this transfer in the current cluster.
FirstIndex == op.position % SectorsPerCluster
SectorsHere == Min({op.left, SectorsPerCluster - FirstIndex})

TransferSectors ==
    /\ op.kind \in {"read", "write"} /\ op.pc = "transfer"
    /\ LET here == FirstIndex .. FirstIndex + SectorsHere - 1
       IN  /\ data' = IF op.kind = "read" THEN data
                      ELSE [data EXCEPT ![op.cluster] = [i \in DOMAIN @ |-> IF i \in here THEN file.path ELSE @[i]]]
           /\ op' = [op EXCEPT !.left = @ - SectorsHere, !.position = @ + SectorsHere,
                               !.pc = IF op.left = SectorsHere THEN "entry" ELSE "next",
                               !.buffer = IF op.kind = "write" THEN @
                                          ELSE @ \o [i \in 1 .. SectorsHere |-> data[op.cluster][FirstIndex + i - 1]]]
    /\ written' = IF op.kind = "read" THEN written
                  ELSE [written EXCEPT ![file.path] = @ \cup op.position .. op.position + SectorsHere - 1]
    /\ UNCHANGED <<fat, info, dirs, file, volumeStatus, faults, unlinked>>

\* The entries of the parent's cluster that have the first cluster of the file.
GetDirEntryFromSector ==
    {i \in 1 .. DirEntries : LET e == dirs[file.parent][i] IN InUse(e) /\ e.cluster = file.first}

\* WriteDirEntryToSector; a read changes the date of the last access only.
UpdateEntry ==
    /\ op.kind \in {"read", "write"} /\ op.pc = "entry"
    /\ dirs' = IF GetDirEntryFromSector = {} \/ op.kind = "read" THEN dirs
               ELSE [dirs EXCEPT ![file.parent][Min(GetDirEntryFromSector)].size = Max({@, op.position})]
    /\ op' = NoOperation
    /\ UNCHANGED <<fat, info, data, file, volumeStatus, written, faults, unlinked>>

\* An access to the volume fails, or power is lost: the operation ends with what it has
\* written so far.  A directory whose first cluster was not written, or is not made the end of
\* its chain, has entries of whatever the clusters held; the model ends there.
AccessFails ==
    /\ op # NoOperation
    /\ Access(FALSE)
    /\ op' = NoOperation
    /\ volumeStatus' = IF /\ op.kind = "create" /\ op.type = "dir"
                          /\ op.pc = "content" \/ (op.pc = "eoc" /\ fat[op.cluster] \in Clusters)
                       THEN "uninitialized directory" ELSE volumeStatus
    /\ UNCHANGED <<disk, file, written, unlinked>>

----------------------------------------------------------------------------
FatNext ==
    /\ volumeStatus = "ok"
    /\ \/ \E p \in Paths, type \in {"file", "dir"} : FatOpen(p, type) \/ CreateBegin(p, type)
       \/ FatClose \/ FatQueryDirectory
       \/ CreateInfo \/ CreateParent \/ CreateContent \/ CreateEoc
       \/ \E t \in Transfers, kind \in {"read", "write"} : TransferBegin(kind, t)
       \/ NextSector \/ ReadEnds
       \/ \E b \in BOOLEAN : AddNewCluster(b) \/ LinkCluster(b)
       \/ WriteInfo \/ TransferSectors \/ UpdateEntry \/ AccessFails

FatSpec == FatInitVolume /\ [][FatNext]_fatVars

----------------------------------------------------------------------------
\* Properties

FatTypeOK ==
    /\ fat \in [0 .. CountOfClusters + 1 -> Clusters \cup {0, FAT32_BAD_CLUSTER, FAT32_EOC_MARK}]
    /\ info \in [free : 0 .. FAT32_UNKNOWN, next : 0 .. FAT32_UNKNOWN]
    /\ DOMAIN dirs \subseteq Clusters
    /\ file.first \in Clusters \cup {0}
    /\ written \in [Paths -> SUBSET Nat]
    /\ unlinked \subseteq Paths

Whole == volumeStatus \in {"ok", "panic"}

\* Every directory and every file has its own chain: without a loop, and without a cluster of
\* another one, however often the driver was interrupted between two writes.
ChainsDisjoint == Whole =>
    \A c, d \in Owners \cap Clusters :
        IsInjective(Chain(c)) /\ (c # d => ChainSet(c) \cap ChainSet(d) = {})

\* The size in the directory entry is covered by the chain, unless the chain could not be
\* linked and the error was dropped.
SizesCovered == Whole =>
    \A p \in Paths \ unlinked :
        LET i == EntryPosition(ParentOf(p), Last(p))
        IN  FatSearch(p, "file") # 0 =>
                EntriesOf(ParentOf(p))[i].size <= Len(Chain(FatSearch(p, "file"))) * SectorsPerCluster

\* What was written to a sector of a file is in that sector of its chain, and is what a read of
\* the file returns.
ContentsFound == Whole =>
    \A p \in Paths \ unlinked :
        LET c == FatSearch(p, "file")
        IN  /\ c # 0 => \A i \in written[p] :
                   /\ i < Len(Chain(c)) * SectorsPerCluster
                   /\ data[Chain(c)[1 + i \div SectorsPerCluster]][i % SectorsPerCluster] = p
            /\ op.kind = "read" /\ file.path = p =>
                   \A k \in DOMAIN op.buffer : op.offset + k - 1 \in written[p] => op.buffer[k] = p

\* The file system stays sound under failures and power loss: chains are disjoint, sizes are
\* covered, contents are found, and an extension takes no cluster of another chain, not even
\* one whose EOC mark was never written.
FatInv ==
    /\ FatTypeOK
    /\ ChainsDisjoint /\ SizesCovered /\ ContentsFound
    /\ volumeStatus # "extended in use"
=============================================================================

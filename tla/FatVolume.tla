----------------------------- MODULE FatVolume -----------------------------
(***************************************************************************)
(* The shell's fatwrite and fatread on a FAT32 volume: f_mount, f_open,    *)
(* f_write, f_read and f_close of api/fatfs/source/ff.c down to the        *)
(* sectors diskio.c reads and writes, one sector at a time, while the      *)
(* device may be pulled or the power lost between any two of them.         *)
(*                                                                         *)
(* FatFs holds one sector of the FAT or of the directory in a window.      *)
(* fat and dir below are what a caller reads through it: the window's      *)
(* entries where it lies, the disk's entries elsewhere.  They differ from  *)
(* the disk only in a window that is dirty.                                *)
(*                                                                         *)
(* A cluster is one sector, the root directory fits in one and is found    *)
(* outside the clusters modelled, and there is one copy of the FAT.  A     *)
(* transfer succeeds until the device is gone: from then on diskio.c       *)
(* reports success and the disk does not change (the run umass_failure is  *)
(* about a transfer that fails by itself).                                 *)
(***************************************************************************)
EXTENDS Integers, Sequences, FiniteSets

CONSTANTS Clusters,         \* clusters of the volume, numbered from 2
          PerSector,        \* FAT entries in a sector
          Name, Data,       \* file names, contents of a sector
          Text, MaxLen,     \* what is written, and its length in sectors
          None

ASSUME FatVolumeAssumption ==
    /\ Clusters \in Nat \ {0} /\ PerSector \in Nat \ {0} /\ MaxLen \in Nat \ {0}
    /\ Text \subseteq Seq(Data) /\ \A t \in Text : Len(t) \in 1 .. MaxLen
    /\ None \notin Data

n_fatent == Clusters + 2
Cluster == 2 .. n_fatent - 1

\* Values of a FAT entry besides the next cluster, and 0xFFFFFFFF as a count
\* or a hint: anything beyond the last cluster.
Free == 0
EOC == n_fatent
Unknown == n_fatent

VARIABLES
    fat_d, dir_d, fsinfo, data, \* the disk: FAT, directory, FSInfo, clusters
    winsect, wflag,             \* the sector in the window; is it dirty?
    fat, dir,                   \* the FAT and the directory through the window
    free_clst, last_clst,       \* FATFS: clusters free, last one allocated
    fsi_flag,                   \* FATFS: does FSInfo need to be written?
    sclust, clust, objsize,     \* FIL: first and current cluster, sectors
    dirty,                      \* FIL: FA_DIRTY, the buffer holds a sector
    cl, clst,                   \* locals of f_open, remove_chain, create_chain
    cmd, pc,                    \* the shell's command and where it is
    got,                        \* what fatread has printed
    pulled                      \* has the device ever been pulled?

diskVars == <<fat_d, dir_d, fsinfo, data>>
winVars == <<winsect, wflag, fat, dir>>
infoVars == <<free_clst, last_clst, fsi_flag>>
filVars == <<sclust, clust, objsize, dirty>>
localVars == <<cl, clst>>
vars == <<diskVars, winVars, infoVars, filVars, localVars, cmd, pc, got, pulled>>

FatSect(c) == <<"fat", c \div PerSector>>
DirSect == <<"dir", 0>>
FsiSect == <<"fsi", 0>>
NoSect == <<"none", 0>>

Entry == [clust : {0} \cup Cluster, size : 0 .. MaxLen]
Empty == [clust |-> 0, size |-> 0]
FreeClusters(f) == {c \in Cluster : f[c] = Free}

ClearFile ==
    /\ sclust' = 0 /\ clust' = 0
    /\ objsize' = 0 /\ dirty' = FALSE

\* A formatted volume with no file on it or only empty ones; the count of
\* free clusters is right or, as some systems leave it, unknown.
Init ==
    /\ fat_d = [c \in Cluster |-> Free] /\ fat = fat_d
    /\ dir_d \in [Name -> {None, Empty}] /\ dir = dir_d
    /\ fsinfo \in [free : {Clusters, Unknown}, last : {Unknown}]
    /\ data \in [Cluster -> Data] /\ \A b, c \in Cluster : data[b] = data[c]
    /\ winsect = NoSect /\ wflag = FALSE
    /\ free_clst = Unknown /\ last_clst = Unknown /\ fsi_flag = FALSE
    /\ sclust = 0 /\ clust = 0 /\ objsize = 0 /\ dirty = FALSE
    /\ cl = 0 /\ clst = 0 /\ cmd = None /\ pc = "idle"
    /\ got = None /\ pulled = FALSE

---------------------------------------------------------------------------
(* The window.                                                             *)

\* disk_write of the window's sector.
WriteWindow ==
    /\ fat_d' = [c \in Cluster |-> IF FatSect(c) = winsect THEN fat[c] ELSE fat_d[c]]
    /\ dir_d' = IF winsect = DirSect THEN dir ELSE dir_d

SyncIf(leaving) == IF wflag /\ leaving THEN WriteWindow ELSE UNCHANGED <<fat_d, dir_d>>

\* Faulty variant: the window is moved without being written back.
move_window_unsynced(sect, put) ==
    /\ UNCHANGED <<fat_d, dir_d>>
    /\ winsect' = sect
    /\ wflag' = put

\* move_window with, when put holds, the change the caller makes in it.
move_window(sect, put) ==
    /\ SyncIf(sect # winsect)
    /\ winsect' = sect
    /\ wflag' = (put \/ (wflag /\ sect = winsect))

get_fat(c) == move_window(FatSect(c), FALSE)

put_fat(c, entry) ==
    /\ move_window(FatSect(c), TRUE)
    /\ fat' = [fat EXCEPT ![c] = entry]

\* follow_path: the entry of a file in the directory just read.
follow_path(n) == dir_d[n]

\* f_mount forgets the window and every count; the next f_open reads the boot
\* sector and FSInfo again.
MountVolume ==
    /\ free_clst' = fsinfo.free /\ last_clst' = fsinfo.last /\ fsi_flag' = FALSE
    /\ fat' = fat_d
    /\ winsect' = DirSect
    /\ UNCHANGED diskVars

---------------------------------------------------------------------------
(* fatwrite: f_open with FA_CREATE_ALWAYS, and remove_chain.               *)

\* The entry, registered if there was none, is emptied in the window.
FatWrite(n, d) ==
    /\ pc = "idle"
    /\ MountVolume
    /\ dir' = [dir_d EXCEPT ![n] = Empty] /\ wflag' = TRUE
    /\ cl' = (IF follow_path(n) = None THEN 0 ELSE follow_path(n).clust)
    /\ clst' = cl'
    /\ pc' = IF cl' = 0 THEN "write" ELSE "remove"
    /\ ClearFile
    /\ cmd' = [op |-> "fatwrite", name |-> n, data |-> d]
    /\ got' = None
    /\ UNCHANGED pulled

\* Faulty variant: the count of free clusters is not limited.
CountFreedAlways == free_clst' = free_clst + 1 /\ fsi_flag' = TRUE

\* FSINFO is updated unless the count says that everything is free already.
CountFreed ==
    IF free_clst < n_fatent - 2
    THEN free_clst' = free_clst + 1 /\ fsi_flag' = TRUE
    ELSE UNCHANGED <<free_clst, fsi_flag>>

\* One turn of remove_chain's loop: get_fat and put_fat.  (That it meets a free
\* cluster is excluded by DiskSound.)
RemoveCluster ==
    /\ pc = "remove"
    /\ fat[clst] # Free
    /\ put_fat(clst, Free)
    /\ CountFreed
    /\ clst' = fat[clst]
    /\ pc' = IF fat[clst] \in Cluster THEN "remove" ELSE "reopen"
    /\ UNCHANGED <<fsinfo, data, dir, last_clst, filVars, cl, cmd, got, pulled>>

\* The window back on the directory; the hole is used again first.
Reopen ==
    /\ pc = "reopen"
    /\ move_window(DirSect, FALSE)
    /\ last_clst' = cl - 1
    /\ cl' = 0 /\ clst' = 0
    /\ pc' = "write"
    /\ UNCHANGED <<fsinfo, data, fat, dir, free_clst, fsi_flag, filVars, cmd, got, pulled>>

---------------------------------------------------------------------------
(* f_write and create_chain.                                               *)

\* The clusters create_chain tries from scl on, in order: scl + 1, ..., the
\* last, the first, ..., scl; scl is 1 when there is no hint.
Turn(scl, c) == (c - scl - 1) % Clusters

\* Faulty variant: the search stops at the last cluster.
NextFreeNoWrap(scl) ==
    {c \in FreeClusters(fat) : c > scl /\ \A b \in FreeClusters(fat) :
                                    b > scl => Turn(scl, c) <= Turn(scl, b)}

NextFree(scl) ==
    {c \in FreeClusters(fat) : \A b \in FreeClusters(fat) : Turn(scl, c) <= Turn(scl, b)}

\* Where the search starts: a new chain at the hint; a chain that grows, when
\* the next cluster is taken, at the hint or else behind its last cluster.
Hint == IF last_clst \in Cluster \cup {1} THEN last_clst
        ELSE IF clust = 0 THEN 1 ELSE clust
Beside == IF clust + 1 \in Cluster THEN clust + 1 ELSE 2
SearchFrom ==
    IF clust # 0 /\ fat[Beside] = Free THEN Beside - 1
    ELSE IF clust # 0 /\ last_clst = 1 THEN clust ELSE Hint

\* The clusters whose entries the search reads until it takes ncl.
Tried(ncl) ==
    {c \in Cluster : Turn(SearchFrom, c) <= Turn(SearchFrom, ncl)}
        \cup (IF clust = 0 THEN {} ELSE {clust, Beside})

MoreToWrite == pc = "write" /\ objsize < Len(cmd.data)

\* create_chain finds a free cluster and marks it as the end of a chain; on
\* the way it leaves the window's sector or not.
AllocCluster ==
    /\ MoreToWrite /\ free_clst # 0
    /\ \E ncl \in NextFree(SearchFrom) :
          /\ SyncIf(\E c \in Tried(ncl) : FatSect(c) # winsect)
          /\ winsect' = FatSect(ncl) /\ wflag' = TRUE
          /\ fat' = [fat EXCEPT ![ncl] = EOC]
          /\ clst' = ncl
    /\ pc' = "link"
    /\ UNCHANGED <<fsinfo, data, dir, infoVars, filVars, cl, cmd, got, pulled>>

\* Faulty variant: the search does not notice that it is back where it began.
NoClusterByCount == free_clst = 0

NoCluster == free_clst = 0 \/ NextFree(SearchFrom) = {}

\* f_write stops with what it has written.  An unfruitful search ends where
\* it started, or at the last cluster.
DiskFull ==
    /\ MoreToWrite /\ NoCluster
    /\ IF free_clst = 0
       THEN IF clust = 0 THEN UNCHANGED <<fat_d, dir_d, winsect, wflag>>
            ELSE get_fat(clust)
       ELSE LET last == IF SearchFrom = 1 THEN n_fatent - 1 ELSE SearchFrom
            IN  /\ SyncIf(\E c \in Cluster : FatSect(c) # winsect)
                /\ winsect' = FatSect(last)
                /\ wflag' = (wflag /\ \A c \in Cluster : FatSect(c) = winsect)
    /\ pc' = "sync_data"
    /\ UNCHANGED <<fsinfo, data, fat, dir, infoVars, filVars, localVars, cmd, got, pulled>>

\* The new cluster linked from the one before it, if there is one.
NewLink ==
    IF clust = 0
    THEN UNCHANGED <<fat, fat_d, dir_d, winsect, wflag>>
    ELSE put_fat(clust, clst)

\* The rest of create_chain, and the first cluster kept in the file object.
LinkCluster ==
    /\ pc = "link"
    /\ NewLink
    /\ last_clst' = clst /\ fsi_flag' = TRUE
    /\ free_clst' = IF free_clst <= n_fatent - 2 THEN free_clst - 1 ELSE free_clst
    /\ clust' = clst
    /\ sclust' = IF sclust = 0 THEN clst ELSE sclust
    /\ clst' = 0
    /\ pc' = "put"
    /\ UNCHANGED <<fsinfo, data, dir, objsize, dirty, cl, cmd, got, pulled>>

Written == IF pc = "put" THEN cmd.data[objsize + 1] ELSE cmd.data[objsize]

\* A whole sector goes to the disk at once.
PutSector ==
    /\ pc = "put"
    /\ data' = [data EXCEPT ![clust] = Written]
    /\ objsize' = objsize + 1
    /\ pc' = "write"
    /\ UNCHANGED <<fat_d, dir_d, fsinfo, winVars, infoVars, sclust, clust, dirty,
                   localVars, cmd, got, pulled>>

\* The last sector, when the text does not fill it, stays in the buffer.
BufferSector ==
    /\ pc = "put" /\ objsize + 1 = Len(cmd.data)
    /\ dirty' = TRUE
    /\ objsize' = objsize + 1
    /\ pc' = "write"
    /\ UNCHANGED <<diskVars, winVars, infoVars, sclust, clust, localVars, cmd, got, pulled>>

WriteDone ==
    /\ pc = "write" /\ objsize = Len(cmd.data)
    /\ pc' = "sync_data"
    /\ UNCHANGED <<diskVars, winVars, infoVars, filVars, localVars, cmd, got, pulled>>

---------------------------------------------------------------------------
(* f_close: f_sync and sync_fs.                                            *)

SyncData ==
    /\ pc = "sync_data"
    /\ data' = IF dirty THEN [data EXCEPT ![clust] = Written] ELSE data
    /\ dirty' = FALSE
    /\ pc' = "sync_entry"
    /\ UNCHANGED <<fat_d, dir_d, fsinfo, winVars, infoVars, sclust, clust, objsize,
                   localVars, cmd, got, pulled>>

\* The directory entry, in the window.
SyncEntry ==
    /\ pc = "sync_entry"
    /\ move_window(DirSect, TRUE)
    /\ dir' = [dir EXCEPT ![cmd.name] = [clust |-> sclust, size |-> objsize]]
    /\ pc' = "sync_window"
    /\ UNCHANGED <<fsinfo, data, fat, infoVars, filVars, localVars, cmd, got, pulled>>

\* Faulty variant: the directory entry stays in the window.
SyncWindowForgotten ==
    /\ pc = "sync_window"
    /\ pc' = "sync_info"
    /\ UNCHANGED <<diskVars, winVars, infoVars, filVars, localVars, cmd, got, pulled>>

SyncWindow ==
    /\ pc = "sync_window"
    /\ WriteWindow
    /\ wflag' = FALSE
    /\ pc' = "sync_info"
    /\ UNCHANGED <<fsinfo, data, winsect, fat, dir, infoVars, filVars, localVars,
                   cmd, got, pulled>>

Finish ==
    /\ pc' = "idle"
    /\ cmd' = None
    /\ ClearFile

\* FSInfo is built in the window and written.  disk_ioctl then returns a value
\* it has not set: f_close may report an error, which the shell ignores.
SyncInfo ==
    /\ pc = "sync_info"
    /\ IF fsi_flag
       THEN fsinfo' = [free |-> free_clst, last |-> last_clst] /\ winsect' = FsiSect
       ELSE UNCHANGED <<fsinfo, winsect>>
    /\ fsi_flag' = FALSE
    /\ Finish
    /\ UNCHANGED <<fat_d, dir_d, data, wflag, fat, dir, free_clst, last_clst, localVars,
                   got, pulled>>

---------------------------------------------------------------------------
(* fatread: f_open with FA_READ, f_read behind f_gets, f_close.            *)

FatRead(n) ==
    /\ pc = "idle"
    /\ MountVolume
    /\ dir' = dir_d /\ wflag' = FALSE
    /\ cmd' = [op |-> "fatread", name |-> n]
    /\ IF follow_path(n) = None
       THEN /\ got' = None /\ pc' = "read_done" /\ ClearFile
       ELSE /\ got' = <<>> /\ pc' = "read"
            /\ sclust' = follow_path(n).clust /\ objsize' = follow_path(n).size
            /\ clust' = 0 /\ dirty' = FALSE
    /\ UNCHANGED <<localVars, pulled>>

\* Faulty variant: the chain is not followed.
NextToReadFirst == sclust

NextToRead == IF got = <<>> THEN sclust ELSE fat[clust]

\* The next sector, of the first cluster or of the one the FAT names; f_read
\* stops with an error when there is none.
ReadSector ==
    /\ pc = "read" /\ Len(got) < objsize
    /\ IF got = <<>> THEN UNCHANGED <<fat_d, dir_d, winsect, wflag>>
       ELSE get_fat(clust)
    /\ IF NextToRead \in Cluster
       THEN /\ got' = Append(got, data[NextToRead])
            /\ clust' = NextToRead
            /\ UNCHANGED pc
       ELSE pc' = "read_done" /\ UNCHANGED <<got, clust>>
    /\ UNCHANGED <<fsinfo, data, fat, dir, infoVars, sclust, objsize, dirty, localVars,
                   cmd, pulled>>

\* f_sync finds nothing modified.
ReadDone ==
    /\ \/ pc = "read_done"
       \/ pc = "read" /\ Len(got) = objsize
    /\ Finish
    /\ UNCHANGED <<diskVars, winVars, infoVars, localVars, got, pulled>>

---------------------------------------------------------------------------
\* The device is pulled, or the power fails: the disk stays as it is, and what
\* follows starts with f_mount.
Pull ==
    /\ pc # "idle"
    /\ fat' = fat_d /\ dir' = dir_d /\ winsect' = NoSect /\ wflag' = FALSE
    /\ free_clst' = Unknown /\ last_clst' = Unknown /\ fsi_flag' = FALSE
    /\ cl' = 0 /\ clst' = 0
    /\ got' = None
    /\ pulled' = TRUE
    /\ Finish
    /\ UNCHANGED diskVars

Command ==
    \E n \in Name :
        \/ FatRead(n)
        \/ \E d \in Text : FatWrite(n, d)

Shell ==
    \/ RemoveCluster \/ Reopen
    \/ AllocCluster \/ DiskFull \/ LinkCluster \/ PutSector \/ BufferSector \/ WriteDone
    \/ SyncData \/ SyncEntry \/ SyncWindow \/ SyncInfo
    \/ ReadSector \/ ReadDone

Next == Command \/ Shell \/ Pull

Spec == Init /\ [][Next]_vars

\* A command of the shell is a loop of its own that nothing waits in.
FairSpec == Spec /\ WF_vars(Shell)

---------------------------------------------------------------------------
(* What must hold.                                                         *)

FatEntry == {Free, EOC} \cup Cluster
Count == 0 .. Clusters \cup {Unknown}
Sector == {FatSect(c) : c \in Cluster} \cup {DirSect, FsiSect, NoSect}
Step == {"idle", "remove", "reopen", "write", "link", "put", "sync_data", "sync_entry",
         "sync_window", "sync_info", "read", "read_done"}
Reads == [op : {"fatread"}, name : Name]
Writes == [op : {"fatwrite"}, name : Name, data : Text]

\* What is missing is neither an entry nor a command.
ASSUME NoneAssumption == None \notin Entry \cup Reads \cup Writes

\* The FAT, the directory and FatFs's objects keep their types; the count of
\* free clusters of ff.c:1460 and 1610 stays within the volume.
TypeOK ==
    /\ fat_d \in [Cluster -> FatEntry] /\ fat \in [Cluster -> FatEntry]
    /\ dir_d \in [Name -> Entry \cup {None}] /\ dir \in [Name -> Entry \cup {None}]
    /\ fsinfo \in [free : Count, last : 1 .. n_fatent]
    /\ data \in [Cluster -> Data]
    /\ winsect \in Sector
    /\ wflag \in BOOLEAN /\ fsi_flag \in BOOLEAN /\ dirty \in BOOLEAN /\ pulled \in BOOLEAN
    /\ free_clst \in Count /\ last_clst \in 1 .. n_fatent
    /\ sclust \in {0} \cup Cluster /\ clust \in {0} \cup Cluster /\ objsize \in 0 .. MaxLen
    /\ cl \in {0} \cup Cluster /\ clst \in {0} \cup FatEntry
    /\ cmd \in Reads \cup Writes \cup {None} /\ pc \in Step
    /\ got \in Seq(Data) \cup {None}

Heads(d) == {n \in Name : d[n] # None /\ d[n].clust # 0}

\* No chain runs into a free cluster or into another chain, and every file
\* begins at the beginning of a chain of its own.
Sound(f, d) ==
    /\ \A c \in Cluster : f[c] \in Cluster => f[f[c]] # Free
    /\ \A b, c \in Cluster : f[b] = f[c] /\ f[b] \in Cluster => b = c
    /\ \A n \in Heads(d) : f[d[n].clust] # Free /\ \A c \in Cluster : f[c] # d[n].clust
    /\ \A m, n \in Heads(d) : d[m].clust = d[n].clust => m = n

\* Whenever the power fails, no two files on the disk share a cluster and none
\* holds a free one: the order in which the window moves between the FAT and
\* the directory in f_open, create_chain and f_sync takes care of it.
DiskSound == Sound(fat_d, dir_d)

\* The first clusters of a chain that begins with c in the FAT f, and the
\* sectors of a file along it.
Chain(f, c) ==
    LET chain[k \in 1 .. MaxLen] ==
            IF k = 1 THEN c
            ELSE IF chain[k - 1] \in Cluster THEN f[chain[k - 1]] ELSE EOC
    IN  chain

Content(f, sectors, entry) ==
    LET chain == Chain(f, entry.clust)
    IN  [k \in 1 .. entry.size |-> IF chain[k] \in Cluster THEN sectors[chain[k]] ELSE None]

FilesOf(f, d, sectors) ==
    [n \in Name |-> IF d[n] = None THEN None ELSE Content(f, sectors, d[n])]

Files == FilesOf(fat_d, dir_d, data)

Store == INSTANCE FileStore WITH
            files <- Files, answer <- IF cmd = None THEN got ELSE None

\* On the disk a file is emptied and then, in one step, holds the new text,
\* and no other file is ever touched, wherever the power fails; fatread
\* prints what the disk holds.
ImplementsFileStore == Store!Spec

\* When f_close of fatwrite is through, what f_write counted as written is on
\* the disk, with its directory entry, whatever f_close returns.
ClosedIsDurable ==
    [][SyncInfo => Files[cmd.name] = SubSeq(cmd.data, 1, objsize)]_vars

\* f_write gives up (ff.c:4064) only on a full volume, unless a command was cut
\* off earlier and has left FSInfo behind the FAT.
ShortWriteMeansFull == [][DiskFull => FreeClusters(fat) = {} \/ pulled]_vars

\* Every command comes back to the prompt, also on a full disk: the loops of
\* remove_chain, create_chain, f_write and f_gets end.
CommandReturns == pc # "idle" ~> pc = "idle"
=============================================================================

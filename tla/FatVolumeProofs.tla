-------------------------- MODULE FatVolumeProofs --------------------------
(***************************************************************************)
(* The FAT and the directory on the disk are sound whenever the power      *)
(* fails, for every volume, any files and texts: theorems of FatVolume.    *)
(*                                                                         *)
(* The argument: FatFs changes what it sees through its window one entry   *)
(* at a time, each time from one sound state to the next, and the disk     *)
(* lags behind in the sector of a dirty window at most, so that it always  *)
(* is what FatFs saw at some moment.  And a volume is full when f_write    *)
(* says so, because FatFs's count of free clusters is right.               *)
(*                                                                         *)
(* What the files hold is followed along their chains.  All clusters that  *)
(* change, in the FAT or in what is in them, are in no file (InFile), so   *)
(* that a file changes only when its directory entry comes to the disk:    *)
(* once emptied, and once with the whole text behind it (FilesKept).       *)
(***************************************************************************)
EXTENDS FatVolume, FiniteSetTheorems, SequenceTheorems, WellFoundedInduction, TLAPS

\* The disk differs from the view in the sector of a dirty window only.
WindowOnly ==
    /\ \A c \in Cluster : fat[c] # fat_d[c] => wflag /\ winsect = FatSect(c)
    /\ dir # dir_d => wflag /\ winsect = DirSect

\* A cluster no chain and no file leads to.
Unreached(f, d, c) ==
    /\ \A b \in Cluster : f[b] # c
    /\ \A n \in Heads(d) : d[n].clust # c

\* The chain remove_chain still has to free.
Removing ==
    pc = "remove" => clst \in Cluster /\ fat[clst] # Free /\ Unreached(fat, dir, clst)

Hole == pc \in {"remove", "reopen"} => cl \in Cluster /\ sclust = 0 /\ clust = 0

Filling == {"write", "link", "put", "sync_data", "sync_entry"}

\* The chain f_write builds, which no entry names yet.
Building ==
    pc \in Filling =>
        IF sclust = 0 THEN clust = 0
        ELSE /\ clust \in Cluster /\ fat[clust] = EOC
             /\ fat[sclust] # Free /\ Unreached(fat, dir, sclust)

\* The cluster create_chain has taken and not linked.
Linking ==
    pc = "link" =>
        /\ clst \in Cluster /\ fat[clst] = EOC /\ Unreached(fat, dir, clst)
        /\ clst # clust /\ clst # sclust /\ free_clst # 0

\* The command each step belongs to, and how far it is.
Progress ==
    /\ pc \in {"remove", "reopen", "sync_window", "sync_info"} \cup Filling =>
            cmd \in Writes /\ objsize <= Len(cmd.data)
    /\ pc \in {"link", "put"} => objsize < Len(cmd.data)
    /\ pc = "put" => clust \in Cluster
    /\ dirty => clust \in Cluster /\ objsize > 0
    /\ pc = "read" => cmd \in Reads /\ got \in Seq(Data)
    /\ pc = "read" /\ got # <<>> => clust \in Cluster

\* FSInfo is built in the window only after the window was written.
Clean == pc = "sync_info" => ~ wflag

IInv ==
    /\ TypeOK
    /\ Sound(fat_d, dir_d) /\ Sound(fat, dir)
    /\ WindowOnly
    /\ Removing /\ Hole /\ Building /\ Linking /\ Progress /\ Clean

---------------------------------------------------------------------------
(* Sectors and values of FAT entries.                                      *)

\* A set of numbers that is not empty has a smallest one.
LEMMA Least ==
    ASSUME NEW S \in SUBSET Nat, S # {}
    PROVE  \E n \in S : \A m \in S : n <= m
<1> DEFINE Less == {ss \in Nat \X Nat : ss[1] < ss[2]}
<1>1. \A m, n \in Nat : ~ (<<m, n>> \in Less) => n <= m
  OBVIOUS
<1>2. IsWellFoundedOn(Less, Nat)
  BY NatLessThanWellFounded, Zenon DEF OpToRel
<1> HIDE DEF Less
<1>3. PICK n \in S : \A m \in S : ~ (<<m, n>> \in Less)
  BY <1>2, WFMin
<1>4. QED BY <1>1, <1>3

\* No entry of the FAT is in the directory's sector, and the marks of free
\* entries and of the end of a chain are no clusters.
LEMMA Sectors ==
    /\ \A c \in Cluster : FatSect(c) # DirSect
    /\ 0 \notin Cluster /\ EOC \notin Cluster /\ Free # EOC /\ Cluster \subseteq Nat
    /\ n_fatent \in Nat /\ \A c \in Cluster : c \in 2 .. Clusters + 1
BY FatVolumeAssumption DEF FatVolumeAssumption, FatSect, DirSect, Cluster, EOC, Free, n_fatent

\* A sound FAT stays sound when the first cluster of a chain that nothing leads
\* to is freed, and then nothing leads to the rest.
LEMMA FreeSound ==
    ASSUME NEW f \in [Cluster -> FatEntry], NEW d \in [Name -> Entry \cup {None}],
           Sound(f, d), NEW c \in Cluster, f[c] # Free, Unreached(f, d, c)
    PROVE  LET g == [f EXCEPT ![c] = Free] IN
           /\ Sound(g, d)
           /\ f[c] \in Cluster => g[f[c]] # Free /\ Unreached(g, d, f[c])
BY Sectors DEF Sound, Unreached, FatEntry, Free, Heads

\* ... when a free cluster is made a chain of its own ...
LEMMA TakeSound ==
    ASSUME NEW f \in [Cluster -> FatEntry], NEW d \in [Name -> Entry \cup {None}],
           Sound(f, d), NEW c \in Cluster, f[c] = Free
    PROVE  LET g == [f EXCEPT ![c] = EOC] IN
           /\ Sound(g, d) /\ Unreached(g, d, c)
           /\ \A b \in Cluster : Unreached(f, d, b) => Unreached(g, d, b)
<1> DEFINE g == [f EXCEPT ![c] = EOC]
<1>1. /\ \A b \in Cluster : g[b] = IF b = c THEN EOC ELSE f[b]
      /\ \A b \in Cluster : f[b] # c
      /\ \A n \in Heads(d) : d[n].clust # c
  BY DEF Sound
<1>2. Unreached(g, d, c)
  BY <1>1, Sectors DEF Unreached
<1>3. \A b \in Cluster : Unreached(f, d, b) => Unreached(g, d, b)
  BY <1>1, Sectors DEF Unreached
<1>4. Sound(g, d)
  <2>1. \A b \in Cluster : g[b] \in Cluster => g[b] = f[b] /\ f[b] # c /\ g[g[b]] = f[f[b]]
    BY <1>1, Sectors
  <2>2. \A n \in Heads(d) : d[n].clust # c /\ f[d[n].clust] # Free
    BY <1>1 DEF Sound
  <2>3. \A n \in Heads(d) : g[d[n].clust] = f[d[n].clust]
    BY <2>2
  <2>4. \A n \in Heads(d) : d[n].clust \in Cluster
    BY DEF Heads, Entry
  <2>5. QED BY <1>1, <2>1, <2>2, <2>3, <2>4, Sectors DEF Sound
<1>5. QED BY <1>2, <1>3, <1>4

\* ... when the end of one chain is linked to one that nothing leads to ...
LEMMA LinkSound ==
    ASSUME NEW f \in [Cluster -> FatEntry], NEW d \in [Name -> Entry \cup {None}],
           Sound(f, d), NEW a \in Cluster, f[a] = EOC,
           NEW c \in Cluster, f[c] = EOC, Unreached(f, d, c), a # c
    PROVE  LET g == [f EXCEPT ![a] = c] IN
           /\ Sound(g, d)
           /\ \A b \in Cluster : b # c /\ Unreached(f, d, b) => Unreached(g, d, b)
BY Sectors DEF Sound, Unreached, FatEntry, Free, Heads

\* ... and when an entry is emptied or names a chain that nothing leads to.
LEMMA EmptySound ==
    ASSUME NEW f \in [Cluster -> FatEntry], NEW d \in [Name -> Entry \cup {None}],
           Sound(f, d), NEW n \in Name
    PROVE  LET e == [d EXCEPT ![n] = Empty] IN
           /\ Sound(f, e)
           /\ n \in Heads(d) => f[d[n].clust] # Free /\ Unreached(f, e, d[n].clust)
BY Sectors DEF Sound, Unreached, Heads, Empty

LEMMA EntrySound ==
    ASSUME NEW f \in [Cluster -> FatEntry], NEW d \in [Name -> Entry \cup {None}],
           Sound(f, d), NEW n \in Name, NEW e \in Entry,
           e.clust = 0 \/ (f[e.clust] # Free /\ Unreached(f, d, e.clust))
    PROVE  Sound(f, [d EXCEPT ![n] = e])
BY Sectors DEF Sound, Unreached, Heads, Entry

---------------------------------------------------------------------------
(* The window.                                                             *)

\* Once the window's sector is written the disk is what FatFs sees.
LEMMA Flushed ==
    ASSUME TypeOK, WindowOnly, WriteWindow
    PROVE  fat_d' = fat /\ dir_d' = dir
BY Sectors DEF TypeOK, WindowOnly, WriteWindow

LEMMA Synced ==
    ASSUME TypeOK, WindowOnly, NEW leaving \in BOOLEAN, SyncIf(leaving)
    PROVE  IF wflag /\ ~leaving THEN fat_d' = fat_d /\ dir_d' = dir_d
                                ELSE fat_d' = fat /\ dir_d' = dir
<1>1. CASE wflag /\ leaving
  BY <1>1, Flushed DEF SyncIf
<1>2. CASE ~ wflag
  <2>1. fat_d = fat /\ dir_d = dir
    BY <1>2 DEF TypeOK, WindowOnly
  <2>2. QED BY <1>2, <2>1 DEF SyncIf
<1>3. CASE wflag /\ ~ leaving
  BY <1>3 DEF SyncIf
<1>4. QED BY <1>1, <1>2, <1>3 DEF TypeOK

\* move_window without a change in it ...
LEMMA WindowMoved ==
    ASSUME TypeOK, WindowOnly, NEW sect, move_window(sect, FALSE), UNCHANGED <<fat, dir>>
    PROVE  WindowOnly'
<1>1. IF wflag /\ sect = winsect THEN fat_d' = fat_d /\ dir_d' = dir_d
                                 ELSE fat_d' = fat /\ dir_d' = dir
  BY Synced DEF move_window
<1>2. QED BY <1>1 DEF move_window, WindowOnly

\* ... and with one, of an entry of the FAT or in the directory.
LEMMA EntryPut ==
    ASSUME TypeOK, WindowOnly, NEW leaving \in BOOLEAN, SyncIf(leaving),
           NEW c \in Cluster, NEW v, fat' = [fat EXCEPT ![c] = v], dir' = dir,
           winsect' = FatSect(c), wflag' = TRUE,
           ~ leaving => winsect = FatSect(c)
    PROVE  WindowOnly'
<1>1. IF wflag /\ ~leaving THEN fat_d' = fat_d /\ dir_d' = dir_d
                           ELSE fat_d' = fat /\ dir_d' = dir
  BY Synced
<1>2. QED BY <1>1, Sectors DEF WindowOnly, TypeOK

LEMMA DirPut ==
    ASSUME TypeOK, WindowOnly, move_window(DirSect, TRUE), fat' = fat
    PROVE  WindowOnly'
<1>1. IF wflag /\ DirSect = winsect THEN fat_d' = fat_d /\ dir_d' = dir_d
                                    ELSE fat_d' = fat /\ dir_d' = dir
  BY Synced DEF move_window
<1>2. QED BY <1>1, Sectors DEF move_window, WindowOnly, TypeOK

\* Whatever sector is written back, what is on the disk stays sound.
LEMMA DiskKept ==
    ASSUME IInv, NEW leaving \in BOOLEAN, SyncIf(leaving)
    PROVE  /\ fat_d' \in [Cluster -> FatEntry] /\ dir_d' \in [Name -> Entry \cup {None}]
           /\ Sound(fat_d', dir_d')
<1>1. IF wflag /\ ~leaving THEN fat_d' = fat_d /\ dir_d' = dir_d
                           ELSE fat_d' = fat /\ dir_d' = dir
  BY Synced DEF IInv
<1>2. QED BY <1>1 DEF IInv, TypeOK

LEMMA MoveKept ==
    ASSUME IInv, NEW sect \in Sector, NEW put \in BOOLEAN, move_window(sect, put)
    PROVE  /\ fat_d' \in [Cluster -> FatEntry] /\ dir_d' \in [Name -> Entry \cup {None}]
           /\ Sound(fat_d', dir_d')
           /\ winsect' \in Sector /\ wflag' \in BOOLEAN
BY DiskKept DEF move_window, IInv, TypeOK

LEMMA SectorType ==
    /\ \A c \in Cluster : FatSect(c) \in Sector
    /\ DirSect \in Sector /\ FsiSect \in Sector /\ NoSect \in Sector
BY DEF Sector

---------------------------------------------------------------------------
(* Opening a file.                                                         *)

LEMMA InitStep == Init => IInv
<1> SUFFICES ASSUME Init PROVE IInv
  OBVIOUS
<1>1. fat_d \in [Cluster -> FatEntry] /\ dir_d \in [Name -> Entry \cup {None}]
  <2>1. Empty \in Entry
    BY FatVolumeAssumption DEF FatVolumeAssumption, Entry, Empty
  <2>2. QED BY <2>1 DEF Init, FatEntry
<1>2. Heads(dir_d) = {} /\ Heads(dir) = {}
  BY DEF Init, Heads, Empty
<1>3. Sound(fat_d, dir_d) /\ Sound(fat, dir)
  <2>1. \A c \in Cluster : fat_d[c] = 0 /\ fat[c] = 0
    BY DEF Init, Free
  <2>2. QED BY <1>2, <2>1, Sectors DEF Sound
<1>4. TypeOK
  <2>1. Clusters \in Count /\ Unknown \in Count /\ Unknown \in 1 .. n_fatent
        /\ 0 \in 0 .. MaxLen
    BY FatVolumeAssumption DEF FatVolumeAssumption, Count, Unknown, n_fatent
  <2>2. QED BY <1>1, <2>1, SectorType DEF Init, TypeOK, Step
<1>5. QED BY <1>3, <1>4 DEF Init, IInv, WindowOnly, Removing, Hole, Building, Linking, Progress, Clean, Filling

LEMMA FatWriteStep ==
    ASSUME IInv, NEW n \in Name, NEW d \in Text, FatWrite(n, d)
    PROVE  IInv'
<1>1. dir' \in [Name -> Entry \cup {None}] /\ fat' \in [Cluster -> FatEntry]
  <2>1. Empty \in Entry
    BY FatVolumeAssumption DEF FatVolumeAssumption, Entry, Empty
  <2>2. QED BY <2>1 DEF IInv, TypeOK, FatWrite, MountVolume
<1>2. Sound(fat', dir') /\ Sound(fat_d', dir_d')
  BY EmptySound DEF IInv, TypeOK, FatWrite, MountVolume, diskVars
<1>3. cl' \in {0} \cup Cluster /\ clst' = cl'
  BY DEF IInv, TypeOK, FatWrite, Entry, follow_path
<1>4. cl' # 0 => clst' \in Cluster /\ fat'[clst'] # Free /\ Unreached(fat', dir', clst')
  <2>1. cl' # 0 => n \in Heads(dir_d) /\ clst' = dir_d[n].clust
    BY DEF FatWrite, Heads, follow_path
  <2>2. QED BY <1>3, <2>1, EmptySound DEF IInv, TypeOK, FatWrite, MountVolume
<1>5. cmd' \in Writes /\ 0 <= Len(d)
  BY FatVolumeAssumption DEF FatVolumeAssumption, FatWrite, Writes
<1>6. TypeOK'
  <2>1. fsinfo.free \in Count /\ fsinfo.last \in 1 .. n_fatent /\ 0 \in 0 .. MaxLen
    BY FatVolumeAssumption DEF FatVolumeAssumption, IInv, TypeOK
  <2>2. QED BY <1>1, <1>3, <1>5, <2>1, SectorType
            DEF IInv, TypeOK, FatWrite, MountVolume, ClearFile, diskVars, Step, FatEntry
<1>7. WindowOnly'
  BY DEF FatWrite, MountVolume, diskVars, WindowOnly
<1>8. Removing' /\ Hole' /\ Building' /\ Linking'
  BY <1>3, <1>4 DEF FatWrite, ClearFile, Removing, Hole, Building, Linking
<1>9. Progress' /\ Clean'
  BY <1>5 DEF FatWrite, ClearFile, Progress, Clean
<1>10. QED BY <1>2, <1>6, <1>7, <1>8, <1>9 DEF IInv

LEMMA RemoveClusterStep ==
    ASSUME IInv, RemoveCluster
    PROVE  IInv'
<1>1. clst \in Cluster /\ fat[clst] # Free /\ Unreached(fat, dir, clst)
  BY DEF IInv, Removing, RemoveCluster
<1>2. FatSect(clst) \in Sector /\ move_window(FatSect(clst), TRUE)
  BY <1>1, SectorType DEF RemoveCluster, put_fat
<1>3. Sound(fat', dir')
      /\ (fat[clst] \in Cluster =>
            fat'[fat[clst]] # Free /\ Unreached(fat', dir', fat[clst]))
  BY <1>1, FreeSound DEF IInv, TypeOK, RemoveCluster, put_fat
<1>4. /\ fat_d' \in [Cluster -> FatEntry] /\ dir_d' \in [Name -> Entry \cup {None}]
      /\ Sound(fat_d', dir_d') /\ winsect' \in Sector /\ wflag' \in BOOLEAN
  BY <1>2, MoveKept
<1>5. TypeOK'
  <2>1. fat' \in [Cluster -> FatEntry] /\ clst' \in {0} \cup FatEntry
    BY <1>1 DEF IInv, TypeOK, RemoveCluster, put_fat, FatEntry
  <2>2. free_clst' \in Count /\ fsi_flag' \in BOOLEAN
    <3>1. free_clst \in Count /\ fsi_flag \in BOOLEAN /\ CountFreed
      BY DEF IInv, TypeOK, RemoveCluster, put_fat
    <3>2. free_clst < n_fatent - 2 => free_clst + 1 \in Count
      BY <3>1, FatVolumeAssumption DEF FatVolumeAssumption, Count, n_fatent, Unknown
    <3>3. QED BY <3>1, <3>2 DEF CountFreed
  <2>3. QED BY <1>4, <2>1, <2>2 DEF IInv, TypeOK, RemoveCluster, put_fat, filVars, Step
<1>6. WindowOnly'
  <2>1. winsect' = FatSect(clst) /\ wflag' = TRUE /\ SyncIf(FatSect(clst) # winsect)
    BY <1>2 DEF move_window
  <2>2. QED BY <1>1, <2>1, EntryPut DEF IInv, RemoveCluster, put_fat
<1>7. Removing' /\ Hole' /\ Building' /\ Linking' /\ Progress' /\ Clean'
  BY <1>3 DEF IInv, RemoveCluster, put_fat, filVars, Removing, Hole, Building, Linking, Progress, Clean, Filling
<1>8. QED BY <1>3, <1>4, <1>5, <1>6, <1>7 DEF IInv

LEMMA ReopenStep ==
    ASSUME IInv, Reopen
    PROVE  IInv'
<1>1. DirSect \in Sector /\ move_window(DirSect, FALSE) /\ UNCHANGED <<fat, dir>>
  BY SectorType DEF Reopen
<1>2. /\ fat_d' \in [Cluster -> FatEntry] /\ dir_d' \in [Name -> Entry \cup {None}]
      /\ Sound(fat_d', dir_d') /\ winsect' \in Sector /\ wflag' \in BOOLEAN
  BY <1>1, MoveKept
<1>3. WindowOnly'
  BY <1>1, WindowMoved DEF IInv
<1>4. cl \in Cluster /\ sclust = 0 /\ clust = 0
  BY DEF IInv, Hole, Reopen
<1>5. last_clst' \in 1 .. n_fatent
  BY <1>4, Sectors, FatVolumeAssumption DEF FatVolumeAssumption, Reopen, n_fatent
<1>6. TypeOK'
  BY <1>2, <1>5 DEF IInv, TypeOK, Reopen, filVars, Step
<1>7. Removing' /\ Hole' /\ Building' /\ Linking' /\ Progress' /\ Clean'
  BY <1>4 DEF IInv, Reopen, filVars, Removing, Hole, Building, Linking, Progress, Clean, Filling
<1>8. QED BY <1>1, <1>2, <1>3, <1>6, <1>7 DEF IInv

---------------------------------------------------------------------------
(* Writing.                                                                *)

LEMMA SearchType ==
    ASSUME TypeOK
    PROVE  SearchFrom \in 1 .. n_fatent - 1
<1>1. /\ 1 \in 1 .. n_fatent - 1 /\ 2 - 1 = 1
      /\ \A c \in Cluster : c \in 1 .. n_fatent - 1 /\ c - 1 \in 1 .. n_fatent - 1
  BY FatVolumeAssumption DEF FatVolumeAssumption, n_fatent, Cluster
<1>2. clust # 0 => clust \in Cluster
  BY DEF TypeOK
<1>3. Hint \in 1 .. n_fatent - 1
  BY <1>1, <1>2 DEF Hint
<1>4. Beside - 1 \in 1 .. n_fatent - 1
  BY <1>1 DEF Beside
<1>5. QED BY <1>1, <1>2, <1>3, <1>4 DEF SearchFrom

\* The search that takes a cluster reads its entry.
LEMMA OwnTurn ==
    ASSUME TypeOK, NEW ncl \in Cluster
    PROVE  ncl \in Tried(ncl)
<1>1. Turn(SearchFrom, ncl) \in Int
  BY SearchType, Sectors, FatVolumeAssumption DEF FatVolumeAssumption, Turn
<1>2. Turn(SearchFrom, ncl) <= Turn(SearchFrom, ncl)
  BY <1>1
<1>3. QED BY <1>2 DEF Tried

LEMMA AllocClusterStep ==
    ASSUME IInv, AllocCluster
    PROVE  IInv'
<1>1. PICK ncl \in NextFree(SearchFrom) :
          /\ SyncIf(\E c \in Tried(ncl) : FatSect(c) # winsect)
          /\ winsect' = FatSect(ncl) /\ wflag' = TRUE
          /\ fat' = [fat EXCEPT ![ncl] = EOC]
          /\ clst' = ncl
  BY DEF AllocCluster
<1> DEFINE leaving == \E c \in Tried(ncl) : FatSect(c) # winsect
<1>2. ncl \in Cluster /\ fat[ncl] = Free
  BY <1>1 DEF NextFree, FreeClusters
<1>3. ncl \in Tried(ncl)
  BY <1>2, OwnTurn DEF IInv
<1>4. leaving \in BOOLEAN /\ (~ leaving => winsect = FatSect(ncl)) /\ SyncIf(leaving)
  BY <1>1, <1>3
<1> HIDE DEF leaving
<1>5. Sound(fat', dir') /\ Unreached(fat', dir', ncl)
      /\ \A b \in Cluster : Unreached(fat, dir, b) => Unreached(fat', dir', b)
  BY <1>1, <1>2, TakeSound DEF IInv, TypeOK, AllocCluster
<1>6. /\ fat_d' \in [Cluster -> FatEntry] /\ dir_d' \in [Name -> Entry \cup {None}]
      /\ Sound(fat_d', dir_d')
  BY <1>4, DiskKept
<1>7. WindowOnly'
  BY <1>1, <1>2, <1>4, EntryPut DEF IInv, AllocCluster
<1>8. TypeOK'
  <2>1. fat' \in [Cluster -> FatEntry] /\ clst' \in {0} \cup FatEntry
    BY <1>1, <1>2 DEF IInv, TypeOK, FatEntry
  <2>2. QED BY <1>1, <1>2, <1>6, <2>1, SectorType
            DEF IInv, TypeOK, AllocCluster, filVars, infoVars, Step
<1>9. clst' # clust /\ clst' # sclust /\ fat'[ncl] = EOC
      /\ (clust \in Cluster => fat'[clust] = fat[clust])
      /\ (sclust \in Cluster => fat'[sclust] = fat[sclust])
  <2>1. \/ sclust = 0 /\ clust = 0
        \/ fat[clust] = EOC /\ fat[sclust] # Free
    BY DEF IInv, Building, AllocCluster, MoreToWrite, Filling
  <2>2. QED BY <1>1, <1>2, <2>1, Sectors DEF IInv, TypeOK
<1>10. Building'
  <2>1. CASE sclust = 0
    BY <2>1 DEF IInv, Building, AllocCluster, MoreToWrite, filVars, Filling
  <2>2. CASE sclust # 0
    BY <2>2, <1>5, <1>9 DEF IInv, TypeOK, Building, AllocCluster, MoreToWrite, filVars, Filling
  <2>3. QED BY <2>1, <2>2
<1>11. Linking'
  BY <1>1, <1>2, <1>5, <1>9 DEF AllocCluster, Linking, filVars, infoVars
<1>12. Removing' /\ Hole' /\ Progress' /\ Clean'
  BY DEF IInv, AllocCluster, MoreToWrite, filVars, Removing, Hole, Progress, Clean, Filling
<1>13. QED BY <1>5, <1>6, <1>7, <1>8, <1>10, <1>11, <1>12 DEF IInv

LEMMA DiskFullStep ==
    ASSUME IInv, DiskFull
    PROVE  IInv'
<1> DEFINE last == IF SearchFrom = 1 THEN n_fatent - 1 ELSE SearchFrom
           leaving == \E c \in Cluster : FatSect(c) # winsect
<1>1. UNCHANGED <<fat, dir>>
  BY DEF DiskFull
<1>2. last \in Cluster
  <2>1. SearchFrom \in 1 .. n_fatent - 1
    BY SearchType DEF IInv
  <2>2. QED BY <2>1, FatVolumeAssumption DEF FatVolumeAssumption, Cluster, n_fatent
<1>3. \/ UNCHANGED <<fat_d, dir_d, winsect, wflag>>
      \/ clust \in Cluster /\ move_window(FatSect(clust), FALSE)
      \/ /\ SyncIf(leaving) /\ winsect' = FatSect(last) /\ wflag' = (wflag /\ ~ leaving)
  BY DEF DiskFull, get_fat, IInv, TypeOK
<1>4. leaving \in BOOLEAN /\ (~ leaving => winsect = FatSect(last)) /\ FatSect(last) \in Sector
  BY <1>2, SectorType
<1> HIDE DEF leaving, last
<1>5. /\ fat_d' \in [Cluster -> FatEntry] /\ dir_d' \in [Name -> Entry \cup {None}]
      /\ Sound(fat_d', dir_d') /\ winsect' \in Sector /\ wflag' \in BOOLEAN
      /\ WindowOnly'
  <2>1. CASE UNCHANGED <<fat_d, dir_d, winsect, wflag>>
    BY <1>1, <2>1 DEF IInv, TypeOK, WindowOnly
  <2>2. CASE clust \in Cluster /\ move_window(FatSect(clust), FALSE)
    BY <1>1, <2>2, MoveKept, WindowMoved, SectorType DEF IInv
  <2>3. CASE SyncIf(leaving) /\ winsect' = FatSect(last) /\ wflag' = (wflag /\ ~ leaving)
    <3>1. IF wflag /\ ~leaving THEN fat_d' = fat_d /\ dir_d' = dir_d
                               ELSE fat_d' = fat /\ dir_d' = dir
      BY <1>4, <2>3, Synced DEF IInv
    <3>2. WindowOnly'
      <4>1. CASE wflag /\ ~ leaving
        BY <4>1, <3>1, <1>1, <1>4, <2>3 DEF IInv, WindowOnly
      <4>2. CASE ~ (wflag /\ ~ leaving)
        BY <4>2, <3>1, <1>1 DEF WindowOnly
      <4>3. QED BY <4>1, <4>2
    <3>3. QED BY <1>4, <2>3, <3>2, DiskKept DEF IInv, TypeOK
  <2>4. QED BY <1>3, <2>1, <2>2, <2>3
<1>6. TypeOK'
  BY <1>1, <1>5 DEF IInv, TypeOK, DiskFull, MoreToWrite, filVars, infoVars, localVars, Step
<1>7. Removing' /\ Hole' /\ Building' /\ Linking' /\ Progress' /\ Clean'
  BY <1>1 DEF IInv, DiskFull, MoreToWrite, filVars, infoVars, localVars, Removing, Hole, Building, Linking, Progress, Clean, Filling
<1>8. QED BY <1>1, <1>5, <1>6, <1>7 DEF IInv

LEMMA LinkClusterStep ==
    ASSUME IInv, LinkCluster
    PROVE  IInv'
<1>1. /\ clst \in Cluster /\ fat[clst] = EOC /\ Unreached(fat, dir, clst)
      /\ clst # clust /\ clst # sclust /\ free_clst # 0
  BY DEF IInv, Linking, LinkCluster
<1>2. IF sclust = 0 THEN clust = 0
      ELSE /\ clust \in Cluster /\ fat[clust] = EOC
           /\ fat[sclust] # Free /\ Unreached(fat, dir, sclust) /\ sclust \in Cluster
  BY DEF IInv, Building, LinkCluster, Filling, TypeOK
<1>3. /\ fat' \in [Cluster -> FatEntry] /\ Sound(fat', dir') /\ WindowOnly'
      /\ fat_d' \in [Cluster -> FatEntry] /\ dir_d' \in [Name -> Entry \cup {None}]
      /\ Sound(fat_d', dir_d') /\ winsect' \in Sector /\ wflag' \in BOOLEAN
      /\ fat'[clst] = EOC
      /\ sclust = 0 => Unreached(fat', dir', clst)
      /\ sclust # 0 => fat'[sclust] # Free /\ Unreached(fat', dir', sclust)
  <2>1. CASE sclust = 0
    BY <1>1, <1>2, <2>1 DEF IInv, TypeOK, WindowOnly, LinkCluster, NewLink, put_fat
  <2>2. CASE sclust # 0
    <3>1. clust # 0 /\ clust \in Cluster /\ dir' = dir
      BY <1>2, <2>2, Sectors DEF LinkCluster
    <3>2. move_window(FatSect(clust), TRUE) /\ fat' = [fat EXCEPT ![clust] = clst]
      BY <3>1 DEF LinkCluster, NewLink, put_fat
    <3>3. Sound(fat', dir') /\ Unreached(fat', dir', sclust)
      BY <1>1, <1>2, <2>2, <3>1, <3>2, LinkSound DEF IInv, TypeOK
    <3>4. fat' \in [Cluster -> FatEntry] /\ fat'[clst] = EOC /\ fat'[sclust] # Free
      BY <1>1, <1>2, <2>2, <3>1, <3>2, Sectors DEF IInv, TypeOK, FatEntry, Free
    <3>5. WindowOnly'
      <4>1. winsect' = FatSect(clust) /\ wflag' = TRUE /\ SyncIf(FatSect(clust) # winsect)
        BY <3>2 DEF move_window
      <4>2. QED BY <3>1, <3>2, <4>1, EntryPut DEF IInv
    <3>6. QED BY <2>2, <3>1, <3>2, <3>3, <3>4, <3>5, MoveKept, SectorType
  <2>3. QED BY <2>1, <2>2
<1>4. free_clst' \in Count
  <2>1. free_clst \in Count /\ free_clst' = IF free_clst <= n_fatent - 2 THEN free_clst - 1 ELSE free_clst
    BY DEF IInv, TypeOK, LinkCluster
  <2>2. QED BY <1>1, <2>1, FatVolumeAssumption DEF FatVolumeAssumption, Count, n_fatent, Unknown
<1>5. last_clst' \in 1 .. n_fatent
  BY <1>1, Sectors DEF LinkCluster, Cluster
<1>6. sclust' \in Cluster /\ clust' \in Cluster /\ clst' = 0
  BY <1>1, <1>2 DEF LinkCluster
<1>7. TypeOK'
  BY <1>3, <1>4, <1>5, <1>6 DEF IInv, TypeOK, LinkCluster, Step
<1>8. Building'
  BY <1>1, <1>2, <1>3, <1>6, Sectors DEF LinkCluster, Building, Free
<1>9. Removing' /\ Hole' /\ Linking' /\ Progress' /\ Clean'
  BY <1>6 DEF IInv, LinkCluster, Removing, Hole, Linking, Progress, Clean, Filling
<1>10. QED BY <1>3, <1>7, <1>8, <1>9 DEF IInv

LEMMA PutSectorStep ==
    ASSUME IInv, PutSector \/ BufferSector
    PROVE  IInv'
<1>1. cmd \in Writes /\ objsize < Len(cmd.data) /\ clust \in Cluster /\ pc = "put"
  BY DEF IInv, Progress, PutSector, BufferSector, Filling
<1>2. cmd.data \in Seq(Data) /\ Len(cmd.data) \in 1 .. MaxLen /\ objsize \in Nat
  BY <1>1, FatVolumeAssumption DEF FatVolumeAssumption, Writes, IInv, TypeOK
<1>3. Written \in Data /\ objsize + 1 \in 0 .. MaxLen /\ objsize + 1 <= Len(cmd.data) /\ objsize + 1 > 0
  BY <1>1, <1>2, FatVolumeAssumption DEF FatVolumeAssumption, Written
<1>4. data' \in [Cluster -> Data]
  BY <1>1, <1>3 DEF IInv, TypeOK, PutSector, BufferSector, diskVars
<1>5. TypeOK'
  BY <1>3, <1>4 DEF IInv, TypeOK, PutSector, BufferSector, diskVars, winVars, infoVars, localVars, Step
<1>6. Sound(fat_d, dir_d)' /\ Sound(fat, dir)' /\ WindowOnly'
  BY DEF IInv, PutSector, BufferSector, diskVars, winVars, WindowOnly
<1>7. Removing' /\ Hole' /\ Building' /\ Linking'
  BY DEF IInv, PutSector, BufferSector, diskVars, winVars, infoVars, localVars,
         Removing, Hole, Building, Linking, Filling
<1>8. Progress' /\ Clean'
  BY <1>1, <1>3 DEF IInv, PutSector, BufferSector, diskVars, Progress, Clean, Filling
<1>9. QED BY <1>5, <1>6, <1>7, <1>8 DEF IInv

LEMMA WriteDoneStep ==
    ASSUME IInv, WriteDone
    PROVE  IInv'
<1>1. TypeOK' /\ Sound(fat_d, dir_d)' /\ Sound(fat, dir)' /\ WindowOnly'
  BY DEF IInv, TypeOK, WriteDone, diskVars, winVars, infoVars, filVars, localVars, WindowOnly, Step
<1>2. Removing' /\ Hole' /\ Building' /\ Linking' /\ Progress' /\ Clean'
  BY DEF IInv, WriteDone, diskVars, winVars, infoVars, filVars, localVars,
         Removing, Hole, Building, Linking, Progress, Clean, Filling
<1>3. QED BY <1>1, <1>2 DEF IInv

---------------------------------------------------------------------------
(* Closing a file.                                                         *)

LEMMA SyncDataStep ==
    ASSUME IInv, SyncData
    PROVE  IInv'
<1>1. data' \in [Cluster -> Data]
  <2>1. CASE dirty
    <3>1. cmd \in Writes /\ objsize <= Len(cmd.data) /\ objsize > 0 /\ clust \in Cluster
      BY <2>1 DEF IInv, Progress, SyncData, Filling
    <3>2. cmd.data \in Seq(Data) /\ objsize \in Nat
      BY <3>1, FatVolumeAssumption DEF FatVolumeAssumption, Writes, IInv, TypeOK
    <3>3. Written = cmd.data[objsize]
      BY DEF Written, SyncData
    <3>4. Written \in Data
      BY <3>1, <3>2, <3>3
    <3>5. QED BY <2>1, <3>1, <3>4 DEF SyncData, IInv, TypeOK
  <2>2. CASE ~ dirty
    BY <2>2 DEF SyncData, IInv, TypeOK
  <2>3. QED BY <2>1, <2>2
<1>2. TypeOK' /\ Sound(fat_d, dir_d)' /\ Sound(fat, dir)' /\ WindowOnly'
  BY <1>1 DEF IInv, TypeOK, SyncData, winVars, infoVars, localVars, WindowOnly, Step
<1>3. Removing' /\ Hole' /\ Building' /\ Linking' /\ Progress' /\ Clean'
  BY DEF IInv, SyncData, winVars, infoVars, localVars,
         Removing, Hole, Building, Linking, Progress, Clean, Filling
<1>4. QED BY <1>2, <1>3 DEF IInv

LEMMA SyncEntryStep ==
    ASSUME IInv, SyncEntry
    PROVE  IInv'
<1>1. cmd \in Writes /\ cmd.name \in Name /\ pc = "sync_entry"
  BY DEF IInv, Progress, SyncEntry, Filling, Writes
<1> DEFINE entry == [clust |-> sclust, size |-> objsize]
<1>2. entry \in Entry /\ entry.clust = sclust
  BY DEF IInv, TypeOK, Entry
<1>3. sclust = 0 \/ (fat[sclust] # Free /\ Unreached(fat, dir, sclust))
  BY <1>1 DEF IInv, Building, Filling
<1>4. dir' = [dir EXCEPT ![cmd.name] = entry] /\ fat' = fat
  BY DEF SyncEntry
<1> HIDE DEF entry
<1>5. Sound(fat', dir') /\ dir' \in [Name -> Entry \cup {None}]
  BY <1>1, <1>2, <1>3, <1>4, EntrySound DEF IInv, TypeOK
<1>6. DirSect \in Sector /\ move_window(DirSect, TRUE)
  BY SectorType DEF SyncEntry
<1>7. /\ fat_d' \in [Cluster -> FatEntry] /\ dir_d' \in [Name -> Entry \cup {None}]
      /\ Sound(fat_d', dir_d') /\ winsect' \in Sector /\ wflag' \in BOOLEAN
  BY <1>6, MoveKept
<1>8. WindowOnly'
  BY <1>4, <1>6, DirPut DEF IInv
<1>9. TypeOK'
  BY <1>4, <1>5, <1>7 DEF IInv, TypeOK, SyncEntry, infoVars, filVars, localVars, Step
<1>10. Removing' /\ Hole' /\ Building' /\ Linking' /\ Progress' /\ Clean'
  BY DEF IInv, SyncEntry, filVars, Removing, Hole, Building, Linking, Progress, Clean, Filling
<1>11. QED BY <1>5, <1>7, <1>8, <1>9, <1>10 DEF IInv

LEMMA SyncWindowStep ==
    ASSUME IInv, SyncWindow
    PROVE  IInv'
<1>1. fat_d' = fat /\ dir_d' = dir /\ fat' = fat /\ dir' = dir
  BY Flushed DEF IInv, SyncWindow
<1>2. TypeOK'
  BY <1>1 DEF IInv, TypeOK, SyncWindow, infoVars, filVars, localVars, Step
<1>3. Sound(fat_d, dir_d)' /\ Sound(fat, dir)' /\ WindowOnly'
  BY <1>1 DEF IInv, WindowOnly
<1>4. Removing' /\ Hole' /\ Building' /\ Linking' /\ Progress' /\ Clean'
  BY DEF IInv, SyncWindow, filVars, Removing, Hole, Building, Linking, Progress, Clean, Filling
<1>5. QED BY <1>2, <1>3, <1>4 DEF IInv

\* The end of a command, when the disk is what FatFs saw.
LEMMA FinishType ==
    ASSUME Finish
    PROVE  /\ sclust' = 0 /\ clust' = 0 /\ objsize' \in 0 .. MaxLen /\ dirty' = FALSE
           /\ cmd' = None /\ pc' = "idle"
           /\ Removing' /\ Hole' /\ Building' /\ Linking' /\ Progress' /\ Clean'
<1>1. 0 \in 0 .. MaxLen
  BY FatVolumeAssumption DEF FatVolumeAssumption
<1>2. QED BY <1>1 DEF Finish, ClearFile, Removing, Hole, Building, Linking, Progress, Clean, Filling

LEMMA SyncInfoStep ==
    ASSUME IInv, SyncInfo
    PROVE  IInv'
<1>1. fat = fat_d /\ dir = dir_d /\ ~ wflag
  BY DEF IInv, TypeOK, WindowOnly, Clean, SyncInfo
<1>2. Finish /\ UNCHANGED <<fat_d, dir_d, fat, dir, wflag>>
  BY DEF SyncInfo
<1>3. fsinfo' \in [free : Count, last : 1 .. n_fatent] /\ winsect' \in Sector
  BY SectorType DEF IInv, TypeOK, SyncInfo
<1>4. TypeOK'
  BY <1>2, <1>3, FinishType DEF IInv, TypeOK, SyncInfo, localVars, Step
<1>5. Sound(fat_d, dir_d)' /\ Sound(fat, dir)' /\ WindowOnly'
  BY <1>1, <1>2 DEF IInv, WindowOnly
<1>6. QED BY <1>2, <1>4, <1>5, FinishType DEF IInv

---------------------------------------------------------------------------
(* Reading a file, and the end of a command by force.                      *)

LEMMA FatReadStep ==
    ASSUME IInv, NEW n \in Name, FatRead(n)
    PROVE  IInv'
<1>1. UNCHANGED diskVars /\ fat' = fat_d /\ dir' = dir_d /\ winsect' = DirSect /\ wflag' = FALSE
  BY DEF FatRead, MountVolume
<1>2. cmd' \in Reads
  BY DEF FatRead, Reads
<1>3. /\ sclust' \in {0} \cup Cluster /\ clust' = 0 /\ objsize' \in 0 .. MaxLen
      /\ dirty' = FALSE /\ got' \in Seq(Data) \cup {None} /\ pc' \in {"read", "read_done"}
      /\ pc' = "read" => got' = <<>>
  <2>1. 0 \in 0 .. MaxLen /\ <<>> \in Seq(Data)
    BY FatVolumeAssumption DEF FatVolumeAssumption
  <2>2. CASE dir_d[n] = None
    BY <2>1, <2>2 DEF FatRead, ClearFile, follow_path
  <2>3. CASE dir_d[n] # None
    <3>1. dir_d[n].clust \in {0} \cup Cluster /\ dir_d[n].size \in 0 .. MaxLen
      BY <2>3 DEF IInv, TypeOK, Entry
    <3>2. QED BY <2>1, <2>3, <3>1 DEF FatRead, follow_path
  <2>4. QED BY <2>2, <2>3
<1>4. free_clst' \in Count /\ last_clst' \in 1 .. n_fatent /\ fsi_flag' = FALSE
  BY DEF IInv, TypeOK, FatRead, MountVolume
<1>5. TypeOK'
  BY <1>1, <1>2, <1>3, <1>4, SectorType DEF IInv, TypeOK, FatRead, diskVars, localVars, Step
<1>6. Sound(fat_d, dir_d)' /\ Sound(fat, dir)' /\ WindowOnly'
  BY <1>1 DEF IInv, diskVars, WindowOnly
<1>7. Removing' /\ Hole' /\ Building' /\ Linking' /\ Clean'
  BY <1>3 DEF Removing, Hole, Building, Linking, Clean, Filling
<1>8. Progress'
  <2>1. <<>> \in Seq(Data)
    OBVIOUS
  <2>2. QED BY <1>2, <1>3, <2>1 DEF Progress, Filling
<1>9. QED BY <1>5, <1>6, <1>7, <1>8 DEF IInv

LEMMA ReadSectorStep ==
    ASSUME IInv, ReadSector
    PROVE  IInv'
<1>1. cmd \in Reads /\ got \in Seq(Data) /\ (got # <<>> => clust \in Cluster) /\ pc = "read"
  BY DEF IInv, Progress, ReadSector
<1>2. UNCHANGED <<fat, dir>>
  BY DEF ReadSector
<1>3. /\ fat_d' \in [Cluster -> FatEntry] /\ dir_d' \in [Name -> Entry \cup {None}]
      /\ Sound(fat_d', dir_d') /\ winsect' \in Sector /\ wflag' \in BOOLEAN
      /\ WindowOnly'
  <2>1. CASE got = <<>>
    BY <1>2, <2>1 DEF IInv, TypeOK, WindowOnly, ReadSector
  <2>2. CASE got # <<>>
    <3>1. FatSect(clust) \in Sector /\ move_window(FatSect(clust), FALSE)
      BY <1>1, <2>2, SectorType DEF ReadSector, get_fat
    <3>2. QED BY <1>2, <3>1, MoveKept, WindowMoved DEF IInv
  <2>3. QED BY <2>1, <2>2
<1>4. got' \in Seq(Data) /\ clust' \in {0} \cup Cluster /\ pc' \in {"read", "read_done"}
      /\ (pc' = "read" => clust' \in Cluster)
  <2>1. CASE NextToRead \in Cluster
    <3>1. got' = Append(got, data[NextToRead]) /\ clust' = NextToRead /\ pc' = pc
      BY <2>1 DEF ReadSector
    <3>2. data[NextToRead] \in Data
      BY <2>1 DEF IInv, TypeOK
    <3>3. QED BY <1>1, <2>1, <3>1, <3>2
  <2>2. CASE NextToRead \notin Cluster
    BY <1>1, <2>2 DEF IInv, TypeOK, ReadSector
  <2>3. QED BY <2>1, <2>2
<1>5. TypeOK'
  BY <1>2, <1>3, <1>4 DEF IInv, TypeOK, ReadSector, infoVars, localVars, Step
<1>6. Removing' /\ Hole' /\ Building' /\ Linking' /\ Clean'
  BY <1>4 DEF Removing, Hole, Building, Linking, Clean, Filling
<1>7. dirty => clust' \in Cluster
  BY <1>1, <1>4 DEF IInv, Progress, ReadSector
<1>8. Progress'
  BY <1>1, <1>4, <1>7 DEF IInv, Progress, ReadSector, Filling
<1>9. QED BY <1>2, <1>3, <1>5, <1>6, <1>8 DEF IInv

LEMMA ReadDoneStep ==
    ASSUME IInv, ReadDone
    PROVE  IInv'
<1>1. Finish /\ UNCHANGED <<diskVars, winVars, infoVars, localVars, got, pulled>>
  BY DEF ReadDone
<1>2. TypeOK'
  BY <1>1, FinishType DEF IInv, TypeOK, diskVars, winVars, infoVars, localVars, Step
<1>3. Sound(fat_d, dir_d)' /\ Sound(fat, dir)' /\ WindowOnly'
  BY <1>1 DEF IInv, WindowOnly, diskVars, winVars
<1>4. QED BY <1>1, <1>2, <1>3, FinishType DEF IInv

LEMMA PullStep ==
    ASSUME IInv, Pull
    PROVE  IInv'
<1>1. Finish /\ fat' = fat_d /\ dir' = dir_d /\ UNCHANGED diskVars
  BY DEF Pull
<1>2. Unknown \in Count /\ Unknown \in 1 .. n_fatent
  BY FatVolumeAssumption DEF FatVolumeAssumption, Count, Unknown, n_fatent
<1>3. TypeOK'
  BY <1>1, <1>2, FinishType, SectorType DEF IInv, TypeOK, Pull, diskVars, Step
<1>4. Sound(fat_d, dir_d)' /\ Sound(fat, dir)' /\ WindowOnly'
  BY <1>1 DEF IInv, WindowOnly, diskVars
<1>5. QED BY <1>1, <1>3, <1>4, FinishType DEF IInv

---------------------------------------------------------------------------
LEMMA Inductive == IInv /\ [Next]_vars => IInv'
<1> SUFFICES ASSUME IInv, [Next]_vars PROVE IInv'
  OBVIOUS
<1>1. ASSUME NEW n \in Name, FatRead(n) PROVE IInv'
  BY <1>1, FatReadStep
<1>2. ASSUME NEW n \in Name, NEW d \in Text, FatWrite(n, d) PROVE IInv'
  BY <1>2, FatWriteStep
<1>3. CASE RemoveCluster
  BY <1>3, RemoveClusterStep
<1>4. CASE Reopen
  BY <1>4, ReopenStep
<1>5. CASE AllocCluster
  BY <1>5, AllocClusterStep
<1>6. CASE DiskFull
  BY <1>6, DiskFullStep
<1>7. CASE LinkCluster
  BY <1>7, LinkClusterStep
<1>8. CASE PutSector \/ BufferSector
  BY <1>8, PutSectorStep
<1>9. CASE WriteDone
  BY <1>9, WriteDoneStep
<1>10. CASE SyncData
  BY <1>10, SyncDataStep
<1>11. CASE SyncEntry
  BY <1>11, SyncEntryStep
<1>12. CASE SyncWindow
  BY <1>12, SyncWindowStep
<1>13. CASE SyncInfo
  BY <1>13, SyncInfoStep
<1>14. CASE ReadSector
  BY <1>14, ReadSectorStep
<1>15. CASE ReadDone
  BY <1>15, ReadDoneStep
<1>16. CASE Pull
  BY <1>16, PullStep
<1>17. CASE UNCHANGED vars
  <2>1. TypeOK' /\ Sound(fat_d, dir_d)' /\ Sound(fat, dir)' /\ WindowOnly'
    BY <1>17 DEF IInv, TypeOK, WindowOnly, vars, diskVars, winVars, infoVars, filVars, localVars
  <2>2. Removing' /\ Hole' /\ Building' /\ Linking' /\ Progress' /\ Clean'
    BY <1>17 DEF IInv, vars, diskVars, winVars, infoVars, filVars, localVars,
           Removing, Hole, Building, Linking, Progress, Clean
  <2>3. QED BY <2>1, <2>2 DEF IInv
<1>18. QED BY <1>1, <1>2, <1>3, <1>4, <1>5, <1>6, <1>7, <1>8, <1>9, <1>10, <1>11, <1>12,
              <1>13, <1>14, <1>15, <1>16, <1>17 DEF Next, Command, Shell

LEMMA Invariance == Spec => []IInv
BY InitStep, Inductive, PTL DEF Spec

\* The FAT, the directory and FatFs's objects keep their types, and the count
\* of free clusters stays within the volume (ff.c:1460, 1610).
THEOREM TypeCorrect == Spec => []TypeOK
<1>1. IInv => TypeOK
  BY DEF IInv
<1>2. QED BY Invariance, <1>1, PTL

\* Whenever the power fails, no two files on the disk share a cluster and none
\* holds a free one: every sector that f_open, create_chain and f_sync write
\* through move_window and sync_window makes the disk what FatFs saw.
THEOREM DiskAlwaysSound == Spec => []DiskSound
<1>1. IInv => DiskSound
  BY DEF IInv, DiskSound
<1>2. QED BY Invariance, <1>1, PTL

---------------------------------------------------------------------------
(* The count of free clusters.                                             *)

\* The clusters f_write has taken and not counted yet.
Uncounted == IF pc = "link" THEN 1 ELSE 0

\* FatFs's count is unknown or right as long as no command was cut off, and so
\* is the one in FSInfo between two commands; during one it is the count f_mount
\* took, or is going to be written.
CountRight ==
    ~ pulled =>
        /\ free_clst # Unknown => free_clst = Cardinality(FreeClusters(fat)) + Uncounted
        /\ pc = "idle" /\ fsinfo.free # Unknown
              => fsinfo.free = Cardinality(FreeClusters(fat_d))
        /\ pc # "idle" /\ ~ fsi_flag => fsinfo.free = free_clst

\* A command that reads has nothing to write back.
OnlyReads == pc \in {"read", "read_done"} => ~ wflag /\ ~ fsi_flag

CInv == CountRight /\ OnlyReads

\* A FAT has at most Clusters free clusters, and fewer if one is in use.
LEMMA FreeCount ==
    ASSUME NEW f
    PROVE  /\ IsFiniteSet(FreeClusters(f)) /\ Cardinality(FreeClusters(f)) \in 0 .. Clusters
           /\ \A c \in Cluster : f[c] # Free => Cardinality(FreeClusters(f)) # Clusters
<1>1. IsFiniteSet(Cluster) /\ Cardinality(Cluster) = Clusters
  <2>1. Cluster = 2 .. Clusters + 1 /\ Clusters \in Nat \ {0}
    BY FatVolumeAssumption DEF FatVolumeAssumption, Cluster, n_fatent
  <2>2. QED BY <2>1, FS_Interval
<1>2. FreeClusters(f) \in SUBSET Cluster
  BY DEF FreeClusters
<1>3. IsFiniteSet(FreeClusters(f)) /\ Cardinality(FreeClusters(f)) <= Clusters
      /\ (Cardinality(FreeClusters(f)) = Clusters => FreeClusters(f) = Cluster)
  BY <1>1, <1>2, FS_Subset
<1>4. Cardinality(FreeClusters(f)) \in Nat
  BY <1>3, FS_CardinalityType
<1>5. \A c \in Cluster : f[c] # Free => FreeClusters(f) # Cluster
  BY DEF FreeClusters
<1>6. QED BY <1>3, <1>4, <1>5, FatVolumeAssumption DEF FatVolumeAssumption

\* Freeing a cluster in use makes one more ...
LEMMA FreedCount ==
    ASSUME NEW f \in [Cluster -> FatEntry], NEW c \in Cluster, f[c] # Free
    PROVE  Cardinality(FreeClusters([f EXCEPT ![c] = Free])) = Cardinality(FreeClusters(f)) + 1
<1> DEFINE g == [f EXCEPT ![c] = Free]
<1>1. FreeClusters(g) = FreeClusters(f) \cup {c} /\ c \notin FreeClusters(f)
  BY DEF FreeClusters
<1> HIDE DEF g
<1>2. Cardinality(FreeClusters(f) \cup {c}) = Cardinality(FreeClusters(f)) + 1
  BY <1>1, FreeCount, FS_AddElement
<1>3. QED BY <1>1, <1>2 DEF g

\* ... taking a free one makes one less ...
LEMMA TakenCount ==
    ASSUME NEW f \in [Cluster -> FatEntry], NEW c \in Cluster, f[c] = Free
    PROVE  Cardinality(FreeClusters(f)) = Cardinality(FreeClusters([f EXCEPT ![c] = EOC])) + 1
<1> DEFINE g == [f EXCEPT ![c] = EOC]
<1>1. FreeClusters(f) = FreeClusters(g) \cup {c} /\ c \notin FreeClusters(g)
  BY Sectors DEF FreeClusters
<1> HIDE DEF g
<1>2. Cardinality(FreeClusters(g) \cup {c}) = Cardinality(FreeClusters(g)) + 1
  BY <1>1, FreeCount, FS_AddElement
<1>3. QED BY <1>1, <1>2 DEF g

\* ... and linking one in use to another changes nothing.
LEMMA LinkedCount ==
    ASSUME NEW f \in [Cluster -> FatEntry], NEW c \in Cluster, f[c] # Free,
           NEW e \in Cluster
    PROVE  FreeClusters([f EXCEPT ![c] = e]) = FreeClusters(f)
BY Sectors DEF FreeClusters, Free

\* Of the free clusters one comes first in the order of the search.
LEMMA SomeFirst ==
    ASSUME NEW scl \in Nat, NEW f, FreeClusters(f) # {}
    PROVE  \E c \in FreeClusters(f) : \A b \in FreeClusters(f) : Turn(scl, c) <= Turn(scl, b)
<1> DEFINE Turns == {Turn(scl, c) : c \in FreeClusters(f)}
<1>1. \A c \in Cluster : Turn(scl, c) \in Nat
  BY Sectors, FatVolumeAssumption DEF FatVolumeAssumption, Turn
<1>2. Turns \in SUBSET Nat /\ Turns # {}
  BY <1>1 DEF FreeClusters
<1> HIDE DEF Turns
<1>3. PICK t \in Turns : \A u \in Turns : t <= u
  BY <1>2, Least
<1>4. QED BY <1>3 DEF Turns

---------------------------------------------------------------------------
LEMMA CountInit == Init => CInv
<1>1. Init => FreeClusters(fat_d) = Cluster
  BY DEF Init, FreeClusters
<1>2. Cardinality(Cluster) = Clusters
  <2>1. Cluster = 2 .. Clusters + 1 /\ Clusters \in Nat \ {0}
    BY FatVolumeAssumption DEF FatVolumeAssumption, Cluster, n_fatent
  <2>2. QED BY <2>1, FS_Interval
<1>3. QED BY <1>1, <1>2 DEF Init, CInv, CountRight, OnlyReads

\* f_mount takes the count from the disk, on which a new entry frees nothing.
LEMMA MountCount ==
    ASSUME CInv, pc = "idle", MountVolume, pc' # "idle", pc' # "link", UNCHANGED pulled
    PROVE  CountRight'
<1>1. /\ free_clst' = fsinfo.free /\ fsinfo' = fsinfo /\ fat' = fat_d /\ fsi_flag' = FALSE
  BY DEF MountVolume, diskVars
<1>2. Uncounted' = 0
  BY DEF Uncounted
<1>3. ~ pulled /\ fsinfo.free # Unknown => fsinfo.free = Cardinality(FreeClusters(fat_d))
  BY DEF CInv, CountRight
<1>4. fsinfo.free = Cardinality(FreeClusters(fat_d)) =>
            fsinfo.free = Cardinality(FreeClusters(fat_d)) + 0
  BY FreeCount
<1>5. QED BY <1>1, <1>2, <1>3, <1>4 DEF CountRight, Unknown, n_fatent

\* remove_chain frees a cluster and counts it.
LEMMA RemoveCount ==
    ASSUME IInv, CInv, RemoveCluster
    PROVE  CInv'
<1>1. /\ clst \in Cluster /\ fat[clst] # Free /\ fat \in [Cluster -> FatEntry]
      /\ fat' = [fat EXCEPT ![clst] = Free] /\ CountFreed /\ free_clst \in Count
      /\ pc = "remove" /\ pc' \in {"remove", "reopen"} /\ UNCHANGED <<fsinfo, pulled>>
  BY DEF IInv, TypeOK, Removing, RemoveCluster, put_fat
<1>2. Cardinality(FreeClusters(fat')) = Cardinality(FreeClusters(fat)) + 1
  BY <1>1, FreedCount
<1>3. Cardinality(FreeClusters(fat)) \in 0 .. Clusters - 1
  BY <1>1, FreeCount, FatVolumeAssumption DEF FatVolumeAssumption
<1>4. Uncounted = 0 /\ Uncounted' = 0
  BY <1>1 DEF Uncounted
<1>5. ASSUME ~ pulled
      PROVE  /\ free_clst' # Unknown => free_clst' = Cardinality(FreeClusters(fat'))
             /\ ~ fsi_flag' => fsinfo'.free = free_clst'
  <2>1. free_clst # Unknown => free_clst = Cardinality(FreeClusters(fat)) + 0
    BY <1>4, <1>5 DEF CInv, CountRight
  <2>2. ~ fsi_flag => fsinfo.free = free_clst
    BY <1>1, <1>5 DEF CInv, CountRight
  <2>3. n_fatent - 2 = Clusters /\ Unknown = Clusters + 2 /\ Clusters \in Nat
    BY FatVolumeAssumption DEF FatVolumeAssumption, n_fatent, Unknown
  <2>4. CASE free_clst < Clusters
    BY <1>1, <1>2, <1>3, <2>1, <2>3, <2>4 DEF CountFreed
  <2>5. CASE ~ (free_clst < Clusters)
    <3>1. free_clst = Unknown
      BY <1>1, <1>3, <2>1, <2>3, <2>5 DEF Count
    <3>2. QED BY <1>1, <2>2, <2>3, <2>5, <3>1 DEF CountFreed
  <2>6. QED BY <2>4, <2>5
<1>6. Cardinality(FreeClusters(fat')) = Cardinality(FreeClusters(fat')) + Uncounted'
  BY <1>2, <1>3, <1>4
<1>7. CountRight'
  BY <1>1, <1>5, <1>6, Zenon DEF CountRight
<1>8. QED BY <1>1, <1>7 DEF CInv, OnlyReads

\* The cluster create_chain takes is free.
LEMMA AllocCount ==
    ASSUME IInv, CInv, AllocCluster
    PROVE  CInv'
<1>1. PICK ncl \in NextFree(SearchFrom) : fat' = [fat EXCEPT ![ncl] = EOC]
  BY DEF AllocCluster
<1>2. ncl \in Cluster /\ fat[ncl] = Free /\ fat \in [Cluster -> FatEntry]
  BY DEF NextFree, FreeClusters, IInv, TypeOK
<1>3. Cardinality(FreeClusters(fat)) = Cardinality(FreeClusters(fat')) + 1
  BY <1>1, <1>2, TakenCount
<1>4. pc = "write" /\ pc' = "link" /\ UNCHANGED <<fsinfo, infoVars, pulled>>
  BY DEF AllocCluster, MoreToWrite
<1>5. Uncounted = 0 /\ Uncounted' = 1
  BY <1>4 DEF Uncounted
<1>6. Cardinality(FreeClusters(fat)) + Uncounted = Cardinality(FreeClusters(fat')) + Uncounted'
  BY <1>3, <1>5, FreeCount
<1>7. CountRight'
  BY <1>4, <1>6 DEF CInv, CountRight, infoVars, Unknown, n_fatent
<1>8. QED BY <1>4, <1>7 DEF CInv, OnlyReads

\* The link frees nothing, and the cluster is counted.
LEMMA LinkCount ==
    ASSUME IInv, CInv, LinkCluster
    PROVE  CInv'
<1>1. /\ pc = "link" /\ pc' = "put" /\ fsi_flag' = TRUE /\ UNCHANGED <<fsinfo, pulled>>
      /\ free_clst' = IF free_clst <= n_fatent - 2 THEN free_clst - 1 ELSE free_clst
  BY DEF LinkCluster
<1>2. FreeClusters(fat') = FreeClusters(fat)
  <2>1. CASE clust = 0
    BY <2>1 DEF LinkCluster, NewLink
  <2>2. CASE clust # 0
    <3>1. clust \in Cluster /\ fat[clust] = EOC /\ clst \in Cluster
      BY <1>1, <2>2 DEF IInv, Building, Linking, Filling
    <3>2. fat' = [fat EXCEPT ![clust] = clst] /\ fat \in [Cluster -> FatEntry]
      BY <2>2 DEF LinkCluster, NewLink, put_fat, IInv, TypeOK
    <3>3. fat[clust] # Free
      BY <3>1, Sectors
    <3>4. QED BY <3>1, <3>2, <3>3, LinkedCount
  <2>3. QED BY <2>1, <2>2
<1>3. Uncounted = 1 /\ Uncounted' = 0
  BY <1>1 DEF Uncounted
<1>4. ASSUME ~ pulled, free_clst' # Unknown
      PROVE  free_clst' = Cardinality(FreeClusters(fat')) + Uncounted'
  <2>1. free_clst \in 0 .. Clusters \cup {Unknown} /\ n_fatent - 2 = Clusters
        /\ Unknown > Clusters /\ Clusters \in Nat /\ Unknown \in Nat
    BY FatVolumeAssumption DEF FatVolumeAssumption, n_fatent, Unknown, IInv, TypeOK, Count
  <2>2. free_clst # Unknown
    BY <1>1, <1>4, <2>1
  <2>3. free_clst = Cardinality(FreeClusters(fat)) + 1
    BY <1>3, <1>4, <2>2 DEF CInv, CountRight
  <2>4. Cardinality(FreeClusters(fat)) \in Nat
    BY FreeCount
  <2>5. QED BY <1>1, <1>2, <1>3, <2>1, <2>2, <2>3, <2>4
<1>5. CountRight'
  BY <1>1, <1>4, Zenon DEF CountRight
<1>6. QED BY <1>1, <1>5 DEF CInv, OnlyReads

\* Between two commands FSInfo has the count, and the disk is what FatFs sees.
LEMMA SyncInfoCount ==
    ASSUME IInv, CInv, SyncInfo
    PROVE  CInv'
<1>1. fat = fat_d /\ fat' = fat /\ fat_d' = fat_d /\ pc = "sync_info" /\ pc' = "idle"
      /\ UNCHANGED <<free_clst, pulled>>
  BY DEF IInv, TypeOK, WindowOnly, Clean, SyncInfo, Finish
<1>2. fsinfo'.free = IF fsi_flag THEN free_clst ELSE fsinfo.free
  BY DEF SyncInfo
<1>3. Uncounted = 0 /\ Uncounted' = 0
  BY <1>1 DEF Uncounted
<1>4. Cardinality(FreeClusters(fat)) + 0 = Cardinality(FreeClusters(fat))
  BY FreeCount
<1>5. ~ pulled => /\ free_clst # Unknown => free_clst = Cardinality(FreeClusters(fat))
                  /\ ~ fsi_flag => fsinfo.free = free_clst
  BY <1>1, <1>3, <1>4 DEF CInv, CountRight
<1>6. CountRight'
  BY <1>1, <1>2, <1>3, <1>4, <1>5 DEF CountRight, Unknown, n_fatent
<1>7. QED BY <1>1, <1>6 DEF CInv, OnlyReads

LEMMA ReadDoneCount ==
    ASSUME IInv, CInv, ReadDone
    PROVE  CInv'
<1>1. UNCHANGED <<diskVars, winVars, infoVars, pulled>> /\ pc \in {"read", "read_done"} /\ pc' = "idle"
  BY DEF ReadDone, Finish
<1>2. fat = fat_d /\ ~ fsi_flag
  BY <1>1 DEF IInv, TypeOK, WindowOnly, CInv, OnlyReads
<1>3. Uncounted = 0 /\ Uncounted' = 0
  BY <1>1 DEF Uncounted
<1>4. Cardinality(FreeClusters(fat)) + 0 = Cardinality(FreeClusters(fat))
  BY FreeCount
<1>5. CountRight'
  BY <1>1, <1>2, <1>3, <1>4 DEF CInv, CountRight, diskVars, winVars, infoVars, Unknown, n_fatent
<1>6. QED BY <1>1, <1>5 DEF CInv, OnlyReads

\* Steps that leave the FAT and the counts alone, within a command.
LEMMA OtherCount ==
    ASSUME CInv, UNCHANGED <<fat, fsinfo, free_clst, fsi_flag, pulled>>,
           pc \notin {"idle", "link"}, pc' \notin {"idle", "link"}
    PROVE  CountRight'
BY DEF CInv, CountRight, Uncounted, Unknown, n_fatent

LEMMA CountStep == IInv /\ CInv /\ [Next]_vars => CInv'
<1> SUFFICES ASSUME IInv, CInv, [Next]_vars PROVE CInv'
  OBVIOUS
<1>1. ASSUME NEW n \in Name, FatRead(n) PROVE CInv'
  <2>1. CountRight'
    BY <1>1, MountCount DEF FatRead
  <2>2. QED BY <1>1, <2>1 DEF FatRead, MountVolume, CInv, OnlyReads
<1>2. ASSUME NEW n \in Name, NEW d \in Text, FatWrite(n, d) PROVE CInv'
  <2>1. pc' \in {"write", "remove"}
    BY <1>2 DEF FatWrite
  <2>2. CountRight'
    BY <1>2, <2>1, MountCount DEF FatWrite
  <2>3. QED BY <2>1, <2>2 DEF CInv, OnlyReads
<1>3. CASE RemoveCluster
  BY <1>3, RemoveCount
<1>4. CASE Reopen \/ DiskFull \/ PutSector \/ BufferSector \/ WriteDone \/ SyncData
           \/ SyncEntry \/ SyncWindow
  <2>1. /\ UNCHANGED <<fat, fsinfo, free_clst, fsi_flag, pulled>>
        /\ pc \notin {"idle", "link"} /\ pc' \notin {"idle", "link", "read", "read_done"}
    BY <1>4 DEF Reopen, DiskFull, PutSector, BufferSector, WriteDone, SyncData, SyncEntry,
           SyncWindow, MoreToWrite, diskVars, winVars, infoVars
  <2>2. QED BY <2>1, OtherCount DEF CInv, OnlyReads
<1>5. CASE AllocCluster
  BY <1>5, AllocCount
<1>6. CASE LinkCluster
  BY <1>6, LinkCount
<1>7. CASE SyncInfo
  BY <1>7, SyncInfoCount
<1>8. CASE ReadSector
  <2>1. /\ UNCHANGED <<fat, fsinfo, free_clst, fsi_flag, pulled>>
        /\ pc = "read" /\ pc' \in {"read", "read_done"}
    BY <1>8 DEF ReadSector, infoVars
  <2>2. ~ wflag'
    BY <1>8, <2>1 DEF ReadSector, get_fat, move_window, CInv, OnlyReads
  <2>3. CountRight'
    BY <2>1, OtherCount
  <2>4. QED BY <2>1, <2>2, <2>3 DEF CInv, OnlyReads
<1>9. CASE ReadDone
  BY <1>9, ReadDoneCount
<1>10. CASE Pull
  BY <1>10 DEF Pull, Finish, CInv, CountRight, OnlyReads
<1>11. CASE UNCHANGED vars
  BY <1>11 DEF vars, diskVars, winVars, infoVars, CInv, CountRight, OnlyReads, Uncounted,
         Unknown, n_fatent
<1>12. QED BY <1>1, <1>2, <1>3, <1>4, <1>5, <1>6, <1>7, <1>8, <1>9, <1>10, <1>11
           DEF Next, Command, Shell

\* f_write gives up (ff.c:4064) only on a full volume, unless a command was cut
\* off earlier: the search of create_chain misses no free cluster, and a count
\* of zero is right.
THEOREM FullWhenShort == Spec => ShortWriteMeansFull
<1>1. ASSUME IInv, CInv, DiskFull
      PROVE  FreeClusters(fat) = {} \/ pulled
  <2>1. CASE NextFree(SearchFrom) = {}
    <3>1. SearchFrom \in Nat
      BY <1>1, SearchType, FatVolumeAssumption DEF FatVolumeAssumption, n_fatent, IInv
    <3>2. QED BY <2>1, <3>1, SomeFirst DEF NextFree
  <2>2. CASE free_clst = 0 /\ ~ pulled
    <3>1. free_clst # Unknown
      BY <2>2, FatVolumeAssumption DEF FatVolumeAssumption, Unknown, n_fatent
    <3>2. 0 = Cardinality(FreeClusters(fat)) + Uncounted /\ Uncounted = 0
      BY <1>1, <2>2, <3>1 DEF CInv, CountRight, DiskFull, MoreToWrite, Uncounted
    <3>3. Cardinality(FreeClusters(fat)) = 0
      BY <3>2, FreeCount
    <3>4. QED BY <3>3, FreeCount, FS_EmptySet
  <2>3. QED BY <1>1, <2>1, <2>2 DEF DiskFull, NoCluster
<1>2. IInv /\ CInv => [DiskFull => FreeClusters(fat) = {} \/ pulled]_vars
  BY <1>1
<1>3. Spec => []CInv
  BY CountInit, CountStep, Invariance, PTL DEF Spec
<1>4. QED BY Invariance, <1>2, <1>3, PTL DEF ShortWriteMeansFull
---------------------------------------------------------------------------
(* What is in the files.                                                   *)

\* Every file has as many clusters as its entry says.
Laid(f, d) ==
    \A n \in Name : d[n] # None =>
        \A k \in 1 .. d[n].size : Chain(f, d[n].clust)[k] \in Cluster

\* A cluster that holds a sector of a file.
InFile(f, d, c) ==
    \E n \in Name : d[n] # None /\ \E k \in 1 .. d[n].size : Chain(f, d[n].clust)[k] = c

\* What the disk lacks of the FAT changes no file that is on the disk.
SameChains ==
    \A n \in Name : dir_d[n] # None =>
        \A k \in 1 .. dir_d[n].size :
            Chain(fat_d, dir_d[n].clust)[k] = Chain(fat, dir_d[n].clust)[k]

\* The one entry the disk may lack is that of the file being written, before
\* the first cluster is touched or after the last.
EntryAhead ==
    \A n \in Name : dir[n] # dir_d[n] =>
        /\ cmd \in Writes /\ n = cmd.name
        /\ \/ pc = "remove"
           \/ pc \in {"write", "sync_data", "sync_entry"} /\ sclust = 0
           \/ pc = "sync_window"

\* That file is empty until then.
View == FilesOf(fat, dir, data)

Emptied ==
    /\ pc \in {"remove", "reopen"} => objsize = 0 /\ ~ dirty
    /\ pc \in {"remove", "reopen"} \cup Filling => dir[cmd.name] = Empty
    /\ pc = "sync_window" /\ objsize > 0 => dir_d[cmd.name] = Empty

\* The chain built so far, and what is in it but for a sector in the buffer.
Length == IF pc = "put" THEN objsize + 1 ELSE objsize

Built ==
    pc \in Filling =>
        /\ sclust = 0 <=> Length = 0
        /\ Length > 0 => Chain(fat, sclust)[Length] = clust
        /\ \A k \in 1 .. Length : /\ Chain(fat, sclust)[k] \in Cluster
                                  /\ ~ InFile(fat, dir, Chain(fat, sclust)[k])
        /\ \A k \in 1 .. objsize :
                ~ (dirty /\ k = objsize) => data[Chain(fat, sclust)[k]] = cmd.data[k]
        /\ dirty => objsize = Len(cmd.data) /\ pc # "sync_entry"

Stored ==
    pc \in {"sync_window", "sync_info"} =>
        View[cmd.name] = SubSeq(cmd.data, 1, objsize)

\* What fatread has printed is the beginning of the file.
ReadSoFar ==
    /\ pc \in {"read", "read_done"} => cmd \in Reads
    /\ pc = "read" =>
        /\ dir[cmd.name] # None /\ dir[cmd.name].clust = sclust /\ dir[cmd.name].size = objsize
        /\ Len(got) <= objsize
        /\ \A k \in 1 .. Len(got) : got[k] = data[Chain(fat, sclust)[k]]
        /\ got # <<>> => clust = Chain(fat, sclust)[Len(got)]
    /\ pc = "read_done" => got = None /\ dir[cmd.name] = None

Commanded ==
    /\ (cmd = None) <=> (pc = "idle")
    /\ cmd \in Writes => got = None

FInv ==
    /\ Laid(fat, dir) /\ Laid(fat_d, dir_d) /\ SameChains /\ EntryAhead /\ Emptied
    /\ Built /\ Stored /\ ReadSoFar /\ Commanded

---------------------------------------------------------------------------
(* Chains.                                                                 *)

\* The step of the recursion, as a property of a sequence.
Follows(f, c, s, n) ==
    \A k \in 1 .. n :
        s[k] = IF k = 1 THEN c ELSE IF s[k - 1] \in Cluster THEN f[s[k - 1]] ELSE EOC

\* There is a sequence that does, for every length: a shortest one that is
\* missing could be made from the one before it.
LEMMA ChainExists ==
    ASSUME NEW f, NEW c, NEW n \in 0 .. MaxLen
    PROVE  \E s : DOMAIN s = 1 .. n /\ s = [k \in 1 .. n |-> s[k]] /\ Follows(f, c, s, n)
<1> DEFINE P(m) == \E s : DOMAIN s = 1 .. m /\ s = [k \in 1 .. m |-> s[k]] /\ Follows(f, c, s, m)
           Bad == {m \in 0 .. MaxLen : ~ P(m)}
<1>1. SUFFICES ASSUME Bad # {} PROVE FALSE
  OBVIOUS
<1>2. PICK m \in Bad : \A b \in Bad : m <= b
  <2>1. Bad \subseteq Nat
    BY FatVolumeAssumption DEF FatVolumeAssumption
  <2> HIDE DEF Bad
  <2>2. QED BY <1>1, <2>1, Least
<1>3. P(0)
  <2> DEFINE e == [k \in 1 .. 0 |-> c]
  <2>1. DOMAIN e = 1 .. 0 /\ e = [k \in 1 .. 0 |-> e[k]] /\ Follows(f, c, e, 0)
    BY DEF Follows
  <2> HIDE DEF e
  <2>2. QED BY <2>1
<1>4. m \in 1 .. MaxLen /\ P(m - 1)
  <2>1. m \in 0 .. MaxLen /\ MaxLen \in Nat /\ m # 0
    BY <1>2, <1>3, FatVolumeAssumption DEF FatVolumeAssumption
  <2>2. m - 1 \notin Bad /\ m - 1 \in 0 .. MaxLen
    BY <1>2, <2>1
  <2>3. QED BY <2>1, <2>2
<1>5. PICK s : DOMAIN s = 1 .. m - 1 /\ Follows(f, c, s, m - 1)
  BY <1>4
<1> DEFINE t == [k \in 1 .. m |-> IF k < m THEN s[k]
                     ELSE IF k = 1 THEN c ELSE IF s[k - 1] \in Cluster THEN f[s[k - 1]] ELSE EOC]
<1>6. DOMAIN t = 1 .. m /\ t = [k \in 1 .. m |-> t[k]] /\ Follows(f, c, t, m)
  BY <1>4, <1>5 DEF Follows
<1> HIDE DEF t
<1>7. P(m)
  BY <1>6
<1>8. QED BY <1>2, <1>7

\* So Chain is what its definition says.
LEMMA ChainIs ==
    ASSUME NEW f, NEW c
    PROVE  Chain(f, c) = [k \in 1 .. MaxLen |-> IF k = 1 THEN c
                 ELSE IF Chain(f, c)[k - 1] \in Cluster THEN f[Chain(f, c)[k - 1]] ELSE EOC]
<1> DEFINE Body(s) == [k \in 1 .. MaxLen |-> IF k = 1 THEN c
                 ELSE IF s[k - 1] \in Cluster THEN f[s[k - 1]] ELSE EOC]
<1>1. \E s : s = Body(s)
  <2>1. MaxLen \in 0 .. MaxLen
    BY FatVolumeAssumption DEF FatVolumeAssumption
  <2>2. PICK s : DOMAIN s = 1 .. MaxLen /\ s = [k \in 1 .. MaxLen |-> s[k]] /\ Follows(f, c, s, MaxLen)
    BY <2>1, ChainExists
  <2>3. s = Body(s)
    BY <2>2 DEF Follows
  <2>4. QED BY <2>3
<1>2. Chain(f, c) = CHOOSE s : s = Body(s)
  BY Zenon DEF Chain
<1> HIDE DEF Body
<1>3. Chain(f, c) = Body(Chain(f, c))
  BY <1>1, <1>2
<1>4. QED BY <1>3, Zenon DEF Body

\* The recursion that defines a chain, unfolded.
LEMMA ChainSteps ==
    ASSUME NEW f, NEW c
    PROVE  /\ Chain(f, c)[1] = c
           /\ \A k \in 2 .. MaxLen :
                 Chain(f, c)[k - 1] \in Cluster => Chain(f, c)[k] = f[Chain(f, c)[k - 1]]
<1> DEFINE s == Chain(f, c)
<1>1. s = [k \in 1 .. MaxLen |-> IF k = 1 THEN c
                 ELSE IF s[k - 1] \in Cluster THEN f[s[k - 1]] ELSE EOC]
  BY ChainIs
<1>2. 1 \in 1 .. MaxLen /\ \A k \in 2 .. MaxLen : k \in 1 .. MaxLen /\ k # 1
  BY FatVolumeAssumption DEF FatVolumeAssumption
<1> HIDE DEF s
<1>3. s[1] = c /\ \A k \in 2 .. MaxLen : s[k - 1] \in Cluster => s[k] = f[s[k - 1]]
  BY <1>1, <1>2
<1>4. QED BY <1>3 DEF s

\* Two FATs with the same entries on a chain have the same chain.
LEMMA ChainKept ==
    ASSUME NEW f, NEW g, NEW c, NEW n \in 0 .. MaxLen,
           \A k \in 1 .. n : Chain(f, c)[k] \in Cluster,
           \A k \in 1 .. n : k < n => g[Chain(f, c)[k]] = f[Chain(f, c)[k]]
    PROVE  \A k \in 1 .. n : Chain(g, c)[k] = Chain(f, c)[k]
<1> DEFINE s == Chain(f, c)
           t == Chain(g, c)
           Bad == {k \in 1 .. n : t[k] # s[k]}
<1>1. SUFFICES ASSUME Bad # {} PROVE FALSE
  OBVIOUS
<1>2. /\ s[1] = c /\ t[1] = c
      /\ \A k \in 2 .. MaxLen : s[k - 1] \in Cluster => s[k] = f[s[k - 1]]
      /\ \A k \in 2 .. MaxLen : t[k - 1] \in Cluster => t[k] = g[t[k - 1]]
  BY ChainSteps
<1>3. MaxLen \in Nat
  BY FatVolumeAssumption DEF FatVolumeAssumption
<1>4. PICK k \in Bad : \A b \in Bad : k <= b
  <2>1. Bad \subseteq Nat
    BY <1>3
  <2> HIDE DEF Bad
  <2>2. QED BY <1>1, <2>1, Least
<1>5. k \in 2 .. n /\ t[k] # s[k]
  BY <1>2, <1>3, <1>4
<1>6. k - 1 \in 1 .. n /\ k - 1 < n /\ k \in 2 .. MaxLen
  BY <1>3, <1>5
<1>7. t[k - 1] = s[k - 1]
  BY <1>4, <1>5, <1>6, <1>3
<1>8. s[k - 1] \in Cluster /\ g[s[k - 1]] = f[s[k - 1]]
  BY <1>6
<1> HIDE DEF s, t, Bad
<1>9. QED BY <1>2, <1>5, <1>6, <1>7, <1>8

\* A number of sectors is one of the chain's.
LEMMA EntryType ==
    ASSUME NEW d \in [Name -> Entry \cup {None}], NEW n \in Name, d[n] # None
    PROVE  /\ d[n].size \in 0 .. MaxLen /\ d[n].size \in Nat /\ d[n].clust \in {0} \cup Cluster
           /\ \A k \in 1 .. d[n].size : k \in 1 .. MaxLen /\ (k # 1 => k \in 2 .. MaxLen)
BY FatVolumeAssumption DEF FatVolumeAssumption, Entry

\* Where the chains are the same, so are the files.
LEMMA SameFiles ==
    ASSUME NEW f, NEW g, NEW d \in [Name -> Entry \cup {None}],
           \A n \in Name : d[n] # None =>
               \A k \in 1 .. d[n].size : Chain(g, d[n].clust)[k] = Chain(f, d[n].clust)[k]
    PROVE  /\ Laid(f, d) => Laid(g, d)
           /\ \A c : InFile(g, d, c) <=> InFile(f, d, c)
           /\ \A s : FilesOf(g, d, s) = FilesOf(f, d, s)
<1>1. Laid(f, d) => Laid(g, d)
  BY DEF Laid
<1>2. \A c : InFile(g, d, c) <=> InFile(f, d, c)
  BY DEF InFile
<1>3. ASSUME NEW s PROVE FilesOf(g, d, s) = FilesOf(f, d, s)
  <2>1. \A n \in Name : d[n] # None => Content(g, s, d[n]) = Content(f, s, d[n])
    BY DEF Content
  <2>2. QED BY <2>1 DEF FilesOf
<1>4. QED BY <1>1, <1>2, <1>3

\* A cluster that nothing leads to is in no file, and a free one neither.
LEMMA UnreachedOutside ==
    ASSUME NEW f, NEW d \in [Name -> Entry \cup {None}],
           Laid(f, d), NEW c \in Cluster, Unreached(f, d, c)
    PROVE  ~ InFile(f, d, c)
<1>1. SUFFICES ASSUME NEW n \in Name, d[n] # None, NEW k \in 1 .. d[n].size,
                      Chain(f, d[n].clust)[k] = c
               PROVE  FALSE
  BY DEF InFile
<1> DEFINE s == Chain(f, d[n].clust)
<1>2. s[1] = d[n].clust
      /\ \A j \in 2 .. MaxLen : s[j - 1] \in Cluster => s[j] = f[s[j - 1]]
  BY ChainSteps
<1>3. k \in 1 .. MaxLen /\ d[n].size \in Nat /\ (k # 1 => k \in 2 .. MaxLen)
  BY <1>1, EntryType
<1>4. \A j \in 1 .. d[n].size : s[j] \in Cluster
  BY <1>1 DEF Laid
<1> HIDE DEF s
<1>5. CASE k = 1
  <2>1. d[n].clust = c /\ d[n].clust # 0
    BY <1>1, <1>2, <1>5, Sectors DEF s
  <2>2. QED BY <1>1, <2>1 DEF Unreached, Heads
<1>6. CASE k # 1
  <2>1. k - 1 \in 1 .. d[n].size /\ k \in 2 .. MaxLen
    BY <1>3, <1>6
  <2>2. s[k - 1] \in Cluster
    BY <1>4, <2>1
  <2>3. s[k] = f[s[k - 1]] /\ s[k] = c
    BY <1>1, <1>2, <2>1, <2>2 DEF s
  <2>4. QED BY <2>2, <2>3 DEF Unreached
<1>7. QED BY <1>5, <1>6

LEMMA FreeUnreached ==
    ASSUME NEW f, NEW d, Sound(f, d), NEW c \in Cluster, f[c] = Free
    PROVE  Unreached(f, d, c)
BY DEF Sound, Unreached

\* So its entry in the FAT can be changed, and what is in it, without a change
\* to any file.
LEMMA OutsideChanged ==
    ASSUME NEW f, NEW d \in [Name -> Entry \cup {None}],
           Laid(f, d), NEW c \in Cluster, ~ InFile(f, d, c),
           NEW g, \A b \in Cluster : b # c => g[b] = f[b]
    PROVE  \A n \in Name : d[n] # None =>
               \A k \in 1 .. d[n].size : Chain(g, d[n].clust)[k] = Chain(f, d[n].clust)[k]
<1>1. TAKE n \in Name
<1>2. HAVE d[n] # None
<1>3. d[n].size \in 0 .. MaxLen
  BY <1>2, EntryType
<1>4. \A k \in 1 .. d[n].size : Chain(f, d[n].clust)[k] \in Cluster
                                /\ Chain(f, d[n].clust)[k] # c
  BY <1>2 DEF Laid, InFile
<1>5. QED BY <1>3, <1>4, ChainKept

LEMMA OutsideWritten ==
    ASSUME NEW f, NEW d, Laid(f, d), NEW c \in Cluster, ~ InFile(f, d, c),
           NEW s, NEW t, \A b \in Cluster : b # c => t[b] = s[b]
    PROVE  FilesOf(f, d, t) = FilesOf(f, d, s)
<1>1. ASSUME NEW n \in Name, d[n] # None
      PROVE  Content(f, t, d[n]) = Content(f, s, d[n])
  <2>1. \A k \in 1 .. d[n].size : Chain(f, d[n].clust)[k] \in Cluster
                                  /\ Chain(f, d[n].clust)[k] # c
    BY <1>1 DEF Laid, InFile
  <2>2. QED BY <2>1 DEF Content
<1>2. QED BY <1>1 DEF FilesOf

---------------------------------------------------------------------------
(* What FatFs sees in the files, and what the disk has.                    *)

\* Files on the disk and in the view are the same but for the entry ahead.
LEMMA ViewIs ==
    ASSUME IInv, FInv
    PROVE  \A n \in Name : dir[n] = dir_d[n] => View[n] = Files[n]
<1>1. Files = FilesOf(fat, dir_d, data)
  <2>1. /\ dir_d \in [Name -> Entry \cup {None}]
        /\ \A n \in Name : dir_d[n] # None =>
               \A k \in 1 .. dir_d[n].size :
                   Chain(fat_d, dir_d[n].clust)[k] = Chain(fat, dir_d[n].clust)[k]
    BY DEF IInv, TypeOK, FInv, SameChains
  <2>2. QED BY <2>1, SameFiles DEF Files
<1>2. QED BY <1>1 DEF View, FilesOf

LEMMA NoSectors ==
    ASSUME NEW f, NEW s
    PROVE  Content(f, s, Empty) = <<>>
<1> DEFINE w == Content(f, s, Empty)
<1>1. w \in [1 .. 0 -> {}]
  BY DEF Content, Empty
<1> HIDE DEF w
<1>2. w \in Seq({}) /\ Len(w) = 0
  BY <1>1, SeqDef
<1>3. w = <<>>
  BY <1>2, EmptySeq
<1>4. QED BY <1>3 DEF w

\* While a file is written FatFs sees it empty.
LEMMA ViewEmptied ==
    ASSUME IInv, FInv, pc \in {"remove", "reopen"} \cup Filling
    PROVE  /\ cmd \in Writes /\ cmd.name \in Name
           /\ View = [Files EXCEPT ![cmd.name] = <<>>]
<1>1. cmd \in Writes /\ cmd.name \in Name
  BY DEF IInv, Progress, Writes
<1>2. View[cmd.name] = <<>>
  <2>1. dir[cmd.name] = Empty
    BY DEF FInv, Emptied
  <2>2. Empty # None
    BY NoneAssumption, FatVolumeAssumption DEF NoneAssumption, FatVolumeAssumption, Entry, Empty
  <2>3. QED BY <1>1, <2>1, <2>2, NoSectors DEF View, FilesOf
<1>3. \A n \in Name : n # cmd.name => View[n] = Files[n]
  BY ViewIs DEF FInv, EntryAhead
<1>4. QED BY <1>1, <1>2, <1>3 DEF View, Files, FilesOf

\* A command under way does nothing to the files, or empties the one it writes.
LEMMA Hidden ==
    ASSUME cmd # None, cmd' = cmd, Files' = Files
    PROVE  [Store!Next]_(Store!vars)
BY DEF Store!vars

LEMMA Emptying ==
    ASSUME cmd \in Writes, cmd' = cmd, Files' \in {Files, [Files EXCEPT ![cmd.name] = <<>>]}
    PROVE  [Store!Next]_(Store!vars)
<1>1. cmd # None /\ cmd.op = "fatwrite"
  BY NoneAssumption DEF NoneAssumption, Writes
<1>2. CASE Files' = Files
  BY <1>1, <1>2, Hidden
<1>3. CASE Files' = [Files EXCEPT ![cmd.name] = <<>>]
  BY <1>1, <1>3 DEF Store!Next, Store!Truncate, Store!Set
<1>4. QED BY <1>2, <1>3

---------------------------------------------------------------------------
(* What the window does to the files.                                      *)

\* The window is written back or not, and the FAT stays what it is ...
LEMMA FilesMoved ==
    ASSUME IInv, FInv, UNCHANGED <<fat, data>>,
           UNCHANGED <<fat_d, dir_d>> \/ (fat_d' = fat /\ dir_d' = dir)
    PROVE  /\ Laid(fat_d', dir_d') /\ SameChains'
           /\ Files' \in {Files, View}
<1>1. CASE UNCHANGED <<fat_d, dir_d>>
  BY <1>1 DEF FInv, SameChains, Files
<1>2. CASE fat_d' = fat /\ dir_d' = dir
  BY <1>2 DEF FInv, SameChains, Files, View
<1>3. QED BY <1>1, <1>2

\* ... or an entry is changed in it of a cluster that is in no file.
LEMMA FilesPut ==
    ASSUME IInv, FInv, NEW leaving \in BOOLEAN, SyncIf(leaving),
           NEW c \in Cluster, ~ InFile(fat, dir, c),
           \A b \in Cluster : b # c => fat'[b] = fat[b], UNCHANGED <<dir, data>>,
           ~ leaving => winsect = FatSect(c)
    PROVE  /\ dir_d' = dir' /\ Files' = View
           /\ Laid(fat', dir') /\ Laid(fat_d', dir_d') /\ SameChains'
           /\ \A b : InFile(fat', dir', b) <=> InFile(fat, dir, b)
<1>1. IF wflag /\ ~leaving THEN fat_d' = fat_d /\ dir_d' = dir_d
                           ELSE fat_d' = fat /\ dir_d' = dir
  BY Synced DEF IInv
<1>2. dir_d' = dir
  <2>1. ~ leaving => winsect # DirSect
    BY Sectors
  <2>2. QED BY <1>1, <2>1 DEF IInv, WindowOnly
<1>3. dir \in [Name -> Entry \cup {None}] /\ fat \in [Cluster -> FatEntry] /\ Laid(fat, dir)
  BY DEF IInv, TypeOK, FInv
<1>4. \A n \in Name : dir[n] # None =>
          \A k \in 1 .. dir[n].size : Chain(fat', dir[n].clust)[k] = Chain(fat, dir[n].clust)[k]
  BY <1>3, OutsideChanged
<1>5. \A n \in Name : dir[n] # None =>
          \A k \in 1 .. dir[n].size : Chain(fat_d', dir[n].clust)[k] = Chain(fat, dir[n].clust)[k]
  BY <1>1, <1>2 DEF FInv, SameChains
<1>6. Laid(fat', dir) /\ \A b : InFile(fat', dir, b) <=> InFile(fat, dir, b)
  BY <1>3, <1>4, SameFiles
<1>7. Laid(fat_d', dir) /\ FilesOf(fat_d', dir, data) = FilesOf(fat, dir, data)
  BY <1>3, <1>5, SameFiles
<1>8. SameChains'
  BY <1>2, <1>4, <1>5 DEF SameChains
<1>9. QED BY <1>2, <1>6, <1>7, <1>8 DEF Files, View

\* A sector is written in a cluster that is in no file.
LEMMA FilesWritten ==
    ASSUME IInv, FInv, dir_d = dir, NEW c \in Cluster, ~ InFile(fat, dir, c),
           \A b \in Cluster : b # c => data'[b] = data[b], UNCHANGED <<fat_d, dir_d>>
    PROVE  Files' = Files
<1>1. dir_d \in [Name -> Entry \cup {None}] /\ data \in [Cluster -> Data] /\ Laid(fat_d, dir_d)
  BY DEF IInv, TypeOK, FInv
<1>2. \A n \in Name : dir_d[n] # None =>
          \A k \in 1 .. dir_d[n].size :
              Chain(fat_d, dir_d[n].clust)[k] = Chain(fat, dir_d[n].clust)[k]
  BY DEF FInv, SameChains
<1>3. ~ InFile(fat_d, dir_d, c)
  <2>1. \A b : InFile(fat_d, dir_d, b) <=> InFile(fat, dir_d, b)
    BY <1>1, <1>2, SameFiles
  <2>2. QED BY <2>1
<1>4. FilesOf(fat_d, dir_d, data') = FilesOf(fat_d, dir_d, data)
  BY <1>1, <1>3, OutsideWritten
<1>5. QED BY <1>4 DEF Files

---------------------------------------------------------------------------
(* The chain f_write builds.                                               *)

\* None of its clusters is free, and only the last is the end.
LEMMA BuiltFacts ==
    ASSUME IInv, FInv, pc \in Filling
    PROVE  /\ Length \in 0 .. MaxLen /\ objsize \in Nat /\ cmd \in Writes
           /\ Length > 0 => sclust # 0 /\ clust \in Cluster /\ fat[clust] = EOC
                            /\ Chain(fat, sclust)[Length] = clust
           /\ \A k \in 1 .. Length : /\ Chain(fat, sclust)[k] \in Cluster
                                     /\ fat[Chain(fat, sclust)[k]] # Free
                                     /\ k < Length => Chain(fat, sclust)[k] # clust
<1> DEFINE s == Chain(fat, sclust)
<1>1. cmd \in Writes /\ objsize <= Len(cmd.data) /\ (pc = "put" => objsize < Len(cmd.data))
  BY DEF IInv, Progress
<1>2. Len(cmd.data) \in 1 .. MaxLen /\ objsize \in Nat /\ MaxLen \in Nat
  BY <1>1, FatVolumeAssumption DEF FatVolumeAssumption, Writes, IInv, TypeOK
<1>3. Length \in 0 .. MaxLen
  BY <1>1, <1>2 DEF Length
<1>4. /\ sclust = 0 <=> Length = 0
      /\ Length > 0 => s[Length] = clust
      /\ \A k \in 1 .. Length : s[k] \in Cluster
  BY DEF FInv, Built
<1>5. \A k \in 2 .. MaxLen : s[k - 1] \in Cluster => s[k] = fat[s[k - 1]]
  BY ChainSteps
<1>6. Length > 0 => sclust # 0 /\ clust \in Cluster /\ fat[clust] = EOC
  BY <1>3, <1>4 DEF IInv, Building
<1> HIDE DEF s
<1>7. ASSUME NEW k \in 1 .. Length
      PROVE  fat[s[k]] # Free /\ (k < Length => s[k] # clust)
  <2>1. CASE k < Length
    <3>1. k + 1 \in 1 .. Length /\ k + 1 \in 2 .. MaxLen /\ (k + 1) - 1 = k
      BY <1>2, <1>3, <2>1
    <3>2. fat[s[k]] = s[k + 1] /\ s[k + 1] \in Cluster
      BY <1>4, <1>5, <3>1
    <3>3. QED BY <3>2, <1>6, <1>3, <2>1, Sectors DEF Free
  <2>2. CASE k = Length
    BY <1>3, <1>4, <1>6, <2>2, Sectors
  <2>3. QED BY <1>3, <2>1, <2>2
<1>8. QED BY <1>1, <1>2, <1>3, <1>4, <1>6, <1>7 DEF s

\* It stays what it is when an entry of another cluster or of the last changes.
LEMMA ChainGrown ==
    ASSUME IInv, FInv, pc \in Filling, NEW c,
           \A b \in Cluster : b # c => fat'[b] = fat[b],
           c = clust \/ (c \in Cluster /\ fat[c] = Free)
    PROVE  \A k \in 1 .. Length : Chain(fat', sclust)[k] = Chain(fat, sclust)[k]
<1>1. /\ Length \in 0 .. MaxLen
      /\ \A k \in 1 .. Length : /\ Chain(fat, sclust)[k] \in Cluster
                                /\ fat[Chain(fat, sclust)[k]] # Free
                                /\ k < Length => Chain(fat, sclust)[k] # clust
  BY BuiltFacts
<1>2. \A k \in 1 .. Length : k < Length => fat'[Chain(fat, sclust)[k]] = fat[Chain(fat, sclust)[k]]
  BY <1>1
<1>3. QED BY <1>1, <1>2, ChainKept

---------------------------------------------------------------------------
(* Every step of FatVolume is a step of FileStore.                         *)

LEMMA FilesInit == Init => FInv /\ Store!Init
<1> SUFFICES ASSUME Init PROVE FInv /\ Store!Init
  OBVIOUS
<1>1. /\ \A n \in Name : dir_d[n] = None \/ dir_d[n] = Empty
      /\ Empty.size = 0 /\ fat = fat_d /\ dir = dir_d
      /\ cmd = None /\ pc = "idle" /\ got = None
  BY DEF Init, Empty
<1>2. \A n \in Name : dir_d[n] # None => 1 .. dir_d[n].size = {}
  BY <1>1
<1>3. None \notin Writes /\ None # Empty
  BY NoneAssumption, FatVolumeAssumption DEF NoneAssumption, FatVolumeAssumption, Entry, Empty
<1>4. FInv
  BY <1>1, <1>2, <1>3 DEF FInv, Laid, SameChains, EntryAhead, Emptied, Built, Stored,
     ReadSoFar, Commanded, Filling
<1>5. Files \in [Name -> {None, <<>>}]
  <2>1. \A n \in Name : dir_d[n] # None => Content(fat_d, data, dir_d[n]) = <<>>
    BY <1>1, NoSectors
  <2>2. QED BY <2>1 DEF Files, FilesOf
<1>6. QED BY <1>1, <1>4, <1>5 DEF Store!Init

LEMMA FatReadFiles ==
    ASSUME IInv, FInv, NEW n \in Name, FatRead(n)
    PROVE  FInv' /\ [Store!Next]_(Store!vars)
<1>1. /\ UNCHANGED <<fat_d, dir_d, data>> /\ fat' = fat_d /\ dir' = dir_d
      /\ pc = "idle" /\ pc' \in {"read", "read_done"} /\ cmd' = [op |-> "fatread", name |-> n]
  BY DEF FatRead, MountVolume, diskVars
<1>2. cmd = None /\ cmd' \in Reads /\ cmd' # None /\ cmd' \notin Writes /\ cmd'.name = n
  BY <1>1, NoneAssumption DEF NoneAssumption, FInv, Commanded, Reads, Writes
<1>3. Laid(fat', dir') /\ Laid(fat_d', dir_d') /\ SameChains' /\ EntryAhead'
  BY <1>1 DEF FInv, SameChains, EntryAhead
<1>4. ReadSoFar'
  BY <1>1, <1>2 DEF FatRead, follow_path, ReadSoFar, IInv, TypeOK, Entry
<1>5. FInv'
  BY <1>1, <1>2, <1>3, <1>4 DEF FInv, Emptied, Built, Stored, Commanded, Filling
<1>6. Store!Begin
  BY <1>1, <1>2 DEF Store!Begin, Store!Read, Files
<1>7. QED BY <1>5, <1>6 DEF Store!Next

LEMMA FatWriteFiles ==
    ASSUME IInv, FInv, NEW n \in Name, NEW d \in Text, FatWrite(n, d)
    PROVE  FInv' /\ [Store!Next]_(Store!vars)
<1>1. /\ UNCHANGED <<fat_d, dir_d, data>> /\ fat' = fat_d /\ dir' = [dir_d EXCEPT ![n] = Empty]
      /\ pc = "idle" /\ pc' \in {"remove", "write"}
      /\ cmd' = [op |-> "fatwrite", name |-> n, data |-> d]
      /\ sclust' = 0 /\ objsize' = 0 /\ dirty' = FALSE /\ got' = None
  BY DEF FatWrite, MountVolume, diskVars, ClearFile
<1>2. cmd = None /\ cmd' \in Writes /\ cmd' # None /\ cmd'.name = n
  BY <1>1, NoneAssumption DEF NoneAssumption, FInv, Commanded, Writes
<1>3. dir' [n] = Empty /\ \A m \in Name : m # n => dir'[m] = dir_d[m]
  BY <1>1 DEF IInv, TypeOK
<1>4. Laid(fat_d', dir_d') /\ SameChains' /\ EntryAhead'
  BY <1>1, <1>2, <1>3 DEF FInv, SameChains, EntryAhead
<1>5. Laid(fat', dir')
  BY <1>1, <1>3 DEF FInv, Laid, Empty
<1>6. Emptied'
  BY <1>1, <1>2, <1>3 DEF Emptied
<1>7. Built'
  BY <1>1 DEF Built, Length
<1>8. FInv'
  BY <1>1, <1>2, <1>4, <1>5, <1>6, <1>7 DEF FInv, Stored, ReadSoFar, Commanded
<1>9. Store!Begin
  <2>1. cmd' \in Store!Writes(n)
    BY <1>1, FatVolumeAssumption DEF FatVolumeAssumption, Store!Writes
  <2>2. QED BY <1>1, <1>2, <2>1 DEF Store!Begin, Files
<1>10. QED BY <1>8, <1>9 DEF Store!Next

LEMMA RemoveClusterFiles ==
    ASSUME IInv, FInv, RemoveCluster
    PROVE  FInv' /\ [Store!Next]_(Store!vars)
<1>1. /\ clst \in Cluster /\ Unreached(fat, dir, clst)
      /\ fat' = [fat EXCEPT ![clst] = Free] /\ UNCHANGED <<dir, data, cmd, objsize, dirty, got>>
      /\ SyncIf(FatSect(clst) # winsect)
      /\ pc = "remove" /\ pc' \in {"remove", "reopen"}
  BY DEF IInv, Removing, RemoveCluster, put_fat, move_window, filVars
<1>2. ~ InFile(fat, dir, clst)
  BY <1>1, UnreachedOutside DEF IInv, TypeOK, FInv
<1>3. \A b \in Cluster : b # clst => fat'[b] = fat[b]
  BY <1>1 DEF IInv, TypeOK
<1>4. (FatSect(clst) # winsect) \in BOOLEAN
  OBVIOUS
<1>5. /\ dir_d' = dir' /\ Files' = View
      /\ Laid(fat', dir') /\ Laid(fat_d', dir_d') /\ SameChains'
  BY <1>1, <1>2, <1>3, <1>4, FilesPut
<1>6. EntryAhead'
  BY <1>5 DEF EntryAhead
<1>7. Emptied'
  BY <1>1 DEF FInv, Emptied
<1>8. FInv'
  BY <1>1, <1>5, <1>6, <1>7 DEF FInv, Built, Stored, ReadSoFar, Commanded, Filling
<1>9. QED BY <1>1, <1>5, <1>8, ViewEmptied, Emptying

LEMMA ReopenFiles ==
    ASSUME IInv, FInv, Reopen
    PROVE  FInv' /\ [Store!Next]_(Store!vars)
<1>1. /\ UNCHANGED <<fat, dir, data, cmd, objsize, sclust, dirty, got>>
      /\ SyncIf(DirSect # winsect) /\ pc = "reopen" /\ pc' = "write"
  BY DEF Reopen, move_window, filVars
<1>2. UNCHANGED <<fat_d, dir_d>> \/ (fat_d' = fat /\ dir_d' = dir)
  BY <1>1, Flushed DEF SyncIf, IInv
<1>3. Laid(fat_d', dir_d') /\ SameChains' /\ Files' \in {Files, View}
  BY <1>1, <1>2, FilesMoved
<1>4. EntryAhead'
  BY <1>1, <1>2 DEF FInv, EntryAhead
<1>5. Emptied' /\ Built'
  BY <1>1 DEF FInv, Emptied, IInv, Hole, Built, Length
<1>6. FInv'
  BY <1>1, <1>3, <1>4, <1>5 DEF FInv, Stored, ReadSoFar, Commanded
<1>7. QED BY <1>1, <1>3, <1>6, ViewEmptied, Emptying

LEMMA AllocClusterFiles ==
    ASSUME IInv, FInv, AllocCluster
    PROVE  FInv' /\ [Store!Next]_(Store!vars)
<1>1. PICK ncl \in NextFree(SearchFrom) :
          /\ SyncIf(\E c \in Tried(ncl) : FatSect(c) # winsect)
          /\ fat' = [fat EXCEPT ![ncl] = EOC]
  BY DEF AllocCluster
<1>2. ncl \in Cluster /\ fat[ncl] = Free
  BY DEF NextFree, FreeClusters
<1>3. /\ UNCHANGED <<dir, data, cmd, objsize, sclust, clust, dirty, got>>
      /\ pc = "write" /\ pc' = "link" /\ pc \in Filling
  BY DEF AllocCluster, MoreToWrite, filVars, Filling
<1>4. ~ InFile(fat, dir, ncl)
  BY <1>2, FreeUnreached, UnreachedOutside DEF IInv, TypeOK, FInv
<1>5. \A b \in Cluster : b # ncl => fat'[b] = fat[b]
  BY <1>1 DEF IInv, TypeOK
<1> DEFINE leaving == \E c \in Tried(ncl) : FatSect(c) # winsect
<1>6. leaving \in BOOLEAN /\ (~ leaving => winsect = FatSect(ncl)) /\ SyncIf(leaving)
  BY <1>1, <1>2, OwnTurn DEF IInv
<1> HIDE DEF leaving
<1>7. /\ dir_d' = dir' /\ Files' = View
      /\ Laid(fat', dir') /\ Laid(fat_d', dir_d') /\ SameChains'
      /\ \A b : InFile(fat', dir', b) <=> InFile(fat, dir, b)
  BY <1>2, <1>3, <1>4, <1>5, <1>6, FilesPut
<1>8. EntryAhead' /\ Emptied'
  BY <1>3, <1>7 DEF EntryAhead, FInv, Emptied
<1>9. Built'
  <2>1. \A k \in 1 .. Length : Chain(fat', sclust)[k] = Chain(fat, sclust)[k]
    BY <1>2, <1>3, <1>5, ChainGrown
  <2>2. Length = objsize /\ Length' = objsize
    BY <1>3 DEF Length
  <2>3. /\ sclust = 0 <=> Length = 0
        /\ Length > 0 => Chain(fat, sclust)[Length] = clust
        /\ \A k \in 1 .. Length : /\ Chain(fat, sclust)[k] \in Cluster
                                  /\ ~ InFile(fat, dir, Chain(fat, sclust)[k])
        /\ \A k \in 1 .. objsize :
                ~ (dirty /\ k = objsize) => data[Chain(fat, sclust)[k]] = cmd.data[k]
        /\ dirty => objsize = Len(cmd.data)
    BY <1>3 DEF FInv, Built
  <2>4. objsize \in Nat
    BY <1>3, BuiltFacts
  <2>5. objsize > 0 => objsize \in 1 .. objsize
    BY <2>4
  <2>6. QED BY <1>3, <1>7, <2>1, <2>2, <2>3, <2>5 DEF Built
<1>10. FInv'
  BY <1>3, <1>7, <1>8, <1>9 DEF FInv, Stored, ReadSoFar, Commanded
<1>11. QED BY <1>3, <1>7, <1>10, ViewEmptied, Emptying

LEMMA DiskFullFiles ==
    ASSUME IInv, FInv, DiskFull
    PROVE  FInv' /\ [Store!Next]_(Store!vars)
<1>1. /\ UNCHANGED <<fat, dir, data, cmd, objsize, sclust, clust, dirty, got>>
      /\ pc = "write" /\ pc' = "sync_data" /\ pc \in Filling
  BY DEF DiskFull, MoreToWrite, filVars, Filling
<1>2. UNCHANGED <<fat_d, dir_d>> \/ (fat_d' = fat /\ dir_d' = dir)
  BY Flushed DEF DiskFull, get_fat, move_window, SyncIf, IInv
<1>3. Laid(fat_d', dir_d') /\ SameChains' /\ Files' \in {Files, View}
  BY <1>1, <1>2, FilesMoved
<1>4. EntryAhead'
  BY <1>1, <1>2 DEF FInv, EntryAhead
<1>5. Emptied' /\ Built'
  BY <1>1 DEF FInv, Emptied, Built, Length, Filling
<1>6. FInv'
  BY <1>1, <1>3, <1>4, <1>5 DEF FInv, Stored, ReadSoFar, Commanded
<1>7. QED BY <1>1, <1>3, <1>6, ViewEmptied, Emptying

LEMMA LinkClusterFiles ==
    ASSUME IInv, FInv, LinkCluster
    PROVE  FInv' /\ [Store!Next]_(Store!vars)
<1>1. /\ UNCHANGED <<dir, data, cmd, objsize, dirty, got>> /\ clust' = clst
      /\ sclust' = (IF sclust = 0 THEN clst ELSE sclust) /\ NewLink
      /\ pc = "link" /\ pc' = "put" /\ pc \in Filling
  BY DEF LinkCluster, Filling
<1>2. clst \in Cluster /\ Unreached(fat, dir, clst) /\ ~ InFile(fat, dir, clst) /\ clst # 0
  <2>1. clst \in Cluster /\ Unreached(fat, dir, clst)
    BY <1>1 DEF IInv, Linking
  <2>2. QED BY <2>1, UnreachedOutside, Sectors DEF IInv, TypeOK, FInv
<1>3. Length = objsize /\ Length' = objsize + 1 /\ objsize \in Nat /\ objsize < MaxLen /\ ~ dirty
  <2>1. Length = objsize /\ Length' = objsize + 1 /\ objsize \in Nat
    BY <1>1, BuiltFacts DEF Length
  <2>2. objsize < Len(cmd.data) /\ cmd \in Writes
    BY <1>1 DEF IInv, Progress
  <2>3. Len(cmd.data) \in 1 .. MaxLen
    BY <2>2, FatVolumeAssumption DEF FatVolumeAssumption, Writes
  <2>4. dirty => objsize = Len(cmd.data)
    BY <1>1 DEF FInv, Built
  <2>5. QED BY <2>1, <2>2, <2>3, <2>4, FatVolumeAssumption DEF FatVolumeAssumption
<1>4. /\ sclust = 0 <=> objsize = 0
      /\ objsize > 0 => Chain(fat, sclust)[objsize] = clust
      /\ \A k \in 1 .. objsize : /\ Chain(fat, sclust)[k] \in Cluster
                                 /\ ~ InFile(fat, dir, Chain(fat, sclust)[k])
                                 /\ data[Chain(fat, sclust)[k]] = cmd.data[k]
  BY <1>1, <1>3 DEF FInv, Built
<1>5. CASE sclust = 0
  <2>1. UNCHANGED <<fat, fat_d, dir_d>>
    BY <1>1, <1>5 DEF NewLink, IInv, Building
  <2>2. Laid(fat_d', dir_d') /\ SameChains' /\ Laid(fat', dir') /\ EntryAhead' /\ Emptied'
    BY <1>1, <2>1 DEF FInv, SameChains, EntryAhead, Emptied
  <2>3. Built'
    <3>1. Chain(fat, clst)[1] = clst
      BY ChainSteps
    <3>2. objsize = 0 /\ Length' = 1 /\ sclust' = clst
      BY <1>1, <1>3, <1>4, <1>5
    <3>3. clst # 0 /\ 1 > 0 /\ 1 # 0 /\ (\A k \in 1 .. 1 : k = 1) /\ 1 .. 0 = {}
      BY <1>2
    <3>4. pc' = "put" /\ clust' = clst /\ objsize' = 0 /\ dirty' = FALSE
      BY <1>1, <1>3, <3>2 DEF IInv, TypeOK
    <3>5. Chain(fat, clst)[1] \in Cluster /\ ~ InFile(fat', dir', Chain(fat, clst)[1])
      BY <1>1, <1>2, <2>1, <3>1
    <3>6. Chain(fat', sclust') = Chain(fat, clst)
      BY <2>1, <3>2
    <3>7. QED BY <3>1, <3>2, <3>3, <3>4, <3>5, <3>6, Zenon DEF Built
  <2>4. FInv'
    BY <1>1, <2>2, <2>3 DEF FInv, Stored, ReadSoFar, Commanded
  <2>5. cmd # None /\ Files' = Files
    BY <1>1, <2>1 DEF Files, FInv, Commanded
  <2>6. QED BY <1>1, <2>4, <2>5, Hidden
<1>6. CASE sclust # 0
  <2>1. objsize > 0 /\ objsize \in 1 .. objsize
    BY <1>3, <1>4, <1>6
  <2>2. clust \in Cluster /\ ~ InFile(fat, dir, clust) /\ clust # 0
    BY <1>4, <2>1, Sectors
  <2>3. /\ fat' = [fat EXCEPT ![clust] = clst] /\ SyncIf(FatSect(clust) # winsect)
        /\ fat'[clust] = clst /\ \A b \in Cluster : b # clust => fat'[b] = fat[b]
        /\ (FatSect(clust) # winsect) \in BOOLEAN
    BY <1>1, <2>2 DEF NewLink, put_fat, move_window, IInv, TypeOK
  <2>4. /\ dir_d' = dir' /\ Files' = View
        /\ Laid(fat', dir') /\ Laid(fat_d', dir_d') /\ SameChains'
        /\ \A b : InFile(fat', dir', b) <=> InFile(fat, dir, b)
    BY <1>1, <2>2, <2>3, FilesPut
  <2>5. EntryAhead' /\ Emptied'
    BY <1>1, <2>4 DEF EntryAhead, FInv, Emptied
  <2>6. Built'
    <3>1. \A k \in 1 .. objsize : Chain(fat', sclust)[k] = Chain(fat, sclust)[k]
      <4>1. \A k \in 1 .. Length : Chain(fat', sclust)[k] = Chain(fat, sclust)[k]
        BY <1>1, <2>3, ChainGrown
      <4>2. QED BY <4>1, <1>3
    <3>2. Chain(fat', sclust)[objsize + 1] = clst
      <4>1. objsize + 1 \in 2 .. MaxLen /\ (objsize + 1) - 1 = objsize
        BY <1>3, <2>1, FatVolumeAssumption DEF FatVolumeAssumption
      <4>2. Chain(fat, sclust)[objsize] = clust
        BY <1>4, <2>1
      <4>3. Chain(fat', sclust)[objsize] = clust
        BY <2>1, <3>1, <4>2
      <4>4. \A k \in 2 .. MaxLen : Chain(fat', sclust)[k - 1] \in Cluster
                => Chain(fat', sclust)[k] = fat'[Chain(fat', sclust)[k - 1]]
        BY ChainSteps
      <4> DEFINE s == Chain(fat', sclust)
      <4>5. s[objsize] = clust /\ \A k \in 2 .. MaxLen : s[k - 1] \in Cluster => s[k] = fat'[s[k - 1]]
        BY <4>3, <4>4
      <4> HIDE DEF s
      <4>6. s[objsize + 1] = clst
        BY <4>1, <4>5, <2>2, <2>3
      <4>7. QED BY <4>6 DEF s
    <3>3. \A k \in 1 .. objsize + 1 : k = objsize + 1 \/ k \in 1 .. objsize
      BY <1>3
    <3> DEFINE s == Chain(fat', sclust)
    <3>4. \A k \in 1 .. objsize + 1 : s[k] \in Cluster /\ ~ InFile(fat', dir', s[k])
      BY <1>2, <1>4, <2>4, <3>1, <3>2, <3>3
    <3>5. \A k \in 1 .. objsize : data[s[k]] = cmd.data[k]
      BY <1>4, <3>1
    <3>6. sclust' = sclust /\ sclust # 0 /\ objsize + 1 # 0
      BY <1>1, <1>3, <1>6
    <3>7. s[objsize + 1] = clst
      BY <3>2
    <3> HIDE DEF s
    <3>8. Chain(fat', sclust') = s
      BY <3>6 DEF s
    <3>9. QED BY <1>1, <1>3, <3>4, <3>5, <3>6, <3>7, <3>8, Zenon DEF Built
  <2>7. FInv'
    BY <1>1, <2>4, <2>5, <2>6 DEF FInv, Stored, ReadSoFar, Commanded
  <2>8. QED BY <1>1, <2>4, <2>7, ViewEmptied, Emptying
<1>7. QED BY <1>5, <1>6

LEMMA PutSectorFiles ==
    ASSUME IInv, FInv, PutSector \/ BufferSector
    PROVE  FInv' /\ [Store!Next]_(Store!vars)
<1>1. /\ UNCHANGED <<fat, dir, fat_d, dir_d, cmd, sclust, clust, got>> /\ objsize' = objsize + 1
      /\ pc = "put" /\ pc' = "write" /\ pc \in Filling
  BY DEF PutSector, BufferSector, diskVars, winVars, Filling
<1>2. Length = objsize + 1 /\ Length' = objsize + 1 /\ objsize \in Nat /\ Length > 0
      /\ Length \in 1 .. Length
  BY <1>1, BuiltFacts DEF Length
<1>3. /\ clust \in Cluster /\ Chain(fat, sclust)[objsize + 1] = clust /\ sclust # 0
      /\ \A k \in 1 .. objsize + 1 :
            /\ Chain(fat, sclust)[k] \in Cluster
            /\ k < objsize + 1 => Chain(fat, sclust)[k] # clust
  BY <1>1, <1>2, BuiltFacts
<1>4. /\ \A k \in 1 .. objsize + 1 : ~ InFile(fat, dir, Chain(fat, sclust)[k])
      /\ \A k \in 1 .. objsize : ~ dirty => data[Chain(fat, sclust)[k]] = cmd.data[k]
      /\ dirty => objsize = Len(cmd.data)
  BY <1>1, <1>2 DEF FInv, Built
<1>5. ~ dirty
  BY <1>1, <1>4 DEF IInv, Progress
<1>6. dir_d = dir
  BY <1>1, <1>3 DEF FInv, EntryAhead, IInv, TypeOK
<1>7. \A b \in Cluster : b # clust => data'[b] = data[b]
  BY <1>3 DEF PutSector, BufferSector, diskVars, IInv, TypeOK
<1>8. /\ dirty' => objsize + 1 = Len(cmd.data)
      /\ ~ dirty' => data'[clust] = cmd.data[objsize + 1]
  BY <1>1, <1>3, <1>5 DEF PutSector, BufferSector, Written, IInv, TypeOK
<1>9. Files' = Files
  <2>1. ~ InFile(fat, dir, clust)
    BY <1>2, <1>3, <1>4
  <2>2. QED BY <1>1, <1>3, <1>6, <1>7, <2>1, FilesWritten
<1>10. Laid(fat', dir') /\ Laid(fat_d', dir_d') /\ SameChains' /\ EntryAhead' /\ Emptied'
  BY <1>1, <1>6 DEF FInv, SameChains, EntryAhead, Emptied, Filling
<1>11. Built'
  <2> DEFINE s == Chain(fat, sclust)
  <2>1. \A k \in 1 .. objsize + 1 :
            ~ (dirty' /\ k = objsize + 1) => data'[s[k]] = cmd.data[k]
    <3>1. ASSUME NEW k \in 1 .. objsize + 1, ~ (dirty' /\ k = objsize + 1)
          PROVE  data'[s[k]] = cmd.data[k]
      <4>1. CASE k = objsize + 1
        BY <1>3, <1>8, <3>1, <4>1
      <4>2. CASE k # objsize + 1
        <5>1. k \in 1 .. objsize /\ k < objsize + 1
          BY <1>2, <4>2
        <5>2. s[k] \in Cluster /\ s[k] # clust /\ data[s[k]] = cmd.data[k]
          BY <1>3, <1>4, <1>5, <5>1
        <5> HIDE DEF s
        <5>3. QED BY <1>7, <5>2
      <4>3. QED BY <4>1, <4>2
    <3>2. QED BY <3>1
  <2>2. /\ sclust # 0 /\ s[objsize + 1] = clust
        /\ \A k \in 1 .. objsize + 1 : s[k] \in Cluster /\ ~ InFile(fat, dir, s[k])
    BY <1>3, <1>4
  <2>3. Chain(fat', sclust') = s
    BY <1>1
  <2>4. objsize + 1 # 0
    BY <1>2
  <2> HIDE DEF s
  <2>5. QED BY <1>1, <1>2, <1>8, <2>1, <2>2, <2>3, <2>4, Zenon DEF Built
<1>12. FInv'
  BY <1>1, <1>10, <1>11 DEF FInv, Stored, ReadSoFar, Commanded
<1>13. cmd # None
  BY <1>1 DEF FInv, Commanded
<1>14. QED BY <1>1, <1>9, <1>12, <1>13, Hidden

LEMMA WriteDoneFiles ==
    ASSUME IInv, FInv, WriteDone
    PROVE  FInv' /\ [Store!Next]_(Store!vars)
<1>1. /\ UNCHANGED <<fat, dir, fat_d, dir_d, data, cmd, sclust, clust, objsize, dirty, got>>
      /\ pc = "write" /\ pc' = "sync_data"
  BY DEF WriteDone, diskVars, winVars, filVars
<1>2. Laid(fat', dir') /\ Laid(fat_d', dir_d') /\ SameChains' /\ EntryAhead' /\ Emptied'
  BY <1>1 DEF FInv, SameChains, EntryAhead, Emptied, Filling
<1>3. Built'
  BY <1>1 DEF FInv, Built, Length, Filling
<1>4. FInv'
  BY <1>1, <1>2, <1>3 DEF FInv, Stored, ReadSoFar, Commanded
<1>5. cmd # None /\ Files' = Files
  BY <1>1 DEF FInv, Commanded, Files
<1>6. QED BY <1>1, <1>4, <1>5, Hidden

LEMMA SyncDataFiles ==
    ASSUME IInv, FInv, SyncData
    PROVE  FInv' /\ [Store!Next]_(Store!vars)
<1>1. /\ UNCHANGED <<fat, dir, fat_d, dir_d, cmd, sclust, clust, objsize, got>> /\ dirty' = FALSE
      /\ pc = "sync_data" /\ pc' = "sync_entry" /\ pc \in Filling
      /\ data' = IF dirty THEN [data EXCEPT ![clust] = Written] ELSE data
  BY DEF SyncData, winVars, Filling
<1>2. Length = objsize /\ Length' = objsize /\ objsize \in Nat
  BY <1>1, BuiltFacts DEF Length
<1>3. Laid(fat', dir') /\ Laid(fat_d', dir_d') /\ SameChains' /\ EntryAhead' /\ Emptied'
  BY <1>1 DEF FInv, SameChains, EntryAhead, Emptied, Filling
<1> DEFINE s == Chain(fat, sclust)
<1>4. /\ sclust = 0 <=> objsize = 0
      /\ objsize > 0 => s[objsize] = clust
      /\ \A k \in 1 .. objsize : s[k] \in Cluster /\ ~ InFile(fat, dir, s[k])
      /\ \A k \in 1 .. objsize : ~ (dirty /\ k = objsize) => data[s[k]] = cmd.data[k]
  BY <1>1, <1>2 DEF FInv, Built
<1>5. Files' = Files /\ \A k \in 1 .. objsize : data'[s[k]] = cmd.data[k]
  <2>1. CASE ~ dirty
    <3>1. data' = data
      BY <1>1, <2>1
    <3>2. QED BY <1>1, <1>4, <2>1, <3>1 DEF Files
  <2>2. CASE dirty
    <3>1. objsize > 0 /\ objsize \in 1 .. objsize /\ clust \in Cluster
      BY <1>2, <2>2 DEF IInv, Progress
    <3>2. sclust # 0 /\ s[objsize] = clust /\ ~ InFile(fat, dir, clust)
      BY <1>4, <3>1
    <3>3. dir_d = dir
      BY <1>1, <3>2 DEF FInv, EntryAhead, IInv, TypeOK
    <3>4. data'[clust] = cmd.data[objsize] /\ \A b \in Cluster : b # clust => data'[b] = data[b]
      BY <1>1, <2>2, <3>1 DEF Written, IInv, TypeOK
    <3>5. \A k \in 1 .. objsize : k < objsize => s[k] # clust
      BY <1>1, <1>2, BuiltFacts
    <3> HIDE DEF s
    <3>6. \A k \in 1 .. objsize : k # objsize => data'[s[k]] = cmd.data[k]
      BY <1>2, <1>4, <3>4, <3>5
    <3>7. \A k \in 1 .. objsize : data'[s[k]] = cmd.data[k]
      BY <3>2, <3>4, <3>6
    <3>8. Files' = Files
      BY <1>1, <3>1, <3>2, <3>3, <3>4, FilesWritten
    <3>9. QED BY <3>7, <3>8
  <2>3. QED BY <2>1, <2>2
<1>6. Built'
  <2>1. Chain(fat', sclust') = s
    BY <1>1
  <2> HIDE DEF s
  <2>2. QED BY <1>1, <1>2, <1>4, <1>5, <2>1, Zenon DEF Built
<1>7. FInv'
  BY <1>1, <1>3, <1>6 DEF FInv, Stored, ReadSoFar, Commanded
<1>8. cmd # None
  BY <1>1 DEF FInv, Commanded
<1>9. QED BY <1>1, <1>5, <1>7, <1>8, Hidden

LEMMA SyncEntryFiles ==
    ASSUME IInv, FInv, SyncEntry
    PROVE  FInv' /\ [Store!Next]_(Store!vars)
<1> DEFINE entry == [clust |-> sclust, size |-> objsize]
<1>1. /\ UNCHANGED <<fat, data, cmd, sclust, clust, objsize, dirty, got>>
      /\ dir' = [dir EXCEPT ![cmd.name] = entry]
      /\ pc = "sync_entry" /\ pc' = "sync_window" /\ pc \in Filling
  BY DEF SyncEntry, filVars, Filling
<1>2. UNCHANGED <<fat_d, dir_d>> \/ (fat_d' = fat /\ dir_d' = dir)
  BY Flushed DEF SyncEntry, move_window, SyncIf, IInv
<1>3. Laid(fat_d', dir_d') /\ SameChains' /\ Files' \in {Files, View}
  BY <1>1, <1>2, FilesMoved
<1>4. cmd \in Writes /\ cmd.name \in Name /\ cmd.data \in Seq(Data)
      /\ objsize \in Nat /\ objsize <= Len(cmd.data) /\ ~ dirty
  <2>1. cmd \in Writes /\ objsize <= Len(cmd.data) /\ objsize \in Nat
    BY <1>1, BuiltFacts DEF IInv, Progress
  <2>2. cmd.name \in Name /\ cmd.data \in Seq(Data)
    BY <2>1, FatVolumeAssumption DEF FatVolumeAssumption, Writes
  <2>3. ~ dirty
    BY <1>1 DEF FInv, Built
  <2>4. QED BY <2>1, <2>2, <2>3
<1>5. /\ dir'[cmd.name] = entry /\ entry # None
      /\ \A n \in Name : n # cmd.name => dir'[n] = dir[n]
  <2>1. entry \in Entry
    BY DEF IInv, TypeOK, Entry
  <2>2. entry # None
    BY <2>1, NoneAssumption DEF NoneAssumption
  <2>3. QED BY <1>1, <1>4, <2>2 DEF IInv, TypeOK
<1>6. \A k \in 1 .. objsize : Chain(fat, sclust)[k] \in Cluster
                              /\ data[Chain(fat, sclust)[k]] = cmd.data[k]
  BY <1>1, <1>4 DEF FInv, Built, Length
<1>7. Laid(fat', dir')
  <2>1. \A n \in Name : n # cmd.name /\ dir[n] # None =>
            \A k \in 1 .. dir[n].size : Chain(fat, dir[n].clust)[k] \in Cluster
    BY DEF FInv, Laid
  <2>2. \A n \in Name : dir'[n] # None =>
            \A k \in 1 .. dir'[n].size : Chain(fat, dir'[n].clust)[k] \in Cluster
    BY <1>4, <1>5, <1>6, <2>1
  <2>3. QED BY <1>1, <2>2 DEF Laid
<1>8. EntryAhead'
  <2>1. \A n \in Name : dir[n] # dir_d[n] => n = cmd.name
    BY DEF FInv, EntryAhead
  <2>2. \A n \in Name : dir'[n] # dir_d'[n] => n = cmd.name
    BY <1>2, <1>5, <2>1
  <2>3. QED BY <1>1, <1>4, <2>2 DEF EntryAhead
<1>9. Emptied'
  <2>1. ASSUME objsize > 0 PROVE dir_d'[cmd.name] = Empty
    <3>1. sclust # 0
      BY <1>1, <1>4, <2>1 DEF FInv, Built, Length
    <3>2. dir_d[cmd.name] = dir[cmd.name]
      BY <1>1, <1>4, <3>1 DEF FInv, EntryAhead
    <3>3. dir[cmd.name] = Empty
      BY <1>1 DEF FInv, Emptied
    <3>4. QED BY <1>2, <3>2, <3>3
  <2>2. QED BY <1>1, <2>1 DEF Emptied, Filling
<1>10. Stored'
  <2>1. View'[cmd.name] = Content(fat, data, entry)
    BY <1>1, <1>4, <1>5 DEF View, FilesOf
  <2>2. Content(fat, data, entry) = [k \in 1 .. objsize |-> cmd.data[k]]
    BY <1>6 DEF Content
  <2>3. [k \in 1 .. objsize |-> cmd.data[k]] = SubSeq(cmd.data, 1, objsize)
    BY <1>4
  <2>4. QED BY <1>1, <2>1, <2>2, <2>3 DEF Stored
<1>11. FInv'
  BY <1>1, <1>3, <1>7, <1>8, <1>9, <1>10 DEF FInv, Built, ReadSoFar, Commanded, Filling
<1>12. QED BY <1>1, <1>3, <1>11, ViewEmptied, Emptying

LEMMA SyncWindowFiles ==
    ASSUME IInv, FInv, SyncWindow
    PROVE  FInv' /\ [Store!Next]_(Store!vars)
<1>1. /\ UNCHANGED <<fat, dir, data, cmd, objsize, got>> /\ fat_d' = fat /\ dir_d' = dir
      /\ pc = "sync_window" /\ pc' = "sync_info"
  BY Flushed DEF SyncWindow, filVars, IInv
<1>2. Laid(fat', dir') /\ Laid(fat_d', dir_d') /\ SameChains' /\ EntryAhead' /\ Emptied' /\ Stored'
  BY <1>1 DEF FInv, SameChains, EntryAhead, Emptied, Filling, Stored, View
<1>3. FInv'
  BY <1>1, <1>2 DEF FInv, Built, ReadSoFar, Commanded, Filling
<1>4. /\ cmd \in Writes /\ cmd.name \in Name /\ cmd.data \in Seq(Data) /\ cmd # None
      /\ objsize \in 0 .. Len(cmd.data) /\ Len(cmd.data) \in Nat
  <2>1. cmd \in Writes /\ objsize <= Len(cmd.data) /\ objsize \in Nat
    BY <1>1, FatVolumeAssumption DEF FatVolumeAssumption, IInv, TypeOK, Progress
  <2>2. cmd.name \in Name /\ cmd.data \in Seq(Data) /\ cmd # None
    BY <2>1, FatVolumeAssumption, NoneAssumption DEF FatVolumeAssumption, NoneAssumption, Writes
  <2>3. QED BY <2>1, <2>2
<1>5. Files' = [Files EXCEPT ![cmd.name] = SubSeq(cmd.data, 1, objsize)]
  <2>1. View[cmd.name] = SubSeq(cmd.data, 1, objsize)
    BY <1>1 DEF FInv, Stored
  <2>2. \A n \in Name : n # cmd.name => View[n] = Files[n]
    BY ViewIs DEF FInv, EntryAhead
  <2>3. Files' = View
    BY <1>1 DEF Files, View
  <2>4. QED BY <1>4, <2>1, <2>2, <2>3 DEF Files, View, FilesOf
<1>6. CASE objsize = 0
  <2>1. SubSeq(cmd.data, 1, objsize) = <<>>
    BY <1>4, <1>6
  <2>2. QED BY <1>1, <1>3, <1>4, <1>5, <2>1, Emptying
<1>7. CASE objsize # 0
  <2>1. Files[cmd.name] = <<>>
    <3>1. dir_d[cmd.name] = Empty /\ Empty # None
      <4>1. objsize > 0
        BY <1>4, <1>7
      <4>2. Empty # None
        BY NoneAssumption, FatVolumeAssumption DEF NoneAssumption, FatVolumeAssumption, Entry, Empty
      <4>3. QED BY <1>1, <4>1, <4>2 DEF FInv, Emptied
    <3>2. QED BY <1>4, <3>1, NoSectors DEF Files, FilesOf
  <2>2. cmd.op = "fatwrite" /\ objsize \in 1 .. Len(cmd.data)
    BY <1>4, <1>7 DEF Writes
  <2>3. Store!Commit
    BY <1>1, <1>4, <1>5, <2>1, <2>2 DEF Store!Commit, Store!Set
  <2>4. QED BY <1>3, <2>3 DEF Store!Next
<1>8. QED BY <1>6, <1>7

\* The end of a command, and of the device.
LEMMA Ended ==
    ASSUME IInv, FInv, Finish, UNCHANGED <<fat_d, dir_d>>, dir' = dir_d,
           fat' = fat_d \/ (fat' = fat /\ dir_d = dir)
    PROVE  FInv'
<1>1. cmd' = None /\ pc' = "idle" /\ None \notin Writes
  BY NoneAssumption DEF NoneAssumption, Finish
<1>2. Laid(fat', dir') /\ Laid(fat_d', dir_d') /\ SameChains' /\ EntryAhead'
  BY DEF FInv, SameChains, EntryAhead
<1>3. QED BY <1>1, <1>2 DEF FInv, Emptied, Built, Stored, ReadSoFar, Commanded, Filling

LEMMA SyncInfoFiles ==
    ASSUME IInv, FInv, SyncInfo
    PROVE  FInv' /\ [Store!Next]_(Store!vars)
<1>1. /\ UNCHANGED <<fat, dir, fat_d, dir_d, data, got>> /\ fat = fat_d /\ dir = dir_d
      /\ pc = "sync_info" /\ pc' = "idle" /\ cmd' = None
  BY DEF SyncInfo, Finish, IInv, TypeOK, WindowOnly, Clean
<1>2. FInv'
  BY <1>1, Ended DEF SyncInfo
<1>3. cmd # None /\ got = None /\ got' = None
  BY <1>1 DEF FInv, Commanded, IInv, Progress
<1>4. Store!End
  BY <1>1, <1>3 DEF Store!End, Files
<1>5. QED BY <1>2, <1>4 DEF Store!Next

LEMMA PullFiles ==
    ASSUME IInv, FInv, Pull
    PROVE  FInv' /\ [Store!Next]_(Store!vars)
<1>1. FInv'
  BY Ended DEF Pull, diskVars
<1>2. cmd # None
  BY DEF FInv, Commanded, Pull
<1>3. Store!End
  BY <1>2 DEF Store!End, Files, Pull, Finish, diskVars
<1>4. QED BY <1>1, <1>3 DEF Store!Next

\* fatread finds the next sector, and it is the file's.
LEMMA ReadSectorFiles ==
    ASSUME IInv, FInv, ReadSector
    PROVE  FInv' /\ [Store!Next]_(Store!vars)
<1>1. /\ UNCHANGED <<fat, dir, data, cmd, sclust, objsize>> /\ pc = "read" /\ Len(got) < objsize
      /\ pc' \in {"read", "read_done"}
  BY DEF ReadSector
<1>2. cmd \in Reads /\ cmd \notin Writes /\ cmd # None /\ cmd.name \in Name /\ got \in Seq(Data)
  BY <1>1, NoneAssumption DEF NoneAssumption, FInv, ReadSoFar, Reads, Writes, IInv, Progress
<1>3. dir_d = dir
  BY <1>1, <1>2 DEF FInv, EntryAhead, IInv, TypeOK
<1>4. UNCHANGED <<fat_d, dir_d>> \/ (fat_d' = fat /\ dir_d' = dir)
  BY Flushed DEF ReadSector, get_fat, move_window, SyncIf, IInv
<1>5. Laid(fat_d', dir_d') /\ SameChains' /\ Files' = Files
  <2>1. Laid(fat_d', dir_d') /\ SameChains' /\ Files' \in {Files, View}
    BY <1>1, <1>4, FilesMoved
  <2>2. View = Files
    <3>1. \A n \in Name : View[n] = Files[n]
      BY <1>3, ViewIs
    <3>2. QED BY <3>1 DEF View, Files, FilesOf
  <2>3. QED BY <2>1, <2>2
<1> DEFINE s == Chain(fat, sclust)
<1>6. /\ dir[cmd.name] # None /\ dir[cmd.name].clust = sclust /\ dir[cmd.name].size = objsize
      /\ \A k \in 1 .. Len(got) : got[k] = data[s[k]]
      /\ got # <<>> => clust = s[Len(got)]
  BY <1>1 DEF FInv, ReadSoFar
<1>7. /\ objsize \in 0 .. MaxLen /\ Len(got) \in Nat /\ MaxLen \in Nat
      /\ \A k \in 1 .. objsize : s[k] \in Cluster
  BY <1>2, <1>6, FatVolumeAssumption DEF FatVolumeAssumption, FInv, Laid, IInv, TypeOK
<1>8. NextToRead = s[Len(got) + 1] /\ NextToRead \in Cluster
  <2>1. s[1] = sclust /\ \A k \in 2 .. MaxLen : s[k - 1] \in Cluster => s[k] = fat[s[k - 1]]
    BY ChainSteps
  <2> HIDE DEF s
  <2>2. Len(got) + 1 \in 1 .. objsize
    BY <1>1, <1>7
  <2>3. CASE got = <<>>
    <3>1. Len(got) + 1 = 1
      BY <2>3
    <3>2. NextToRead = s[1]
      BY <2>1, <2>3 DEF NextToRead
    <3>3. QED BY <1>7, <2>2, <3>1, <3>2
  <2>4. CASE got # <<>>
    <3>1. Len(got) \in 1 .. objsize /\ Len(got) + 1 \in 2 .. MaxLen /\ (Len(got) + 1) - 1 = Len(got)
      BY <1>1, <1>2, <1>7, <2>4, EmptySeq
    <3>2. s[Len(got)] \in Cluster
      BY <1>7, <3>1
    <3>3. s[Len(got) + 1] = fat[clust]
      BY <1>6, <2>1, <2>4, <3>1, <3>2
    <3>4. QED BY <1>7, <2>2, <2>4, <3>3 DEF NextToRead
  <2>5. QED BY <2>3, <2>4
<1>9. got' = Append(got, data[NextToRead]) /\ clust' = NextToRead /\ pc' = "read"
  BY <1>1, <1>8 DEF ReadSector
<1>10. ReadSoFar'
  <2>1. data[NextToRead] \in Data
    BY <1>8 DEF IInv, TypeOK
  <2>2. /\ Len(got') = Len(got) + 1 /\ got'[Len(got) + 1] = data[NextToRead]
        /\ \A k \in 1 .. Len(got) : got'[k] = got[k]
    BY <1>2, <1>9, <2>1, AppendProperties
  <2>3. \A k \in 1 .. Len(got) + 1 : k = Len(got) + 1 \/ k \in 1 .. Len(got)
    BY <1>7
  <2>4. \A k \in 1 .. Len(got') : got'[k] = data[s[k]]
    BY <1>6, <1>8, <2>2, <2>3
  <2>5. Len(got') <= objsize /\ clust' = s[Len(got')]
    BY <1>1, <1>7, <1>8, <1>9, <2>2
  <2>6. Chain(fat', sclust') = s
    BY <1>1
  <2> HIDE DEF s
  <2>7. QED BY <1>1, <1>2, <1>6, <1>9, <2>4, <2>5, <2>6 DEF ReadSoFar
<1>11. Laid(fat', dir') /\ EntryAhead'
  BY <1>1, <1>3, <1>4 DEF FInv, EntryAhead
<1>12. FInv'
  BY <1>1, <1>2, <1>5, <1>9, <1>10, <1>11
     DEF FInv, Emptied, Built, Stored, Commanded, Filling
<1>13. QED BY <1>1, <1>2, <1>5, <1>12, Hidden

LEMMA ReadDoneFiles ==
    ASSUME IInv, FInv, ReadDone
    PROVE  FInv' /\ [Store!Next]_(Store!vars)
<1>1. /\ UNCHANGED <<fat, dir, fat_d, dir_d, data, got>> /\ pc \in {"read", "read_done"}
      /\ pc = "read" => Len(got) = objsize
      /\ Finish /\ cmd' = None
  BY DEF ReadDone, Finish, diskVars, winVars
<1>2. cmd \in Reads /\ cmd \notin Writes /\ cmd # None /\ cmd.name \in Name /\ cmd.op = "fatread"
  BY <1>1, NoneAssumption DEF NoneAssumption, FInv, ReadSoFar, Reads, Writes
<1>3. dir_d = dir
  BY <1>1, <1>2 DEF FInv, EntryAhead, IInv, TypeOK
<1>4. FInv'
  BY <1>1, <1>3, Ended
<1>5. got = Files[cmd.name]
  <2>1. Files[cmd.name] = View[cmd.name]
    BY <1>2, <1>3, ViewIs
  <2>2. CASE pc = "read_done"
    BY <1>2, <2>1, <2>2 DEF FInv, ReadSoFar, View, FilesOf
  <2>3. CASE pc = "read"
    <3>1. /\ dir[cmd.name] # None /\ dir[cmd.name].clust = sclust /\ dir[cmd.name].size = objsize
          /\ \A k \in 1 .. Len(got) : got[k] = data[Chain(fat, sclust)[k]]
          /\ got \in Seq(Data) /\ Len(got) = objsize
      BY <1>1, <2>3 DEF FInv, ReadSoFar, IInv, Progress
    <3>2. \A k \in 1 .. objsize : Chain(fat, sclust)[k] \in Cluster
      BY <1>2, <3>1 DEF FInv, Laid
    <3>3. View[cmd.name] = [k \in 1 .. objsize |-> data[Chain(fat, sclust)[k]]]
      BY <1>2, <3>1, <3>2 DEF View, FilesOf, Content
    <3>4. got = [k \in 1 .. objsize |-> got[k]]
      BY <3>1
    <3>5. got = View[cmd.name]
      BY <3>1, <3>3, <3>4
    <3>6. QED BY <2>1, <3>5
  <2>4. QED BY <1>1, <2>2, <2>3
<1>6. Store!Answer
  BY <1>1, <1>2, <1>5 DEF Store!Answer, Files
<1>7. QED BY <1>4, <1>6 DEF Store!Next

LEMMA FilesStep == IInv /\ FInv /\ [Next]_vars => FInv' /\ [Store!Next]_(Store!vars)
<1> SUFFICES ASSUME IInv, FInv, [Next]_vars PROVE FInv' /\ [Store!Next]_(Store!vars)
  OBVIOUS
<1> DEFINE Goal == FInv' /\ [Store!Next]_(Store!vars)
<1> SUFFICES Goal
  BY DEF Goal
<1> HIDE DEF Goal
<1>1. ASSUME NEW n \in Name, FatRead(n) PROVE Goal
  BY <1>1, FatReadFiles DEF Goal
<1>2. ASSUME NEW n \in Name, NEW d \in Text, FatWrite(n, d) PROVE Goal
  BY <1>2, FatWriteFiles DEF Goal
<1>3. CASE RemoveCluster
  BY <1>3, RemoveClusterFiles DEF Goal
<1>4. CASE Reopen
  BY <1>4, ReopenFiles DEF Goal
<1>5. CASE AllocCluster
  BY <1>5, AllocClusterFiles DEF Goal
<1>6. CASE DiskFull
  BY <1>6, DiskFullFiles DEF Goal
<1>7. CASE LinkCluster
  BY <1>7, LinkClusterFiles DEF Goal
<1>8. CASE PutSector \/ BufferSector
  BY <1>8, PutSectorFiles DEF Goal
<1>9. CASE WriteDone
  BY <1>9, WriteDoneFiles DEF Goal
<1>10. CASE SyncData
  BY <1>10, SyncDataFiles DEF Goal
<1>11. CASE SyncEntry
  BY <1>11, SyncEntryFiles DEF Goal
<1>12. CASE SyncWindow
  BY <1>12, SyncWindowFiles DEF Goal
<1>13. CASE SyncInfo
  BY <1>13, SyncInfoFiles DEF Goal
<1>14. CASE ReadSector
  BY <1>14, ReadSectorFiles DEF Goal
<1>15. CASE ReadDone
  BY <1>15, ReadDoneFiles DEF Goal
<1>16. CASE Pull
  BY <1>16, PullFiles DEF Goal
<1>17. CASE UNCHANGED vars
  <2>1. UNCHANGED <<fat_d, dir_d, fsinfo, data, winsect, wflag, fat, dir, free_clst, last_clst,
                    fsi_flag, sclust, clust, objsize, dirty, cl, clst, cmd, pc, got, pulled>>
    BY <1>17 DEF vars, diskVars, winVars, infoVars, filVars, localVars
  <2>2. FInv'
    BY <2>1 DEF FInv, SameChains, EntryAhead, Emptied, Built, Length, Stored, View, ReadSoFar, Commanded
  <2>3. UNCHANGED Store!vars
    BY <2>1 DEF Store!vars, Files
  <2>4. QED BY <2>2, <2>3 DEF Goal
<1>18. QED
  BY <1>1, <1>2, <1>3, <1>4, <1>5, <1>6, <1>7, <1>8, <1>9, <1>10, <1>11, <1>12,
     <1>13, <1>14, <1>15, <1>16, <1>17 DEF Next, Command, Shell

LEMMA FilesInvariance == Spec => []FInv
BY FilesInit, FilesStep, Invariance, PTL DEF Spec

\* fatwrite and fatread keep whole files: on the disk a file is emptied and
\* then, in one step, holds the new text, no other file is ever touched, and
\* fatread prints what the disk holds, wherever the power fails.
THEOREM FilesKept == Spec => ImplementsFileStore
<1>1. Init => Store!Init
  BY FilesInit
<1>2. Spec => [][Store!Next]_(Store!vars)
  BY FilesStep, FilesInvariance, Invariance, PTL DEF Spec
<1>3. QED BY <1>1, <1>2, PTL DEF Spec, ImplementsFileStore, Store!Spec

\* When f_close of fatwrite is through, what f_write counted as written is on
\* the disk, with its directory entry.
THEOREM ClosedAlwaysDurable == Spec => ClosedIsDurable
<1>1. ASSUME IInv, FInv, SyncInfo
      PROVE  Files[cmd.name] = SubSeq(cmd.data, 1, objsize)
  <2>1. fat = fat_d /\ dir = dir_d /\ pc = "sync_info"
    BY <1>1 DEF IInv, TypeOK, WindowOnly, Clean, SyncInfo
  <2>2. QED BY <1>1, <2>1 DEF FInv, Stored, View, Files
<1>2. IInv /\ FInv => [SyncInfo => Files[cmd.name] = SubSeq(cmd.data, 1, objsize)]_vars
  BY <1>1
<1>3. QED BY <1>2, Invariance, FilesInvariance, PTL DEF ClosedIsDurable
=============================================================================

----------------------------- MODULE QfsProofs ------------------------------
(***************************************************************************)
(* That the file system stays consistent whatever calls are made, in       *)
(* whatever order, by programs that mind what they do, for every size of   *)
(* disk and every number of open files.                                    *)
(***************************************************************************)
EXTENDS Qfs, QfsDiskProofs

(* An open file.                                                           *)
Held == [in_use : {TRUE}, mode : Modes, modified : BOOLEAN,
         dir_sector : Sectors, dir_slot : CellIndex,
         first_sector : Sectors \cup {NO_SECTOR}, current_sector : Sectors \cup {NO_SECTOR},
         file_size : Nat, position : Nat,
         buffer : Contents(Values), buffer_sector : Sectors \cup {NO_SECTOR}, buffer_dirty : BOOLEAN]

At(file) == <<file.dir_sector, file.dir_slot>>

(* How many sectors a number of bytes needs.                               *)
SectorsFor(size) == (size + Cells - 1) \div Cells

(* Where the cursor of an open file is in its chain: on the sector of the  *)
(* next byte, but after the last byte of a sector, if it is the file's     *)
(* last byte or the file is being written, still on that sector.           *)
CursorIndex(file) ==
    IF file.position = 0 THEN 1
    ELSE IF file.mode = MODE_READ /\ file.position < file.file_size
    THEN file.position \div Cells + 1
    ELSE (file.position - 1) \div Cells + 1

(* An open file's size is that of its chain and, while it is not modified, *)
(* that of its entry; its cursor is on the sector of its position. This is *)
(* only so when no handle that writes reads too (the habit "mix"):         *)
(* file_read moves the cursor after the last byte of a sector, file_write  *)
(* before the first of the next.                                           *)
Located(file, entry, q) ==
    Minds("mix") =>
        /\ file.position <= file.file_size
        /\ Len(q) = SectorsFor(file.file_size)
        /\ file.modified \/ file.file_size = entry.size
        /\ q = <<>> \/ file.current_sector = q[CursorIndex(file)]

(* The chain of a file that is not open has the sectors that its entry's   *)
(* size needs.                                                             *)
Covered(sec, L, W) ==
    Minds("mix") =>
        \A s \in Sectors, k \in CellIndex : IsFile(sec[s][k]) /\ <<s, k>> \notin W =>
            Len(L[<<s, k>>]) = SectorsFor(sec[s][k].size)

(* What holds of an open file between calls: it is the file at its entry,  *)
(* its cursor is in the file's chain, where its position is, its buffer is *)
(* data of the file, and while it is not modified the entry knows its      *)
(* first sector and its size.                                              *)
HandleOk(file, sec, L) ==
    /\ file \in Held
    /\ IsFile(sec[file.dir_sector][file.dir_slot])
    /\ file.first_sector = FirstOf(L, At(file))
    /\ file.current_sector \in On(L, At(file)) \/ (L[At(file)] = <<>> /\ file.current_sector = NO_SECTOR)
    /\ file.buffer_sector = NO_SECTOR \/ file.buffer_sector \in On(L, At(file))
    /\ \A k \in CellIndex : ~IsEntry(file.buffer[k])
    /\ L[At(file)] = <<>> => file.position = 0 /\ ~file.modified
    /\ ~file.modified => sec[file.dir_sector][file.dir_slot].first_sector = file.first_sector
    /\ file.mode = MODE_READ => ~file.modified /\ ~file.buffer_dirty
    /\ Located(file, sec[file.dir_sector][file.dir_slot], L[At(file)])

(* The slots in use, and the entries that are open.                        *)
IsOpen(of, h) == h \in Slots /\ of[h].in_use

Opened(of) == {At(of[h]) : h \in {g \in Slots : IsOpen(of, g)}}

(* A file that is open for writing is open once (the habit "share" is not  *)
(* among those allowed here).                                              *)
Alone(of) == \A g, h \in Slots :
    IsOpen(of, g) /\ IsOpen(of, h) /\ g # h /\ At(of[g]) = At(of[h]) => of[g].mode = MODE_READ

(* The entry of a file without sectors has size 0.                         *)
EmptySized(sec) == \A s \in Sectors, k \in CellIndex :
    IsFile(sec[s][k]) /\ sec[s][k].first_sector = NO_SECTOR => sec[s][k].size = 0

(* The inductive invariant, for a layout L of chains: the disk is as it    *)
(* should be but for the entries of open files, and the handles agree with *)
(* it.                                                                     *)
Sane(io, of, L) ==
    /\ Fine(Values, io, L, Opened(of)) /\ L[TakenAt] = <<>>
    /\ of \in [Slots -> {Closed} \cup Held]
    /\ \A h \in Slots : IsOpen(of, h) => HandleOk(of[h], io.disk.sector, L)
    /\ Alone(of)
    /\ EmptySized(io.disk.sector) /\ Covered(io.disk.sector, L, Opened(of))

(* No handle says that names may repeat.                                   *)
LEMMA NamesDoNotRepeat ==
  ASSUME NEW of \in [Slots -> {Closed} \cup Held]
  PROVE  Repeats \notin Opened(of)
<1>1. ASSUME NEW h \in Slots, IsOpen(of, h) PROVE of[h].dir_sector \in Sectors
  <2>1. of[h] # Closed
    BY <1>1 DEF IsOpen, Closed
  <2>2. of[h] \in Held
    BY <2>1
  <2> QED
    BY <2>2 DEF Held
<1>2. NO_SECTOR \notin Sectors
  BY SectorsAre DEF EndsChain
<1>3. \A s \in Sectors : \A k : <<s, k>> # Repeats
  BY <1>2 DEF Repeats
<1> QED
  BY <1>1, <1>3 DEF Opened, At

(* The disk between calls.                                                 *)
LEMMA NowIs ==
  /\ Now.disk = disk /\ Now.free_sectors = free_sectors
BY DEF Now, Start

(* What the invariant ChainsDisjoint calls an owner is a place with a      *)
(* chain.                                                                  *)
Owns(o, L, p) ==
    /\ p \in Places /\ p = <<o.sector, o.slot>> /\ o = Owner(o.sector, o.slot, o.first)
    /\ L[p] # <<>> /\ o.first = FirstOf(L, p)

(* The entries that the invariants quantify over are those of the disk.    *)
LEMMA AllEntriesAre ==
  ASSUME NEW L, Sane(Now, open_files, L)
  PROVE  /\ \A place \in AllEntries : \E s \in Sectors, k \in CellIndex :
              place = Cell(Now, s, k) /\ IsEntry(disk.sector[s][k])
         /\ \A s \in Sectors, k \in CellIndex : IsEntry(disk.sector[s][k]) => Cell(Now, s, k) \in AllEntries
<1>1. Fine(Values, Now, L, Opened(open_files))
  BY DEF Sane
<1>2. Directories = Heads(Now, L)
  BY <1>1, TreeIs DEF Directories
<1>3. AllEntries = UNION {Entries(Now, FirstOf(L, d)) : d \in Dirs(disk.sector)}
  BY <1>2, NowIs DEF AllEntries, Heads
<1>4. ASSUME NEW place \in AllEntries
      PROVE  \E s \in Sectors, k \in CellIndex : place = Cell(Now, s, k) /\ IsEntry(disk.sector[s][k])
  <2>1. PICK d \in Dirs(disk.sector) : place \in Entries(Now, FirstOf(L, d))
    BY <1>3
  <2>2. PICK s \in On(L, d), k \in CellIndex :
           s \in Sectors /\ place = Cell(Now, s, k) /\ IsEntry(Now.disk.sector[s][k])
    BY <1>1, <2>1, NowIs, EntriesAre
  <2> QED
    BY <2>2, NowIs
<1>5. ASSUME NEW s \in Sectors, NEW k \in CellIndex, IsEntry(disk.sector[s][k])
      PROVE  Cell(Now, s, k) \in AllEntries
  <2>1. PICK d \in Dirs(disk.sector) : s \in On(L, d)
    BY <1>1, <1>5, NowIs DEF Fine, Tidy
  <2>2. Cell(Now, s, k) \in Entries(Now, FirstOf(L, d))
    BY <1>1, <1>5, <2>1, NowIs, EntriesAre
  <2> QED
    BY <1>3, <2>1, <2>2
<1> QED
  BY <1>4, <1>5

(* The parts of an open file.                                              *)
LEMMA HandlesAre ==
  ASSUME NEW io, NEW of, NEW L, Sane(io, of, L), NEW h \in Slots, of[h].in_use
  PROVE  /\ of[h] \in Held /\ HandleOk(of[h], io.disk.sector, L)
         /\ of[h].dir_sector \in Sectors /\ of[h].dir_slot \in CellIndex
         /\ At(of[h]) \in Places /\ At(of[h]) \in Opened(of)
<1>1. HandleOk(of[h], io.disk.sector, L)
  BY SMTT(60) DEF Sane, IsOpen
<1>2. of[h] \in Held /\ of[h].dir_sector \in Sectors /\ of[h].dir_slot \in CellIndex
  BY ZenonT(60), <1>1 DEF HandleOk, Held
<1> QED
  BY <1>1, <1>2, PlacesAre DEF At, Opened, CellIndex, IsOpen

(* Each owner has the chain of its place.                                  *)
LEMMA OwnersOwn ==
  ASSUME NEW L, Sane(Now, open_files, L), NEW o \in Owners
  PROVE  \E p : Owns(o, L, p)
<1>0. o.first # NO_SECTOR
  BY DEF Owners
<1>1. Fine(Values, Now, L, Opened(open_files))
  BY DEF Sane
<1>2. CASE o = Owner(NO_SECTOR, 0, root_start)
  <2>1. o.sector = NO_SECTOR /\ o.slot = 0 /\ o.first = root_start
    BY <1>2 DEF Owner
  <2>2. FirstOf(L, RootAt) = root_start /\ L[RootAt] # <<>> /\ RootAt \in Places
    BY <1>1, PlacesAre DEF Fine, Laid, FirstOf
  <2>3. Owns(o, L, RootAt)
    BY <1>2, <2>1, <2>2 DEF Owns, RootAt
  <2> QED
    BY <2>3
<1>3. ASSUME NEW place \in AllEntries, o = Owner(place.sector, place.slot, place.entry.first_sector)
      PROVE  \E p : Owns(o, L, p)
  <2>1. PICK s \in Sectors, k \in CellIndex : place = Cell(Now, s, k) /\ IsEntry(disk.sector[s][k])
    BY AllEntriesAre
  <2>2. place.sector = s /\ place.slot = k /\ place.entry = disk.sector[s][k]
    BY <2>1, NowIs DEF Cell, Place
  <2>3. o.sector = s /\ o.slot = k /\ o.first = disk.sector[s][k].first_sector
    BY <1>3, <2>2 DEF Owner
  <2>4. disk.sector[s][k].first_sector \in {NO_SECTOR, FirstOf(L, <<s, k>>)}
    BY <1>1, <2>1, NowIs DEF Fine, Tidy
  <2>5. o.first = FirstOf(L, <<s, k>>) /\ L[<<s, k>>] # <<>>
    BY <1>0, <2>3, <2>4 DEF FirstOf
  <2>6. <<s, k>> \in Places
    BY PlacesAre DEF CellIndex
  <2>7. Owns(o, L, <<s, k>>)
    BY <1>3, <2>2, <2>3, <2>5, <2>6 DEF Owns
  <2> QED
    BY <2>7
<1>4. ASSUME NEW h \in Open, o = Owner(open_files[h].dir_sector, open_files[h].dir_slot, open_files[h].first_sector)
      PROVE  \E p : Owns(o, L, p)
  <2>1. h \in Slots /\ open_files[h].in_use
    BY DEF Open
  <2>2. HandleOk(open_files[h], Now.disk.sector, L) /\ At(open_files[h]) \in Places
    BY SMTT(60), <2>1, HandlesAre
  <2>3. open_files[h].first_sector = FirstOf(L, At(open_files[h]))
    BY ZenonT(60), <2>2 DEF HandleOk
  <2>4. o.sector = open_files[h].dir_sector /\ o.slot = open_files[h].dir_slot /\ o.first = open_files[h].first_sector
    BY <1>4 DEF Owner
  <2>5. Owns(o, L, At(open_files[h]))
    BY <1>0, <1>4, <2>2, <2>3, <2>4 DEF Owns, At, FirstOf
  <2> QED
    BY <2>5
<1> QED
  BY <1>2, <1>3, <1>4 DEF Owners

(* No two owners share a sector, because no two places do.                 *)
LEMMA SaneDisjoint ==
  ASSUME NEW L, Sane(Now, open_files, L)
  PROVE  ChainsDisjoint
<1>1. Laid(Now.disk.fat, L) /\ L \in [Places -> Seq(Sectors)]
  BY DEF Sane, Fine, Laid
<1>2. ASSUME NEW o \in Owners, NEW p, Owns(o, L, p)
      PROVE  Chain(Now, o.first) = L[p] /\ SectorsOf(o) = On(L, p)
  <2>1. Chain(Now, o.first) = L[p]
    BY <1>1, <1>2, LaidIsChain DEF Owns
  <2>2. DOMAIN L[p] = 1 .. Len(L[p])
    BY <1>1, <1>2 DEF Owns
  <2> QED
    BY <2>1, <2>2 DEF SectorsOf, ToSet, On, Items
<1>3. ASSUME NEW a \in Owners, NEW b \in Owners, a # b
      PROVE  SectorsOf(a) \cap SectorsOf(b) = {}
  <2>1. PICK p : Owns(a, L, p)
    BY OwnersOwn
  <2>2. PICK q : Owns(b, L, q)
    BY OwnersOwn
  <2>3. p # q
    <3>1. CASE p = q
      <4>1. a.sector = b.sector /\ a.slot = b.slot /\ a.first = b.first
        BY <2>1, <2>2, <3>1 DEF Owns
      <4> QED
        BY <1>3, <2>1, <2>2, <4>1 DEF Owns
    <3> QED
      BY <3>1
  <2>4. On(L, p) \cap On(L, q) = {}
    BY <1>1, <2>1, <2>2, <2>3, OnDisjoint DEF Owns
  <2> QED
    BY <1>2, <2>1, <2>2, <2>4
<1>4. ASSUME NEW a \in Owners
      PROVE  /\ \A s \in SectorsOf(a) \ {root_start} : fat_read(Now, s) # FAT_FREE
             /\ Len(Chain(Now, a.first)) = Cardinality(SectorsOf(a))
  <2>1. PICK p : Owns(a, L, p)
    BY OwnersOwn
  <2>2. p \in Places /\ Chain(Now, a.first) = L[p] /\ SectorsOf(a) = On(L, p)
    BY <1>2, <2>1 DEF Owns
  <2>3. ASSUME NEW s \in On(L, p), s # root_start
        PROVE  fat_read(Now, s) # FAT_FREE
    <3>1. PICK i \in 1 .. Len(L[p]) : s = L[p][i]
      BY DEF On, Items
    <3> QED
      BY <1>1, <2>2, <2>3, <3>1, InUse DEF fat_read
  <2>4. Len(L[p]) = Cardinality(On(L, p))
    <3> DEFINE N == Len(L[p])
               f == [i \in 1 .. N |-> L[p][i]]
    <3>1. N \in Nat /\ On(L, p) = {L[p][i] : i \in 1 .. N}
      BY <1>1, <2>2 DEF On, Items
    <3>2. \A i, j \in 1 .. N : L[p][i] = L[p][j] => i = j
      BY <1>1, <2>2 DEF Laid
    <3> HIDE DEF N
    <3>3. f \in Bijection(1 .. N, On(L, p))
      BY <3>1, <3>2 DEF Bijection, Injection, Surjection, IsInjective
    <3> HIDE DEF f
    <3>4. ExistsBijection(1 .. N, On(L, p))
      BY <3>3 DEF ExistsBijection
    <3>5. IsFiniteSet(1 .. N) /\ Cardinality(1 .. N) = N
      BY <3>1, FS_Interval
    <3>6. Cardinality(On(L, p)) = N
      BY <3>4, <3>5, FS_Bijection
    <3> QED
      BY <3>6 DEF N
  <2> QED
    BY <2>2, <2>3, <2>4
<1> QED
  BY <1>3, <1>4 DEF ChainsDisjoint

(* The counts are part of the invariant.                                   *)
LEMMA SaneCounted ==
  ASSUME NEW L, Sane(Now, open_files, L)
  PROVE  FreeIsCounted
<1>1. Counted(Now)
  BY DEF Sane, Fine
<1>2. FreeSectors = FreeIn(disk.fat)
  BY NowIs, SectorsAre DEF FreeSectors, FreeIn, fat_read
<1> QED
  BY <1>1, <1>2, NowIs DEF FreeIsCounted, Counted

(* Names differ in each directory of the tree, as in each of the disk.     *)
LEMMA SaneNames ==
  ASSUME NEW L, Sane(Now, open_files, L)
  PROVE  NamesUnique
<1>1. Fine(Values, Now, L, Opened(open_files))
  BY DEF Sane
<1> SUFFICES ASSUME NEW first \in Directories, NEW p \in Entries(Now, first), NEW q \in Entries(Now, first),
                    p.entry.name = q.entry.name
             PROVE  p = q
  BY DEF NamesUnique
<1>2. PICK d \in Dirs(Now.disk.sector) : first = FirstOf(L, d)
  <2>1. Directories = Heads(Now, L)
    BY <1>1, TreeIs DEF Directories
  <2> QED
    BY <2>1 DEF Heads
<1>3. \A place \in Entries(Now, FirstOf(L, d)) : \E s \in On(L, d), k \in CellIndex :
         s \in Sectors /\ place = Cell(Now, s, k) /\ IsEntry(Now.disk.sector[s][k])
  BY <1>1, EntriesAre
<1>4. PICK s \in On(L, d), k \in CellIndex : p = Cell(Now, s, k) /\ IsEntry(Now.disk.sector[s][k])
  BY <1>2, <1>3
<1>5. PICK t \in On(L, d), j \in CellIndex : q = Cell(Now, t, j) /\ IsEntry(Now.disk.sector[t][j])
  BY <1>2, <1>3
<1>6. p.entry = Now.disk.sector[s][k] /\ q.entry = Now.disk.sector[t][j]
  BY SMTT(60), <1>4, <1>5 DEF Cell, Place
<1>65. Repeats \notin Opened(open_files)
  BY NamesDoNotRepeat DEF Sane
<1>7. s = t /\ k = j
  BY <1>1, <1>4, <1>5, <1>6, <1>65 DEF Fine, Tidy
<1> QED
  BY <1>4, <1>5, <1>7

(* A sector that is taken is in the chain of a place, which an entry or an *)
(* open file leads to.                                                     *)
LEMMA SaneNothingLost ==
  ASSUME NEW L, Sane(Now, open_files, L)
  PROVE  NoSectorLost
<1>1. Fine(Values, Now, L, Opened(open_files)) /\ Laid(Now.disk.fat, L) /\ L \in [Places -> Seq(Sectors)]
  BY DEF Sane, Fine, Laid
<1> SUFFICES ASSUME NEW x \in DataSectors, x \notin FreeSectors
             PROVE  \E o \in Owners : x \in SectorsOf(o)
  BY DEF NoSectorLost
<1>2. Now.disk.fat[x] # FAT_FREE
  BY SectorsAre DEF FreeSectors, fat_read
<1>3. PICK p \in Places : \E i \in 1 .. Len(L[p]) : L[p][i] = x
  BY <1>1, <1>2 DEF Laid
<1>4. PICK i \in 1 .. Len(L[p]) : L[p][i] = x
  BY <1>3
<1>5. L[p] \in Seq(Sectors) /\ L[p] # <<>> /\ FirstOf(L, p) = L[p][1] /\ 1 \in 1 .. Len(L[p])
  BY <1>1, <1>4 DEF FirstOf
<1>6. FirstOf(L, p) # NO_SECTOR
  <2>1. L[p][1] \in Sectors
    BY <1>5
  <2>2. ~EndsChain(L[p][1])
    BY <2>1, SectorsAre
  <2> QED
    BY <1>5, <2>2 DEF EndsChain
<1>7. ASSUME NEW o \in Owners, o.first = FirstOf(L, p)
      PROVE  x \in SectorsOf(o)
  <2>1. Chain(Now, o.first) = L[p]
    BY <1>1, <1>7, LaidIsChain
  <2> QED
    BY <1>4, <1>5, <2>1 DEF SectorsOf, ToSet
<1>8. CASE p = RootAt
  <2> DEFINE o == Owner(NO_SECTOR, 0, root_start)
  <2>1. o.first = root_start /\ FirstOf(L, p) = root_start
    BY <1>1, <1>5, <1>8 DEF Owner, Laid
  <2>2. o \in Owners
    BY <1>6, <2>1 DEF Owners
  <2> QED
    BY <1>7, <2>1, <2>2
<1>9. CASE p # RootAt
  <2>1. p # TakenAt
    BY <1>5 DEF Sane
  <2>2. PICK s \in Sectors, k \in CellIndex : p = <<s, k>>
    BY <1>9, <2>1, PlacesAre DEF CellIndex
  <2>3. IsEntry(disk.sector[s][k])
    BY <1>1, <1>5, <2>2, NowIs DEF Fine, Tidy
  <2>4. CASE disk.sector[s][k].first_sector = FirstOf(L, p)
    <3> DEFINE place == Cell(Now, s, k)
               o == Owner(place.sector, place.slot, place.entry.first_sector)
    <3>1. place \in AllEntries
      BY <2>3, AllEntriesAre
    <3>2. place.entry = disk.sector[s][k]
      BY NowIs DEF Cell, Place
    <3> HIDE DEF place
    <3>3. o.first = FirstOf(L, p)
      BY <2>4, <3>2 DEF Owner
    <3>4. o \in Owners
      BY <1>6, <3>1, <3>3 DEF Owners
    <3> HIDE DEF o
    <3> QED
      BY <1>7, <3>3, <3>4
  <2>5. CASE p \in Opened(open_files)
    <3>1. PICK h \in Slots : open_files[h].in_use /\ At(open_files[h]) = p
      BY <2>5 DEF Opened, IsOpen
    <3>2. HandleOk(open_files[h], Now.disk.sector, L)
      BY SMTT(60), <3>1, HandlesAre
    <3> DEFINE o == Owner(open_files[h].dir_sector, open_files[h].dir_slot, open_files[h].first_sector)
    <3>3. o.first = FirstOf(L, p)
      BY ZenonT(60), <3>1, <3>2 DEF Owner, HandleOk
    <3>4. o \in Owners
      BY <1>6, <3>1, <3>3 DEF Owners, Open
    <3> HIDE DEF o
    <3> QED
      BY <1>7, <3>3, <3>4
  <2>6. disk.sector[s][k].first_sector = FirstOf(L, <<s, k>>) \/ <<s, k>> \in Opened(open_files)
    BY <1>1, <2>3, NowIs DEF Fine, Tidy
  <2> QED
    BY <2>2, <2>4, <2>5, <2>6
<1> QED
  BY <1>8, <1>9

(* The number of sectors for a number of bytes.                            *)
LEMMA SectorsForIs ==
  /\ SectorsFor(0) = 0
  /\ \A n \in Nat : n > 0 => SectorsFor(n) = (n - 1) \div Cells + 1 /\ (n - 1) \div Cells \in Nat
<1>1. Cells \in Nat \ {0}
  BY DiskAssumption
<1>2. SectorsFor(0) = 0
  <2>1. (1 - 1) * Cells + (Cells - 1) \in 0 .. 1 * Cells - 1 /\ ((1 - 1) * Cells + (Cells - 1)) \div Cells = 1 - 1
    <3>1. Cells - 1 \in 0 .. Cells - 1 /\ 1 \in 1 .. 1
      BY <1>1
    <3> QED
      BY <1>1, <3>1, Position
  <2>2. (1 - 1) * Cells + (Cells - 1) = 0 + Cells - 1
    BY <1>1
  <2> QED
    BY <2>1, <2>2 DEF SectorsFor
<1>3. ASSUME NEW n \in Nat, n > 0
      PROVE  SectorsFor(n) = (n - 1) \div Cells + 1 /\ (n - 1) \div Cells \in Nat
  <2> DEFINE a == (n - 1) \div Cells
             b == (n - 1) % Cells
  <2>1. n - 1 \in Nat
    BY <1>3
  <2>2. a \in Nat /\ b \in 0 .. Cells - 1 /\ n - 1 = Cells * a + b
    BY <1>1, <2>1, Division
  <2> HIDE DEF a, b
  <2>3. (a + 2 - 1) * Cells + b = n + Cells - 1
    BY <1>1, <1>3, <2>2
  <2>4. ((a + 2 - 1) * Cells + b) \div Cells = a + 2 - 1
    <3>1. a + 2 \in 1 .. a + 2 /\ a + 2 \in Nat
      BY <2>2
    <3> QED
      BY <1>1, <2>2, <3>1, Position
  <2> QED
    BY <2>2, <2>3, <2>4 DEF SectorsFor, a
<1> QED
  BY <1>2, <1>3

(* Where the next byte is, and the last.                                   *)
LEMMA NextByteIs ==
  ASSUME NEW p \in Nat, p > 0
  PROVE  /\ p \div Cells \in Nat
         /\ p % Cells = 0 => p \div Cells = (p - 1) \div Cells + 1
         /\ p % Cells # 0 => p \div Cells = (p - 1) \div Cells
<1>1. Cells \in Nat \ {0}
  BY DiskAssumption
<1> DEFINE a == p \div Cells
           b == p % Cells
<1>2. a \in Nat /\ b \in 0 .. Cells - 1 /\ p = Cells * a + b
  BY <1>1, Division
<1> HIDE DEF a, b
<1>3. ASSUME b # 0 PROVE (p - 1) \div Cells = a
  <2>2. b - 1 \in 0 .. Cells - 1
    BY <1>1, <1>2, <1>3
  <2>3. PICK i \in Nat : i = a + 1 /\ i \in 1 .. i
    BY <1>2
  <2>4. PICK k \in 0 .. Cells - 1 : k = b - 1
    BY <2>2
  <2>5. ((i - 1) * Cells + k) \div Cells = i - 1
    BY <1>1, <2>3, Position
  <2>6. (i - 1) * Cells + k = p - 1
    BY <1>1, <1>2, <2>3, <2>4
  <2> QED
    BY <1>2, <2>3, <2>5, <2>6
<1>4. ASSUME b = 0 PROVE (p - 1) \div Cells = a - 1 /\ a > 0
  <2>0. a > 0
    BY <1>1, <1>2, <1>4
  <2>1. (a - 1) * Cells + (Cells - 1) = p - 1
    BY <1>1, <1>2, <1>4
  <2>2. Cells - 1 \in 0 .. Cells - 1 /\ a \in 1 .. a
    BY <1>1, <1>2, <2>0
  <2>3. ((a - 1) * Cells + (Cells - 1)) \div Cells = a - 1
    BY <1>1, <1>2, <2>2, Position
  <2> QED
    BY <2>0, <2>1, <2>3
<1> QED
  BY <1>2, <1>3, <1>4 DEF a, b

(* More bytes need no fewer sectors.                                       *)
LEMMA SectorsGrow ==
  ASSUME NEW m \in Nat, NEW n \in Nat, m <= n
  PROVE  m \div Cells <= n \div Cells
<1>1. Cells \in Nat \ {0}
  BY DiskAssumption
<1> DEFINE a == m \div Cells
           b == m % Cells
           c == n \div Cells
           e == n % Cells
<1>2. /\ a \in Nat /\ b \in 0 .. Cells - 1 /\ m = Cells * a + b
      /\ c \in Nat /\ e \in 0 .. Cells - 1 /\ n = Cells * c + e
  BY <1>1, Division
<1> HIDE DEF a, b, c, e
<1>3. ASSUME a > c PROVE FALSE
  <2>1. PICK r \in Nat : a = c + 1 + r
    <3>1. a - c - 1 \in Nat /\ a = c + 1 + (a - c - 1)
      BY <1>2, <1>3
    <3> QED
      BY <3>1
  <2>2. Cells * a = Cells * c + Cells + Cells * r /\ Cells * r >= 0 /\ Cells * c \in Nat
    BY <1>1, <1>2, <2>1
  <2> QED
    BY <1>1, <1>2, <2>2
<1>4. a <= c
  BY <1>2, <1>3
<1> QED
  BY <1>4 DEF a, c

(* Each call starts from the disk as it is, with no writes under way.      *)
LEMMA SaneStart ==
  ASSUME NEW io, NEW of, NEW L, Sane(io, of, L)
  PROVE  Sane(Start(io.disk, io.free_sectors), of, L)
<1> DEFINE to == Start(io.disk, io.free_sectors)
<1>1. to.disk = io.disk /\ to.free_sectors = io.free_sectors
  BY DEF Start
<1>2. to \in IOs(Contents(Values))
  <2>1. io \in IOs(Contents(Values))
    BY DEF Sane, Fine
  <2> QED
    BY <2>1 DEF Start, IOs
<1> HIDE DEF to
<1>3. Fine(Values, to, L, Opened(of))
  BY <1>1, <1>2 DEF Sane, Fine, Counted
<1> QED
  BY <1>1, <1>3 DEF Sane, to

(* A call that keeps every file keeps the handles.                         *)
LEMMA KeptSane ==
  ASSUME NEW io, NEW of, NEW L, Sane(io, of, L), NEW to, NEW M, Kept(Values, Opened(of), io, L, to, M)
  PROVE  Sane(to, of, M)
<1> DEFINE sec == io.disk.sector
           new == to.disk.sector
<1>1. Fine(Values, to, M, Opened(of)) /\ M[TakenAt] = <<>> /\ FilesKept(sec, L, new, M)
  BY DEF Kept
<1> HIDE DEF sec, new
<1>2. ASSUME NEW h \in Slots, IsOpen(of, h)
      PROVE  HandleOk(of[h], new, M)
  <2> DEFINE file == of[h]
  <2>1. HandleOk(file, sec, L) /\ file.dir_sector \in Sectors /\ file.dir_slot \in CellIndex
    BY <1>2, HandlesAre DEF sec, IsOpen
  <2> HIDE DEF file
  <2>2. new[file.dir_sector][file.dir_slot] = sec[file.dir_sector][file.dir_slot]
    BY <1>1, <2>1 DEF FilesKept, HandleOk
  <2>3. M[At(file)] = L[At(file)]
    BY <1>1, <2>1 DEF FilesKept, HandleOk, At
  <2>4. On(M, At(file)) = On(L, At(file)) /\ FirstOf(M, At(file)) = FirstOf(L, At(file))
    BY <2>3 DEF On, FirstOf
  <2> QED
    BY <2>1, <2>2, <2>3, <2>4 DEF HandleOk, file
<1>3. EmptySized(new)
  <2>1. EmptySized(sec)
    BY DEF Sane, sec
  <2>2. ASSUME NEW s \in Sectors, NEW k \in CellIndex, IsFile(new[s][k]), new[s][k].first_sector = NO_SECTOR
        PROVE  new[s][k].size = 0
    <3>1. CASE IsFile(sec[s][k])
      <4>1. new[s][k] = sec[s][k]
        BY <1>1, <3>1 DEF FilesKept
      <4> QED
        BY <2>1, <2>2, <3>1, <4>1 DEF EmptySized
    <3>2. CASE ~IsFile(sec[s][k])
      BY <1>1, <2>2, <3>2 DEF FilesKept
    <3> QED
      BY <3>1, <3>2
  <2> QED
    BY <2>2 DEF EmptySized
<1>4. Covered(new, M, Opened(of))
  <2>1. Covered(sec, L, Opened(of))
    BY DEF Sane, sec
  <2>2. ASSUME Minds("mix"), NEW s \in Sectors, NEW k \in CellIndex, IsFile(new[s][k]), <<s, k>> \notin Opened(of)
        PROVE  Len(M[<<s, k>>]) = SectorsFor(new[s][k].size)
    <3>1. CASE IsFile(sec[s][k])
      <4>1. new[s][k] = sec[s][k] /\ M[<<s, k>>] = L[<<s, k>>]
        BY <1>1, <3>1 DEF FilesKept
      <4> QED
        BY <2>1, <2>2, <3>1, <4>1 DEF Covered
    <3>2. CASE ~IsFile(sec[s][k])
      <4>1. new[s][k].size = 0 /\ M[<<s, k>>] = <<>>
        BY <1>1, <2>2, <3>2 DEF FilesKept
      <4> QED
        BY <4>1, SectorsForIs
    <3> QED
      BY <3>1, <3>2
  <2> QED
    BY <2>2 DEF Covered
<1> QED
  BY <1>1, <1>2, <1>3, <1>4 DEF Sane, sec, new

(* An entry that may be deleted: one that is not open, of a file or of an  *)
(* empty directory.                                                        *)
Removed(L, p) == [L EXCEPT ![p] = <<>>]

MayDelete(io, L, W, s, k) ==
    /\ IsEntry(io.disk.sector[s][k]) /\ <<s, k>> \notin W
    /\ io.disk.sector[s][k].dir =>
            \A t \in On(L, <<s, k>>), j \in CellIndex : ~IsEntry(io.disk.sector[t][j])

(* FineRemoved, in these words.                                            *)
LEMMA DirentRemoved ==
  ASSUME NEW V, NEW io, NEW L, NEW W, Fine(V, io, L, W),
         NEW s \in Sectors, NEW k \in CellIndex, MayDelete(io, L, W, s, k)
  PROVE  /\ dir_delete_at(io, s, k).io.disk.sector = Put(io.disk.sector, s, k, Zero)
         /\ Fine(V, dir_delete_at(io, s, k).io, Removed(L, <<s, k>>), W)
BY FineRemoved DEF Put, Removed, MayDelete

(* So does the removal of an entry that no handle is at.                   *)
LEMMA RemovedSane ==
  ASSUME NEW io, NEW of, NEW L, Sane(io, of, L), NEW s \in Sectors, NEW k \in CellIndex,
         IsEntry(io.disk.sector[s][k]), <<s, k>> \notin Opened(of),
         IsDirectory(io.disk.sector[s][k]) => Entries(io, io.disk.sector[s][k].first_sector) = {}
  PROVE  Sane(dir_delete_at(io, s, k).io, of, Removed(L, <<s, k>>))
<1> DEFINE sec == io.disk.sector
           W == Opened(of)
           to == dir_delete_at(io, s, k).io
           new == to.disk.sector
           p == <<s, k>>
           M == Removed(L, p)
<1>1. Fine(Values, io, L, W) /\ L \in [Places -> Seq(Sectors)] /\ sec \in [Sectors -> Contents(Values)]
  BY IOsAre DEF Sane, Fine, Laid
<1>2. sec[s][k].dir => \A t \in On(L, <<s, k>>), j \in CellIndex : ~IsEntry(sec[t][j])
  <2> SUFFICES ASSUME sec[s][k].dir, NEW t \in On(L, <<s, k>>), NEW j \in CellIndex, IsEntry(sec[t][j])
               PROVE  FALSE
    OBVIOUS
  <2>1. IsDirectory(sec[s][k])
    BY DEF IsDirectory
  <2>2. <<s, k>> \in Dirs(sec)
    BY <2>1, DirsAre
  <2>3. sec[s][k].first_sector = FirstOf(L, <<s, k>>)
    BY <1>1 DEF Fine, Tidy
  <2>4. Cell(io, t, j) \in Entries(io, sec[s][k].first_sector)
    BY <1>1, <2>2, <2>3, EntriesAre
  <2> QED
    BY <2>1, <2>4
<1>3. Fine(Values, to, M, W) /\ new = Put(sec, s, k, Zero)
  <2>1. MayDelete(io, L, W, s, k)
    BY <1>2 DEF MayDelete
  <2>2. Fine(Values, io, L, Opened(of))
    BY <1>1
  <2> QED
    BY <2>1, <2>2, DirentRemoved
<1> HIDE DEF to
<1>4. /\ p \in Places /\ p # TakenAt /\ TakenAt \in Places
  BY PlacesAre DEF CellIndex
<1>5. \A q \in Places : q # p => M[q] = L[q]
  BY <1>1, <1>4 DEF Removed
<1>6. new[s][k] = Zero /\ \A t \in Sectors, j \in CellIndex : <<t, j>> # p => new[t][j] = sec[t][j]
  BY <1>1, <1>3 DEF Contents, Put
<1> HIDE DEF M, new, sec
<1>7. M[TakenAt] = <<>>
  BY <1>4, <1>5 DEF Sane
<1>8. ASSUME NEW h \in Slots, IsOpen(of, h)
      PROVE  HandleOk(of[h], new, M)
  <2> DEFINE file == of[h]
  <2>1. /\ HandleOk(file, sec, L) /\ file.dir_sector \in Sectors /\ file.dir_slot \in CellIndex
        /\ At(file) \in Places /\ At(file) \in Opened(of)
    BY <1>8, HandlesAre DEF sec, IsOpen
  <2> HIDE DEF file
  <2>2. At(file) # p
    BY <2>1
  <2>3. new[file.dir_sector][file.dir_slot] = sec[file.dir_sector][file.dir_slot]
    BY <1>6, <2>1, <2>2 DEF At
  <2>4. M[At(file)] = L[At(file)]
    BY <1>5, <2>1, <2>2
  <2>5. On(M, At(file)) = On(L, At(file)) /\ FirstOf(M, At(file)) = FirstOf(L, At(file))
    BY <2>4 DEF On, FirstOf
  <2> QED
    BY <2>1, <2>3, <2>4, <2>5 DEF HandleOk, file
<1>9. EmptySized(new)
  <2>1. EmptySized(sec)
    BY DEF Sane, sec
  <2>2. ~IsFile(new[s][k])
    BY <1>6 DEF IsFile, IsEntry, Zero
  <2> HIDE DEF p
  <2>3. ASSUME NEW t \in Sectors, NEW j \in CellIndex, IsFile(new[t][j]), new[t][j].first_sector = NO_SECTOR
        PROVE  new[t][j].size = 0
    <3>1. <<t, j>> # p
      BY <2>2, <2>3 DEF p
    <3> QED
      BY <1>6, <2>1, <2>3, <3>1 DEF EmptySized
  <2> QED
    BY <2>3 DEF EmptySized
<1>10. Covered(new, M, Opened(of))
  <2>1. Covered(sec, L, Opened(of))
    BY DEF Sane, sec
  <2>2. ~IsFile(new[s][k])
    BY <1>6 DEF IsFile, IsEntry, Zero
  <2> HIDE DEF p
  <2>3. ASSUME Minds("mix"), NEW t \in Sectors, NEW j \in CellIndex, IsFile(new[t][j]), <<t, j>> \notin Opened(of)
        PROVE  Len(M[<<t, j>>]) = SectorsFor(new[t][j].size)
    <3>1. <<t, j>> # p /\ <<t, j>> \in Places
      BY <2>2, <2>3, PlacesAre DEF p, CellIndex
    <3>2. new[t][j] = sec[t][j] /\ M[<<t, j>>] = L[<<t, j>>]
      BY <1>5, <1>6, <3>1
    <3> QED
      BY <2>1, <2>3, <3>2 DEF Covered
  <2> QED
    BY <2>3 DEF Covered
<1>11. Sane(to, of, M)
  BY <1>3, <1>7, <1>8, <1>9, <1>10 DEF Sane, new
<1> QED
  BY <1>11 DEF to, M, p

-----------------------------------------------------------------------------

(* Between calls, all writes are done and the state is sane for some       *)
(* layout.                                                                 *)
Consistent == writes = <<>> /\ \E L : Sane(Now, open_files, L)

(* The programs mind what they do, and the machine does not stop.          *)
Mindful == "crash" \notin Calls /\ Habits \subseteq {"mix"}

(* A call that ends with a sane disk and sane handles keeps the invariant. *)
LEMMA Finishes ==
  ASSUME Mindful, NEW io, NEW call, NEW result, Finish(io, call, result),
         NEW of, open_files' = of, NEW L, Sane(io, of, L)
  PROVE  Consistent'
<1>1. disk' = io.disk /\ free_sectors' = io.free_sectors /\ writes' = <<>>
  BY DEF Finish, Mindful
<1>2. Now' = Start(io.disk, io.free_sectors)
  BY <1>1 DEF Now
<1>3. Sane(Now', open_files', L)
  BY <1>2, SaneStart
<1> QED
  BY <1>1, <1>3 DEF Consistent

(* What touch and CREATE do for a new file,                                *)
LEMMA NewFileInIs ==
  ASSUME NEW io, NEW dir, NEW name
  PROVE  NewFileIn(io, dir, name).io = dir_create_in(io, dir, EmptyFile(name)).io
<1> DEFINE made == dir_create_in(io, dir, Dirent(name, FALSE, NO_SECTOR, 0))
           G(m) == [io |-> m.io, ok |-> m.place.found]
<1>1. NewFileIn(io, dir, name) = CHOOSE result \in {G(m) : m \in {made}} : TRUE
  BY Zenon DEF NewFileIn, Bind
<1>2. (CHOOSE result \in {G(m) : m \in {made}} : TRUE) = G(made)
  <2> HIDE DEF G, made
  <2> QED
    OBVIOUS
<1>3. NewFileIn(io, dir, name) = G(made)
  BY <1>1, <1>2
<1> HIDE DEF made
<1> QED
  BY <1>3 DEF made, EmptyFile

(* and that they keep all else.                                            *)
LEMMA NewFileKeeps ==
  ASSUME NEW io, NEW of, NEW L, Sane(io, of, L), NEW d \in Dirs(io.disk.sector), NEW name \in Names,
         ~dir_find_in(io, FirstOf(L, d), name).found
  PROVE  \E M : Sane(NewFileIn(io, FirstOf(L, d), name).io, of, M)
<1> DEFINE r == dir_create_in(io, FirstOf(L, d), EmptyFile(name))
<1>1. Fine(Values, io, L, Opened(of)) /\ L[TakenAt] = <<>>
  BY DEF Sane
<1>2. \A t \in On(L, d), j \in CellIndex :
            IsEntry(io.disk.sector[t][j]) => io.disk.sector[t][j].name # name
  <2>1. \A place \in EntryPlaces(io) : place.found
    BY EntryPlacesAre DEF Cell, Place
  <2>2. dir_find_in(io, FirstOf(L, d), name) \notin EntryPlaces(io)
    BY <2>1
  <2> QED
    BY <1>1, <2>2, Finds
<1>3. r = [io |-> io, place |-> NotFound] \/ \E M : Kept(Values, Opened(of), io, L, r.io, M)
  <2>1. \/ r = [io |-> io, place |-> NotFound]
        \/ \E M, s, k : /\ Made(Values, Opened(of), io, L, d, EmptyFile(name), r, M, s, k)
                        /\ Kept(Values, Opened(of), io, L, r.io, M)
    BY <1>1, <1>2, MakesFile
  <2> HIDE DEF r
  <2> QED
    BY <2>1
<1>4. NewFileIn(io, FirstOf(L, d), name).io = r.io
  BY NewFileInIs
<1> HIDE DEF r
<1>5. r = [io |-> io, place |-> NotFound] => r.io = io
  OBVIOUS
<1> QED
  BY <1>3, <1>4, <1>5, KeptSane

(* A call that only changes the disk.                                      *)
LEMMA DoneFinishes ==
  ASSUME Mindful, NEW outcome, NEW call, Done(outcome, call), NEW L, Sane(outcome.io, open_files, L)
  PROVE  Consistent'
<1>1. Finish(outcome.io, call, outcome.ok) /\ open_files' = open_files
  BY DEF Done
<1> QED
  BY <1>1, Finishes

(* What a call may assume.                                                 *)
LEMMA ConsistentIs ==
  ASSUME Consistent
  PROVE  \E L : Sane(Now, open_files, L) /\ Fine(Values, Now, L, Opened(open_files)) /\ L[TakenAt] = <<>>
BY DEF Consistent, Sane

(* Paths are of names, and are not empty.                                  *)
LEMMA PathsAre ==
  /\ \A path \in Paths \cup DirPaths : path \in Seq(Names) \ {<<>>} /\ Last(path) \in Names
<1> SUFFICES ASSUME NEW path \in Paths \cup DirPaths
             PROVE  path \in Seq(Names) \ {<<>>} /\ Last(path) \in Names
  OBVIOUS
<1>1. path \in Seq(Names) /\ path # <<>>
  BY QfsAssumption
<1>2. Len(path) \in 1 .. Len(path)
  BY <1>1
<1> QED
  BY <1>1, <1>2 DEF Last

(* mkdir.                                                                  *)
LEMMA MkdirStep ==
  ASSUME Mindful, Consistent, NEW path \in DirPaths, Mkdir(path)
  PROVE  Consistent'
<1>1. PICK L : Sane(Now, open_files, L) /\ Fine(Values, Now, L, Opened(open_files)) /\ L[TakenAt] = <<>>
  BY ConsistentIs
<1>2. PICK at : at = mkdir(Now, path) /\ Done(at, "mkdir")
  BY DEF Mkdir, Done
<1>3. PICK M : Kept(Values, Opened(open_files), Now, L, at.io, M)
  BY <1>1, <1>2, PathsAre, MkdirKeeps
<1>4. Sane(at.io, open_files, M)
  BY <1>1, <1>3, KeptSane
<1> QED
  BY <1>2, <1>4, DoneFinishes

(* A path that leads nowhere has a parent without the name, or none.       *)
LEMMA MissingIn ==
  ASSUME NEW io, NEW of, NEW L, Sane(io, of, L), NEW path \in Seq(Names) \ {<<>>},
         resolve_parent(io, path) # NO_SECTOR
  PROVE  \E d \in Dirs(io.disk.sector) : resolve_parent(io, path) = FirstOf(L, d)
BY ResolvesParent DEF Sane

(* touch.                                                                  *)
LEMMA TouchStep ==
  ASSUME Mindful, Consistent, NEW path \in Paths, Touch(path)
  PROVE  Consistent'
<1>1. PICK L : Sane(Now, open_files, L) /\ Fine(Values, Now, L, Opened(open_files)) /\ L[TakenAt] = <<>>
  BY ConsistentIs
<1>2. PICK at : at = touch(Now, path) /\ Done(at, "touch")
  BY DEF Touch, Done
<1>3. path \in Seq(Names) \ {<<>>} /\ Last(path) \in Names
  BY PathsAre
<1>4. CASE at.io = Now
  BY <1>1, <1>2, <1>4, DoneFinishes
<1>5. ASSUME at.io # Now
      PROVE  Consistent'
  <2> DEFINE parent == resolve_parent(Now, path)
  <2>1. /\ at = NewFileIn(Now, parent, Last(path)) /\ parent # NO_SECTOR
        /\ ~resolve_path(Now, path).found
    BY <1>2, <1>5 DEF touch
  <2>2. resolve_path(Now, path) = dir_find_in(Now, parent, Last(path))
    BY <1>1, <1>3, <2>1, ResolvesParent
  <2>3. PICK d \in Dirs(Now.disk.sector) : parent = FirstOf(L, d)
    BY <1>1, <1>3, <2>1, MissingIn
  <2> HIDE DEF parent
  <2>4. ~dir_find_in(Now, FirstOf(L, d), Last(path)).found
    BY <2>1, <2>2, <2>3
  <2>5. PICK M : Sane(NewFileIn(Now, FirstOf(L, d), Last(path)).io, open_files, M)
    BY <1>1, <1>3, <2>4, NewFileKeeps
  <2>6. Sane(at.io, open_files, M)
    BY <2>1, <2>3, <2>5
  <2> QED
    BY <1>2, <2>6, DoneFinishes
<1> QED
  BY <1>4, <1>5

(* The root is a directory.                                                *)
LEMMA RootFirst ==
  ASSUME NEW io, NEW of, NEW L, Sane(io, of, L)
  PROVE  RootAt \in Dirs(io.disk.sector) /\ FirstOf(L, RootAt) = root_start
BY DirsAre DEF Sane, Fine, Laid, FirstOf

(* CREATE of the shell.                                                    *)
LEMMA CreateStep ==
  ASSUME Mindful, Consistent, NEW name \in Names, Create(name)
  PROVE  Consistent'
<1>1. PICK L : Sane(Now, open_files, L) /\ Fine(Values, Now, L, Opened(open_files)) /\ L[TakenAt] = <<>>
  BY ConsistentIs
<1>2. PICK at : /\ at = IF dir_find_in(Now, root_start, name).found THEN [io |-> Now, ok |-> TRUE]
                        ELSE NewFileIn(Now, root_start, name)
                /\ Done(at, "CREATE")
  BY DEF Create, Done
<1>3. CASE at.io = Now
  BY <1>1, <1>2, <1>3, DoneFinishes
<1>4. ASSUME at.io # Now
      PROVE  Consistent'
  <2>1. at = NewFileIn(Now, root_start, name) /\ ~dir_find_in(Now, root_start, name).found
    BY <1>2, <1>4
  <2>2. RootAt \in Dirs(Now.disk.sector) /\ FirstOf(L, RootAt) = root_start
    BY <1>1, RootFirst
  <2>3. ~dir_find_in(Now, FirstOf(L, RootAt), name).found
    BY <2>1, <2>2
  <2>4. PICK M : Sane(NewFileIn(Now, FirstOf(L, RootAt), name).io, open_files, M)
    BY <1>1, <2>2, <2>3, NewFileKeeps
  <2>5. Sane(at.io, open_files, M)
    BY <2>1, <2>2, <2>4
  <2> QED
    BY <1>2, <2>5, DoneFinishes
<1> QED
  BY <1>3, <1>4

(* The removal of an entry that a call has found, or of none.              *)
LEMMA MayRemoveIs ==
  ASSUME Mindful, NEW place, MayRemove(place)
  PROVE  /\ \A h \in Slots : open_files[h].in_use =>
              ~(open_files[h].dir_sector = place.sector /\ open_files[h].dir_slot = place.slot)
         /\ IsDirectory(place.entry) => Entries(Now, place.entry.first_sector) = {}
<1>1. Minds("remove open") /\ Minds("remove directory")
  BY DEF Mindful, Minds
<1> QED
  BY <1>1 DEF MayRemove, OpenAt, Open

(* and then the rest is as it should be.                                   *)
LEMMA RemovalSane ==
  ASSUME Mindful, NEW L, Sane(Now, open_files, L), NEW place \in EntryPlaces(Now) \cup {NotFound},
         MayRemove(place)
  PROVE  \E M : Sane(dir_delete_at(Now, place.sector, place.slot).io, open_files, M)
<1>1. CASE place = NotFound
  <2>1. place.sector \notin Sectors
    BY <1>1, SectorsAre DEF NotFound, EndsChain
  <2>2. ~IsEntry(read_dirent_at(Now, place.sector, place.slot))
    BY <2>1 DEF read_dirent_at, IsEntry, Zero
  <2>3. dir_delete_at(Now, place.sector, place.slot) = [io |-> Now, ok |-> FALSE]
    BY <2>2, NothingRemoved
  <2>4. dir_delete_at(Now, place.sector, place.slot).io = Now
    BY <2>3
  <2> QED
    BY <2>4
<1>2. CASE place \in EntryPlaces(Now)
  <2>1. PICK s \in Sectors, k \in CellIndex : place = Cell(Now, s, k) /\ IsEntry(Now.disk.sector[s][k])
    BY <1>2, EntryPlacesAre
  <2>2. place.sector = s /\ place.slot = k /\ place.entry = Now.disk.sector[s][k]
    BY <2>1 DEF Cell, Place
  <2>3. <<s, k>> \notin Opened(open_files)
    BY <2>2, MayRemoveIs DEF Opened, IsOpen, At
  <2>4. IsDirectory(Now.disk.sector[s][k]) => Entries(Now, Now.disk.sector[s][k].first_sector) = {}
    BY <2>2, MayRemoveIs
  <2> QED
    BY <2>1, <2>2, <2>3, <2>4, RemovedSane
<1> QED
  BY <1>1, <1>2

(* rm.                                                                     *)
LEMMA RmStep ==
  ASSUME Mindful, Consistent, NEW path \in Paths, Rm(path)
  PROVE  Consistent'
<1>1. PICK L : Sane(Now, open_files, L) /\ Fine(Values, Now, L, Opened(open_files)) /\ L[TakenAt] = <<>>
  BY ConsistentIs
<1>2. PICK place : /\ place = resolve_path(Now, path) /\ MayRemove(place)
                   /\ Done(dir_delete_at(Now, place.sector, place.slot), "rm")
  BY DEF Rm
<1>3. PICK at : at = dir_delete_at(Now, place.sector, place.slot) /\ Done(at, "rm")
  BY <1>2
<1>4. place \in EntryPlaces(Now) \cup {NotFound}
  BY <1>1, <1>2, PathsAre, Resolves
<1>5. PICK M : Sane(at.io, open_files, M)
  BY <1>1, <1>2, <1>3, <1>4, RemovalSane
<1> QED
  BY <1>3, <1>5, DoneFinishes

(* DESTROY of the shell.                                                   *)
LEMMA DestroyStep ==
  ASSUME Mindful, Consistent, NEW name \in Names, Destroy(name)
  PROVE  Consistent'
<1>1. PICK L : Sane(Now, open_files, L) /\ Fine(Values, Now, L, Opened(open_files)) /\ L[TakenAt] = <<>>
  BY ConsistentIs
<1>2. PICK place : /\ place = dir_find_in(Now, root_start, name) /\ MayRemove(place)
                   /\ Minds("destroy beyond") => place.sector \in {root_start, NO_SECTOR}
                   /\ Done(IF place.found THEN dir_delete_at(Now, root_start, place.slot)
                           ELSE [io |-> Now, ok |-> FALSE], "DESTROY")
  BY DEF Destroy
<1>3. PICK at : /\ at = IF place.found THEN dir_delete_at(Now, root_start, place.slot)
                        ELSE [io |-> Now, ok |-> FALSE]
                /\ Done(at, "DESTROY")
  BY <1>2
<1>4. place.sector \in {root_start, NO_SECTOR}
  BY <1>2 DEF Mindful, Minds
<1>5. place \in EntryPlaces(Now) \cup {NotFound}
  <2>1. RootAt \in Dirs(Now.disk.sector) /\ FirstOf(L, RootAt) = root_start
    BY <1>1, RootFirst
  <2>2. \/ dir_find_in(Now, FirstOf(L, RootAt), name) = NotFound
        \/ dir_find_in(Now, FirstOf(L, RootAt), name) \in EntryPlaces(Now)
    BY <1>1, <2>1, Finds
  <2> QED
    BY <1>2, <2>1, <2>2
<1>6. CASE at.io = Now
  BY <1>1, <1>3, <1>6, DoneFinishes
<1>7. ASSUME at.io # Now
      PROVE  Consistent'
  <2>1. place.found /\ at = dir_delete_at(Now, root_start, place.slot)
    BY <1>3, <1>7
  <2>2. place \in EntryPlaces(Now)
    BY <1>5, <2>1 DEF NotFound
  <2>3. PICK s \in Sectors, k \in CellIndex : place = Cell(Now, s, k)
    BY <2>2, EntryPlacesAre
  <2>4. place.sector = root_start
    <3>1. place.sector = s /\ ~EndsChain(s)
      BY <2>3, SectorsAre DEF Cell, Place
    <3> QED
      BY <1>4, <3>1 DEF EndsChain
  <2>5. PICK M : Sane(at.io, open_files, M)
    BY <1>1, <1>2, <1>5, <2>1, <2>4, RemovalSane
  <2> QED
    BY <1>3, <2>5, DoneFinishes
<1> QED
  BY <1>6, <1>7

(* The least of two counts.                                                *)
LEMMA LeastOfTwo ==
  ASSUME NEW a \in Nat, NEW b \in Nat, a >= 1, b >= 1
  PROVE  Min({a, b}) \in 1 .. b
<1> DEFINE S == {a, b}
           Is(x) == x \in S /\ \A y \in S : x <= y
<1>1. \E x : Is(x)
  <2>1. CASE a <= b
    <3>1. Is(a)
      BY <2>1
    <3> QED
      BY <3>1
  <2>2. CASE b <= a
    <3>1. Is(b)
      BY <2>2
    <3> QED
      BY <3>1
  <2> QED
    BY <2>1, <2>2
<1>2. Min(S) = CHOOSE x : Is(x)
  BY Zenon DEF Min
<1> HIDE DEF Is
<1>3. Is(Min(S))
  BY <1>1, <1>2
<1> QED
  BY <1>3 DEF Is

(* What the search for the file to open returns: a place of an entry on    *)
(* the disk, or none.                                                      *)
Offered(io, of, at, M) ==
    /\ Sane(at.io, of, M)
    /\ at.place.found => \E s \in Sectors, k \in CellIndex :
          IsEntry(at.io.disk.sector[s][k]) /\ HasPlace(at, s, k, at.io.disk.sector[s][k])

(* An entry that was found,                                                *)
LEMMA OffersFound ==
  ASSUME NEW io, NEW of, NEW L, Sane(io, of, L), NEW found \in EntryPlaces(io) \cup {NotFound}
  PROVE  \E M : Offered(io, of, [io |-> io, place |-> found], M)
<1> DEFINE at == [io |-> io, place |-> found]
<1>1. at.io = io /\ at.place = found
  OBVIOUS
<1> HIDE DEF at
<1>2. found.found => found \in EntryPlaces(io)
  BY DEF NotFound
<1>3. ASSUME found.found
      PROVE  \E s \in Sectors, k \in CellIndex :
               IsEntry(at.io.disk.sector[s][k]) /\ HasPlace(at, s, k, at.io.disk.sector[s][k])
  <2>1. PICK s \in Sectors, k \in CellIndex : found = Cell(io, s, k) /\ IsEntry(io.disk.sector[s][k])
    BY <1>2, <1>3, EntryPlacesAre
  <2>2. HasPlace(at, s, k, io.disk.sector[s][k])
    BY <1>1, <2>1 DEF HasPlace, Cell, Place
  <2> QED
    BY <1>1, <2>1, <2>2
<1>4. Offered(io, of, at, L)
  BY <1>1, <1>3 DEF Offered
<1> QED
  BY <1>4 DEF at

(* or made,                                                                *)
LEMMA OffersMade ==
  ASSUME NEW io, NEW of, NEW L, Sane(io, of, L), NEW d \in Dirs(io.disk.sector), NEW name \in Names,
         ~dir_find_in(io, FirstOf(L, d), name).found
  PROVE  \E M : Offered(io, of, dir_create_in(io, FirstOf(L, d), EmptyFile(name)), M)
<1> DEFINE r == dir_create_in(io, FirstOf(L, d), EmptyFile(name))
           W == Opened(of)
<1>1. Fine(Values, io, L, W) /\ L[TakenAt] = <<>>
  BY DEF Sane
<1>2. \A t \in On(L, d), j \in CellIndex :
            IsEntry(io.disk.sector[t][j]) => io.disk.sector[t][j].name # name
  <2>1. \A place \in EntryPlaces(io) : place.found
    BY EntryPlacesAre DEF Cell, Place
  <2>2. dir_find_in(io, FirstOf(L, d), name) \notin EntryPlaces(io)
    BY <2>1
  <2> QED
    BY <1>1, <2>2, Finds
<1>3. \/ r = [io |-> io, place |-> NotFound]
      \/ \E M, s, k : Made(Values, W, io, L, d, EmptyFile(name), r, M, s, k) /\ Kept(Values, W, io, L, r.io, M)
  BY <1>1, <1>2, MakesFile
<1>4. ASSUME r = [io |-> io, place |-> NotFound]
      PROVE  \E M : Offered(io, of, r, M)
  BY <1>4, OffersFound
<1>5. ASSUME NEW M, NEW s, NEW k,
             Made(Values, W, io, L, d, EmptyFile(name), r, M, s, k), Kept(Values, W, io, L, r.io, M)
      PROVE  Offered(io, of, r, M)
  <2> HIDE DEF r
  <2>1. Sane(r.io, of, M)
    BY <1>5, KeptSane
  <2>2. /\ HasPlace(r, s, k, EmptyFile(name)) /\ s \in Sectors /\ k \in CellIndex
        /\ r.io.disk.sector[s][k] = EmptyFile(name)
    BY <1>5 DEF Made
  <2>3. IsEntry(EmptyFile(name))
    BY EmptyFileIs DEF IsFile
  <2>4. IsEntry(r.io.disk.sector[s][k]) /\ HasPlace(r, s, k, r.io.disk.sector[s][k])
    BY <2>2, <2>3
  <2> QED
    BY <2>1, <2>2, <2>4 DEF Offered
<1> HIDE DEF r
<1>6. \E M : Offered(io, of, r, M)
  BY <1>3, <1>4, <1>5
<1> QED
  BY <1>6 DEF r

(* or none: what file_open has before it takes a slot.                     *)
LEMMA Offers ==
  ASSUME NEW io, NEW of, NEW L, Sane(io, of, L), NEW path \in Paths, NEW mode
  PROVE  \E M : Offered(io, of, FindOrCreate(io, path, mode), M)
<1> DEFINE parent == resolve_parent(io, path)
           found == dir_find_in(io, parent, Last(path))
           none == [io |-> io, place |-> NotFound]
           old == [io |-> io, place |-> found]
           new == dir_create_in(io, parent, EmptyFile(Last(path)))
           at == FindOrCreate(io, path, mode)
<1>0. path \in Seq(Names) \ {<<>>} /\ Last(path) \in Names
  BY PathsAre
<1>1. at = IF parent = NO_SECTOR THEN none
           ELSE IF found.found \/ mode = MODE_READ THEN old ELSE new
  BY DEF FindOrCreate, EmptyFile
<1>2. \E M : Offered(io, of, none, M)
  BY OffersFound
<1>3. ASSUME parent # NO_SECTOR
      PROVE  \E d \in Dirs(io.disk.sector) : parent = FirstOf(L, d)
  BY <1>0, <1>3, MissingIn
<1>4. ASSUME parent # NO_SECTOR
      PROVE  \E M : Offered(io, of, old, M)
  <2>1. PICK d \in Dirs(io.disk.sector) : parent = FirstOf(L, d)
    BY <1>3, <1>4
  <2>2. dir_find_in(io, FirstOf(L, d), Last(path)) \in EntryPlaces(io) \cup {NotFound}
    BY Finds DEF Sane
  <2>3. found \in EntryPlaces(io) \cup {NotFound}
    BY <2>1, <2>2
  <2> HIDE DEF found
  <2> QED
    BY <2>3, OffersFound
<1>5. ASSUME parent # NO_SECTOR, ~found.found
      PROVE  \E M : Offered(io, of, new, M)
  <2>1. PICK d \in Dirs(io.disk.sector) : parent = FirstOf(L, d)
    BY <1>3, <1>5
  <2>2. ~dir_find_in(io, FirstOf(L, d), Last(path)).found
    BY <1>5, <2>1
  <2>3. \E M : Offered(io, of, dir_create_in(io, FirstOf(L, d), EmptyFile(Last(path))), M)
    BY <1>0, <2>2, OffersMade
  <2> QED
    BY <2>1, <2>3
<1> HIDE DEF parent, found, none, old, new, at
<1>6. \E M : Offered(io, of, at, M)
  BY <1>1, <1>2, <1>4, <1>5
<1> QED
  BY <1>6 DEF at

(* Where an appending handle starts.                                       *)
SeeksTo(io, entry, q) ==
    entry.size > 0 /\ Len(q) = SectorsFor(entry.size) =>
        SeekEnd(io, entry) = q[(entry.size - 1) \div Cells + 1]

(* The cursor of a file that is opened for appending is in its chain, on   *)
(* the sector of the file's last byte if the size is that of the chain.    *)
LEMMA SeeksOn ==
  ASSUME NEW io, NEW L, Laid(io.disk.fat, L), NEW p \in Places, NEW entry,
         entry.first_sector = FirstOf(L, p), entry.size \in Nat, L[p] # <<>>
  PROVE  /\ SeekEnd(io, entry) \in On(L, p) /\ FirstOf(L, p) \in On(L, p)
         /\ SeeksTo(io, entry, L[p])
<1>1. L[p] \in Seq(Sectors) /\ Len(L[p]) \in Nat /\ Len(L[p]) >= 1
  BY DEF Laid
<1>2. FirstOf(L, p) = L[p][1] /\ L[p][1] \in On(L, p)
  BY <1>1 DEF FirstOf, On, Items
<1>3. CASE entry.first_sector = NO_SECTOR \/ entry.size = 0
  <2>1. FirstOf(L, p) # NO_SECTOR
    <3>1. L[p][1] \in Sectors
      BY <1>1
    <3>2. ~EndsChain(L[p][1])
      BY <3>1, SectorsAre
    <3> QED
      BY <1>2, <3>2 DEF EndsChain
  <2> QED
    BY <1>2, <1>3, <2>1 DEF SeekEnd, SeeksTo
<1>4. CASE ~(entry.first_sector = NO_SECTOR \/ entry.size = 0)
  <2>1. Chain(io, entry.first_sector) = L[p]
    BY LaidIsChain
  <2> DEFINE a == (entry.size - 1) \div Cells + 1
             i == Min({a, Len(L[p])})
  <2>2. a \in Nat /\ a >= 1
    <3>1. entry.size - 1 \in Nat
      BY <1>4
    <3>2. (entry.size - 1) \div Cells \in Nat
      BY <3>1, DiskAssumption, Division
    <3> QED
      BY <3>2
  <2>3. SeekEnd(io, entry) = L[p][i]
    BY <1>4, <2>1 DEF SeekEnd
  <2>4. i \in 1 .. Len(L[p])
    <3> HIDE DEF a
    <3> QED
      BY <1>1, <2>2, LeastOfTwo
  <2>5. Len(L[p]) = SectorsFor(entry.size) => i = a
    <3>1. ASSUME Len(L[p]) = SectorsFor(entry.size) PROVE i \in {a, Len(L[p])} /\ a = Len(L[p])
      <4>1. a = Len(L[p])
        BY <1>4, <3>1, SectorsForIs
      <4> HIDE DEF a
      <4> QED
        BY <1>1, <2>2, <4>1, MinIsIn
    <3> QED
      BY <3>1
  <2> HIDE DEF i
  <2> QED
    BY <1>2, <2>3, <2>4, <2>5 DEF On, Items, SeeksTo
<1> QED
  BY <1>3, <1>4

(* The fields of an entry.                                                 *)
LEMMA EntriesTyped ==
  ASSUME NEW V, NEW cell \in CellSet(V), IsEntry(cell)
  PROVE  /\ cell.first_sector \in Sectors \cup {NO_SECTOR} /\ cell.size \in Nat
         /\ cell.name \in Names /\ cell.dir \in BOOLEAN
         /\ cell.kind = "dirent"
<1>1. cell \in [kind : {"dirent"}, name : Names, dir : BOOLEAN,
                first_sector : Sectors \cup {NO_SECTOR}, size : Nat]
  BY DEF CellSet, IsEntry, Zero
<1> QED
  BY <1>1

(* The handle of a file that has just been opened.                         *)
LEMMA NewFileOk ==
  ASSUME NEW io, NEW of, NEW L, Sane(io, of, L), NEW s \in Sectors, NEW k \in CellIndex,
         IsFile(io.disk.sector[s][k]), io.disk.sector[s][k].first_sector = FirstOf(L, <<s, k>>),
         Minds("mix") => Len(L[<<s, k>>]) = SectorsFor(io.disk.sector[s][k].size),
         NEW at, HasPlace(at, s, k, io.disk.sector[s][k]), NEW mode \in Modes
  PROVE  /\ HandleOk(NewFile(io, at.place, mode), io.disk.sector, L)
         /\ At(NewFile(io, at.place, mode)) = <<s, k>>
         /\ NewFile(io, at.place, mode).mode = mode
<1> DEFINE sec == io.disk.sector
           entry == sec[s][k]
           file == NewFile(io, at.place, mode)
           p == <<s, k>>
           seek == SeekEnd(io, entry)
<1>1. /\ Fine(Values, io, L, Opened(of)) /\ Laid(io.disk.fat, L) /\ EmptySized(sec)
      /\ L \in [Places -> Seq(Sectors)] /\ sec \in [Sectors -> Contents(Values)] /\ p \in Places
  BY IOsAre, PlacesAre DEF Sane, Fine, Laid, CellIndex
<1>2. entry.first_sector \in Sectors \cup {NO_SECTOR} /\ entry.size \in Nat /\ IsFile(entry)
  <2>1. entry \in CellSet(Values)
    BY <1>1 DEF Contents
  <2> QED
    BY <2>1, EntriesTyped DEF IsFile
<1>3. entry.first_sector = FirstOf(L, p)
  OBVIOUS
<1>4. /\ at.place.sector = s /\ at.place.slot = k /\ at.place.entry = entry
  BY DEF HasPlace
<1>5. /\ L[p] # <<>> => seek \in On(L, p) /\ FirstOf(L, p) \in On(L, p) /\ SeeksTo(io, entry, L[p])
      /\ L[p] = <<>> => entry.first_sector = NO_SECTOR /\ entry.size = 0 /\ seek = NO_SECTOR
  <2>1. CASE L[p] # <<>>
    BY <1>1, <1>2, <1>3, <2>1, SeeksOn
  <2>2. CASE L[p] = <<>>
    <3>1. entry.first_sector = NO_SECTOR
      BY <1>3, <2>2 DEF FirstOf
    <3>2. entry.size = 0
      BY <1>1, <1>2, <3>1 DEF EmptySized
    <3> QED
      BY <2>2, <3>1, <3>2 DEF SeekEnd
  <2> QED
    BY <2>1, <2>2
<1>6. On(L, p) \subseteq Sectors
  BY SMTT(60), <1>1, OnSectors
<1>two. L[p] # <<>> /\ entry.size > 0 /\ Len(L[p]) = SectorsFor(entry.size) =>
          seek = L[p][(entry.size - 1) \div Cells + 1]
  BY <1>5 DEF SeeksTo
<1>7. seek \in Sectors \cup {NO_SECTOR}
  BY <1>5, <1>6
<1> HIDE DEF seek, entry
<1>8. file = [in_use |-> TRUE, mode |-> mode, modified |-> FALSE, dir_sector |-> s, dir_slot |-> k,
              first_sector |-> entry.first_sector,
              current_sector |-> IF mode = MODE_APPEND THEN seek ELSE entry.first_sector,
              file_size |-> entry.size, position |-> IF mode = MODE_APPEND THEN entry.size ELSE 0,
              buffer |-> Blank, buffer_sector |-> NO_SECTOR, buffer_dirty |-> FALSE]
  BY <1>4 DEF NewFile, seek
<1> HIDE DEF file
<1>9. file \in Held
  BY <1>2, <1>7, <1>8, BlankIs DEF Held
<1>10. At(file) = p
  BY <1>8 DEF At
<1> HIDE DEF p
<1>11. file.current_sector \in On(L, p) \/ (L[p] = <<>> /\ file.current_sector = NO_SECTOR)
  BY <1>3, <1>5, <1>8
<1>12. L[p] = <<>> => file.position = 0 /\ ~file.modified
  BY <1>5, <1>8
<1>13. sec[file.dir_sector][file.dir_slot] = entry
  BY <1>8 DEF entry
<1>one. Located(file, entry, L[p])
  <2>1. Minds("mix") => Len(L[p]) = SectorsFor(entry.size)
    BY DEF p, entry
  <2>2. /\ file.file_size = entry.size /\ file.position = (IF mode = MODE_APPEND THEN entry.size ELSE 0)
        /\ file.current_sector = (IF mode = MODE_APPEND THEN seek ELSE entry.first_sector)
        /\ ~file.modified /\ file.mode = mode /\ MODE_APPEND # MODE_READ
    BY <1>8 DEF MODE_APPEND, MODE_READ
  <2>3. L[p] # <<>> => entry.first_sector = L[p][1]
    BY <1>3 DEF FirstOf
  <2>4. ASSUME Minds("mix"), L[p] # <<>> PROVE file.current_sector = L[p][CursorIndex(file)]
    <3>1. entry.size > 0
      <4>1. Len(L[p]) # 0
        <5>1. L[p] \in Seq(Sectors)
          BY <1>1 DEF p
        <5> QED
          BY <2>4, <5>1
      <4>2. SectorsFor(entry.size) # 0
        BY <2>1, <2>4, <4>1
      <4>3. entry.size # 0
        BY <4>2, SectorsForIs
      <4> QED
        BY <1>2, <4>3
    <3>2. CASE mode = MODE_APPEND
      BY <1>2, <1>two, <2>1, <2>2, <2>4, <3>1, <3>2 DEF CursorIndex
    <3>3. CASE mode # MODE_APPEND
      BY <2>2, <2>3, <2>4, <3>3 DEF CursorIndex
    <3> QED
      BY <3>2, <3>3
  <2>5. file.position <= file.file_size
    BY <1>2, <2>2
  <2> QED
    BY <2>1, <2>2, <2>4, <2>5 DEF Located
<1>14. HandleOk(file, sec, L)
  <2>1. file.first_sector = FirstOf(L, p) /\ file.buffer_sector = NO_SECTOR /\ file.buffer = Blank
        /\ ~file.modified /\ ~file.buffer_dirty /\ entry.first_sector = file.first_sector
    BY <1>3, <1>8
  <2> QED
    BY <1>2, <1>9, <1>10, <1>11, <1>12, <1>13, <1>one, <2>1, BlankIs DEF HandleOk
<1>15. file.mode = mode
  BY <1>8
<1> QED
  BY <1>10, <1>14, <1>15 DEF file, p

(* A slot is taken for a file that nobody writes, or nobody reads.         *)
LEMMA OpenedSane ==
  ASSUME NEW io, NEW of, NEW L, Sane(io, of, L), NEW g \in Slots, ~of[g].in_use,
         NEW file, HandleOk(file, io.disk.sector, L),
         \A h \in Slots : IsOpen(of, h) /\ At(of[h]) = At(file) => of[h].mode = MODE_READ /\ file.mode = MODE_READ
  PROVE  Sane(io, [of EXCEPT ![g] = file], L)
<1> DEFINE to == [of EXCEPT ![g] = file]
           sec == io.disk.sector
<1>1. /\ of \in [Slots -> {Closed} \cup Held] /\ file \in Held /\ file.in_use
      /\ Fine(Values, io, L, Opened(of)) /\ L[TakenAt] = <<>> /\ Alone(of) /\ EmptySized(sec)
  BY ZenonT(60) DEF Sane, HandleOk, Held
<1>2. \A h \in Slots : IsOpen(of, h) => HandleOk(of[h], sec, L)
  BY DEF Sane
<1>3. to \in [Slots -> {Closed} \cup Held]
  BY <1>1
<1>4. (\A h \in Slots : h # g => to[h] = of[h]) /\ to[g] = file
  BY <1>1
<1> HIDE DEF to, sec
<1>5. \A h \in Slots : h # g => (IsOpen(to, h) <=> IsOpen(of, h))
  BY <1>4 DEF IsOpen
<1>6. IsOpen(to, g) /\ ~IsOpen(of, g)
  BY <1>1, <1>4 DEF IsOpen
<1>7. Opened(of) \subseteq Opened(to)
  BY <1>4, <1>5, <1>6 DEF Opened
<1>8. Fine(Values, io, L, Opened(to))
  <2>1. Tidy(io.disk.sector, L, Opened(of))
    BY <1>1 DEF Fine
  <2>2. Tidy(io.disk.sector, L, Opened(to))
    BY <1>7, <2>1, TidyKnown
  <2> QED
    BY <1>1, <2>2 DEF Fine
<1>9. \A h \in Slots : IsOpen(to, h) => HandleOk(to[h], sec, L)
  <2>1. HandleOk(file, sec, L)
    BY DEF sec
  <2> QED
    BY <1>2, <1>4, <1>5, <2>1
<1>10. Alone(to)
  <2> SUFFICES ASSUME NEW f \in Slots, NEW h \in Slots, IsOpen(to, f), IsOpen(to, h), f # h, At(to[f]) = At(to[h])
               PROVE  to[f].mode = MODE_READ
    BY DEF Alone
  <2>1. CASE f = g
    BY <1>4, <1>5, <2>1
  <2>2. CASE h = g
    BY <1>4, <1>5, <2>2
  <2>3. CASE f # g /\ h # g
    BY <1>1, <1>4, <1>5, <2>3 DEF Alone
  <2> QED
    BY <2>1, <2>2, <2>3
<1>one. Covered(sec, L, Opened(to))
  <2>1. Covered(sec, L, Opened(of))
    BY DEF Sane, sec
  <2> QED
    BY <1>7, <2>1 DEF Covered
<1>11. Sane(io, to, L)
  BY <1>1, <1>3, <1>8, <1>9, <1>10, <1>one DEF Sane, sec
<1> QED
  BY SMTT(60), <1>11 DEF to

(* file_open.                                                              *)
LEMMA OpenStep ==
  ASSUME Mindful, Consistent, NEW path \in Paths, NEW mode \in Modes, FileOpen(path, mode)
  PROVE  Consistent'
<1>1. PICK L : Sane(Now, open_files, L) /\ Fine(Values, Now, L, Opened(open_files)) /\ L[TakenAt] = <<>>
  BY ConsistentIs
<1>2. PICK at : /\ at = FindOrCreate(Now, path, mode)
                /\ MayOpen(at.place, mode)
                /\ IF Free # {} /\ at.place.found
                   THEN /\ open_files' = [open_files EXCEPT ![Min(Free)] = NewFile(at.io, at.place, mode)]
                        /\ Finish(at.io, "open", Min(Free))
                   ELSE /\ Finish(IF Free = {} THEN Now ELSE at.io, "open", -1)
                        /\ UNCHANGED open_files
  BY DEF FileOpen
<1>3. PICK M : Offered(Now, open_files, at, M)
  BY <1>1, <1>2, Offers
<1>4. Sane(at.io, open_files, M)
  BY <1>3 DEF Offered
<1>5. CASE ~(Free # {} /\ at.place.found)
  <2>1. PICK io : io \in {Now, at.io} /\ Finish(io, "open", -1) /\ open_files' = open_files
    BY <1>2, <1>5
  <2>2. \E K : Sane(io, open_files, K)
    BY <1>1, <1>4, <2>1
  <2> QED
    BY <2>1, <2>2, Finishes
<1>6. ASSUME Free # {} /\ at.place.found
      PROVE  Consistent'
  <2> DEFINE sec == at.io.disk.sector
  <2>1. PICK s \in Sectors, k \in CellIndex : IsEntry(sec[s][k]) /\ HasPlace(at, s, k, sec[s][k])
    BY <1>3, <1>6 DEF Offered
  <2>2. at.place.sector = s /\ at.place.slot = k /\ at.place.entry = sec[s][k]
    BY <2>1 DEF HasPlace
  <2>3. IsFile(sec[s][k])
    <3>1. Minds("open directory")
      BY DEF Mindful, Minds
    <3> QED
      BY <1>2, <2>1, <2>2, <3>1 DEF MayOpen, IsFile, IsDirectory
  <2>4. \A h \in Slots : IsOpen(open_files, h) /\ At(open_files[h]) = <<s, k>> =>
           mode = MODE_READ /\ open_files[h].mode = MODE_READ
    <3>1. Minds("share")
      BY DEF Mindful, Minds
    <3>2. \A h \in OpenAt(at.place) : mode = MODE_READ /\ open_files[h].mode = MODE_READ
      BY <1>2, <3>1 DEF MayOpen
    <3>3. \A h \in Slots : IsOpen(open_files, h) /\ At(open_files[h]) = <<s, k>> => h \in OpenAt(at.place)
      BY <2>2 DEF IsOpen, At, OpenAt, Open
    <3> QED
      BY <3>2, <3>3
  <2>5. sec[s][k].first_sector = FirstOf(M, <<s, k>>)
    <3>1. CASE <<s, k>> \in Opened(open_files)
      <4>1. PICK h \in Slots : IsOpen(open_files, h) /\ At(open_files[h]) = <<s, k>>
        BY <3>1 DEF Opened
      <4>2. open_files[h].mode = MODE_READ
        BY <2>4, <4>1
      <4>3. HandleOk(open_files[h], sec, M)
        BY <1>4, <4>1 DEF Sane
      <4>4. open_files[h].dir_sector = s /\ open_files[h].dir_slot = k
        BY SMTT(60), <4>1 DEF At
      <4> QED
        BY <4>1, <4>2, <4>3, <4>4 DEF HandleOk
    <3>2. CASE <<s, k>> \notin Opened(open_files)
      BY ZenonT(60), <1>4, <2>1, <3>2 DEF Sane, Fine, Tidy
    <3> QED
      BY <3>1, <3>2
  <2>one. Minds("mix") => Len(M[<<s, k>>]) = SectorsFor(sec[s][k].size)
    <3>1. CASE <<s, k>> \in Opened(open_files)
      <4>1. PICK h \in Slots : IsOpen(open_files, h) /\ At(open_files[h]) = <<s, k>>
        BY <3>1 DEF Opened
      <4>2. open_files[h].mode = MODE_READ
        BY <2>4, <4>1
      <4>3. HandleOk(open_files[h], sec, M)
        BY <1>4, <4>1 DEF Sane
      <4>4. open_files[h].dir_sector = s /\ open_files[h].dir_slot = k
        BY <4>1 DEF At
      <4>5. ~open_files[h].modified /\ Located(open_files[h], sec[s][k], M[<<s, k>>])
        BY <4>1, <4>2, <4>3, <4>4 DEF HandleOk
      <4> QED
        BY <4>5 DEF Located
    <3>2. CASE <<s, k>> \notin Opened(open_files)
      <4>1. Covered(sec, M, Opened(open_files))
        BY <1>4 DEF Sane
      <4> QED
        BY <2>3, <3>2, <4>1 DEF Covered
    <3> QED
      BY <3>1, <3>2
  <2> DEFINE file == NewFile(at.io, at.place, mode)
  <2>6. HandleOk(file, sec, M) /\ At(file) = <<s, k>> /\ file.mode = mode
    BY <1>4, <2>1, <2>3, <2>5, <2>one, NewFileOk
  <2>7. PICK g : g = Min(Free)
    OBVIOUS
  <2>8. g \in Slots /\ ~open_files[g].in_use
    <3>1. Free \subseteq Nat
      BY QfsAssumption DEF Free, Slots
    <3>2. Min(Free) \in Free
      BY <1>6, <3>1, MinIsIn
    <3> QED
      BY <2>7, <3>2 DEF Free
  <2> HIDE DEF file
  <2>9. Sane(at.io, [open_files EXCEPT ![g] = file], M)
    BY <1>4, <2>4, <2>6, <2>8, OpenedSane
  <2>10. open_files' = [open_files EXCEPT ![g] = file] /\ Finish(at.io, "open", g)
    BY <1>2, <1>6, <2>7 DEF file
  <2>11. PICK of : of = [open_files EXCEPT ![g] = file]
    OBVIOUS
  <2> QED
    BY <2>9, <2>10, <2>11, Finishes
<1> QED
  BY <1>5, <1>6

(* The state is sane but for what open file h is.                          *)
Apart(io, of, h, L) ==
    /\ Fine(Values, io, L, Opened(of)) /\ L[TakenAt] = <<>>
    /\ of \in [Slots -> {Closed} \cup Held] /\ Alone(of) /\ EmptySized(io.disk.sector)
    /\ Covered(io.disk.sector, L, Opened(of))
    /\ h \in Slots /\ IsOpen(of, h) /\ of[h] \in Held
    /\ of[h].dir_sector \in Sectors /\ of[h].dir_slot \in CellIndex /\ At(of[h]) \in Places
    /\ IsFile(io.disk.sector[of[h].dir_sector][of[h].dir_slot])
    /\ \A g \in Slots : g # h /\ IsOpen(of, g) => HandleOk(of[g], io.disk.sector, L)

(* It is, and that file is in order,                                       *)
LEMMA ApartFrom ==
  ASSUME NEW io, NEW of, NEW L, Sane(io, of, L), NEW h \in Slots, of[h].in_use
  PROVE  Apart(io, of, h, L) /\ HandleOk(of[h], io.disk.sector, L)
<1>1. /\ of[h] \in Held /\ HandleOk(of[h], io.disk.sector, L)
      /\ of[h].dir_sector \in Sectors /\ of[h].dir_slot \in CellIndex
      /\ At(of[h]) \in Places
  BY SMTT(60), HandlesAre
<1>2. IsFile(io.disk.sector[of[h].dir_sector][of[h].dir_slot])
  BY ZenonT(60), <1>1 DEF HandleOk
<1> QED
  BY <1>1, <1>2 DEF Sane, Apart, IsOpen

(* which together is the invariant again.                                  *)
LEMMA ApartSane ==
  ASSUME NEW io, NEW of, NEW h, NEW L, Apart(io, of, h, L),
         NEW file, HandleOk(file, io.disk.sector, L), At(file) = At(of[h]), file.mode = of[h].mode
  PROVE  Sane(io, [of EXCEPT ![h] = file], L)
<1> DEFINE to == [of EXCEPT ![h] = file]
           sec == io.disk.sector
<1>1. /\ of \in [Slots -> {Closed} \cup Held] /\ file \in Held /\ file.in_use /\ h \in Slots /\ IsOpen(of, h)
      /\ Fine(Values, io, L, Opened(of)) /\ L[TakenAt] = <<>> /\ Alone(of) /\ EmptySized(sec)
      /\ Covered(sec, L, Opened(of))
  BY ZenonT(60) DEF Apart, HandleOk, Held
<1>2. \A g \in Slots : g # h /\ IsOpen(of, g) => HandleOk(of[g], sec, L)
  BY DEF Apart
<1>3. to \in [Slots -> {Closed} \cup Held]
  BY <1>1
<1>4. (\A g \in Slots : g # h => to[g] = of[g]) /\ to[h] = file
  BY <1>1
<1>5. HandleOk(file, sec, L)
  OBVIOUS
<1> HIDE DEF to, sec
<1>6. \A g \in Slots : /\ IsOpen(to, g) <=> IsOpen(of, g)
                       /\ At(to[g]) = At(of[g]) /\ to[g].mode = of[g].mode
  BY <1>1, <1>4 DEF IsOpen
<1>7. Opened(to) = Opened(of)
  BY <1>6 DEF Opened
<1>8. \A g \in Slots : IsOpen(to, g) => HandleOk(to[g], sec, L)
  BY <1>2, <1>4, <1>5, <1>6
<1>9. Alone(to)
  BY <1>1, <1>6 DEF Alone
<1>10. Sane(io, to, L)
  BY <1>1, <1>3, <1>7, <1>8, <1>9 DEF Sane, sec
<1> QED
  BY SMTT(60), <1>10 DEF to

(* Other handles are at other places than one that writes.                 *)
LEMMA WriterAlone ==
  ASSUME NEW io, NEW of, NEW h, NEW L, Apart(io, of, h, L), of[h].mode # MODE_READ,
         NEW g \in Slots, g # h, IsOpen(of, g)
  PROVE  At(of[g]) # At(of[h])
BY SMTT(60) DEF Apart, Alone

(* What a handle that writes does to its own file does not disturb others. *)
LEMMA ApartMoves ==
  ASSUME NEW io, NEW of, NEW h, NEW L, Apart(io, of, h, L), of[h].mode # MODE_READ,
         NEW to, NEW M, Fine(Values, to, M, Opened(of)), EmptySized(to.disk.sector),
         \A q \in Places : q # At(of[h]) => M[q] = L[q],
         \A s \in Sectors, k \in CellIndex :
            /\ IsFile(to.disk.sector[s][k]) <=> IsFile(io.disk.sector[s][k])
            /\ IsFile(io.disk.sector[s][k]) /\ <<s, k>> # At(of[h]) =>
                  to.disk.sector[s][k] = io.disk.sector[s][k]
  PROVE  Apart(to, of, h, M)
<1> DEFINE sec == io.disk.sector
           new == to.disk.sector
<1>1. /\ L[TakenAt] = <<>> /\ of[h].dir_sector \in Sectors /\ of[h].dir_slot \in CellIndex
      /\ TakenAt # At(of[h]) /\ TakenAt \in Places
      /\ IsFile(sec[of[h].dir_sector][of[h].dir_slot])
  BY PlacesAre DEF Apart, At, CellIndex
<1>2. M[TakenAt] = <<>>
  BY <1>1
<1>3. IsFile(new[of[h].dir_sector][of[h].dir_slot])
  BY <1>1
<1>4. ASSUME NEW g \in Slots, g # h, IsOpen(of, g)
      PROVE  HandleOk(of[g], new, M)
  <2> DEFINE file == of[g]
  <2>1. HandleOk(file, sec, L)
    BY SMTT(60), <1>4 DEF Apart
  <2>2. file.dir_sector \in Sectors /\ file.dir_slot \in CellIndex
    BY ZenonT(60), <2>1 DEF HandleOk, Held
  <2>3. At(file) # At(of[h]) /\ At(file) \in Places
    BY SMTT(60), <1>4, <2>2, WriterAlone, PlacesAre DEF At, CellIndex
  <2>4. IsFile(sec[file.dir_sector][file.dir_slot])
    BY ZenonT(60), <2>1 DEF HandleOk
  <2>5. new[file.dir_sector][file.dir_slot] = sec[file.dir_sector][file.dir_slot]
    BY <2>2, <2>3, <2>4 DEF At
  <2>6. M[At(file)] = L[At(file)]
    BY <2>3
  <2> HIDE DEF file, sec, new
  <2>7. On(M, At(file)) = On(L, At(file)) /\ FirstOf(M, At(file)) = FirstOf(L, At(file))
    BY <2>6 DEF On, FirstOf
  <2>8. HandleOk(file, new, M)
    BY <2>1, <2>5, <2>6, <2>7 DEF HandleOk
  <2> QED
    BY <2>8 DEF file
<1>5. Covered(new, M, Opened(of))
  <2>1. Covered(sec, L, Opened(of)) /\ At(of[h]) \in Opened(of)
    BY DEF Apart, Opened
  <2>2. ASSUME Minds("mix"), NEW s \in Sectors, NEW k \in CellIndex, IsFile(new[s][k]), <<s, k>> \notin Opened(of)
        PROVE  Len(M[<<s, k>>]) = SectorsFor(new[s][k].size)
    <3>1. <<s, k>> # At(of[h]) /\ <<s, k>> \in Places
      BY <2>1, <2>2, PlacesAre DEF CellIndex
    <3>2. IsFile(sec[s][k]) /\ new[s][k] = sec[s][k] /\ M[<<s, k>>] = L[<<s, k>>]
      BY <2>2, <3>1
    <3> QED
      BY <2>1, <2>2, <3>2 DEF Covered
  <2> QED
    BY <2>2 DEF Covered
<1> HIDE DEF sec
<1> QED
  BY <1>2, <1>3, <1>4, <1>5 DEF Apart

(* A handle is closed whose entry knows its first sector.                  *)
LEMMA ApartClosed ==
  ASSUME NEW io, NEW of, NEW h, NEW L, Apart(io, of, h, L),
         io.disk.sector[of[h].dir_sector][of[h].dir_slot].first_sector = FirstOf(L, At(of[h])),
         Minds("mix") =>
            Len(L[At(of[h])]) = SectorsFor(io.disk.sector[of[h].dir_sector][of[h].dir_slot].size)
  PROVE  Sane(io, [of EXCEPT ![h] = Closed], L)
<1> DEFINE to == [of EXCEPT ![h] = Closed]
           sec == io.disk.sector
<1>1. /\ of \in [Slots -> {Closed} \cup Held] /\ h \in Slots /\ IsOpen(of, h)
      /\ Fine(Values, io, L, Opened(of)) /\ L[TakenAt] = <<>> /\ Alone(of) /\ EmptySized(sec)
      /\ Covered(sec, L, Opened(of))
  BY SMTT(60) DEF Apart
<1>2. \A g \in Slots : g # h /\ IsOpen(of, g) => HandleOk(of[g], sec, L)
  BY DEF Apart
<1>3. to \in [Slots -> {Closed} \cup Held]
  BY <1>1
<1>4. (\A g \in Slots : g # h => to[g] = of[g]) /\ to[h] = Closed
  BY <1>1
<1>5. /\ sec[of[h].dir_sector][of[h].dir_slot].first_sector = FirstOf(L, At(of[h]))
      /\ Minds("mix") => Len(L[At(of[h])]) = SectorsFor(sec[of[h].dir_sector][of[h].dir_slot].size)
  OBVIOUS
<1> HIDE DEF to
<1>6. ~IsOpen(to, h) /\ \A g \in Slots : g # h => (IsOpen(to, g) <=> IsOpen(of, g))
  BY <1>4 DEF IsOpen, Closed
<1>7. Opened(of) \ Opened(to) \subseteq {At(of[h])}
  BY <1>4, <1>6 DEF Opened
<1>8. Fine(Values, io, L, Opened(to))
  <2>0. Repeats \notin Opened(of)
    BY <1>1, NamesDoNotRepeat
  <2>1. Tidy(sec, L, Opened(of))
    BY <1>1 DEF Fine
  <2>2. \A s \in Sectors, k \in CellIndex :
            IsEntry(sec[s][k]) /\ <<s, k>> \in Opened(of) \ Opened(to) => sec[s][k].first_sector = FirstOf(L, <<s, k>>)
    BY <1>5, <1>7 DEF At
  <2>3. Repeats \in Opened(of) => Repeats \in Opened(to)
    BY <2>0
  <2> HIDE DEF sec
  <2>4. Tidy(sec, L, Opened(to))
    BY <2>1, <2>2, <2>3, TidyKnown
  <2> QED
    BY <1>1, <2>4 DEF Fine, sec
<1> HIDE DEF sec
<1>9. \A g \in Slots : IsOpen(to, g) => HandleOk(to[g], sec, L)
  BY <1>2, <1>4, <1>6
<1>10. Alone(to)
  BY <1>1, <1>4, <1>6 DEF Alone
<1>12. Covered(sec, L, Opened(to))
  <2> SUFFICES ASSUME Minds("mix"), NEW s \in Sectors, NEW k \in CellIndex, IsFile(sec[s][k]),
                      <<s, k>> \notin Opened(to)
               PROVE  Len(L[<<s, k>>]) = SectorsFor(sec[s][k].size)
    BY DEF Covered
  <2>1. CASE <<s, k>> \in Opened(of)
    <3>1. <<s, k>> = At(of[h])
      BY <1>7, <2>1
    <3>2. s = of[h].dir_sector /\ k = of[h].dir_slot
      BY <3>1 DEF At
    <3> QED
      BY <1>5, <3>1, <3>2
  <2>2. CASE <<s, k>> \notin Opened(of)
    BY <1>1, <2>2 DEF Covered
  <2> QED
    BY <2>1, <2>2
<1>11. Sane(io, to, L)
  BY <1>1, <1>3, <1>8, <1>9, <1>10, <1>12 DEF Sane, sec
<1> QED
  BY SMTT(60), <1>11 DEF to

(* The sectors of an open file hold no entries.                            *)
LEMMA FileData ==
  ASSUME NEW io, NEW of, NEW h, NEW L, Apart(io, of, h, L), NEW n \in On(L, At(of[h]))
  PROVE  /\ n \in Sectors /\ io.disk.sector[n] \in Contents(Values)
         /\ \A k \in CellIndex : ~IsEntry(io.disk.sector[n][k])
<1> DEFINE sec == io.disk.sector
           p == At(of[h])
<1>1. /\ Laid(io.disk.fat, L) /\ Tidy(sec, L, Opened(of)) /\ sec \in [Sectors -> Contents(Values)]
      /\ L \in [Places -> Seq(Sectors)] /\ p \in Places
      /\ of[h].dir_sector \in Sectors /\ of[h].dir_slot \in CellIndex
      /\ p = <<of[h].dir_sector, of[h].dir_slot>>
      /\ IsFile(sec[of[h].dir_sector][of[h].dir_slot])
  BY SMTT(60), IOsAre DEF Apart, Fine, Laid, At
<1>2. p \notin Dirs(sec)
  BY <1>1, DirsAre DEF IsFile
<1>3. n \in Sectors
  BY <1>1, OnSectors
<1>4. n \in On(L, p)
  OBVIOUS
<1> HIDE DEF p, sec
<1>5. ASSUME NEW d \in Dirs(sec)
      PROVE  n \notin On(L, d)
  <2>1. d \in Places /\ d # p
    BY <1>2, <1>5, DirsAre
  <2> QED
    BY <1>1, <1>4, <2>1, OnDisjoint
<1>6. \A k \in CellIndex : ~IsEntry(sec[n][k])
  BY <1>1, <1>3, <1>5, NoEntryElsewhere
<1> QED
  BY SMTT(60), <1>1, <1>3, <1>6 DEF sec

(* The buffer of a handle.                                                 *)
Buffered(file, L, p) ==
    /\ file.buffer \in Contents(Values) /\ \A k \in CellIndex : ~IsEntry(file.buffer[k])
    /\ file.buffer_sector = NO_SECTOR \/ file.buffer_sector \in On(L, p)

(* flush_buffer writes the buffer to a sector of the file.                 *)
LEMMA Flushes ==
  ASSUME NEW io, NEW of, NEW h, NEW L, Apart(io, of, h, L),
         NEW file, Buffered(file, L, At(of[h])), file.buffer_dirty => of[h].mode # MODE_READ
  PROVE  /\ Apart(flush_buffer(io, file), of, h, L)
         /\ flush_buffer(io, file).disk.fat = io.disk.fat
         /\ SameEntries(io.disk.sector, flush_buffer(io, file).disk.sector)
<1> DEFINE to == flush_buffer(io, file)
           sec == io.disk.sector
           n == file.buffer_sector
<1>1. CASE ~(file.buffer_dirty /\ file.buffer_sector # NO_SECTOR)
  <2>1. to = io
    BY <1>1 DEF flush_buffer
  <2> QED
    BY <2>1 DEF SameEntries
<1>2. ASSUME file.buffer_dirty, n # NO_SECTOR
      PROVE  Apart(to, of, h, L) /\ to.disk.fat = io.disk.fat /\ SameEntries(sec, to.disk.sector)
  <2>1. to = write_sector(io, n, file.buffer)
    BY <1>2 DEF flush_buffer
  <2>2. n \in On(L, At(of[h]))
    BY <1>2 DEF Buffered
  <2>3. n \in Sectors /\ \A k \in CellIndex : ~IsEntry(sec[n][k])
    BY <2>2, FileData
  <2>4. /\ Fine(Values, write_sector(io, n, file.buffer), L, Opened(of))
        /\ write_sector(io, n, file.buffer).disk.sector = [io.disk.sector EXCEPT ![n] = file.buffer]
        /\ write_sector(io, n, file.buffer).disk.fat = io.disk.fat
    <3>1. Fine(Values, io, L, Opened(of)) /\ file.buffer \in Contents(Values)
          /\ \A k \in CellIndex : ~IsEntry(file.buffer[k])
      BY DEF Apart, Buffered
    <3> HIDE DEF n
    <3> QED
      BY <2>3, <3>1, FineData
  <2> DEFINE new == to.disk.sector
  <2>5. new = [sec EXCEPT ![n] = file.buffer] /\ sec \in [Sectors -> Contents(Values)]
    BY <2>1, <2>4, IOsAre DEF Apart, Fine
  <2>6. \A k \in CellIndex : ~IsEntry(file.buffer[k])
    BY DEF Buffered
  <2> HIDE DEF new, sec, n, to
  <2>7. new[n] = file.buffer /\ \A s \in Sectors : s # n => new[s] = sec[s]
    BY <2>3, <2>5
  <2>8. SameEntries(sec, new)
    <3> SUFFICES ASSUME NEW s \in Sectors, NEW k \in CellIndex
                 PROVE  /\ IsEntry(new[s][k]) <=> IsEntry(sec[s][k])
                        /\ IsEntry(sec[s][k]) => new[s][k] = sec[s][k]
      BY DEF SameEntries
    <3>1. CASE s = n
      BY <2>3, <2>6, <2>7, <3>1
    <3>2. CASE s # n
      BY <2>7, <3>2
    <3> QED
      BY <3>1, <3>2
  <2>9. EmptySized(new)
    <3>1. EmptySized(sec)
      BY DEF Apart, sec
    <3> QED
      BY <2>8, <3>1 DEF EmptySized, SameEntries, IsFile
  <2>10. \A s \in Sectors, k \in CellIndex :
            /\ IsFile(new[s][k]) <=> IsFile(sec[s][k])
            /\ IsFile(sec[s][k]) /\ <<s, k>> # At(of[h]) => new[s][k] = sec[s][k]
    BY <2>8 DEF SameEntries, IsFile
  <2>11. Fine(Values, to, L, Opened(of)) /\ to.disk.fat = io.disk.fat
    BY <2>1, <2>4
  <2>12. Apart(to, of, h, L)
    BY <1>2, <2>9, <2>10, <2>11, ApartMoves DEF sec, new
  <2> QED
    BY <2>8, <2>11, <2>12 DEF new
<1> QED
  BY <1>1, <1>2

(* Handles do not depend on data.                                          *)
LEMMA HandleStays ==
  ASSUME NEW file, NEW sec, NEW L, HandleOk(file, sec, L), NEW to, SameEntries(sec, to)
  PROVE  HandleOk(file, to, L) /\ Buffered(file, L, At(file))
<1>1. file.dir_sector \in Sectors /\ file.dir_slot \in CellIndex /\ file.buffer \in Contents(Values)
  BY DEF HandleOk, Held
<1>2. to[file.dir_sector][file.dir_slot] = sec[file.dir_sector][file.dir_slot]
  BY <1>1 DEF HandleOk, SameEntries, IsFile
<1>3. HandleOk(file, to, L)
  BY <1>2 DEF HandleOk
<1> QED
  BY <1>1, <1>3 DEF HandleOk, Buffered

(* The entry that a modified file is saved as.                             *)
Saved(entry, file) == [entry EXCEPT !.first_sector = file.first_sector, !.size = file.file_size]

(* It is an entry of a file.                                               *)
LEMMA SavedIs ==
  ASSUME NEW V, NEW entry \in CellSet(V), IsFile(entry), NEW file, file \in Held
  PROVE  /\ Saved(entry, file) \in CellSet(V) /\ IsFile(Saved(entry, file))
         /\ Saved(entry, file).name = entry.name /\ Saved(entry, file).first_sector = file.first_sector
         /\ Saved(entry, file).size = file.file_size
<1> DEFINE E == [kind : {"dirent"}, name : Names, dir : BOOLEAN,
                 first_sector : Sectors \cup {NO_SECTOR}, size : Nat]
           new == Saved(entry, file)
<1>1. entry \in E /\ ~entry.dir
  BY DEF CellSet, IsFile, IsEntry, Zero
<1>2. file.first_sector \in Sectors \cup {NO_SECTOR} /\ file.file_size \in Nat
  BY DEF Held
<1>3. new \in E
  BY <1>1, <1>2 DEF Saved
<1>4. /\ new.name = entry.name /\ new.first_sector = file.first_sector /\ new.dir = entry.dir
      /\ new.size = file.file_size
  BY <1>1 DEF Saved
<1> HIDE DEF new
<1>5. new \in CellSet(V)
  BY <1>3 DEF CellSet
<1>6. IsFile(new)
  BY <1>1, <1>3, <1>4 DEF IsFile, IsEntry
<1> QED
  BY <1>4, <1>5, <1>6 DEF new

(* FineSaved, in these words.                                              *)
LEMMA EntrySaved ==
  ASSUME NEW V, NEW io, NEW L, NEW W, Fine(V, io, L, W),
         NEW s \in Sectors, NEW k \in CellIndex,
         IsEntry(io.disk.sector[s][k]), ~io.disk.sector[s][k].dir,
         NEW entry \in CellSet(V), IsEntry(entry), ~entry.dir, entry.name = io.disk.sector[s][k].name,
         entry.first_sector = FirstOf(L, <<s, k>>)
  PROVE  /\ Fine(V, write_dirent_at(io, s, k, entry), L, W)
         /\ write_dirent_at(io, s, k, entry).disk.sector = Put(io.disk.sector, s, k, entry)
BY FineSaved DEF Put

(* Only one cell changes.                                                  *)
LEMMA PutIs ==
  ASSUME NEW V, NEW sec \in [Sectors -> Contents(V)], NEW s \in Sectors, NEW k \in CellIndex, NEW cell
  PROVE  /\ Put(sec, s, k, cell)[s][k] = cell
         /\ \A t \in Sectors, j \in CellIndex : <<t, j>> # <<s, k>> => Put(sec, s, k, cell)[t][j] = sec[t][j]
BY DEF Put, Contents

(* The entry of a modified file is told its first sector and its size.     *)
LEMMA Saves ==
  ASSUME NEW io, NEW of, NEW h, NEW L, Apart(io, of, h, L), HandleOk(of[h], io.disk.sector, L)
  PROVE  Sane(SaveEntry(io, of[h]), [of EXCEPT ![h] = Closed], L)
<1> DEFINE file == of[h]
           s == file.dir_sector
           k == file.dir_slot
           sec == io.disk.sector
           entry == sec[s][k]
           new == Saved(entry, file)
           to == write_dirent_at(io, s, k, new)
           p == At(file)
<1>1. /\ s \in Sectors /\ k \in CellIndex /\ file \in Held /\ IsFile(entry) /\ p = <<s, k>> /\ p \in Places
      /\ Fine(Values, io, L, Opened(of)) /\ sec \in [Sectors -> Contents(Values)]
      /\ file.first_sector = FirstOf(L, p) /\ L \in [Places -> Seq(Sectors)] /\ EmptySized(sec)
  BY ZenonT(60), IOsAre DEF Apart, HandleOk, Fine, Laid, At
<1>2. read_dirent_at(io, s, k) = entry /\ entry.kind = "dirent"
  BY <1>1 DEF read_dirent_at, IsFile, IsEntry
<1>3. entry \in CellSet(Values)
  BY SMTT(60), <1>1 DEF Contents
<1>loc. Located(file, entry, L[p])
  BY ZenonT(60) DEF HandleOk
<1>4. CASE ~file.modified
  <2>1. SaveEntry(io, file) = io
    BY SMTT(60), <1>4 DEF SaveEntry
  <2>2. entry.first_sector = FirstOf(L, p)
    BY ZenonT(60), <1>1, <1>4 DEF HandleOk
  <2>4. Minds("mix") => Len(L[p]) = SectorsFor(entry.size)
    BY SMTT(60), <1>4, <1>loc DEF Located
  <2>3. Sane(io, [of EXCEPT ![h] = Closed], L)
    BY ZenonT(60), <2>2, <2>4, ApartClosed
  <2> QED
    BY <2>1, <2>3
<1>5. ASSUME file.modified
      PROVE  Sane(SaveEntry(io, file), [of EXCEPT ![h] = Closed], L)
  <2>1. SaveEntry(io, file) = to
    BY SMTT(60), <1>2, <1>5 DEF SaveEntry, Saved
  <2>2. file.mode # MODE_READ /\ L[p] # <<>>
    BY <1>5 DEF HandleOk
  <2>3. FirstOf(L, p) # NO_SECTOR
    <3>1. L[p][1] \in Sectors /\ FirstOf(L, p) = L[p][1]
      BY <1>1, <2>2 DEF FirstOf
    <3>2. ~EndsChain(L[p][1])
      BY <3>1, SectorsAre
    <3> QED
      BY <3>1, <3>2 DEF EndsChain
  <2>4. /\ new \in CellSet(Values) /\ IsFile(new) /\ new.name = entry.name
        /\ new.first_sector = FirstOf(L, p) /\ new.size = file.file_size
    <3>1. file \in Held /\ IsFile(entry) /\ file.first_sector = FirstOf(L, p)
      BY <1>1
    <3> HIDE DEF file, entry, p
    <3> QED
      BY <1>3, <3>1, SavedIs
  <2> HIDE DEF new
  <2>5. Fine(Values, to, L, Opened(of)) /\ to.disk.sector = Put(sec, s, k, new)
    <3>1. /\ s \in Sectors /\ k \in CellIndex /\ p = <<s, k>> /\ Fine(Values, io, L, Opened(of))
          /\ IsEntry(sec[s][k]) /\ ~sec[s][k].dir /\ new \in CellSet(Values) /\ IsEntry(new) /\ ~new.dir
          /\ new.name = sec[s][k].name /\ new.first_sector = FirstOf(L, p)
      BY ZenonT(60), <1>1, <2>4 DEF IsFile
    <3> HIDE DEF file, s, k, p
    <3> QED
      BY SMTT(60), <3>1, EntrySaved
  <2>6. /\ to.disk.sector[s][k] = new
        /\ \A t \in Sectors, j \in CellIndex : <<t, j>> # p => to.disk.sector[t][j] = sec[t][j]
    <3>1. s \in Sectors /\ k \in CellIndex /\ p = <<s, k>> /\ sec \in [Sectors -> Contents(Values)]
      BY <1>1
    <3> HIDE DEF file, s, k, p, sec
    <3>2. /\ Put(sec, s, k, new)[s][k] = new
          /\ \A t \in Sectors, j \in CellIndex : <<t, j>> # <<s, k>> => Put(sec, s, k, new)[t][j] = sec[t][j]
      BY <3>1, PutIs
    <3> QED
      BY <2>5, <3>1, <3>2
  <2> HIDE DEF to, entry
  <2>7. EmptySized(to.disk.sector)
    <3> SUFFICES ASSUME NEW t \in Sectors, NEW j \in CellIndex, IsFile(to.disk.sector[t][j]),
                        to.disk.sector[t][j].first_sector = NO_SECTOR
                 PROVE  to.disk.sector[t][j].size = 0
      BY DEF EmptySized
    <3>1. <<t, j>> # p
      BY <1>1, <2>3, <2>4, <2>6
    <3> QED
      BY <1>1, <2>6, <3>1 DEF EmptySized
  <2>8. \A t \in Sectors, j \in CellIndex :
            /\ IsFile(to.disk.sector[t][j]) <=> IsFile(sec[t][j])
            /\ IsFile(sec[t][j]) /\ <<t, j>> # p => to.disk.sector[t][j] = sec[t][j]
    <3> SUFFICES ASSUME NEW t \in Sectors, NEW j \in CellIndex
                 PROVE  /\ IsFile(to.disk.sector[t][j]) <=> IsFile(sec[t][j])
                        /\ IsFile(sec[t][j]) /\ <<t, j>> # p => to.disk.sector[t][j] = sec[t][j]
      OBVIOUS
    <3>1. CASE <<t, j>> # p
      BY <2>6, <3>1
    <3>2. CASE <<t, j>> = p
      <4>1. t = s /\ j = k
        BY <1>1, <3>2
      <4>2. IsFile(sec[s][k])
        BY <1>1 DEF entry
      <4> HIDE DEF sec, s, k
      <4> QED
        BY <2>4, <2>6, <3>2, <4>1, <4>2
    <3> QED
      BY <3>1, <3>2
  <2>9. Apart(to, of, h, L)
    BY <2>2, <2>5, <2>7, <2>8, ApartMoves
  <2>10. to.disk.sector[s][k].first_sector = FirstOf(L, p)
    BY <2>4, <2>6
  <2>12. Minds("mix") => Len(L[p]) = SectorsFor(to.disk.sector[s][k].size)
    BY SMTT(60), <1>loc, <2>4, <2>6 DEF Located
  <2>11. Sane(to, [of EXCEPT ![h] = Closed], L)
    BY ZenonT(60), <2>9, <2>10, <2>12, ApartClosed
  <2> QED
    BY <2>1, <2>11
<1> QED
  BY SMTT(60), <1>4, <1>5

(* file_close.                                                             *)
LEMMA CloseStep ==
  ASSUME Mindful, Consistent, NEW h \in Slots, FileClose(h)
  PROVE  Consistent'
<1>1. PICK L : Sane(Now, open_files, L) /\ Fine(Values, Now, L, Opened(open_files)) /\ L[TakenAt] = <<>>
  BY ConsistentIs
<1>2. PICK io : /\ io = Closing(Now, open_files[h]) /\ Finish(io, "close", 0)
                /\ open_files' = [open_files EXCEPT ![h] = Closed] /\ open_files[h].in_use
  BY DEF FileClose
<1>3. Apart(Now, open_files, h, L) /\ HandleOk(open_files[h], Now.disk.sector, L)
  BY <1>1, <1>2, ApartFrom
<1>4. PICK mid : mid = flush_buffer(Now, open_files[h])
  OBVIOUS
<1>5. Buffered(open_files[h], L, At(open_files[h]))
  BY SMTT(60), <1>3, HandleStays DEF SameEntries
<1>6. open_files[h].buffer_dirty => open_files[h].mode # MODE_READ
  BY ZenonT(60), <1>3 DEF HandleOk
<1>7. Apart(mid, open_files, h, L) /\ SameEntries(Now.disk.sector, mid.disk.sector)
  BY <1>3, <1>4, <1>5, <1>6, Flushes
<1>8. HandleOk(open_files[h], mid.disk.sector, L)
  BY <1>3, <1>7, HandleStays
<1>9. io = SaveEntry(mid, open_files[h])
  BY <1>2, <1>4 DEF Closing
<1>10. Sane(io, [open_files EXCEPT ![h] = Closed], L)
  BY <1>7, <1>8, <1>9, Saves
<1>11. PICK of : of = [open_files EXCEPT ![h] = Closed]
  OBVIOUS
<1> QED
  BY <1>2, <1>10, <1>11, Finishes

(* A read or a write of several bytes under way.                           *)
Jobs == [io : IOs(Contents(Values)), file : Held, read : Seq(CellSet(Values)),
         written : Nat, stopped : BOOLEAN]

(* What holds of a handle in the middle of a write, too.                   *)
HandleNear(file, sec, L) ==
    /\ file \in Held
    /\ IsFile(sec[file.dir_sector][file.dir_slot])
    /\ file.first_sector = FirstOf(L, At(file))
    /\ file.current_sector \in On(L, At(file)) \/ (L[At(file)] = <<>> /\ file.current_sector = NO_SECTOR)
    /\ Buffered(file, L, At(file))
    /\ L[At(file)] = <<>> => file.position = 0

(* What does not hold between a file's first sector being taken, or its    *)
(* cursor being moved on, and the byte being put in its buffer.            *)
Settled(file, sec, L) ==
    /\ L[At(file)] = <<>> => ~file.modified
    /\ ~file.modified => sec[file.dir_sector][file.dir_slot].first_sector = file.first_sector
    /\ file.mode = MODE_READ => ~file.modified /\ ~file.buffer_dirty
    /\ Located(file, sec[file.dir_sector][file.dir_slot], L[At(file)])

(* The two together are what holds between calls.                          *)
LEMMA HandleParts ==
  ASSUME NEW file, NEW sec, NEW L
  PROVE  HandleOk(file, sec, L) <=> HandleNear(file, sec, L) /\ Settled(file, sec, L)
<1>1. file \in Held => file.buffer \in Contents(Values)
  BY DEF Held
<1> QED
  BY <1>1 DEF HandleOk, HandleNear, Settled, Buffered

(* The state while file h is being read or written: the rest is sane, and  *)
(* the handle is near to it.                                               *)
Near(at, of, h, L) ==
    /\ at \in Jobs /\ Apart(at.io, of, h, L) /\ HandleNear(at.file, at.io.disk.sector, L)
    /\ At(at.file) = At(of[h]) /\ at.file.mode = of[h].mode
    /\ at.file.buffer_dirty => of[h].mode # MODE_READ

Working(at, of, h, L) == Near(at, of, h, L) /\ Settled(at.file, at.io.disk.sector, L)

Workings(of, h) == {at \in Jobs : \E L : Working(at, of, h, L)}

(* Handles that differ in their buffers only.                              *)
SameHandle(f, g) ==
    /\ g.in_use = f.in_use /\ g.mode = f.mode /\ g.modified = f.modified
    /\ g.dir_sector = f.dir_sector /\ g.dir_slot = f.dir_slot
    /\ g.first_sector = f.first_sector /\ g.current_sector = f.current_sector
    /\ g.file_size = f.file_size /\ g.position = f.position

(* What load_buffer leaves.                                                *)
Loads(at, in, of, h, L) ==
    /\ in \in Jobs /\ Apart(in.io, of, h, L)
    /\ in.io.disk.fat = at.io.disk.fat /\ SameEntries(at.io.disk.sector, in.io.disk.sector)
    /\ Buffered(in.file, L, At(of[h])) /\ SameHandle(at.file, in.file)
    /\ in.file.buffer_dirty => at.file.buffer_dirty
    /\ in.stopped = at.stopped /\ in.written = at.written

(* load_buffer writes the old buffer if it has to and reads the sector at  *)
(* the cursor.                                                             *)
LEMMA LoadBuffer ==
  ASSUME NEW at, NEW of, NEW h, NEW L, Near(at, of, h, L), at.file.current_sector # NO_SECTOR
  PROVE  Loads(at, load_buffer(at), of, h, L)
<1> DEFINE cur == at.file.current_sector
           mid == flush_buffer(at.io, at.file)
           in == load_buffer(at)
<1>1. /\ at \in Jobs /\ at.file \in Held /\ Apart(at.io, of, h, L) /\ Buffered(at.file, L, At(of[h]))
      /\ at.file.buffer_dirty => of[h].mode # MODE_READ
  BY DEF Near, HandleNear
<1>2. cur \in On(L, At(of[h]))
  BY DEF Near, HandleNear
<1>3. CASE at.file.buffer_sector = cur
  <2>1. in = at
    BY <1>3 DEF load_buffer
  <2> QED
    BY <1>1, <2>1 DEF Loads, SameEntries, SameHandle
<1>4. ASSUME at.file.buffer_sector # cur
      PROVE  Loads(at, in, of, h, L)
  <2>1. Apart(mid, of, h, L) /\ mid.disk.fat = at.io.disk.fat /\ SameEntries(at.io.disk.sector, mid.disk.sector)
    BY SMTT(60), <1>1, Flushes
  <2>2. mid \in IOs(Contents(Values))
    BY <2>1 DEF Apart, Fine
  <2> DEFINE cells == mid.disk.sector[cur]
  <2>3. cur \in Sectors /\ cells \in Contents(Values) /\ \A k \in CellIndex : ~IsEntry(cells[k])
    BY <1>2, <2>1, FileData
  <2> HIDE DEF mid
  <2>4. Flushed(at) = [at EXCEPT !.io = mid, !.file.buffer_dirty = FALSE]
    BY DEF Flushed, mid
  <2>5. Flushed(at).io = mid
    BY <1>1, <2>4 DEF Jobs
  <2>6. in = [[at EXCEPT !.io = mid, !.file.buffer_dirty = FALSE]
                EXCEPT !.file.buffer = cells, !.file.buffer_sector = cur]
    BY <1>4, <2>4, <2>5 DEF load_buffer
  <2> HIDE DEF in, cells
  <2>7. /\ in.io = mid /\ in.stopped = at.stopped /\ in.written = at.written /\ in.read = at.read
        /\ SameHandle(at.file, in.file)
        /\ in.file.buffer = cells /\ in.file.buffer_sector = cur /\ in.file.buffer_dirty = FALSE
    BY <1>1, <2>6 DEF Jobs, Held, SameHandle
  <2>8. in \in Jobs
    BY <1>1, <2>2, <2>3, <2>6 DEF Jobs, Held
  <2>9. Buffered(in.file, L, At(of[h]))
    BY <1>2, <2>3, <2>7 DEF Buffered
  <2> QED
    BY <2>1, <2>7, <2>8, <2>9 DEF Loads
<1> QED
  BY <1>3, <1>4

(* What the FAT holds for a sector of a file that is not its last.         *)
LEMMA NextOn ==
  ASSUME NEW io, NEW L, Laid(io.disk.fat, L), NEW p \in Places, NEW s \in On(L, p)
  PROVE  \/ fat_read(io, s) \in On(L, p) /\ fat_read(io, s) \notin {FAT_END, FAT_FREE}
         \/ fat_read(io, s) \in {FAT_END, FAT_FREE} /\ s = L[p][Len(L[p])]
<1>1. PICK i \in 1 .. Len(L[p]) : s = L[p][i]
  BY DEF On, Items
<1>2. L[p] \in Seq(Sectors) /\ Len(L[p]) \in Nat /\ s \in Sectors
  BY <1>1 DEF Laid
<1>3. fat_read(io, s) = io.disk.fat[L[p][i]]
  BY <1>1, <1>2 DEF fat_read
<1>4. CASE i = Len(L[p])
  <2>1. L[p] # <<>>
    BY <1>1, <1>2
  <2>2. io.disk.fat[L[p][Len(L[p])]] \in {FAT_END, FAT_FREE}
    BY <2>1 DEF Laid
  <2> QED
    BY <1>1, <1>3, <1>4, <2>2
<1>5. CASE i # Len(L[p])
  <2>1. i \in 1 .. Len(L[p]) - 1 /\ i + 1 \in 1 .. Len(L[p])
    BY <1>2, <1>5
  <2>2. io.disk.fat[L[p][i]] = L[p][i + 1]
    BY <2>1 DEF Laid
  <2>3. L[p][i + 1] \in Sectors /\ L[p][i + 1] \in On(L, p)
    BY <1>2, <2>1 DEF On, Items
  <2>4. ~EndsChain(L[p][i + 1])
    BY <2>3, SectorsAre
  <2> QED
    BY <1>3, <2>2, <2>3, <2>4 DEF EndsChain
<1> QED
  BY <1>4, <1>5

(* What the FAT holds for each sector of a chain.                          *)
LEMMA NextIs ==
  ASSUME NEW io, NEW L, Laid(io.disk.fat, L), NEW p \in Places, NEW i \in 1 .. Len(L[p])
  PROVE  /\ i < Len(L[p]) => fat_read(io, L[p][i]) = L[p][i + 1] /\ L[p][i + 1] \notin {FAT_END, FAT_FREE}
         /\ i = Len(L[p]) => fat_read(io, L[p][i]) \in {FAT_END, FAT_FREE}
<1>1. L[p] \in Seq(Sectors) /\ Len(L[p]) \in Nat /\ L[p][i] \in Sectors
  BY DEF Laid
<1>2. fat_read(io, L[p][i]) = io.disk.fat[L[p][i]]
  BY <1>1 DEF fat_read
<1>3. ASSUME i = Len(L[p]) PROVE fat_read(io, L[p][i]) \in {FAT_END, FAT_FREE}
  <2>1. L[p] # <<>>
    BY <1>1, <1>3
  <2>2. io.disk.fat[L[p][Len(L[p])]] \in {FAT_END, FAT_FREE}
    BY <2>1 DEF Laid
  <2> QED
    BY <1>2, <1>3, <2>2
<1>4. ASSUME i < Len(L[p])
      PROVE  fat_read(io, L[p][i]) = L[p][i + 1] /\ L[p][i + 1] \notin {FAT_END, FAT_FREE}
  <2>1. i \in 1 .. Len(L[p]) - 1 /\ i + 1 \in 1 .. Len(L[p])
    BY <1>1, <1>4
  <2>2. io.disk.fat[L[p][i]] = L[p][i + 1]
    BY <2>1 DEF Laid
  <2>3. L[p][i + 1] \in Sectors
    BY <1>1, <2>1
  <2>4. ~EndsChain(L[p][i + 1])
    BY <2>3, SectorsAre
  <2> QED
    BY <1>2, <2>2, <2>4 DEF EndsChain
<1> QED
  BY <1>3, <1>4

(* The cursor goes on to the next sector of the chain, if there is one.    *)
StepsOn(q, s, t) ==
    \A i \in 1 .. Len(q) : s = q[i] => IF i < Len(q) THEN t = q[i + 1] ELSE t = s

Passes(f, g, q) ==
    IF g.position % Cells = 0 THEN StepsOn(q, f.current_sector, g.current_sector)
    ELSE g.current_sector = f.current_sector

(* The first byte is in the first sector.                                  *)
LEMMA OneSector ==
  0 \div Cells = 0
<1>1. Cells \in Nat \ {0} /\ 0 \in 0 .. Cells - 1 /\ 1 \in 1 .. 1 /\ (1 - 1) * Cells + 0 = 0
  BY DiskAssumption
<1>2. ((1 - 1) * Cells + 0) \div Cells = 1 - 1
  BY <1>1, Position
<1> QED
  BY <1>1, <1>2

(* A byte is read: the cursor is where it should be again.                 *)
LEMMA ReadLocates ==
  ASSUME NEW f \in Held, NEW g \in Held, NEW q \in Seq(Sectors), q # <<>>, NEW entry, Located(f, entry, q),
         f.mode = MODE_READ, f.position < f.file_size, g.position = f.position + 1, g.file_size = f.file_size,
         g.mode = f.mode, g.modified = f.modified, Passes(f, g, q)
  PROVE  Located(g, entry, q)
<1> SUFFICES ASSUME Minds("mix")
             PROVE  Located(g, entry, q)
  BY DEF Located
<1>1. f.position \in Nat /\ f.file_size \in Nat /\ g.position \in Nat /\ g.position > 0
  BY DEF Held
<1>2. /\ Len(q) = SectorsFor(f.file_size)
      /\ f.modified \/ f.file_size = entry.size
  BY DEF Located
<1>3. f.current_sector = q[CursorIndex(f)]
  BY DEF Located
<1> DEFINE i == f.position \div Cells
           j == g.position \div Cells
<1>4. i \in Nat /\ CursorIndex(f) = i + 1 /\ Len(q) = (f.file_size - 1) \div Cells + 1
      /\ (f.file_size - 1) \div Cells \in Nat
  <2>1. (f.file_size - 1) \div Cells \in Nat /\ Len(q) = (f.file_size - 1) \div Cells + 1
    <3>1. PICK n \in Nat : n = f.file_size
      BY <1>1
    <3>2. n > 0
      BY <1>1, <3>1
    <3>3. SectorsFor(n) = (n - 1) \div Cells + 1 /\ (n - 1) \div Cells \in Nat
      BY <3>2, SectorsForIs
    <3>4. Len(q) = SectorsFor(n) /\ (f.file_size - 1) \div Cells = (n - 1) \div Cells
      BY <1>2, <3>1
    <3> QED
      BY <3>3, <3>4
  <2>2. i \in Nat
    BY <1>1, DiskAssumption, Division
  <2>3. CursorIndex(f) = i + 1
    <3>1. CASE f.position = 0
      <4>1. 1 \in Nat /\ 1 > 0 /\ (1 - 1) \div Cells = 0
        BY OneSector
      <4> QED
        BY <3>1, <4>1 DEF CursorIndex
    <3>2. CASE f.position # 0
      BY <3>2 DEF CursorIndex
    <3> QED
      BY <3>1, <3>2
  <2> QED
    BY <2>1, <2>2, <2>3
<1>5. /\ g.position % Cells = 0 => j = i + 1
      /\ g.position % Cells # 0 => j = i
      /\ g.position - 1 = f.position
  <2>1. PICK p \in Nat : p = g.position
    BY <1>1
  <2>2. p > 0 /\ p - 1 = f.position
    BY <1>1, <2>1
  <2>3. /\ p % Cells = 0 => p \div Cells = (p - 1) \div Cells + 1
        /\ p % Cells # 0 => p \div Cells = (p - 1) \div Cells
    BY <2>2, NextByteIs
  <2> QED
    BY <2>1, <2>2, <2>3
<1>6. g.position < g.file_size => j <= (f.file_size - 1) \div Cells /\ j \in Nat
  BY <1>1, SectorsGrow, NextByteIs
<1>7. i <= (f.file_size - 1) \div Cells
  BY <1>1, SectorsGrow
<1>8. /\ CursorIndex(g) = IF g.position < g.file_size THEN j + 1 ELSE i + 1
  BY <1>1, <1>5 DEF CursorIndex
<1>9. g.position = g.file_size => Len(q) = i + 1
  BY <1>4, <1>5
<1> HIDE DEF i, j
<1>10. i + 1 \in 1 .. Len(q)
  BY <1>4, <1>7
<1>11. g.current_sector = q[CursorIndex(g)]
  <2>1. CASE g.position % Cells # 0
    BY <1>3, <1>4, <1>5, <1>8, <2>1 DEF Passes
  <2>2. CASE g.position % Cells = 0 /\ g.position < g.file_size
    <3>1. i + 1 < Len(q) /\ j = i + 1
      BY <1>4, <1>5, <1>6, <2>2
    <3> QED
      BY <1>3, <1>4, <1>8, <1>10, <2>2, <3>1 DEF Passes, StepsOn
  <2>3. CASE g.position % Cells = 0 /\ ~(g.position < g.file_size)
    <3>1. g.position = g.file_size
      BY <1>1, <2>3
    <3> QED
      BY <1>3, <1>4, <1>8, <1>9, <1>10, <2>3, <3>1 DEF Passes, StepsOn
  <2> QED
    BY <2>1, <2>2, <2>3
<1> QED
  BY <1>1, <1>2, <1>11 DEF Located

(* A chain that has a sector is not empty.                                 *)
LEMMA OnSome ==
  ASSUME NEW L \in [Places -> Seq(Sectors)], NEW p \in Places, NEW s \in On(L, p)
  PROVE  L[p] # <<>> /\ s \in Sectors /\ s # NO_SECTOR
<1>1. L[p] # <<>>
  BY ItemsAre DEF On
<1>2. s \in Sectors
  BY OnSectors
<1>3. ~EndsChain(s)
  BY <1>2, SectorsAre
<1> QED
  BY <1>1, <1>2, <1>3 DEF EndsChain

(* Moving within a file's chain,                                           *)
LEMMA HandleFollows ==
  ASSUME NEW f, NEW sec, NEW L \in [Places -> Seq(Sectors)], HandleNear(f, sec, L), At(f) \in Places,
         NEW g \in Held, g.dir_sector = f.dir_sector, g.dir_slot = f.dir_slot, g.first_sector = f.first_sector,
         Buffered(g, L, At(f)), g.current_sector \in On(L, At(f)),
         NEW new, SameEntries(sec, new)
  PROVE  HandleNear(g, new, L) /\ At(g) = At(f)
<1>1. At(g) = At(f)
  BY DEF At
<1>2. f.dir_sector \in Sectors /\ f.dir_slot \in CellIndex
  BY DEF HandleNear, Held
<1>3. IsFile(new[g.dir_sector][g.dir_slot])
  BY <1>2 DEF HandleNear, SameEntries, IsFile
<1>4. L[At(f)] # <<>>
  BY OnSome
<1> QED
  BY <1>1, <1>3, <1>4 DEF HandleNear

(* and not writing, is harmless.                                           *)
LEMMA SettledFollows ==
  ASSUME NEW f, NEW sec, NEW L, HandleNear(f, sec, L), Settled(f, sec, L),
         NEW g, g.dir_sector = f.dir_sector, g.dir_slot = f.dir_slot, g.first_sector = f.first_sector,
         g.modified = f.modified, g.mode = f.mode, g.buffer_dirty => f.buffer_dirty,
         Located(g, sec[f.dir_sector][f.dir_slot], L[At(f)]),
         NEW new, SameEntries(sec, new)
  PROVE  Settled(g, new, L)
<1>1. At(g) = At(f)
  BY DEF At
<1>2. f.dir_sector \in Sectors /\ f.dir_slot \in CellIndex
  BY DEF HandleNear, Held
<1>3. new[f.dir_sector][f.dir_slot] = sec[f.dir_sector][f.dir_slot]
  BY <1>2 DEF HandleNear, SameEntries, IsFile
<1> QED
  BY <1>1, <1>3 DEF Settled

(* No entry changes if nothing does.                                       *)
LEMMA SameSame ==
  ASSUME NEW sec
  PROVE  SameEntries(sec, sec)
BY DEF SameEntries

(* A handle with another position,                                         *)
LEMMA Positioned ==
  ASSUME NEW f \in Held, NEW n \in Nat
  PROVE  [f EXCEPT !.position = n] \in Held
BY DEF Held

(* or another cursor.                                                      *)
LEMMA Moves ==
  ASSUME NEW f \in Held, NEW s \in Sectors
  PROVE  [f EXCEPT !.current_sector = s] \in Held /\ [f EXCEPT !.current_sector = s].current_sector = s
BY DEF Held

(* The parts of a job.                                                     *)
LEMMA NearParts ==
  ASSUME NEW at, NEW of, NEW h, NEW L, Near(at, of, h, L)
  PROVE  /\ Laid(at.io.disk.fat, L) /\ L \in [Places -> Seq(Sectors)]
         /\ At(at.file) \in Places /\ At(of[h]) \in Places /\ h \in Slots
         /\ at \in Jobs /\ at.file \in Held /\ at.io \in IOs(Contents(Values))
BY ZenonT(60) DEF Near, Apart, Fine, Laid, HandleNear

(* One byte read: position moves on, then the sector after its last byte.  *)
ReadHere(here) ==
    [here EXCEPT !.read = Append(@, here.file.buffer[here.file.position % Cells]),
                 !.file.position = @ + 1]

(* A byte is read unless the file or its chain ends here.                  *)
Readable(at) == ~(at.stopped \/ at.file.position >= at.file.file_size \/ at.file.current_sector = NO_SECTOR)

(* A turn of the loop of file_read.                                        *)
LEMMA ReadByteIs ==
  ASSUME NEW at, NEW n
  PROVE  ReadByte(at, n) = IF Readable(at) THEN AfterByte(ReadHere(load_buffer(at)))
                           ELSE [at EXCEPT !.stopped = TRUE]
<1> DEFINE in == load_buffer(at)
           G(here) == AfterByte([here EXCEPT
                !.read = Append(@, here.file.buffer[here.file.position % Cells]),
                !.file.position = @ + 1])
<1>1. ReadByte(at, n) = IF ~Readable(at) THEN [at EXCEPT !.stopped = TRUE]
                        ELSE CHOOSE result \in {G(v) : v \in {in}} : TRUE
  <2> DEFINE stops == at.stopped \/ at.file.position >= at.file.file_size \/ at.file.current_sector = NO_SECTOR
  <2>1. ReadByte(at, n) = IF stops THEN [at EXCEPT !.stopped = TRUE]
                          ELSE CHOOSE result \in {G(v) : v \in {in}} : TRUE
    BY Zenon DEF ReadByte, Bind
  <2>2. Readable(at) <=> ~stops
    BY DEF Readable
  <2> HIDE DEF stops, G, in
  <2> QED
    BY <2>1, <2>2
<1>2. (CHOOSE result \in {G(v) : v \in {in}} : TRUE) = G(in)
  <2> HIDE DEF G, in
  <2> QED
    OBVIOUS
<1>3. G(in) = AfterByte(ReadHere(in))
  BY Zenon DEF ReadHere
<1> HIDE DEF G, in
<1>4. ReadByte(at, n) = IF Readable(at) THEN AfterByte(ReadHere(in)) ELSE [at EXCEPT !.stopped = TRUE]
  BY <1>1, <1>2, <1>3
<1> QED
  BY <1>4 DEF in

(* The call ends early.                                                    *)
LEMMA Stopped ==
  ASSUME NEW at, NEW of, NEW h, NEW L, Near(at, of, h, L), NEW to, to = [at EXCEPT !.stopped = TRUE]
  PROVE  /\ Near(to, of, h, L) /\ to.stopped
         /\ Working(at, of, h, L) => Working(to, of, h, L)
         /\ to.file = at.file /\ to.io = at.io
<1>1. /\ to.file = at.file /\ to.io = at.io /\ to.stopped /\ to \in Jobs
  BY DEF Near, Jobs
<1>2. Near(to, of, h, L)
  BY <1>1 DEF Near
<1> QED
  BY <1>1, <1>2 DEF Working

(* The sector after the last byte of one, or that one if it is the last.   *)
LEMMA StepsAre ==
  ASSUME NEW io, NEW L, Laid(io.disk.fat, L), NEW p \in Places, NEW s, NEW t,
         t = IF fat_read(io, s) \notin {FAT_END, FAT_FREE} THEN fat_read(io, s) ELSE s
  PROVE  StepsOn(L[p], s, t)
<1> SUFFICES ASSUME NEW i \in 1 .. Len(L[p]), s = L[p][i]
             PROVE  IF i < Len(L[p]) THEN t = L[p][i + 1] ELSE t = s
  BY DEF StepsOn
<1>1. /\ i < Len(L[p]) => fat_read(io, L[p][i]) = L[p][i + 1] /\ L[p][i + 1] \notin {FAT_END, FAT_FREE}
      /\ i = Len(L[p]) => fat_read(io, L[p][i]) \in {FAT_END, FAT_FREE}
  BY NextIs
<1>2. i < Len(L[p]) \/ i = Len(L[p])
  BY DEF Laid
<1> QED
  BY <1>1, <1>2

(* A turn keeps what it should.                                            *)
LEMMA ReadByteWorks ==
  ASSUME NEW at, NEW of, NEW h, NEW L, Working(at, of, h, L), NEW n, Minds("mix") => of[h].mode = MODE_READ
  PROVE  Working(ReadByte(at, n), of, h, L)
<1>0. Near(at, of, h, L) /\ Settled(at.file, at.io.disk.sector, L)
  BY DEF Working
<1>1. CASE ~Readable(at)
  <2>1. PICK to : to = [at EXCEPT !.stopped = TRUE]
    OBVIOUS
  <2>2. ReadByte(at, n) = to
    BY <1>1, <2>1, ReadByteIs
  <2>3. Working(to, of, h, L)
    BY <1>0, <2>1, Stopped
  <2> QED
    BY <2>2, <2>3
<1>2. ASSUME Readable(at)
      PROVE  Working(ReadByte(at, n), of, h, L)
  <2> DEFINE p == At(of[h])
             in == load_buffer(at)
             here == ReadHere(in)
             to == AfterByte(here)
  <2>1. ReadByte(at, n) = to
    BY <1>2, ReadByteIs
  <2>2. Loads(at, in, of, h, L) /\ at.file.current_sector # NO_SECTOR
    BY <1>0, <1>2, LoadBuffer DEF Readable
  <2> HIDE DEF in
  <2>3. /\ in \in Jobs /\ in.file \in Held /\ Apart(in.io, of, h, L) /\ SameHandle(at.file, in.file)
        /\ Buffered(in.file, L, p) /\ SameEntries(at.io.disk.sector, in.io.disk.sector)
        /\ in.file.buffer_dirty => at.file.buffer_dirty
    BY <2>2 DEF Loads, Jobs
  <2>4. in.file.position % Cells \in CellIndex /\ in.file.position \in Nat
    BY <2>3, DiskAssumption, Division DEF Held, CellIndex
  <2>5. in.file.buffer[in.file.position % Cells] \in CellSet(Values)
    BY <2>3, <2>4 DEF Held, Contents
  <2>6. /\ here \in Jobs /\ here.io = in.io
        /\ here.file = [in.file EXCEPT !.position = in.file.position + 1]
    <3> DEFINE byte == in.file.buffer[in.file.position % Cells]
    <3>1. here = [in EXCEPT !.read = Append(@, byte), !.file.position = @ + 1]
      BY DEF ReadHere
    <3> HIDE DEF here, byte
    <3>2. byte \in CellSet(Values)
      BY <2>5 DEF byte
    <3>3. Append(in.read, byte) \in Seq(CellSet(Values))
      BY <2>3, <3>2 DEF Jobs
    <3>4. here.file = [in.file EXCEPT !.position = in.file.position + 1] /\ here.io = in.io
      BY <2>3, <3>1 DEF Jobs
    <3>5. here.file \in Held
      <4>1. in.file.position + 1 \in Nat
        BY <2>4
      <4> QED
        BY <2>3, <3>4, <4>1, Positioned
    <3>6. here \in Jobs
      BY <2>3, <3>1, <3>3, <3>5 DEF Jobs
    <3> QED
      BY <3>4, <3>6
  <2> HIDE DEF here
  <2>7. /\ here.file \in Held /\ here.file.buffer = in.file.buffer /\ here.file.buffer_sector = in.file.buffer_sector
        /\ here.file.buffer_dirty = in.file.buffer_dirty
        /\ here.file.mode = at.file.mode /\ here.file.modified = at.file.modified
        /\ here.file.dir_sector = at.file.dir_sector /\ here.file.dir_slot = at.file.dir_slot
        /\ here.file.first_sector = at.file.first_sector /\ here.file.current_sector = at.file.current_sector
        /\ here.file.position = at.file.position + 1 /\ here.file.file_size = at.file.file_size
    BY ZenonT(60), <2>3, <2>6 DEF Held, SameHandle, Jobs
  <2>8. at.file.current_sector \in On(L, p)
    BY <1>0, <2>2 DEF Near, HandleNear
  <2>9. /\ to \in Jobs /\ to.io = here.io /\ to.file.current_sector \in On(L, p)
        /\ to.file \in Held /\ to.file.buffer = in.file.buffer /\ to.file.buffer_sector = in.file.buffer_sector
        /\ to.file.buffer_dirty = in.file.buffer_dirty
        /\ to.file.mode = at.file.mode /\ to.file.modified = at.file.modified
        /\ to.file.dir_sector = at.file.dir_sector /\ to.file.dir_slot = at.file.dir_slot
        /\ to.file.first_sector = at.file.first_sector
        /\ to.file.position = at.file.position + 1 /\ to.file.file_size = at.file.file_size
        /\ Passes(at.file, to.file, L[p])
    <3>0. Laid(here.io.disk.fat, L) /\ L \in [Places -> Seq(Sectors)] /\ p \in Places
      <4>1. Laid(in.io.disk.fat, L) /\ p \in Places
        BY <2>3 DEF Apart, Fine
      <4> QED
        BY <2>6, <4>1 DEF Laid
    <3>00. NextOf(here) = fat_read(here.io, at.file.current_sector)
      BY <2>7 DEF NextOf
    <3> HIDE DEF p
    <3>1. CASE ~(AtBoundary(here.file) /\ NextOf(here) \notin {FAT_END, FAT_FREE})
      <4>1. to = here
        BY <3>1 DEF AfterByte
      <4> HIDE DEF to
      <4>2. Passes(at.file, here.file, L[p])
        <5>1. CASE AtBoundary(here.file)
          <6>1. at.file.current_sector = IF fat_read(here.io, at.file.current_sector) \notin {FAT_END, FAT_FREE}
                                         THEN fat_read(here.io, at.file.current_sector) ELSE at.file.current_sector
            BY <3>00, <3>1, <5>1
          <6>2. StepsOn(L[p], at.file.current_sector, at.file.current_sector)
            BY <3>0, <6>1, StepsAre
          <6> QED
            BY <2>7, <5>1, <6>2 DEF Passes, AtBoundary
        <5>2. CASE ~AtBoundary(here.file)
          BY <2>7, <5>2 DEF Passes, AtBoundary
        <5> QED
          BY <5>1, <5>2
      <4> QED
        BY <2>6, <2>7, <2>8, <4>1, <4>2
    <3>2. CASE AtBoundary(here.file) /\ NextOf(here) \notin {FAT_END, FAT_FREE}
      <4>2. NextOf(here) \in On(L, p)
        <5>1. PICK io, s : io = here.io /\ s = at.file.current_sector
          OBVIOUS
        <5>2. Laid(io.disk.fat, L) /\ p \in Places /\ s \in On(L, p)
              /\ NextOf(here) = fat_read(io, s) /\ fat_read(io, s) \notin {FAT_END, FAT_FREE}
          BY <2>8, <3>0, <3>00, <3>2, <5>1
        <5>3. fat_read(io, s) \in On(L, p)
          BY <5>2, NextOn
        <5> QED
          BY <5>2, <5>3
      <4>3. NextOf(here) \in Sectors
        BY <3>0, <4>2, OnSome
      <4>31. StepsOn(L[p], at.file.current_sector, NextOf(here))
        <5>1. NextOf(here) = IF fat_read(here.io, at.file.current_sector) \notin {FAT_END, FAT_FREE}
                             THEN fat_read(here.io, at.file.current_sector) ELSE at.file.current_sector
          BY <3>00, <3>2
        <5> QED
          BY <3>0, <5>1, StepsAre
      <4>4. to = [here EXCEPT !.file.current_sector = NextOf(here)]
        BY <3>2 DEF AfterByte
      <4> DEFINE next == NextOf(here)
      <4> HIDE DEF next, to
      <4>5. to = [here EXCEPT !.file.current_sector = next] /\ next \in Sectors /\ next \in On(L, p)
        BY <4>2, <4>3, <4>4 DEF next
      <4>6. to.io = here.io /\ to.file = [here.file EXCEPT !.current_sector = next]
        BY <2>6, <4>5 DEF Jobs
      <4>7. to.file \in Held /\ to.file.current_sector = next
        BY ZenonT(60), <2>7, <4>5, <4>6, Moves
      <4>8. to \in Jobs
        BY <2>6, <4>5, <4>7 DEF Jobs
      <4>9. /\ to.file.buffer = here.file.buffer /\ to.file.buffer_sector = here.file.buffer_sector
            /\ to.file.buffer_dirty = here.file.buffer_dirty
            /\ to.file.mode = here.file.mode /\ to.file.modified = here.file.modified
            /\ to.file.dir_sector = here.file.dir_sector /\ to.file.dir_slot = here.file.dir_slot
            /\ to.file.first_sector = here.file.first_sector
            /\ to.file.position = here.file.position /\ to.file.file_size = here.file.file_size
        BY <2>7, <4>6 DEF Held
      <4>10. Passes(at.file, to.file, L[p])
        BY <3>2, <4>31, <4>7, <4>9 DEF Passes, AtBoundary, next
      <4> QED
        BY <2>7, <4>5, <4>6, <4>7, <4>8, <4>9, <4>10
    <3> QED
      BY <3>1, <3>2
  <2> HIDE DEF to
  <2>10. Buffered(to.file, L, p)
    BY <2>3, <2>9 DEF Buffered
  <2>11. SameEntries(at.io.disk.sector, to.io.disk.sector)
    BY <2>3, <2>6, <2>9
  <2>12. /\ At(at.file) = p /\ At(at.file) \in Places /\ L \in [Places -> Seq(Sectors)]
         /\ HandleNear(at.file, at.io.disk.sector, L)
    BY <1>0, NearParts DEF Near
  <2>13. HandleNear(to.file, to.io.disk.sector, L) /\ At(to.file) = p
    BY <2>9, <2>10, <2>11, <2>12, HandleFollows
  <2>140. Located(to.file, at.io.disk.sector[at.file.dir_sector][at.file.dir_slot], L[At(at.file)])
    <3> DEFINE entry == at.io.disk.sector[at.file.dir_sector][at.file.dir_slot]
    <3> SUFFICES ASSUME Minds("mix") PROVE Located(to.file, entry, L[p])
      BY SMTT(60), <2>12 DEF Located
    <3>1. Located(at.file, entry, L[p]) /\ at.file.mode = MODE_READ
      BY ZenonT(60), <1>0, <2>12 DEF Settled, Near
    <3>2. L[p] \in Seq(Sectors) /\ L[p] # <<>>
      BY <2>8, <2>12, OnSome
    <3>3. at.file.position < at.file.file_size /\ at.file \in Held
      <4>1. at.file \in Held
        BY <1>0 DEF Near, HandleNear
      <4>2. at.file.position \in Nat /\ at.file.file_size \in Nat /\ ~(at.file.position >= at.file.file_size)
        BY <1>2, <4>1 DEF Readable, Held
      <4> QED
        BY <4>1, <4>2
    <3> HIDE DEF entry, p
    <3>4. PICK f, g, q : f = at.file /\ g = to.file /\ q = L[p]
      OBVIOUS
    <3>5. /\ f \in Held /\ g \in Held /\ q \in Seq(Sectors) /\ q # <<>> /\ Located(f, entry, q)
          /\ f.mode = MODE_READ /\ f.position < f.file_size /\ g.position = f.position + 1
          /\ g.file_size = f.file_size /\ g.mode = f.mode /\ g.modified = f.modified /\ Passes(f, g, q)
      BY <2>9, <3>1, <3>2, <3>3, <3>4
    <3>6. Located(g, entry, q)
      BY SMTT(60), <3>5, ReadLocates
    <3> QED
      BY SMTT(60), <3>4, <3>6
  <2>14. Settled(to.file, to.io.disk.sector, L)
    BY ZenonT(60), <1>0, <2>3, <2>9, <2>11, <2>12, <2>140, SettledFollows
  <2>15. Near(to, of, h, L)
    BY <1>0, <2>3, <2>6, <2>9, <2>13 DEF Near
  <2> QED
    BY <2>1, <2>14, <2>15 DEF Working
<1> QED
  BY <1>1, <1>2

(* The states that a loop goes through.                                    *)
Reading(run, V, from, count) ==
    /\ run \in [0 .. count -> V] /\ run[0] = from
    /\ \A n \in 1 .. count : run[n] = ReadByte(run[n - 1], n)

(* What each byte preserves, a read of any number of bytes preserves.      *)
LEMMA ReadRuns ==
  ASSUME NEW V, NEW from \in V, NEW count \in Nat, \A v \in V : \A n \in 1 .. count : ReadByte(v, n) \in V
  PROVE  \E run : Reading(run, V, from, count) /\ Repeat(ReadByte, from, count) = run[count]
<1> DEFINE One(at, n) == Bind(at, LAMBDA v : ReadByte(v, n))
           IsRun(f) == f = [n \in 0 .. count |-> IF n = 0 THEN from ELSE One(f[n - 1], n)]
           R == CHOOSE f : IsRun(f)
           g == [n \in 1 .. count |-> [at \in V |-> ReadByte(at, n)]]
<1>1. \A at : \A n \in 1 .. count : One(at, n) = ReadByte(at, n)
  <2> SUFFICES ASSUME NEW at, NEW n \in 1 .. count PROVE One(at, n) = ReadByte(at, n)
    OBVIOUS
  <2> DEFINE G(v) == ReadByte(v, n)
  <2>1. One(at, n) = CHOOSE result \in {G(v) : v \in {at}} : TRUE
    BY Zenon DEF Bind
  <2> HIDE DEF G
  <2>2. (CHOOSE result \in {G(v) : v \in {at}} : TRUE) = G(at)
    OBVIOUS
  <2>3. One(at, n) = G(at)
    BY <2>1, <2>2
  <2> QED
    BY <2>3 DEF G
<1>2. \A n \in 1 .. count : \A v \in V : g[n][v] \in V /\ g[n][v] = ReadByte(v, n)
  OBVIOUS
<1>3. g \in [1 .. count -> [V -> V]]
  BY <1>2
<1> HIDE DEF g, One
<1>4. \E f : IsRun(f)
  <2>1. PICK f : Run(f, V, count, from, g)
    BY <1>3, Iterates
  <2>2. f \in [0 .. count -> V] /\ f[0] = from /\ \A n \in 1 .. count : f[n] = g[n][f[n - 1]]
    BY <2>1 DEF Run
  <2>3. \A n \in 1 .. count : f[n] = One(f[n - 1], n)
    <3> SUFFICES ASSUME NEW n \in 1 .. count PROVE f[n] = One(f[n - 1], n)
      OBVIOUS
    <3>1. f[n - 1] \in V
      BY <2>2
    <3> QED
      BY <3>1, <1>1, <1>2, <2>2
  <2>4. IsRun(f)
    BY <2>2, <2>3
  <2> QED
    BY <2>4, Zenon
<1>5. IsRun(R)
  <2> HIDE DEF IsRun
  <2> QED
    BY <1>4, Zenon
<1>6. Repeat(ReadByte, from, count) = R[count]
  BY Zenon DEF Repeat, One
<1> HIDE DEF R
<1>7. /\ R[0] = from
      /\ \A n \in 1 .. count : R[n] = ReadByte(R[n - 1], n)
  BY <1>1, <1>5
<1>75. R = [n \in 0 .. count |-> R[n]]
  BY <1>5
<1> HIDE DEF IsRun
<1>8. 0 .. count \subseteq {n \in 0 .. count : R[n] \in V}
  <2> DEFINE T == {n \in 0 .. count : R[n] \in V}
  <2>1. 0 \in T
    BY <1>7
  <2>2. \A n \in 1 .. count : n - 1 \in T => n \in T
    BY <1>7
  <2> HIDE DEF T
  <2> QED
    BY <2>1, <2>2, Induct DEF T
<1>9. Reading(R, V, from, count)
  BY <1>7, <1>75, <1>8 DEF Reading
<1> QED
  BY <1>6, <1>9

(* The loop of file_write.                                                 *)
Written(from, count, value) == Repeat(LAMBDA at, n : WriteByte(at, value), from, count)

Writing(run, V, from, count, value) ==
    /\ run \in [0 .. count -> V] /\ run[0] = from
    /\ \A n \in 1 .. count : run[n] = WriteByte(run[n - 1], value)

(* What each byte preserves, a write of any number of bytes preserves.     *)
LEMMA WriteRuns ==
  ASSUME NEW V, NEW from \in V, NEW count \in Nat, NEW value, \A v \in V : WriteByte(v, value) \in V
  PROVE  \E run : Writing(run, V, from, count, value) /\ Written(from, count, value) = run[count]
<1> DEFINE One(at, n) == Bind(at, LAMBDA v : WriteByte(v, value))
           IsRun(f) == f = [n \in 0 .. count |-> IF n = 0 THEN from ELSE One(f[n - 1], n)]
           R == CHOOSE f : IsRun(f)
           g == [n \in 1 .. count |-> [at \in V |-> WriteByte(at, value)]]
<1>1. \A at : \A n \in 1 .. count : One(at, n) = WriteByte(at, value)
  <2> SUFFICES ASSUME NEW at, NEW n \in 1 .. count PROVE One(at, n) = WriteByte(at, value)
    OBVIOUS
  <2> DEFINE G(v) == WriteByte(v, value)
  <2>1. One(at, n) = CHOOSE result \in {G(v) : v \in {at}} : TRUE
    BY Zenon DEF Bind
  <2> HIDE DEF G
  <2>2. (CHOOSE result \in {G(v) : v \in {at}} : TRUE) = G(at)
    OBVIOUS
  <2>3. One(at, n) = G(at)
    BY <2>1, <2>2
  <2> QED
    BY <2>3 DEF G
<1>2. \A n \in 1 .. count : \A v \in V : g[n][v] \in V /\ g[n][v] = WriteByte(v, value)
  OBVIOUS
<1>3. g \in [1 .. count -> [V -> V]]
  BY <1>2
<1> HIDE DEF g, One
<1>4. \E f : IsRun(f)
  <2>1. PICK f : Run(f, V, count, from, g)
    BY <1>3, Iterates
  <2>2. f \in [0 .. count -> V] /\ f[0] = from /\ \A n \in 1 .. count : f[n] = g[n][f[n - 1]]
    BY <2>1 DEF Run
  <2>3. \A n \in 1 .. count : f[n] = One(f[n - 1], n)
    <3> SUFFICES ASSUME NEW n \in 1 .. count PROVE f[n] = One(f[n - 1], n)
      OBVIOUS
    <3>1. f[n - 1] \in V
      BY <2>2
    <3> QED
      BY <3>1, <1>1, <1>2, <2>2
  <2>4. IsRun(f)
    BY <2>2, <2>3
  <2> QED
    BY <2>4, Zenon
<1>5. IsRun(R)
  <2> HIDE DEF IsRun
  <2> QED
    BY <1>4, Zenon
<1>6. Written(from, count, value) = R[count]
  BY Zenon DEF Written, Repeat, One, Bind
<1> HIDE DEF R
<1>7. /\ R[0] = from
      /\ \A n \in 1 .. count : R[n] = WriteByte(R[n - 1], value)
  BY <1>1, <1>5
<1>75. R = [n \in 0 .. count |-> R[n]]
  BY <1>5
<1> HIDE DEF IsRun
<1>8. 0 .. count \subseteq {n \in 0 .. count : R[n] \in V}
  <2> DEFINE T == {n \in 0 .. count : R[n] \in V}
  <2>1. 0 \in T
    BY <1>7
  <2>2. \A n \in 1 .. count : n - 1 \in T => n \in T
    BY <1>7
  <2> HIDE DEF T
  <2> QED
    BY <2>1, <2>2, Induct DEF T
<1>9. Writing(R, V, from, count, value)
  BY <1>7, <1>75, <1>8 DEF Writing
<1> QED
  BY <1>6, <1>9

(* A job starts sane,                                                      *)
LEMMA JobWorks ==
  ASSUME NEW L, Sane(Now, open_files, L), NEW h \in Slots, open_files[h].in_use
  PROVE  Job(h) \in Workings(open_files, h)
<1> DEFINE job == Job(h)
<1>0. job = [io |-> Now, file |-> open_files[h], read |-> <<>>, written |-> 0, stopped |-> FALSE]
  BY DEF Job
<1>1. job.io = Now /\ job.file = open_files[h]
  BY <1>0
<1> HIDE DEF job
<1>2. Apart(Now, open_files, h, L) /\ HandleOk(open_files[h], Now.disk.sector, L)
  BY ApartFrom
<1>3. Now \in IOs(Contents(Values)) /\ open_files[h] \in Held
  BY <1>2 DEF Apart, Fine
<1>4. job \in Jobs
  <2>1. <<>> \in Seq(CellSet(Values))
    OBVIOUS
  <2> QED
    BY <1>0, <1>3, <2>1 DEF Jobs
<1>5. HandleNear(job.file, job.io.disk.sector, L) /\ Settled(job.file, job.io.disk.sector, L)
  BY SMTT(60), <1>1, <1>2, HandleParts
<1>6. job.file.buffer_dirty => open_files[h].mode # MODE_READ
  BY ZenonT(60), <1>1, <1>2 DEF HandleOk
<1>7. Working(job, open_files, h, L)
  BY <1>1, <1>2, <1>4, <1>5, <1>6 DEF Working, Near
<1> QED
  BY <1>4, <1>7 DEF Workings, job

(* and ends sane,                                                          *)
LEMMA WorkDone ==
  ASSUME NEW of, NEW h, NEW at \in Workings(of, h)
  PROVE  \E L : Sane(at.io, [of EXCEPT ![h] = at.file], L)
<1>1. PICK L : Working(at, of, h, L)
  BY DEF Workings
<1>2. HandleOk(at.file, at.io.disk.sector, L)
  BY <1>1, HandleParts DEF Working, Near
<1> QED
  BY <1>1, <1>2, ApartSane DEF Working, Near

(* and so does the call.                                                   *)
LEMMA JobFinishes ==
  ASSUME Mindful, NEW h, NEW at \in Workings(open_files, h), NEW call, NEW result,
         Finish(at.io, call, result), open_files' = [open_files EXCEPT ![h] = at.file]
  PROVE  Consistent'
<1>1. PICK of : of = [open_files EXCEPT ![h] = at.file]
  OBVIOUS
<1>2. PICK L : Sane(at.io, of, L)
  BY <1>1, WorkDone
<1> QED
  BY <1>1, <1>2, Finishes

(* file_read.                                                              *)
LEMMA ReadStep ==
  ASSUME Mindful, Consistent, NEW h \in Slots, NEW count \in Counts, FileRead(h, count)
  PROVE  Consistent'
<1>1. PICK L : Sane(Now, open_files, L) /\ Fine(Values, Now, L, Opened(open_files)) /\ L[TakenAt] = <<>>
  BY ConsistentIs
<1>2. PICK done : /\ done = Repeat(ReadByte, Job(h), count) /\ open_files[h].in_use
                  /\ Finish(done.io, "read", done.read)
                  /\ open_files' = [open_files EXCEPT ![h] = done.file]
                  /\ Minds("mix") => open_files[h].mode = MODE_READ
  BY DEF FileRead
<1>3. Job(h) \in Workings(open_files, h)
  BY <1>1, <1>2, JobWorks
<1>4. \A v \in Workings(open_files, h) : \A n \in 1 .. count : ReadByte(v, n) \in Workings(open_files, h)
  <2> SUFFICES ASSUME NEW v \in Workings(open_files, h), NEW n \in 1 .. count
               PROVE  ReadByte(v, n) \in Workings(open_files, h)
    OBVIOUS
  <2>1. PICK M : Working(v, open_files, h, M)
    BY DEF Workings
  <2>2. Working(ReadByte(v, n), open_files, h, M)
    BY <1>2, <2>1, ReadByteWorks
  <2> QED
    BY <2>2 DEF Workings, Working, Near
<1>5. count \in Nat
  BY QfsAssumption
<1>55. PICK run : Reading(run, Workings(open_files, h), Job(h), count) /\ Repeat(ReadByte, Job(h), count) = run[count]
  BY <1>3, <1>4, <1>5, ReadRuns
<1>6. done \in Workings(open_files, h)
  BY <1>2, <1>5, <1>55 DEF Reading
<1> QED
  BY <1>2, <1>6, JobFinishes

(* The first sector of an open file.                                       *)
Started(L, p, n) == [L EXCEPT ![p] = <<n>>]

(* It is taken from the free ones.                                         *)
LEMMA SectorStarted ==
  ASSUME NEW V, NEW io, NEW L, NEW W, Fine(V, io, L, W), FreeIn(io.disk.fat) # {},
         NEW s \in Sectors, NEW k \in CellIndex, <<s, k>> \in W, IsEntry(io.disk.sector[s][k]), L[<<s, k>>] = <<>>
  PROVE  /\ fat_alloc(io).sector \in DataSectors
         /\ fat_alloc(io).io.disk.sector = io.disk.sector
         /\ Fine(V, fat_alloc(io).io, Started(L, <<s, k>>, fat_alloc(io).sector), W)
<1>1. <<s, k>> \in Places
  BY PlacesAre DEF CellIndex
<1> QED
  BY <1>1, FineTaken DEF Started

(* A chain that is begun or lengthened.                                    *)
LEMMA LaysAre ==
  ASSUME NEW L \in [Places -> Seq(Sectors)], NEW p \in Places, NEW n \in Sectors
  PROVE  /\ Started(L, p, n)[p] = <<n>> /\ FirstOf(Started(L, p, n), p) = n /\ On(Started(L, p, n), p) = {n}
         /\ \A q \in Places : q # p => Started(L, p, n)[q] = L[q]
         /\ Grown(L, p, n)[p] = Append(L[p], n)
         /\ L[p] # <<>> => FirstOf(Grown(L, p, n), p) = FirstOf(L, p) /\ Grown(L, p, n)[p] # <<>>
         /\ n \in On(Grown(L, p, n), p) /\ On(L, p) \subseteq On(Grown(L, p, n), p)
         /\ \A q \in Places : q # p => Grown(L, p, n)[q] = L[q]
<1>1. Started(L, p, n)[p] = <<n>> /\ \A q \in Places : q # p => Started(L, p, n)[q] = L[q]
  BY DEF Started
<1>2. Grown(L, p, n)[p] = Append(L[p], n) /\ \A q \in Places : q # p => Grown(L, p, n)[q] = L[q]
  BY DEF Grown
<1>3. FirstOf(Started(L, p, n), p) = n
  BY <1>1 DEF FirstOf
<1>4. On(Started(L, p, n), p) = {n}
  BY <1>1, ItemsAre DEF On
<1>5. On(Grown(L, p, n), p) = On(L, p) \cup {n}
  <2>1. L[p] \in Seq(Sectors)
    OBVIOUS
  <2>2. Items(Append(L[p], n)) = Items(L[p]) \cup {n}
    BY <2>1, ItemsAre
  <2> QED
    BY <1>2, <2>2 DEF On
<1>6. L[p] # <<>> => FirstOf(Grown(L, p, n), p) = FirstOf(L, p) /\ Grown(L, p, n)[p] # <<>>
  BY <1>2 DEF FirstOf
<1> QED
  BY <1>1, <1>2, <1>3, <1>4, <1>5, <1>6

(* The larger of position and size.                                        *)
LEMMA LargestOfTwo ==
  ASSUME NEW a \in Nat, NEW b \in Nat
  PROVE  Max({a, b}) = IF a >= b THEN a ELSE b
<1> DEFINE S == {a, b}
           Is(x) == x \in S /\ \A y \in S : x >= y
<1>1. \E x : Is(x)
  <2>1. CASE a >= b
    <3>1. Is(a)
      BY <2>1
    <3> QED
      BY <3>1
  <2>2. CASE b >= a
    <3>1. Is(b)
      BY <2>2
    <3> QED
      BY <3>1
  <2> QED
    BY <2>1, <2>2
<1>2. Max(S) = CHOOSE x : Is(x)
  BY Zenon DEF Max
<1> HIDE DEF Is
<1>3. Is(Max(S))
  BY <1>1, <1>2
<1> QED
  BY <1>3 DEF Is

(* The size of a file when the byte at the position is in it.              *)
SizeWith(file) == Max({file.file_size, file.position + 1})

(* A file that the next byte can be written to, if the cursor is on s.     *)
Aimed(file, s, q) ==
    Minds("mix") =>
        /\ file.position <= file.file_size
        /\ Len(q) = SectorsFor(SizeWith(file))
        /\ s = q[file.position \div Cells + 1]

(* It is a matter of position and size.                                    *)
LEMMA AimedAlike ==
  ASSUME NEW f, NEW s, NEW q, Aimed(f, s, q), NEW g, g.position = f.position, g.file_size = f.file_size
  PROVE  Aimed(g, s, q)
BY DEF Aimed, SizeWith

(* The file has its first sector.                                          *)
LEMMA AimedFirst ==
  ASSUME NEW f \in Held, NEW entry, Located(f, entry, <<>>), f.position = 0, NEW n
  PROVE  Aimed(f, n, <<n>>)
<1> SUFFICES ASSUME Minds("mix")
             PROVE  /\ f.position <= f.file_size
                    /\ Len(<<n>>) = SectorsFor(SizeWith(f))
                    /\ n = <<n>>[f.position \div Cells + 1]
  BY DEF Aimed
<1>1. f.file_size \in Nat /\ Len(<<>>) = SectorsFor(f.file_size)
  BY DEF Located, Held
<1>2. f.file_size = 0
  <2>1. PICK m \in Nat : m = f.file_size
    BY <1>1
  <2>2. SectorsFor(m) = 0
    BY <1>1, <2>1
  <2>3. m > 0 => SectorsFor(m) = (m - 1) \div Cells + 1 /\ (m - 1) \div Cells \in Nat
    BY SectorsForIs
  <2>4. ~(m > 0)
    BY <2>2, <2>3
  <2> QED
    BY <2>1, <2>4
<1>3. SizeWith(f) = 1
  <2>1. Max({0, 1}) = 1
    <3>1. 0 \in Nat /\ 1 \in Nat
      OBVIOUS
    <3> QED
      BY <3>1, LargestOfTwo
  <2> QED
    BY <1>2, <2>1 DEF SizeWith
<1>4. SectorsFor(1) = 1
  <2>1. 1 \in Nat /\ 1 > 0 /\ 1 - 1 = 0
    OBVIOUS
  <2>2. SectorsFor(1) = (1 - 1) \div Cells + 1
    BY <2>1, SectorsForIs
  <2> QED
    BY <2>1, <2>2, OneSector
<1>5. f.position \div Cells = 0
  BY OneSector
<1> QED
  BY <1>1, <1>2, <1>3, <1>4, <1>5

(* Where the cursor of a file that is written is.                          *)
LEMMA WriterLocated ==
  ASSUME NEW f \in Held, NEW entry, NEW q \in Seq(Sectors), q # <<>>, Located(f, entry, q), Minds("mix"),
         f.mode # MODE_READ
  PROVE  /\ f.position \in Nat /\ f.file_size \in Nat /\ f.file_size > 0 /\ f.position <= f.file_size
         /\ Len(q) = (f.file_size - 1) \div Cells + 1 /\ (f.file_size - 1) \div Cells \in Nat
         /\ f.position = 0 => f.current_sector = q[1]
         /\ f.position # 0 => f.current_sector = q[(f.position - 1) \div Cells + 1]
         /\ SizeWith(f) = IF f.position < f.file_size THEN f.file_size ELSE f.position + 1
<1>1. f.position \in Nat /\ f.file_size \in Nat
  BY DEF Held
<1>2. /\ f.position <= f.file_size /\ Len(q) = SectorsFor(f.file_size)
      /\ f.current_sector = q[CursorIndex(f)]
  BY DEF Located
<1>3. PICK n \in Nat : n = f.file_size
  BY <1>1
<1>4. Len(q) = SectorsFor(n) /\ Len(q) \in Nat /\ Len(q) # 0
  BY <1>2, <1>3
<1>5. n # 0
  BY <1>4, SectorsForIs
<1>6. Len(q) = (n - 1) \div Cells + 1 /\ (n - 1) \div Cells \in Nat
  BY <1>4, <1>5, SectorsForIs
<1>7. SizeWith(f) = IF f.position < f.file_size THEN f.file_size ELSE f.position + 1
  <2>1. PICK m \in Nat : m = f.position + 1
    BY <1>1
  <2>2. Max({n, m}) = IF n >= m THEN n ELSE m
    BY LargestOfTwo
  <2> QED
    BY <1>1, <1>3, <2>1, <2>2 DEF SizeWith
<1>8. /\ f.position = 0 => CursorIndex(f) = 1
      /\ f.position # 0 => CursorIndex(f) = (f.position - 1) \div Cells + 1
  BY DEF CursorIndex
<1> QED
  BY <1>1, <1>2, <1>3, <1>5, <1>6, <1>7, <1>8

(* The number of sectors for one byte more.                                *)
LEMMA SectorsForNext ==
  ASSUME NEW n \in Nat
  PROVE  SectorsFor(n + 1) = n \div Cells + 1
<1>1. PICK m \in Nat : m = n + 1 /\ m > 0 /\ m - 1 = n
  OBVIOUS
<1>2. SectorsFor(m) = (m - 1) \div Cells + 1
  BY <1>1, SectorsForIs
<1> QED
  BY <1>1, <1>2

(* Within a sector the cursor stays.                                       *)
LEMMA AimedStays ==
  ASSUME NEW f \in Held, NEW entry, NEW q \in Seq(Sectors), q # <<>>, Located(f, entry, q),
         f.mode # MODE_READ, f.position = 0 \/ ~AtBoundary(f)
  PROVE  Aimed(f, f.current_sector, q)
<1> SUFFICES ASSUME Minds("mix")
             PROVE  /\ f.position <= f.file_size
                    /\ Len(q) = SectorsFor(SizeWith(f))
                    /\ f.current_sector = q[f.position \div Cells + 1]
  BY DEF Aimed
<1>1. /\ f.position \in Nat /\ f.file_size \in Nat /\ f.file_size > 0 /\ f.position <= f.file_size
      /\ Len(q) = (f.file_size - 1) \div Cells + 1
      /\ f.position = 0 => f.current_sector = q[1]
      /\ f.position # 0 => f.current_sector = q[(f.position - 1) \div Cells + 1]
      /\ SizeWith(f) = IF f.position < f.file_size THEN f.file_size ELSE f.position + 1
  BY WriterLocated
<1>2. PICK p \in Nat, n \in Nat : p = f.position /\ n = f.file_size
  BY <1>1
<1>3. p # 0 => p \div Cells = (p - 1) \div Cells
  BY <1>2, NextByteIs DEF AtBoundary
<1>4. f.current_sector = q[p \div Cells + 1]
  <2>1. CASE p = 0
    BY <1>1, <1>2, <2>1, OneSector
  <2>2. CASE p # 0
    BY <1>1, <1>2, <1>3, <2>2
  <2> QED
    BY <2>1, <2>2
<1>5. Len(q) = SectorsFor(SizeWith(f))
  <2>1. CASE p < n
    <3>1. SizeWith(f) = n /\ n > 0
      BY <1>1, <1>2, <2>1
    <3>2. SectorsFor(n) = (n - 1) \div Cells + 1
      BY <3>1, SectorsForIs
    <3> QED
      BY <1>1, <1>2, <3>1, <3>2
  <2>2. CASE ~(p < n)
    <3>1. SizeWith(f) = p + 1 /\ n = p /\ p # 0
      BY <1>1, <1>2, <2>2
    <3>2. SectorsFor(p + 1) = p \div Cells + 1
      BY SectorsForNext
    <3>3. Len(q) = (p - 1) \div Cells + 1
      BY <1>1, <1>2, <3>1
    <3> QED
      BY <1>3, <3>1, <3>2, <3>3
  <2> QED
    BY <2>1, <2>2
<1> QED
  BY <1>1, <1>2, <1>4, <1>5

(* At the end of a sector the cursor goes to the next, or to a new one.    *)
LEMMA AimedMoves ==
  ASSUME NEW f \in Held, NEW entry, NEW q \in Seq(Sectors), q # <<>>, Located(f, entry, q),
         f.mode # MODE_READ, f.position # 0, AtBoundary(f), Minds("mix")
  PROVE  \E i \in 1 .. Len(q) :
            /\ f.current_sector = q[i]
            /\ i < Len(q) => Aimed(f, q[i + 1], q)
            /\ i = Len(q) => \A n \in Sectors : Aimed(f, n, Append(q, n))
<1>1. /\ f.position \in Nat /\ f.file_size \in Nat /\ f.file_size > 0 /\ f.position <= f.file_size
      /\ Len(q) = (f.file_size - 1) \div Cells + 1
      /\ f.current_sector = q[(f.position - 1) \div Cells + 1]
      /\ SizeWith(f) = IF f.position < f.file_size THEN f.file_size ELSE f.position + 1
  BY WriterLocated
<1>2. PICK p \in Nat, m \in Nat : p = f.position /\ m = f.file_size
  BY <1>1
<1>3. p > 0 /\ m > 0 /\ p <= m /\ Len(q) \in Nat
  BY <1>1, <1>2
<1>4. p \div Cells = (p - 1) \div Cells + 1 /\ p \div Cells \in Nat
  BY <1>2, <1>3, NextByteIs DEF AtBoundary
<1>5. PICK i \in Nat : i = p \div Cells
  BY <1>4
<1>6. f.current_sector = q[i] /\ SectorsFor(p + 1) = i + 1
  BY <1>1, <1>2, <1>4, <1>5, SectorsForNext
<1>7. i \in 1 .. Len(q)
  <2>1. PICK a \in Nat, b \in Nat : a = p - 1 /\ b = m - 1 /\ a <= b
    BY <1>3
  <2>2. a \div Cells <= b \div Cells /\ a \div Cells \in Nat /\ b \div Cells \in Nat
    BY <2>1, SectorsGrow, DiskAssumption, Division
  <2>3. Len(q) = b \div Cells + 1 /\ i = a \div Cells + 1
    BY <1>1, <1>2, <1>4, <1>5, <2>1
  <2> QED
    BY <1>3, <2>2, <2>3
<1>8. p < m => i < Len(q) /\ SizeWith(f) = m /\ SectorsFor(m) = Len(q)
  <2> SUFFICES ASSUME p < m PROVE i < Len(q) /\ SizeWith(f) = m /\ SectorsFor(m) = Len(q)
    OBVIOUS
  <2>1. PICK b \in Nat : b = m - 1 /\ p <= b
    BY <1>3
  <2>2. p \div Cells <= b \div Cells /\ b \div Cells \in Nat
    BY <2>1, SectorsGrow, DiskAssumption, Division
  <2>3. Len(q) = b \div Cells + 1
    BY <1>1, <1>2, <2>1
  <2>4. SectorsFor(m) = (m - 1) \div Cells + 1
    BY <1>3, SectorsForIs
  <2> QED
    BY <1>1, <1>2, <1>5, <2>1, <2>2, <2>3, <2>4
<1>9. ~(p < m) => i = Len(q) /\ SizeWith(f) = p + 1
  <2> SUFFICES ASSUME ~(p < m) PROVE i = Len(q) /\ SizeWith(f) = p + 1
    OBVIOUS
  <2>1. p = m
    BY <1>3
  <2> QED
    BY <1>1, <1>2, <1>4, <1>5, <2>1
<1>10. i < Len(q) => Aimed(f, q[i + 1], q)
  BY <1>1, <1>2, <1>5, <1>8, <1>9 DEF Aimed
<1>11. i = Len(q) => \A n \in Sectors : Aimed(f, n, Append(q, n))
  <2> SUFFICES ASSUME i = Len(q), NEW n \in Sectors PROVE Aimed(f, n, Append(q, n))
    OBVIOUS
  <2>1. Len(Append(q, n)) = i + 1 /\ Append(q, n)[i + 1] = n
    BY <1>3
  <2> QED
    BY <1>1, <1>2, <1>5, <1>6, <1>8, <1>9, <2>1 DEF Aimed
<1> QED
  BY <1>6, <1>7, <1>10, <1>11

(* A file that had no sector has its first: its entry is not told yet.     *)
Begun(at, of, h, L) ==
    /\ Near(at, of, h, L)
    /\ at.stopped \/ L[At(of[h])] # <<>>
    /\ \/ Working(at, of, h, L)
       \/ /\ at.file.position = 0 /\ ~at.stopped
          /\ Aimed(at.file, at.file.current_sector, L[At(of[h])])

(* The cursor is in the sector of the next byte.                           *)
Ready(at, of, h, L) ==
    /\ Near(at, of, h, L)
    /\ at.stopped \/ L[At(of[h])] # <<>>
    /\ at.stopped => Working(at, of, h, L)
    /\ ~at.stopped => Aimed(at.file, at.file.current_sector, L[At(of[h])])

(* Taking a sector for the file that is written does not disturb others.   *)
LEMMA ApartWith ==
  ASSUME NEW io, NEW of, NEW h, NEW L, Apart(io, of, h, L), of[h].mode # MODE_READ,
         NEW to, NEW M, Fine(Values, to, M, Opened(of)), to.disk.sector = io.disk.sector,
         \A q \in Places : q # At(of[h]) => M[q] = L[q]
  PROVE  Apart(to, of, h, M)
<1>1. EmptySized(to.disk.sector)
  BY DEF Apart
<1>2. \A s \in Sectors, k \in CellIndex :
            /\ IsFile(to.disk.sector[s][k]) <=> IsFile(io.disk.sector[s][k])
            /\ IsFile(io.disk.sector[s][k]) /\ <<s, k>> # At(of[h]) =>
                  to.disk.sector[s][k] = io.disk.sector[s][k]
  OBVIOUS
<1> QED
  BY <1>1, <1>2, ApartMoves

(* The chain of place p, if any, has become longer.                        *)
Longest(L, M, p) ==
    /\ \A q \in Places : q # p => M[q] = L[q]
    /\ Len(L[p]) <= Len(M[p]) /\ \A i \in 1 .. Len(L[p]) : M[p][i] = L[p][i]

(* Nothing is written yet.                                                 *)
Unwritten(at, to) ==
    /\ to.io.disk.sector = at.io.disk.sector /\ to.written = at.written
    /\ to.file.buffer = at.file.buffer /\ to.file.buffer_sector = at.file.buffer_sector
    /\ to.file.buffer_dirty = at.file.buffer_dirty
    /\ to.file.position = at.file.position /\ to.file.file_size = at.file.file_size

(* The first byte takes the first sector, or the disk is full and the call *)
(* stops.                                                                  *)
LEMMA FirstSectorBegins ==
  ASSUME NEW at, NEW of, NEW h, NEW L, Working(at, of, h, L), ~at.stopped, of[h].mode # MODE_READ
  PROVE  \E M : /\ Begun(FirstSector(at), of, h, M)
                /\ Longest(L, M, At(of[h])) /\ Unwritten(at, FirstSector(at))
<1> DEFINE p == At(of[h])
           f == at.file
           new == fat_alloc(at.io)
           to == FirstSector(at)
           sec == at.io.disk.sector
<1>0. Near(at, of, h, L) /\ Settled(f, sec, L)
  BY SMTT(60) DEF Working
<1>1. /\ L \in [Places -> Seq(Sectors)] /\ p \in Places /\ h \in Slots /\ at \in Jobs /\ f \in Held
      /\ At(f) = p /\ HandleNear(f, sec, L) /\ Apart(at.io, of, h, L)
      /\ Fine(Values, at.io, L, Opened(of))
  BY ZenonT(60), <1>0, NearParts DEF Near, Apart
<1>2. CASE f.first_sector # NO_SECTOR
  <2>1. to = at
    BY <1>2 DEF FirstSector
  <2>2. L[p] # <<>>
    BY <1>1, <1>2 DEF HandleNear, FirstOf
  <2>3. Begun(to, of, h, L) /\ Unwritten(at, to)
    BY <1>0, <2>1, <2>2 DEF Begun, Unwritten
  <2> HIDE DEF to, p
  <2> QED
    BY <1>1, <2>3 DEF Longest, to, p
<1>3. CASE f.first_sector = NO_SECTOR /\ new.sector = NO_SECTOR
  <2>1. PICK stop : stop = [at EXCEPT !.stopped = TRUE]
    OBVIOUS
  <2>2. to = stop
    BY <1>3, <2>1 DEF FirstSector
  <2>3. Near(stop, of, h, L) /\ stop.stopped /\ Working(stop, of, h, L)
    BY <1>0, <2>1, Stopped
  <2>4. Begun(to, of, h, L)
    BY <2>2, <2>3 DEF Begun
  <2>5. Unwritten(at, to)
    BY <1>1, <2>1, <2>2 DEF Unwritten, Jobs
  <2> HIDE DEF to, p
  <2> QED
    BY <1>1, <2>4, <2>5 DEF Longest, to, p
<1>4. ASSUME f.first_sector = NO_SECTOR, new.sector # NO_SECTOR
      PROVE  \E M : Begun(to, of, h, M) /\ Longest(L, M, p) /\ Unwritten(at, to)
  <2> DEFINE n == new.sector
             M == Started(L, p, n)
  <2>1. L[p] = <<>>
    <3>1. ASSUME L[p] # <<>> PROVE FALSE
      <4>1. FirstOf(L, p) = L[p][1] /\ L[p][1] \in On(L, p)
        BY <1>1, <3>1 DEF FirstOf, On, Items
      <4>2. FirstOf(L, p) # NO_SECTOR
        BY <1>1, <4>1, OnSome
      <4> QED
        BY <1>1, <1>4, <4>2 DEF HandleNear
    <3> QED
      BY <3>1
  <2>2. FreeIn(at.io.disk.fat) # {}
    <3>1. FreeIn(at.io.disk.fat) = {} => new = [io |-> at.io, sector |-> NO_SECTOR]
      BY ZenonT(60), AllocatesNone
    <3> QED
      BY <1>4, <3>1
  <2>3. /\ of[h].dir_sector \in Sectors /\ of[h].dir_slot \in CellIndex
        /\ p = <<of[h].dir_sector, of[h].dir_slot>> /\ p \in Opened(of)
        /\ IsEntry(sec[of[h].dir_sector][of[h].dir_slot])
    BY ZenonT(60), <1>1 DEF Apart, At, Opened, IsFile
  <2>4. /\ n \in DataSectors /\ new.io.disk.sector = sec
        /\ Fine(Values, new.io, M, Opened(of))
    <3>1. PICK io, s, k : io = at.io /\ s = of[h].dir_sector /\ k = of[h].dir_slot
      BY SMTT(60)
    <3>2. /\ Fine(Values, io, L, Opened(of)) /\ <<s, k>> \in Opened(of) /\ FreeIn(io.disk.fat) # {}
          /\ IsEntry(io.disk.sector[s][k]) /\ L[<<s, k>>] = <<>> /\ s \in Sectors /\ k \in CellIndex
      BY ZenonT(60), <1>1, <2>1, <2>2, <2>3, <3>1
    <3>3. /\ fat_alloc(io).sector \in DataSectors /\ fat_alloc(io).io.disk.sector = io.disk.sector
          /\ Fine(Values, fat_alloc(io).io, Started(L, <<s, k>>, fat_alloc(io).sector), Opened(of))
      BY <3>2, SectorStarted
    <3> QED
      BY <2>3, <3>1, <3>3
  <2>5. n \in Sectors
    BY <2>4, SectorsAre
  <2> HIDE DEF new
  <2>6. to = [at EXCEPT !.io = new.io, !.file.first_sector = n, !.file.current_sector = n]
    BY <1>4 DEF FirstSector, new
  <2>7. /\ M[p] = <<n>> /\ FirstOf(M, p) = n /\ On(M, p) = {n}
        /\ \A q \in Places : q # p => M[q] = L[q]
    BY <1>1, <2>5, LaysAre
  <2> HIDE DEF M, n, to, p, sec
  <2>8. Apart(new.io, of, h, M)
    BY <1>1, <2>4, <2>7, ApartWith DEF p, sec
  <2>9. /\ to.io = new.io /\ to.stopped = at.stopped /\ to.written = at.written
        /\ to.file = [f EXCEPT !.first_sector = n, !.current_sector = n]
    BY <1>1, <2>6 DEF Jobs
  <2>10. /\ to.file.first_sector = n /\ to.file.current_sector = n /\ to.file.position = f.position
         /\ to.file.dir_sector = f.dir_sector /\ to.file.dir_slot = f.dir_slot /\ to.file.mode = f.mode
         /\ to.file.buffer = f.buffer /\ to.file.buffer_sector = f.buffer_sector
         /\ to.file.file_size = f.file_size /\ to.file.buffer_dirty = f.buffer_dirty /\ to.file \in Held
    BY <1>1, <2>5, <2>9 DEF Held
  <2>11. to \in Jobs
    <3>1. new.io \in IOs(Contents(Values))
      BY <2>4 DEF Fine
    <3> QED
      BY <1>1, <2>6, <2>9, <2>10, <3>1 DEF Jobs
  <2>12. At(to.file) = p
    BY <1>1, <2>10 DEF At
  <2>13. Buffered(to.file, M, p)
    <3>1. f.buffer_sector = NO_SECTOR
      BY <1>1, <2>1, ItemsAre DEF HandleNear, Buffered, On
    <3> QED
      BY <1>1, <2>10, <3>1 DEF HandleNear, Buffered
  <2>14. to.file.position = 0
    BY <1>1, <2>1, <2>10 DEF HandleNear
  <2>15. HandleNear(to.file, to.io.disk.sector, M)
    BY <1>1, <2>4, <2>7, <2>9, <2>10, <2>12, <2>13, <2>14 DEF HandleNear
  <2>16. to.file.mode = of[h].mode
    BY <1>0, <2>10 DEF Near
  <2>17. Near(to, of, h, M)
    BY <2>8, <2>9, <2>11, <2>12, <2>15, <2>16 DEF Near, p
  <2>175. Aimed(to.file, to.file.current_sector, M[p])
    <3>1. Located(f, sec[f.dir_sector][f.dir_slot], <<>>)
      BY <1>0, <1>1, <2>1 DEF Settled
    <3>2. f.position = 0
      BY <2>10, <2>14
    <3>3. Aimed(f, n, <<n>>)
      BY <1>1, <3>1, <3>2, AimedFirst
    <3>4. Aimed(to.file, n, <<n>>)
      BY <2>10, <3>3, AimedAlike
    <3> QED
      BY <2>7, <2>10, <3>4
  <2>18. Begun(to, of, h, M)
    <3>1. M[p] # <<>>
      BY <2>7
    <3> QED
      BY <1>1, <2>9, <2>14, <2>17, <2>175, <3>1 DEF Begun, p
  <2>19. Longest(L, M, p)
    <3>1. Len(L[p]) = 0 /\ Len(M[p]) = 1
      BY <2>1, <2>7
    <3> QED
      BY <2>7, <3>1 DEF Longest
  <2>20. Unwritten(at, to)
    BY <2>4, <2>9, <2>10 DEF Unwritten, sec
  <2> QED
    BY <2>18, <2>19, <2>20
<1> QED
  BY <1>2, <1>3, <1>4

(* The cursor on a sector.                                                 *)
CursorAt(at, io, s) == [at EXCEPT !.io = io, !.file.current_sector = s]

(* Moving the cursor to another sector of the file.                        *)
LEMMA CursorMoves ==
  ASSUME NEW at, NEW of, NEW h, NEW L, Working(at, of, h, L), of[h].mode # MODE_READ,
         NEW io, NEW M, Fine(Values, io, M, Opened(of)), io.disk.sector = at.io.disk.sector,
         \A q \in Places : q # At(of[h]) => M[q] = L[q],
         L[At(of[h])] # <<>>, M[At(of[h])] # <<>>, FirstOf(M, At(of[h])) = FirstOf(L, At(of[h])),
         On(L, At(of[h])) \subseteq On(M, At(of[h])), NEW s \in On(M, At(of[h]))
  PROVE  /\ Near(CursorAt(at, io, s), of, h, M) /\ CursorAt(at, io, s).stopped = at.stopped
         /\ CursorAt(at, io, s).file.current_sector = s
         /\ Unwritten(at, CursorAt(at, io, s))
<1> DEFINE to == CursorAt(at, io, s)
           p == At(of[h])
           f == at.file
           sec == at.io.disk.sector
<1>0. Near(at, of, h, L) /\ Settled(f, sec, L)
  BY DEF Working
<1>1. /\ L \in [Places -> Seq(Sectors)] /\ p \in Places /\ h \in Slots /\ at \in Jobs /\ f \in Held
      /\ At(f) = p /\ HandleNear(f, sec, L) /\ Apart(at.io, of, h, L)
  BY <1>0, NearParts DEF Near
<1>2. s \in Sectors /\ io \in IOs(Contents(Values))
  <2>1. M \in [Places -> Seq(Sectors)]
    BY DEF Fine, Laid
  <2> QED
    BY <1>1, <2>1, OnSome DEF Fine
<1>3. Apart(io, of, h, M)
  BY <1>1, ApartWith
<1>4. /\ to.io = io /\ to.stopped = at.stopped /\ to.written = at.written /\ to.file = [f EXCEPT !.current_sector = s]
  BY <1>1 DEF Jobs, CursorAt
<1> HIDE DEF to
<1>5. /\ to.file.current_sector = s /\ to.file.first_sector = f.first_sector
      /\ to.file.dir_sector = f.dir_sector /\ to.file.dir_slot = f.dir_slot /\ to.file.mode = f.mode
      /\ to.file.buffer = f.buffer /\ to.file.buffer_sector = f.buffer_sector
      /\ to.file.buffer_dirty = f.buffer_dirty /\ to.file.modified = f.modified
      /\ to.file.position = f.position /\ to.file.file_size = f.file_size
      /\ to.file \in Held
  <2>1. to.file \in Held /\ to.file.current_sector = s
    BY <1>1, <1>2, <1>4, Moves
  <2> HIDE DEF f
  <2> QED
    BY <1>1, <1>4, <2>1 DEF Held
<1>6. to \in Jobs
  BY <1>1, <1>2, <1>4, <1>5 DEF Jobs, CursorAt, to
<1>7. At(to.file) = p
  BY <1>1, <1>5 DEF At
<1>8. Buffered(to.file, M, p)
  BY <1>1, <1>5 DEF HandleNear, Buffered
<1> HIDE DEF p, f, sec
<1>9. HandleNear(to.file, to.io.disk.sector, M)
  BY <1>1, <1>4, <1>5, <1>7, <1>8 DEF HandleNear, p, sec
<1>11. /\ to.file.mode = of[h].mode
       /\ to.file.buffer_dirty => of[h].mode # MODE_READ
  BY <1>0, <1>5 DEF Near, f
<1>12. Near(to, of, h, M)
  BY <1>3, <1>4, <1>6, <1>7, <1>9, <1>11 DEF Near, p
<1>13. Unwritten(at, to)
  BY <1>4, <1>5 DEF Unwritten, f
<1> QED
  BY <1>4, <1>5, <1>12, <1>13 DEF to, f

(* Before a byte is written the cursor moves on, to a sector of the chain  *)
(* or to a new one linked to it, or the disk is full and the call stops.   *)
LEMMA BeforeByteReady ==
  ASSUME NEW at, NEW of, NEW h, NEW L, Begun(at, of, h, L), of[h].mode # MODE_READ
  PROVE  \E M : /\ Ready(BeforeByte(at), of, h, M)
                /\ Longest(L, M, At(of[h])) /\ Unwritten(at, BeforeByte(at))
<1> DEFINE p == At(of[h])
           f == at.file
           new == fat_alloc(at.io)
           to == BeforeByte(at)
           stays == at.stopped \/ f.position = 0 \/ ~AtBoundary(f)
           goes == NextOf(at) \notin {FAT_END, FAT_FREE}
<1>0. Near(at, of, h, L) /\ (at.stopped \/ L[p] # <<>>)
  BY SMTT(60) DEF Begun
<1>1. /\ L \in [Places -> Seq(Sectors)] /\ p \in Places /\ at \in Jobs
      /\ HandleNear(f, at.io.disk.sector, L) /\ Fine(Values, at.io, L, Opened(of)) /\ Laid(at.io.disk.fat, L)
      /\ At(f) = p
  BY ZenonT(60), <1>0, NearParts DEF Near, Apart
<1>15. Longest(L, L, p)
  <2> HIDE DEF p
  <2> QED
    BY <1>1 DEF Longest
<1>2. CASE stays
  <2>1. to = at
    BY <1>2 DEF BeforeByte
  <2>2. at.stopped => Working(at, of, h, L)
    BY DEF Begun
  <2>3. ~at.stopped => Aimed(f, f.current_sector, L[p])
    <3> SUFFICES ASSUME ~at.stopped, Working(at, of, h, L)
                 PROVE  Aimed(f, f.current_sector, L[p])
      BY SMTT(60) DEF Begun
    <3>1. Located(f, at.io.disk.sector[f.dir_sector][f.dir_slot], L[p]) /\ f.mode # MODE_READ
      BY ZenonT(60), <1>0, <1>1 DEF Working, Settled, Near
    <3>2. f \in Held /\ L[p] \in Seq(Sectors) /\ L[p] # <<>> /\ (f.position = 0 \/ ~AtBoundary(f))
      BY <1>0, <1>1, <1>2 DEF HandleNear
    <3> QED
      BY <3>1, <3>2, AimedStays
  <2>4. Ready(to, of, h, L)
    BY <1>0, <2>1, <2>2, <2>3 DEF Ready
  <2>5. Unwritten(at, to)
    BY <2>1 DEF Unwritten
  <2> QED
    BY <1>15, <2>4, <2>5
<1>3. ASSUME ~stays
      PROVE  /\ Working(at, of, h, L) /\ L[p] # <<>> /\ f.current_sector \in On(L, p)
             /\ NextOf(at) = fat_read(at.io, f.current_sector)
  <2>1. Working(at, of, h, L) /\ L[p] # <<>>
    BY <1>0, <1>3 DEF Begun
  <2> QED
    BY <1>1, <2>1 DEF HandleNear, NextOf
<1>35. ASSUME ~stays, Minds("mix")
       PROVE  \E i \in 1 .. Len(L[p]) :
            /\ f.current_sector = L[p][i]
            /\ i < Len(L[p]) => Aimed(f, L[p][i + 1], L[p])
            /\ i = Len(L[p]) => \A n \in Sectors : Aimed(f, n, Append(L[p], n))
  <2>1. Located(f, at.io.disk.sector[f.dir_sector][f.dir_slot], L[p]) /\ f.mode # MODE_READ
    BY ZenonT(60), <1>0, <1>1, <1>3, <1>35 DEF Working, Settled, Near
  <2>2. f \in Held /\ L[p] \in Seq(Sectors) /\ L[p] # <<>> /\ f.position # 0 /\ AtBoundary(f)
    BY <1>1, <1>3, <1>35 DEF HandleNear
  <2> HIDE DEF p, f
  <2>3. PICK q \in Seq(Sectors) : q = L[p]
    BY <2>2
  <2> QED
    BY SMTT(60), <1>35, <2>1, <2>2, <2>3, AimedMoves
<1>4. ASSUME ~stays, goes
      PROVE  \E M : Ready(to, of, h, M) /\ Longest(L, M, p) /\ Unwritten(at, to)
  <2> DEFINE s == NextOf(at)
  <2>1. s \in On(L, p)
    BY <1>1, <1>3, <1>4, NextOn
  <2>2. to = [at EXCEPT !.file.current_sector = s]
    BY <1>4 DEF BeforeByte
  <2>25. Aimed(f, s, L[p])
    <3> SUFFICES ASSUME Minds("mix") PROVE Aimed(f, s, L[p])
      BY DEF Aimed
    <3>1. PICK i \in 1 .. Len(L[p]) :
            /\ f.current_sector = L[p][i]
            /\ i < Len(L[p]) => Aimed(f, L[p][i + 1], L[p])
      BY <1>35, <1>4
    <3>2. s = fat_read(at.io, f.current_sector) /\ s \notin {FAT_END, FAT_FREE}
      BY <1>3, <1>4
    <3>3. PICK now, q : now = at.io /\ q = p
      OBVIOUS
    <3>35. Laid(now.disk.fat, L) /\ q \in Places /\ i \in 1 .. Len(L[q])
      BY <1>1, <3>3
    <3>4. /\ i < Len(L[q]) => fat_read(now, L[q][i]) = L[q][i + 1] /\ L[q][i + 1] \notin {FAT_END, FAT_FREE}
          /\ i = Len(L[q]) => fat_read(now, L[q][i]) \in {FAT_END, FAT_FREE}
      <4> HIDE DEF p, f, s, to, stays, goes, new
      <4> QED
        BY <3>35, NextIs
    <3>5. i < Len(L[p]) \/ i = Len(L[p])
      BY <1>1
    <3> HIDE DEF s, f, p
    <3> QED
      BY <3>1, <3>2, <3>3, <3>4, <3>5
  <2> HIDE DEF s, to
  <2>3. to = CursorAt(at, at.io, s)
    BY <1>1, <2>2 DEF Jobs, CursorAt
  <2>4. /\ Near(to, of, h, L) /\ to.stopped = at.stopped /\ to.file.current_sector = s
        /\ Unwritten(at, to)
    BY <1>1, <1>3, <1>4, <2>1, <2>3, CursorMoves
  <2>45. Aimed(to.file, to.file.current_sector, L[p])
    <3>1. to.file.position = f.position /\ to.file.file_size = f.file_size
      BY <2>4 DEF Unwritten
    <3> HIDE DEF f
    <3> QED
      BY <2>25, <2>4, <3>1, AimedAlike
  <2>5. Ready(to, of, h, L)
    BY <1>3, <1>4, <2>4, <2>45 DEF Ready
  <2> QED
    BY <1>15, <2>4, <2>5
<1>5. ASSUME ~stays, ~goes, new.sector = NO_SECTOR
      PROVE  \E M : Ready(to, of, h, M) /\ Longest(L, M, p) /\ Unwritten(at, to)
  <2>1. PICK stop : stop = [at EXCEPT !.stopped = TRUE]
    OBVIOUS
  <2>2. to = stop
    BY <1>5, <2>1 DEF BeforeByte
  <2>3. Near(stop, of, h, L) /\ stop.stopped /\ Working(stop, of, h, L)
    BY <1>0, <1>3, <1>5, <2>1, Stopped
  <2>4. Ready(to, of, h, L)
    BY <2>2, <2>3 DEF Ready
  <2>5. Unwritten(at, to)
    BY <1>1, <2>1, <2>2 DEF Unwritten, Jobs
  <2> QED
    BY <1>15, <2>4, <2>5
<1>6. ASSUME ~stays, ~goes, new.sector # NO_SECTOR
      PROVE  \E M : Ready(to, of, h, M) /\ Longest(L, M, p) /\ Unwritten(at, to)
  <2> DEFINE n == new.sector
             M == Grown(L, p, n)
             io == fat_write(new.io, f.current_sector, new.sector)
  <2>1. FreeIn(at.io.disk.fat) # {}
    <3>1. FreeIn(at.io.disk.fat) = {} => new = [io |-> at.io, sector |-> NO_SECTOR]
      BY AllocatesNone
    <3> QED
      BY <1>6, <3>1
  <2>2. f.current_sector = L[p][Len(L[p])]
    <3>1. f.current_sector \in On(L, p) /\ fat_read(at.io, f.current_sector) \in {FAT_END, FAT_FREE}
      BY <1>3, <1>6
    <3>2. PICK now, q, s : now = at.io /\ q = p /\ s = f.current_sector
      OBVIOUS
    <3>3. Laid(now.disk.fat, L) /\ q \in Places /\ s \in On(L, q)
      BY <1>1, <3>1, <3>2
    <3>4. \/ fat_read(now, s) \in On(L, q) /\ fat_read(now, s) \notin {FAT_END, FAT_FREE}
          \/ fat_read(now, s) \in {FAT_END, FAT_FREE} /\ s = L[q][Len(L[q])]
      BY <3>3, NextOn
    <3>5. ~(fat_read(now, s) \notin {FAT_END, FAT_FREE})
      BY <3>1, <3>2
    <3>6. s = L[q][Len(L[q])]
      BY <3>4, <3>5
    <3> QED
      BY <3>2, <3>6
  <2>3. /\ n \in DataSectors /\ Linked(new, L[p][Len(L[p])]).disk.sector = at.io.disk.sector
        /\ Fine(Values, Linked(new, L[p][Len(L[p])]), M, Opened(of))
    <3>1. PICK now, q : now = at.io /\ q = p
      OBVIOUS
    <3>2. Fine(Values, now, L, Opened(of)) /\ FreeIn(now.disk.fat) # {} /\ q \in Places /\ L[q] # <<>>
      BY <1>1, <1>3, <1>6, <2>1, <3>1
    <3>3. /\ fat_alloc(now).sector \in DataSectors
          /\ Linked(fat_alloc(now), L[q][Len(L[q])]).disk.sector = now.disk.sector
          /\ Fine(Values, Linked(fat_alloc(now), L[q][Len(L[q])]), Grown(L, q, fat_alloc(now).sector), Opened(of))
      BY <3>2, SectorGrown
    <3> QED
      BY <3>1, <3>3
  <2>4. io = Linked(new, L[p][Len(L[p])])
    BY <2>2 DEF Linked
  <2>5. n \in Sectors
    BY <2>3, SectorsAre
  <2>6. to = CursorAt(at, io, n)
    BY <1>6 DEF BeforeByte, CursorAt
  <2> HIDE DEF new, io, n, to
  <2>7. Fine(Values, io, M, Opened(of)) /\ io.disk.sector = at.io.disk.sector
    BY <2>3, <2>4
  <2>8. /\ FirstOf(M, p) = FirstOf(L, p) /\ M[p] # <<>> /\ n \in On(M, p) /\ On(L, p) \subseteq On(M, p)
        /\ \A q \in Places : q # p => M[q] = L[q]
    <3> HIDE DEF p
    <3> QED
      BY <1>1, <1>3, <1>6, <2>5, LaysAre
  <2>85. M[p] = Append(L[p], n)
    <3> HIDE DEF p
    <3> QED
      BY <1>1, <2>5, LaysAre
  <2> HIDE DEF M
  <2>86. Aimed(f, n, M[p])
    <3> SUFFICES ASSUME Minds("mix") PROVE Aimed(f, n, M[p])
      BY DEF Aimed
    <3>1. PICK i \in 1 .. Len(L[p]) :
            /\ f.current_sector = L[p][i]
            /\ i = Len(L[p]) => \A m \in Sectors : Aimed(f, m, Append(L[p], m))
      BY <1>35, <1>6
    <3>2. i = Len(L[p])
      <4>1. Len(L[p]) \in 1 .. Len(L[p])
        BY <1>1, <3>1
      <4>2. \A j, k \in 1 .. Len(L[p]) : L[p][j] = L[p][k] => j = k
        BY <1>1 DEF Laid
      <4> QED
        BY <2>2, <3>1, <4>1, <4>2
    <3> HIDE DEF f, p
    <3> QED
      BY <2>5, <2>85, <3>1, <3>2
  <2>9. /\ Near(to, of, h, M) /\ to.stopped = at.stopped /\ to.file.current_sector = n
        /\ Unwritten(at, to)
    BY <1>3, <1>6, <2>6, <2>7, <2>8, CursorMoves
  <2>95. Aimed(to.file, to.file.current_sector, M[p])
    <3>1. to.file.position = f.position /\ to.file.file_size = f.file_size
      BY <2>9 DEF Unwritten
    <3> HIDE DEF f
    <3> QED
      BY <2>86, <2>9, <3>1, AimedAlike
  <2>10. Ready(to, of, h, M)
    BY <1>6, <2>8, <2>9, <2>95 DEF Ready
  <2>11. Longest(L, M, p)
    <3>1. PICK c \in Seq(Sectors) : c = L[p]
      BY <1>1
    <3>2. Len(Append(c, n)) = Len(c) + 1 /\ \A i \in 1 .. Len(c) : Append(c, n)[i] = c[i]
      BY <2>5
    <3> HIDE DEF p
    <3> QED
      BY <2>8, <2>85, <3>1, <3>2 DEF Longest
  <2> QED
    BY <2>9, <2>10, <2>11
<1> QED
  BY <1>2, <1>4, <1>5, <1>6

(* A turn of the loop of file_write.                                       *)
LEMMA WriteByteIs ==
  ASSUME NEW at, NEW value
  PROVE  WriteByte(at, value) =
           IF at.stopped THEN at
           ELSE IF BeforeByte(FirstSector(at)).stopped THEN BeforeByte(FirstSector(at))
           ELSE PutByte(load_buffer(BeforeByte(FirstSector(at))), value)
<1> DEFINE P(in) == PutByte(in, value)
           Q(here) == IF here.stopped THEN here ELSE Bind(load_buffer(here), LAMBDA in : PutByte(in, value))
           R(first) == Bind(BeforeByte(first), LAMBDA here :
                          IF here.stopped THEN here ELSE Bind(load_buffer(here), LAMBDA in : PutByte(in, value)))
           first1 == FirstSector(at)
           here1 == BeforeByte(first1)
           in1 == load_buffer(here1)
<1>1. WriteByte(at, value) = IF at.stopped THEN at ELSE CHOOSE result \in {R(v) : v \in {first1}} : TRUE
  BY Zenon DEF WriteByte, Bind
<1>2. (CHOOSE result \in {R(v) : v \in {first1}} : TRUE) = R(first1)
  <2> HIDE DEF R, first1
  <2> QED
    OBVIOUS
<1>3. R(first1) = CHOOSE result \in {Q(v) : v \in {here1}} : TRUE
  BY Zenon DEF Bind
<1>4. (CHOOSE result \in {Q(v) : v \in {here1}} : TRUE) = Q(here1)
  <2> HIDE DEF Q, here1
  <2> QED
    OBVIOUS
<1>5. Q(here1) = IF here1.stopped THEN here1 ELSE CHOOSE result \in {P(v) : v \in {in1}} : TRUE
  BY Zenon DEF Bind
<1>6. (CHOOSE result \in {P(v) : v \in {in1}} : TRUE) = P(in1)
  <2> HIDE DEF P, in1
  <2> QED
    OBVIOUS
<1> HIDE DEF R, Q, first1, here1, in1
<1>7. WriteByte(at, value) = IF at.stopped THEN at ELSE IF here1.stopped THEN here1 ELSE P(in1)
  BY <1>1, <1>2, <1>3, <1>4, <1>5, <1>6
<1> QED
  BY <1>7 DEF in1, here1, first1

(* The handle with the byte in its buffer.                                 *)
WithByte(f, value) ==
    [f EXCEPT !.buffer[f.position % Cells] = ByteCell(value), !.buffer_dirty = TRUE, !.modified = TRUE,
              !.position = f.position + 1, !.file_size = Max({f.file_size, f.position + 1})]

(* The handle g is f with a byte in its buffer.                            *)
ByteIn(f, g) ==
    /\ g \in Held
    /\ (\A k \in CellIndex : ~IsEntry(f.buffer[k])) => (\A k \in CellIndex : ~IsEntry(g.buffer[k]))
    /\ g.buffer_sector = f.buffer_sector /\ g.modified /\ g.mode = f.mode
    /\ g.dir_sector = f.dir_sector /\ g.dir_slot = f.dir_slot
    /\ g.first_sector = f.first_sector /\ g.current_sector = f.current_sector
    /\ g.position = f.position + 1 /\ g.file_size = SizeWith(f)

(* It is a handle still, of the same file.                                 *)
LEMMA BytePut ==
  ASSUME NEW f \in Held, NEW value \in Values
  PROVE  ByteIn(f, WithByte(f, value))
<1>1. f.position \in Nat /\ f.file_size \in Nat /\ f.buffer \in [CellIndex -> CellSet(Values)]
  BY DEF Held, Contents
<1> DEFINE g == WithByte(f, value)
           i == f.position % Cells
           size == Max({f.file_size, f.position + 1})
           byte == ByteCell(value)
           cells == [f.buffer EXCEPT ![i] = byte]
           next == f.position + 1
<1>2. i \in CellIndex
  BY <1>1, DiskAssumption, Division DEF CellIndex
<1>3. next \in Nat
  BY <1>1
<1>4. size \in Nat /\ size = SizeWith(f)
  <2>1. PICK a \in Nat, b \in Nat : a = f.file_size /\ b = f.position + 1
    BY <1>1
  <2>2. Max({a, b}) \in Nat
    BY LargestOfTwo
  <2> QED
    BY <2>1, <2>2 DEF SizeWith
<1>5. byte \in CellSet(Values) /\ ~IsEntry(byte)
  BY DEF ByteCell, CellSet, IsEntry
<1> HIDE DEF i, size, byte, next
<1>6. cells \in Contents(Values)
  BY <1>1, <1>2, <1>5 DEF Contents
<1>7. (\A k \in CellIndex : ~IsEntry(f.buffer[k])) => (\A k \in CellIndex : ~IsEntry(cells[k]))
  BY <1>1, <1>2, <1>5
<1>8. g = [f EXCEPT !.buffer = cells, !.buffer_dirty = TRUE, !.modified = TRUE,
                    !.position = next, !.file_size = size]
  BY DEF i, size, byte, next, Held, WithByte
<1> HIDE DEF cells, g
<1>9. g \in Held
  BY <1>3, <1>4, <1>6, <1>8 DEF Held
<1>10. g.buffer = cells
  BY <1>8 DEF Held
<1>11. /\ g.buffer_sector = f.buffer_sector /\ g.modified /\ g.mode = f.mode
       /\ g.dir_sector = f.dir_sector /\ g.dir_slot = f.dir_slot
       /\ g.first_sector = f.first_sector /\ g.current_sector = f.current_sector
       /\ g.position = next /\ g.file_size = size
  BY <1>8 DEF Held
<1> QED
  BY <1>4, <1>7, <1>9, <1>10, <1>11 DEF ByteIn, g, next

(* A byte is written: the cursor is where it should be again.              *)
LEMMA WriteLocates ==
  ASSUME NEW f \in Held, NEW g \in Held, NEW q \in Seq(Sectors), q # <<>>, NEW entry,
         Aimed(f, f.current_sector, q), f.mode # MODE_READ,
         g.position = f.position + 1, g.file_size = SizeWith(f), g.mode = f.mode, g.modified,
         g.current_sector = f.current_sector
  PROVE  Located(g, entry, q)
<1> SUFFICES ASSUME Minds("mix")
             PROVE  /\ g.position <= g.file_size
                    /\ Len(q) = SectorsFor(g.file_size)
                    /\ g.current_sector = q[CursorIndex(g)]
  BY DEF Located
<1>1. /\ f.position <= f.file_size /\ Len(q) = SectorsFor(SizeWith(f))
      /\ f.current_sector = q[f.position \div Cells + 1]
      /\ f.position \in Nat /\ f.file_size \in Nat
  BY DEF Aimed, Held
<1>2. g.position <= g.file_size
  <2>1. PICK a \in Nat, b \in Nat : a = f.file_size /\ b = f.position + 1
    BY <1>1
  <2>2. Max({a, b}) = IF a >= b THEN a ELSE b
    BY LargestOfTwo
  <2> QED
    BY <2>1, <2>2 DEF SizeWith
<1>3. g.position # 0 /\ g.position - 1 = f.position
  BY <1>1
<1>4. CursorIndex(g) = f.position \div Cells + 1
  BY <1>3 DEF CursorIndex
<1> QED
  BY <1>1, <1>2, <1>4

(* A byte that is put settles the handle: it is modified now.              *)
LEMMA PutByteWorks ==
  ASSUME NEW at, NEW of, NEW h, NEW L, Ready(at, of, h, L), ~at.stopped, of[h].mode # MODE_READ,
         NEW value \in Values
  PROVE  Working(PutByte(load_buffer(at), value), of, h, L)
<1> DEFINE p == At(of[h])
           f == at.file
           in == load_buffer(at)
           to == PutByte(in, value)
<1>0. Near(at, of, h, L) /\ L[p] # <<>>
  BY DEF Ready
<1>1. /\ L \in [Places -> Seq(Sectors)] /\ p \in Places /\ f \in Held /\ At(f) = p
      /\ HandleNear(f, at.io.disk.sector, L) /\ f.mode = of[h].mode
  BY <1>0, NearParts DEF Near
<1>2. f.current_sector \in On(L, p)
  BY <1>0, <1>1 DEF HandleNear
<1>3. f.current_sector # NO_SECTOR
  <2> HIDE DEF p, f
  <2> QED
    BY <1>1, <1>2, OnSome
<1>4. Loads(at, in, of, h, L)
  BY <1>0, <1>3, LoadBuffer
<1> HIDE DEF in
<1>5. /\ in \in Jobs /\ in.file \in Held /\ Apart(in.io, of, h, L) /\ SameHandle(f, in.file)
      /\ Buffered(in.file, L, p) /\ SameEntries(at.io.disk.sector, in.io.disk.sector)
  BY <1>4 DEF Loads, Jobs
<1>6. to = [in EXCEPT !.written = @ + 1,
                      !.file.buffer[in.file.position % Cells] = ByteCell(value),
                      !.file.buffer_dirty = TRUE, !.file.modified = TRUE,
                      !.file.position = @ + 1,
                      !.file.file_size = Max({@, in.file.position + 1})]
  BY DEF PutByte
<1> HIDE DEF to
<1> DEFINE new == WithByte(in.file, value)
<1>7. to.io = in.io /\ to.file = new /\ to = [in EXCEPT !.written = in.written + 1, !.file = new]
  BY <1>5, <1>6 DEF Jobs, Held, WithByte
<1>8. ByteIn(in.file, new)
  BY <1>5, BytePut
<1> HIDE DEF new
<1>9. /\ new \in Held
      /\ (\A k \in CellIndex : ~IsEntry(in.file.buffer[k])) => (\A k \in CellIndex : ~IsEntry(new.buffer[k]))
      /\ new.buffer_sector = in.file.buffer_sector /\ new.modified /\ new.mode = in.file.mode
      /\ new.dir_sector = in.file.dir_sector /\ new.dir_slot = in.file.dir_slot
      /\ new.first_sector = in.file.first_sector /\ new.current_sector = in.file.current_sector
      /\ new.position = in.file.position + 1 /\ new.file_size = SizeWith(in.file)
  BY <1>8 DEF ByteIn
<1>10. in.written + 1 \in Nat
  BY <1>5 DEF Jobs
<1>11. to \in Jobs
  BY <1>5, <1>7, <1>9, <1>10 DEF Jobs
<1>12. Buffered(new, L, p)
  <2>1. new.buffer \in Contents(Values)
    BY <1>9 DEF Held
  <2> QED
    BY <1>5, <1>9, <2>1 DEF Buffered
<1>13. /\ new.dir_sector = f.dir_sector /\ new.dir_slot = f.dir_slot /\ new.first_sector = f.first_sector
       /\ new.mode = f.mode /\ new.current_sector = f.current_sector
  BY <1>5, <1>9 DEF SameHandle
<1> HIDE DEF f, p
<1>14. HandleNear(new, in.io.disk.sector, L) /\ At(new) = p
  BY <1>1, <1>2, <1>5, <1>9, <1>12, <1>13, HandleFollows
<1>15. Settled(new, in.io.disk.sector, L)
  <2>1. Located(new, in.io.disk.sector[new.dir_sector][new.dir_slot], L[p])
    <3> DEFINE g == in.file
               entry == in.io.disk.sector[new.dir_sector][new.dir_slot]
    <3>1. Aimed(f, f.current_sector, L[p])
      BY DEF Ready, f, p
    <3>2. g.position = f.position /\ g.file_size = f.file_size /\ g.current_sector = f.current_sector
          /\ g.mode = f.mode /\ g \in Held
      BY <1>5 DEF SameHandle
    <3> HIDE DEF g, entry
    <3>3. Aimed(g, g.current_sector, L[p])
      <4>1. Aimed(g, f.current_sector, L[p])
        BY <3>1, <3>2, AimedAlike
      <4> QED
        BY <3>2, <4>1
    <3>4. PICK q : q = L[p] /\ q \in Seq(Sectors) /\ q # <<>>
      BY <1>0, <1>1 DEF p
    <3>5. /\ new \in Held /\ new.position = g.position + 1 /\ new.file_size = SizeWith(g)
          /\ new.mode = g.mode /\ new.modified /\ new.current_sector = g.current_sector
      BY <1>9 DEF g
    <3>6. g.mode # MODE_READ
      BY <1>1, <3>2
    <3> QED
      BY <3>2, <3>3, <3>4, <3>5, <3>6, WriteLocates
  <2> QED
    BY <1>0, <1>1, <1>9, <1>13, <1>14, <2>1 DEF Settled
<1>16. Near(to, of, h, L)
  BY <1>1, <1>5, <1>7, <1>11, <1>13, <1>14 DEF Near, p
<1>17. Working(to, of, h, L)
  BY <1>7, <1>15, <1>16 DEF Working
<1> QED
  BY <1>17 DEF to, in

(* A turn keeps what it should.                                            *)
LEMMA WriteByteWorks ==
  ASSUME NEW of, NEW h, of[h].mode # MODE_READ, NEW at \in Workings(of, h), NEW value \in Values
  PROVE  WriteByte(at, value) \in Workings(of, h)
<1> DEFINE first == FirstSector(at)
           here == BeforeByte(first)
           to == WriteByte(at, value)
<1>1. PICK L : Working(at, of, h, L)
  BY DEF Workings
<1>2. CASE at.stopped
  BY <1>2, WriteByteIs
<1>3. ASSUME ~at.stopped
      PROVE  to \in Workings(of, h)
  <2>1. PICK M : Begun(first, of, h, M)
    BY <1>1, <1>3, FirstSectorBegins
  <2> HIDE DEF first
  <2>2. PICK N : Ready(here, of, h, N)
    BY <2>1, BeforeByteReady
  <2>3. to = IF here.stopped THEN here ELSE PutByte(load_buffer(here), value)
    BY <1>3, WriteByteIs DEF first
  <2> HIDE DEF here, to
  <2>4. Working(to, of, h, N)
    <3>1. CASE here.stopped
      BY <2>2, <2>3, <3>1 DEF Ready
    <3>2. CASE ~here.stopped
      BY <2>2, <2>3, <3>2, PutByteWorks
    <3> QED
      BY <3>1, <3>2
  <2> QED
    BY <2>4 DEF Workings, Working, Near
<1> QED
  BY <1>2, <1>3

(* file_write.                                                             *)
LEMMA WriteStep ==
  ASSUME Mindful, Consistent, NEW h \in Slots, NEW count \in Counts, NEW value \in Values, FileWrite(h, count, value)
  PROVE  Consistent'
<1>1. PICK L : Sane(Now, open_files, L) /\ Fine(Values, Now, L, Opened(open_files)) /\ L[TakenAt] = <<>>
  BY ConsistentIs
<1>2. PICK done : /\ done = Written(Job(h), count, value)
                  /\ open_files[h].in_use /\ open_files[h].mode # MODE_READ
                  /\ Finish(done.io, "write", done.written)
                  /\ open_files' = [open_files EXCEPT ![h] = done.file]
  BY Zenon DEF FileWrite, Written
<1>3. Job(h) \in Workings(open_files, h)
  BY <1>1, <1>2, JobWorks
<1>4. \A v \in Workings(open_files, h) : WriteByte(v, value) \in Workings(open_files, h)
  BY <1>2, WriteByteWorks
<1>5. count \in Nat
  BY QfsAssumption
<1>55. PICK run : Writing(run, Workings(open_files, h), Job(h), count, value) /\ Written(Job(h), count, value) = run[count]
  BY <1>3, <1>4, <1>5, WriteRuns
<1>6. done \in Workings(open_files, h)
  BY <1>2, <1>5, <1>55 DEF Writing
<1> QED
  BY <1>2, <1>6, JobFinishes

(* The invariant holds of a new disk.                                      *)
LEMMA StartsConsistent ==
  ASSUME Init
  PROVE  Consistent
<1> DEFINE io == Now
<1>1. /\ io.disk = NewDisk /\ io.free_sectors = total_sectors - root_start - 1
      /\ io.writes = <<>> /\ writes = <<>> /\ open_files = [h \in Slots |-> Closed]
  BY DEF Init, Now, Start, NewDisk
<1>2. io \in IOs(Contents(Values))
  <2>1. Blank \in Contents(Values)
    BY BlankIs
  <2>2. NewDisk \in Disks(Contents(Values))
    <3>1. total_sectors - root_start - 1 \in Int /\ FAT_FREE \in Marks
      BY DiskAssumption DEF Marks
    <3> QED
      BY <2>1, <3>1 DEF NewDisk, Disks
  <2>3. io = [disk |-> NewDisk, writes |-> <<>>, free_sectors |-> total_sectors - root_start - 1]
    BY DEF Init, Now, Start, NewDisk
  <2>4. <<>> \in Seq(SectorWrites(Contents(Values)))
    OBVIOUS
  <2>5. total_sectors - root_start - 1 \in Int
    BY DiskAssumption
  <2> HIDE DEF io
  <2> QED
    BY <2>2, <2>3, <2>4, <2>5 DEF IOs
<1>3. Counted(io)
  <2>1. NewDisk.super.free_sectors = total_sectors - root_start - 1
    BY DEF NewDisk
  <2> QED
    BY <1>1, <2>1, NewDiskCounted DEF Counted
<1>4. \A h \in Slots : ~IsOpen(open_files, h)
  BY <1>1 DEF IsOpen, Closed
<1>5. Opened(open_files) = {}
  BY <1>4 DEF Opened
<1>6. Fine(Values, io, NewLay, Opened(open_files))
  BY <1>1, <1>2, <1>3, <1>5, NewDiskLaid, NewDiskTidy DEF Fine
<1>7. NewLay[TakenAt] = <<>>
  BY NewLayIs, PlacesAre
<1>8. open_files \in [Slots -> {Closed} \cup Held]
  BY <1>1
<1>9. EmptySized(io.disk.sector)
  BY <1>1 DEF EmptySized, NewDisk, Blank, IsFile, IsEntry, Zero, CellIndex
<1>95. Covered(io.disk.sector, NewLay, Opened(open_files))
  BY <1>1 DEF Covered, NewDisk, Blank, IsFile, IsEntry, Zero, CellIndex
<1>10. Sane(io, open_files, NewLay)
  BY <1>4, <1>6, <1>7, <1>8, <1>9, <1>95 DEF Sane, Alone
<1> QED
  BY <1>1, <1>10 DEF Consistent

(* Every call keeps it, one step for each.                                 *)
LEMMA StepsStayConsistent ==
  ASSUME Mindful, Consistent, [Next]_vars
  PROVE  Consistent'
<1>1. ASSUME NEW path \in Paths, NEW mode \in Modes, FileOpen(path, mode) PROVE Consistent'
  BY <1>1, OpenStep
<1>2. ASSUME NEW h \in Slots, FileClose(h) PROVE Consistent'
  BY <1>2, CloseStep
<1>3. ASSUME NEW h \in Slots, NEW count \in Counts, FileRead(h, count) PROVE Consistent'
  BY <1>3, ReadStep
<1>4. ASSUME NEW h \in Slots, NEW count \in Counts, NEW value \in Values, FileWrite(h, count, value) PROVE Consistent'
  BY <1>4, WriteStep
<1>5. ASSUME NEW path \in DirPaths, Mkdir(path) PROVE Consistent'
  BY <1>5, MkdirStep
<1>6. ASSUME NEW path \in Paths, Touch(path) PROVE Consistent'
  BY <1>6, TouchStep
<1>7. ASSUME NEW path \in Paths, Rm(path) PROVE Consistent'
  BY <1>7, RmStep
<1>8. ASSUME NEW name \in Names, Create(name) PROVE Consistent'
  BY <1>8, CreateStep
<1>9. ASSUME NEW name \in Names, Destroy(name) PROVE Consistent'
  BY <1>9, DestroyStep
<1>10. ~WriteSector
  BY DEF WriteSector, Consistent
<1>11. ~Crash
  BY DEF Crash, Mindful
<1>12. CASE UNCHANGED vars
  BY <1>12 DEF vars, Consistent, Now
<1> QED
  BY <1>1, <1>2, <1>3, <1>4, <1>5, <1>6, <1>7, <1>8, <1>9, <1>10, <1>11, <1>12 DEF Next

(* The invariant of the file system: for every size of disk, number of     *)
(* names and of open files, and whatever calls in whatever order programs  *)
(* that mind what they do make, counts, FAT, directories and open files    *)
(* agree between calls.                                                    *)
THEOREM StaysConsistent ==
  ASSUME Mindful
  PROVE  Spec => []Consistent
<1>1. Init => Consistent
  BY StartsConsistent
<1>2. Consistent /\ [Next]_vars => Consistent'
  BY StepsStayConsistent
<1> QED
  BY <1>1, <1>2, PTL DEF Spec

(* No two files or directories ever share a sector (fat_alloc, fat_free,   *)
(* dir_delete_at): writing one does not change another.                    *)
THEOREM FilesAreDisjoint ==
  ASSUME Mindful
  PROVE  Spec => []ChainsDisjoint
<1>1. Consistent => ChainsDisjoint
  BY SaneDisjoint DEF Consistent
<1> QED
  BY <1>1, StaysConsistent, PTL

(* The driver's count of free sectors and the superblock's are that of the *)
(* FAT.                                                                    *)
THEOREM FreeSectorsAreCounted ==
  ASSUME Mindful
  PROVE  Spec => []FreeIsCounted
<1>1. Consistent => FreeIsCounted
  BY SaneCounted DEF Consistent
<1> QED
  BY <1>1, StaysConsistent, PTL

(* No directory has two entries of one name (mkdir, touch, CREATE and      *)
(* file_open look before they make one).                                   *)
THEOREM NamesAreUnique ==
  ASSUME Mindful
  PROVE  Spec => []NamesUnique
<1>1. Consistent => NamesUnique
  BY SaneNames DEF Consistent
<1> QED
  BY <1>1, StaysConsistent, PTL

(* Each sector that is taken is in the chain of an entry or of an open     *)
(* file: failing half way through mkdir, or on a full disk, loses none.    *)
THEOREM NoSectorIsLost ==
  ASSUME Mindful
  PROVE  Spec => []NoSectorLost
<1>1. Consistent => NoSectorLost
  BY SaneNothingLost DEF Consistent
<1> QED
  BY <1>1, StaysConsistent, PTL

(* The invariant implies that chains are as long as sizes say,             *)
LEMMA SaneCovers ==
  ASSUME Minds("mix"), NEW L, Sane(Now, open_files, L)
  PROVE  ChainsCoverSizes
<1>1. /\ Fine(Values, Now, L, Opened(open_files)) /\ Laid(Now.disk.fat, L)
      /\ Covered(disk.sector, L, Opened(open_files))
  BY NowIs DEF Sane, Fine
<1> SUFFICES ASSUME NEW place \in AllEntries, ~place.entry.dir, OpenAt(place) = {}
             PROVE  Len(Chain(Now, place.entry.first_sector)) = SectorsFor(place.entry.size)
  BY DEF ChainsCoverSizes, SectorsFor
<1>2. PICK s \in Sectors, k \in CellIndex : place = Cell(Now, s, k) /\ IsEntry(disk.sector[s][k])
  BY AllEntriesAre
<1>3. place.sector = s /\ place.slot = k /\ place.entry = disk.sector[s][k]
  BY <1>2, NowIs DEF Cell, Place
<1>4. <<s, k>> \notin Opened(open_files)
  <2>1. ASSUME NEW h \in Slots, IsOpen(open_files, h), At(open_files[h]) = <<s, k>>
        PROVE  FALSE
    BY <1>3, <2>1 DEF OpenAt, Open, IsOpen, At
  <2> QED
    BY <2>1 DEF Opened
<1>5. Len(L[<<s, k>>]) = SectorsFor(disk.sector[s][k].size)
  <2>1. IsFile(disk.sector[s][k])
    BY <1>2, <1>3 DEF IsFile
  <2> QED
    BY <1>1, <1>4, <2>1 DEF Covered
<1>6. disk.sector[s][k].first_sector = FirstOf(L, <<s, k>>)
  BY <1>1, <1>2, <1>4, NowIs DEF Fine, Tidy
<1>7. <<s, k>> \in Places
  BY PlacesAre DEF CellIndex
<1>8. Chain(Now, FirstOf(L, <<s, k>>)) = L[<<s, k>>]
  BY <1>1, <1>7, LaidIsChain
<1> QED
  BY <1>3, <1>5, <1>6, <1>8

(* and that cursors are where positions are.                               *)
LEMMA SaneAtPosition ==
  ASSUME Minds("mix"), NEW L, Sane(Now, open_files, L)
  PROVE  HandleAtPosition
<1>1. Fine(Values, Now, L, Opened(open_files)) /\ Laid(Now.disk.fat, L)
  BY DEF Sane, Fine
<1> SUFFICES ASSUME NEW h \in Open, ~AtBoundary(open_files[h])
             PROVE  open_files[h].current_sector =
                        Chain(Now, open_files[h].first_sector)[open_files[h].position \div Cells + 1]
  BY DEF HandleAtPosition
<1> DEFINE file == open_files[h]
           q == L[At(file)]
<1>2. HandleOk(file, Now.disk.sector, L) /\ At(file) \in Places /\ file \in Held
  BY SMTT(60), HandlesAre DEF Open
<1>3. Chain(Now, file.first_sector) = q
  BY ZenonT(60), <1>1, <1>2, LaidIsChain DEF HandleOk
<1>4. PICK p \in Nat : p = file.position /\ p % Cells # 0
  BY <1>2 DEF Held, AtBoundary
<1>5. p # 0
  <2>1. 0 % Cells = 0
    <3>1. Cells \in Nat \ {0} /\ 0 \in Nat
      BY DiskAssumption
    <3>2. 0 \div Cells \in Nat /\ 0 % Cells \in 0 .. Cells - 1 /\ 0 = Cells * (0 \div Cells) + (0 % Cells)
      BY <3>1, Division
    <3> QED
      BY <3>1, <3>2, OneSector
  <2> QED
    BY <1>4, <2>1
<1>6. q # <<>>
  BY ZenonT(60), <1>2, <1>4, <1>5 DEF HandleOk
<1>7. file.current_sector = q[CursorIndex(file)]
  BY ZenonT(60), <1>2, <1>6 DEF HandleOk, Located
<1>8. p \div Cells = (p - 1) \div Cells
  BY <1>4, <1>5, NextByteIs
<1>9. CursorIndex(file) = p \div Cells + 1
  BY <1>4, <1>5, <1>8 DEF CursorIndex
<1> QED
  BY <1>3, <1>4, <1>7, <1>9

(* The chain of every file that is not open has as many sectors as its     *)
(* size needs (file_write links sectors, file_close tells the entry), so   *)
(* that no byte that an entry counts lies beyond the chain, and none of    *)
(* the chain is unused.                                                    *)
THEOREM SizesAreCovered ==
  ASSUME Mindful, Minds("mix")
  PROVE  Spec => []ChainsCoverSizes
<1>1. Consistent => ChainsCoverSizes
  BY SaneCovers DEF Consistent
<1> QED
  BY <1>1, StaysConsistent, PTL

(* An open file's cursor is on the sector that its position lies in, for a *)
(* reader and a writer alike (file_open's seek to the end, file_read and   *)
(* file_write at the ends of sectors).                                     *)
THEOREM CursorsAreAtPositions ==
  ASSUME Mindful, Minds("mix")
  PROVE  Spec => []HandleAtPosition
<1>1. Consistent => HandleAtPosition
  BY SaneAtPosition DEF Consistent
<1> QED
  BY <1>1, StaysConsistent, PTL
=============================================================================

--------------------------- MODULE QfsStoreProofs ---------------------------
(***************************************************************************)
(* That the file system driver implements FileStore: behind sectors,       *)
(* chains, entries and buffers, programs see files of bytes and handles    *)
(* with positions, for every size of disk and of sector.                   *)
(*                                                                         *)
(* The invariant is that of QfsProofs, by which chains are disjoint and    *)
(* handles know where they are, with what it says nothing of: bytes.  A    *)
(* file's bytes are those of its chain or, while a handle is writing it,   *)
(* those that the handle sees (Holds); what is proved of each call is      *)
(* which files it lets be (Keeps) and what it makes of the one it is for   *)
(* (OpenIn, NewIn, ReadIn, WroteIn, ClosedIn, GoneIn).                     *)
(***************************************************************************)
EXTENDS QfsStore, QfsProofs

(* Sectors as a view has them, in the order of a chain, hold a file's      *)
(* bytes; a handle that writes sees its own buffer in the place of the     *)
(* sector it is for.                                                       *)
Data(q, n, view) == [i \in 1 .. n |-> view[q[(i - 1) \div Cells + 1]][(i - 1) % Cells]]

View(sec, file) == [sec EXCEPT ![file.buffer_sector] = file.buffer]

WritesAt(of, h, p) == IsOpen(of, h) /\ of[h].mode # MODE_READ /\ At(of[h]) = p

SizeAt(sec, p) == sec[p[1]][p[2]].size

(* The file at p has the bytes b: those on the disk, or those that the     *)
(* handle knows of that is writing it.                                     *)
Holds(sec, of, L, p, b) ==
    /\ (\A h \in Slots : ~WritesAt(of, h, p)) => b = Data(L[p], SizeAt(sec, p), sec)
    /\ \A h \in Slots : WritesAt(of, h, p) => b = Data(L[p], of[h].file_size, View(sec, of[h]))

(* A step lets the file at p be.                                           *)
Carries(sec, of, L, to, og, M, p) == \A b : Holds(sec, of, L, p, b) => Holds(to, og, M, p, b)

(* Each byte is in a sector of the chain.                                  *)
LEMMA ByteIsAt ==
  ASSUME NEW q \in Seq(Sectors), NEW n \in Nat, Len(q) = SectorsFor(n), NEW i \in 1 .. n
  PROVE  /\ (i - 1) \div Cells + 1 \in 1 .. Len(q) /\ (i - 1) % Cells \in CellIndex
         /\ q[(i - 1) \div Cells + 1] \in Items(q) /\ q[(i - 1) \div Cells + 1] \in Sectors
<1>1. n > 0 /\ i - 1 \in Nat /\ n - 1 \in Nat /\ i - 1 <= n - 1
  OBVIOUS
<1>2. Len(q) = (n - 1) \div Cells + 1 /\ (n - 1) \div Cells \in Nat
  BY <1>1, SectorsForIs
<1>3. PICK j \in Nat : j = i - 1
  BY <1>1
<1>4. j \div Cells \in Nat /\ j % Cells \in 0 .. Cells - 1
  BY Division, DiskAssumption
<1>5. j \div Cells <= (n - 1) \div Cells
  BY <1>1, <1>3, SectorsGrow
<1>6. PICK d, m : d = j \div Cells /\ m = (n - 1) \div Cells
  OBVIOUS
<1>7. d + 1 \in 1 .. Len(q)
  BY <1>2, <1>4, <1>5, <1>6
<1>8. q[d + 1] \in Items(q) /\ q[d + 1] \in Sectors
  BY <1>7 DEF Items
<1> QED
  BY <1>3, <1>4, <1>6, <1>7, <1>8 DEF CellIndex

(* The bytes are those of the chain's sectors.                             *)
LEMMA DataAlike ==
  ASSUME NEW q \in Seq(Sectors), NEW n \in Nat, Len(q) = SectorsFor(n), NEW u, NEW v,
         \A t \in Items(q) : u[t] = v[t]
  PROVE  Data(q, n, u) = Data(q, n, v)
<1>1. ASSUME NEW i \in 1 .. n
      PROVE  u[q[(i - 1) \div Cells + 1]] = v[q[(i - 1) \div Cells + 1]]
  BY ByteIsAt
<1> QED
  BY <1>1 DEF Data

(* A file has one content.                                                 *)
LEMMA HoldsOne ==
  ASSUME NEW sec, NEW of, NEW L, NEW p, NEW b, NEW c, Holds(sec, of, L, p, b), Holds(sec, of, L, p, c)
  PROVE  b = c
BY DEF Holds

(* The size of a file is that of its chain: the size that the handle knows *)
(* of that writes it, or else the entry's.                                 *)
LEMMA SizesAre ==
  ASSUME NEW io, NEW of, NEW L, Sane(io, of, L), Minds("mix"), NEW s \in Sectors, NEW k \in CellIndex,
         IsFile(io.disk.sector[s][k])
  PROVE  /\ L[<<s, k>>] \in Seq(Sectors) /\ io.disk.sector[s][k].size \in Nat
         /\ (\A h \in Slots : ~WritesAt(of, h, <<s, k>>)) =>
                Len(L[<<s, k>>]) = SectorsFor(io.disk.sector[s][k].size)
         /\ \A h \in Slots : WritesAt(of, h, <<s, k>>) =>
                Len(L[<<s, k>>]) = SectorsFor(of[h].file_size) /\ of[h].file_size \in Nat
<1> DEFINE sec == io.disk.sector
           p == <<s, k>>
<1>1. L \in [Places -> Seq(Sectors)] /\ p \in Places /\ sec \in [Sectors -> Contents(Values)]
  BY PlacesAre, IOsAre DEF Sane, Fine, Laid, CellIndex
<1>2. sec[s][k] \in CellSet(Values)
  BY <1>1 DEF Contents
<1>3. L[p] \in Seq(Sectors) /\ sec[s][k].size \in Nat
  BY <1>1, <1>2, EntriesTyped DEF IsFile
<1>4. ASSUME NEW h \in Slots, WritesAt(of, h, p)
      PROVE  Len(L[p]) = SectorsFor(of[h].file_size) /\ of[h].file_size \in Nat
  <2>1. of[h] \in Held /\ HandleOk(of[h], sec, L) /\ At(of[h]) = p
    BY <1>4, HandlesAre DEF WritesAt, IsOpen
  <2>2. Located(of[h], sec[of[h].dir_sector][of[h].dir_slot], L[p])
    BY ZenonT(60), <2>1 DEF HandleOk
  <2> QED
    BY ZenonT(60), <2>1, <2>2 DEF Located, Held
<1>5. ASSUME \A h \in Slots : ~WritesAt(of, h, p)
      PROVE  Len(L[p]) = SectorsFor(sec[s][k].size)
  <2>1. CASE p \in Opened(of)
    <3>1. PICK h \in Slots : IsOpen(of, h) /\ At(of[h]) = p
      BY <2>1 DEF Opened
    <3>2. of[h].mode = MODE_READ
      BY <1>5, <3>1 DEF WritesAt
    <3>3. HandleOk(of[h], sec, L)
      BY <3>1, HandlesAre DEF IsOpen
    <3>4. of[h].dir_sector = s /\ of[h].dir_slot = k
      BY <3>1 DEF At
    <3>5. ~of[h].modified /\ Located(of[h], sec[s][k], L[p])
      BY <3>1, <3>2, <3>3, <3>4 DEF HandleOk
    <3> QED
      BY <3>5 DEF Located
  <2>2. CASE p \notin Opened(of)
    BY <2>2 DEF Sane, Covered
  <2> QED
    BY <2>1, <2>2
<1> QED
  BY <1>3, <1>4, <1>5

(* A step that changes neither the chain of a file nor its sectors, nor    *)
(* the handle that writes it, lets it be.                                  *)
LEMMA CarriesOn ==
  ASSUME NEW io, NEW of, NEW L, Sane(io, of, L), Minds("mix"), NEW s \in Sectors, NEW k \in CellIndex,
         IsFile(io.disk.sector[s][k]),
         NEW to, NEW og, NEW M, DOMAIN to = Sectors, M[<<s, k>>] = L[<<s, k>>],
         to[s][k].size = io.disk.sector[s][k].size,
         \A t \in On(L, <<s, k>>) : to[t] = io.disk.sector[t],
         \A h \in Slots : /\ WritesAt(og, h, <<s, k>>) <=> WritesAt(of, h, <<s, k>>)
                          /\ WritesAt(of, h, <<s, k>>) => og[h] = of[h]
  PROVE  Carries(io.disk.sector, of, L, to, og, M, <<s, k>>)
<1> DEFINE sec == io.disk.sector
           p == <<s, k>>
<1>1. DOMAIN sec = Sectors
  BY IOsAre DEF Sane, Fine
<1>2. /\ L[p] \in Seq(Sectors) /\ sec[s][k].size \in Nat
      /\ (\A h \in Slots : ~WritesAt(of, h, p)) => Len(L[p]) = SectorsFor(sec[s][k].size)
      /\ \A h \in Slots : WritesAt(of, h, p) => Len(L[p]) = SectorsFor(of[h].file_size) /\ of[h].file_size \in Nat
  BY SizesAre
<1>3. SizeAt(to, p) = sec[s][k].size /\ SizeAt(sec, p) = sec[s][k].size
  BY DEF SizeAt
<1>4. \A t \in Items(L[p]) : t \in Sectors /\ to[t] = sec[t]
  BY <1>2, ItemsAre DEF On
<1> SUFFICES ASSUME NEW b, Holds(sec, of, L, p, b)
             PROVE  Holds(to, og, M, p, b)
  BY DEF Carries
<1> HIDE DEF p, sec
<1>5. ASSUME \A h \in Slots : ~WritesAt(og, h, p)
      PROVE  b = Data(M[p], SizeAt(to, p), to)
  <2>1. \A h \in Slots : ~WritesAt(of, h, p)
    BY <1>5 DEF p
  <2>2. b = Data(L[p], SizeAt(sec, p), sec)
    BY <2>1 DEF Holds
  <2>3. Data(L[p], sec[s][k].size, sec) = Data(L[p], sec[s][k].size, to)
    BY <1>2, <1>4, <2>1, DataAlike
  <2> QED
    BY <1>3, <2>2, <2>3 DEF p
<1>6. ASSUME NEW h \in Slots, WritesAt(og, h, p)
      PROVE  b = Data(M[p], og[h].file_size, View(to, og[h]))
  <2>1. WritesAt(of, h, p) /\ og[h] = of[h]
    BY <1>6 DEF p
  <2>2. b = Data(L[p], of[h].file_size, View(sec, of[h]))
    BY <2>1 DEF Holds
  <2>3. PICK f : f = of[h]
    OBVIOUS
  <2>4. \A t \in Items(L[p]) : View(sec, f)[t] = View(to, f)[t]
    BY <1>1, <1>4 DEF View
  <2>45. Len(L[p]) = SectorsFor(f.file_size) /\ f.file_size \in Nat
    BY <1>2, <2>1, <2>3
  <2>5. Data(L[p], f.file_size, View(sec, f)) = Data(L[p], f.file_size, View(to, f))
    <3>1. PICK q, n, u, v : q = L[p] /\ n = f.file_size /\ u = View(sec, f) /\ v = View(to, f)
      OBVIOUS
    <3>2. q \in Seq(Sectors) /\ n \in Nat /\ Len(q) = SectorsFor(n) /\ \A t \in Items(q) : u[t] = v[t]
      BY <1>2, <2>4, <2>45, <3>1
    <3>3. Data(q, n, u) = Data(q, n, v)
      BY <3>2, DataAlike
    <3> QED
      BY <3>1, <3>3
  <2> QED
    BY <2>1, <2>2, <2>3, <2>5 DEF p
<1> QED
  BY <1>5, <1>6 DEF Holds

(* There are no directories but the root; a buffer that is not to be       *)
(* written has what is on the disk.                                        *)
Flat(sec) == \A s \in Sectors, k \in CellIndex : ~IsDirectory(sec[s][k])

Clean(file, sec) ==
    file.buffer_sector # NO_SECTOR /\ ~file.buffer_dirty => file.buffer = sec[file.buffer_sector]

Cleans(of, sec) == \A h \in Slots : IsOpen(of, h) => Clean(of[h], sec)

(* The invariant that the store needs.                                     *)
Faithful(io, of, L) == Sane(io, of, L) /\ Flat(io.disk.sector) /\ Cleans(of, io.disk.sector)

Named(sec, s, k, n) == IsFile(sec[s][k]) /\ sec[s][k].name = n

(* All entries are of files, in the root directory, under names that       *)
(* differ.                                                                 *)
LEMMA RootIs ==
  ASSUME NEW io, NEW of, NEW L, Sane(io, of, L), Flat(io.disk.sector)
  PROVE  /\ Dirs(io.disk.sector) = {RootAt} /\ FirstOf(L, RootAt) = root_start /\ RootAt \in Places
         /\ \A s \in Sectors, k \in CellIndex : IsEntry(io.disk.sector[s][k]) =>
              IsFile(io.disk.sector[s][k]) /\ s \in On(L, RootAt) /\ io.disk.sector[s][k].name \in Names
         /\ \A s, t \in Sectors, k, j \in CellIndex :
              /\ IsEntry(io.disk.sector[s][k])
              /\ IsEntry(io.disk.sector[t][j])
              /\ io.disk.sector[s][k].name = io.disk.sector[t][j].name
              => s = t /\ k = j
<1> DEFINE sec == io.disk.sector
<1>1. /\ Laid(io.disk.fat, L) /\ Tidy(sec, L, Opened(of)) /\ L \in [Places -> Seq(Sectors)]
      /\ sec \in [Sectors -> Contents(Values)]
  BY IOsAre DEF Sane, Fine, Laid
<1>2. Dirs(sec) = {RootAt} /\ RootAt \in Places
  <2>1. \A p \in Dirs(sec) : p = RootAt
    BY DEF Dirs, Flat
  <2> QED
    BY <2>1, DirsAre
<1>3. FirstOf(L, RootAt) = root_start
  BY <1>1 DEF Laid, FirstOf
<1> HIDE DEF sec
<1>4. ASSUME NEW s \in Sectors, NEW k \in CellIndex, IsEntry(sec[s][k])
      PROVE  IsFile(sec[s][k]) /\ s \in On(L, RootAt) /\ sec[s][k].name \in Names
  <2>1. sec[s][k] \in CellSet(Values)
    BY <1>1 DEF Contents
  <2>2. sec[s][k].name \in Names
    BY <1>4, <2>1, EntriesTyped
  <2>3. \E d \in Dirs(sec) : s \in On(L, d)
    BY <1>1, <1>4 DEF Tidy
  <2>4. ~IsDirectory(sec[s][k])
    BY DEF Flat, sec
  <2> QED
    BY <1>2, <1>4, <2>2, <2>3, <2>4 DEF IsFile, IsDirectory
<1>5. ASSUME NEW s \in Sectors, NEW t \in Sectors, NEW k \in CellIndex, NEW j \in CellIndex,
             IsEntry(sec[s][k]), IsEntry(sec[t][j]), sec[s][k].name = sec[t][j].name
      PROVE  s = t /\ k = j
  <2>1. s \in On(L, RootAt) /\ t \in On(L, RootAt) /\ RootAt \in Dirs(sec)
    BY <1>2, <1>4, <1>5
  <2>2. Repeats \notin Opened(of)
    BY NamesDoNotRepeat DEF Sane
  <2> QED
    BY <1>1, <1>5, <2>1, <2>2 DEF Tidy
<1> QED
  BY <1>2, <1>3, <1>4, <1>5 DEF sec

(* What the search for a name finds in the root directory.                 *)
Looked(sec, n, found) ==
    \/ found = NotFound /\ \A s \in Sectors, k \in CellIndex : ~Named(sec, s, k, n)
    \/ \E s \in Sectors, k \in CellIndex : found = Place(s, k, sec[s][k]) /\ Named(sec, s, k, n)

(* It finds the file, if there is one.                                     *)
LEMMA Looks ==
  ASSUME NEW io, NEW of, NEW L, Sane(io, of, L), Flat(io.disk.sector), NEW n
  PROVE  Looked(io.disk.sector, n, dir_find_in(io, root_start, n))
<1> DEFINE sec == io.disk.sector
           found == dir_find_in(io, root_start, n)
<1>1. /\ RootAt \in Places /\ FirstOf(L, RootAt) = root_start
      /\ \A s \in Sectors, k \in CellIndex : IsEntry(sec[s][k]) => IsFile(sec[s][k]) /\ s \in On(L, RootAt)
  BY RootIs
<1>2. Laid(io.disk.fat, L) /\ L \in [Places -> Seq(Sectors)]
  BY DEF Sane, Fine, Laid
<1>3. Searched(io, L, RootAt, n, dir_find_in(io, FirstOf(L, RootAt), n))
  BY <1>1, <1>2, Searches
<1>4. Searched(io, L, RootAt, n, found)
  BY <1>1, <1>3
<1>5. On(L, RootAt) \subseteq Sectors
  BY <1>1, <1>2, OnSectors
<1> HIDE DEF found
<1>6. CASE found = NotFound /\ \A s \in On(L, RootAt), k \in CellIndex : IsEntry(sec[s][k]) => sec[s][k].name # n
  <2>1. \A s \in Sectors, k \in CellIndex : ~Named(sec, s, k, n)
    BY <1>1, <1>6 DEF Named, IsFile
  <2> QED
    BY <1>6, <2>1 DEF Looked, found
<1>7. ASSUME NEW s \in On(L, RootAt), NEW k \in CellIndex,
             found = Cell(io, s, k), IsEntry(sec[s][k]), sec[s][k].name = n
      PROVE  Looked(sec, n, found)
  <2>1. s \in Sectors /\ Named(sec, s, k, n)
    BY <1>1, <1>5, <1>7 DEF Named
  <2> QED
    BY <1>7, <2>1 DEF Looked, Cell
<1> QED
  BY <1>4, <1>6, <1>7 DEF Searched, found

(* A path of one name leads to what the root directory has under it.       *)
LEMMA RootPaths ==
  ASSUME NEW io, NEW of, NEW L, Sane(io, of, L), NEW n \in Names
  PROVE  /\ resolve_parent(io, <<n>>) = root_start /\ Last(<<n>>) = n
         /\ resolve_path(io, <<n>>) = dir_find_in(io, root_start, n)
<1>1. Fine(Values, io, L, Opened(of))
  BY DEF Sane
<1>2. /\ <<n>> \in Seq(Names) /\ <<n>> # <<>> /\ Front(<<n>>) = <<>> /\ Last(<<n>>) = n
      /\ <<>> \in Seq(Names)
  BY DEF Front, Last
<1>3. resolve_path(io, <<>>) = RootPlace
  <2>0. <<>> \in Seq(Names) /\ Len(<<>>) = 0
    OBVIOUS
  <2>1. PICK e : e = <<>> /\ e \in Seq(Names) /\ Len(e) = 0
    BY <2>0, Zenon
  <2>2. PICK f : Walk(io, e, f)
    BY <1>1, <2>1, Walks
  <2>3. resolve_path(io, e) = f[Len(e)] /\ f[0] = RootPlace
    BY <2>2 DEF Walk
  <2> QED
    BY <2>1, <2>3
<1>4. RootPlace.entry = Dirent("/", TRUE, root_start, 0)
  BY DEF RootPlace, Place
<1>5. IsDirectory(RootPlace.entry) /\ RootPlace.entry.first_sector = root_start
  BY <1>4 DEF Dirent, IsDirectory, IsEntry
<1>6. resolve_parent(io, <<n>>) = root_start
  BY <1>2, <1>3, <1>5 DEF resolve_parent
<1>7. resolve_path(io, <<n>>) = Onward(io, resolve_path(io, Front(<<n>>)), Last(<<n>>))
  <2>1. PICK path : path = <<n>>
    OBVIOUS
  <2>2. path \in Seq(Names) /\ path # <<>>
    BY <1>2, <2>1
  <2>3. resolve_path(io, path) = Onward(io, resolve_path(io, Front(path)), Last(path))
    BY <1>1, <2>2, Resolves
  <2> QED
    BY <2>1, <2>3
<1>8. resolve_path(io, <<n>>) = Onward(io, RootPlace, n)
  BY <1>2, <1>3, <1>7
<1> QED
  BY <1>2, <1>5, <1>6, <1>8 DEF Onward

(* The store and the handles that a state of Qfs stands for.               *)
Stores(sec, of, L, store) ==
    /\ store = [n \in DOMAIN store |-> store[n]]
    /\ DOMAIN store = {n \in Names : \E s \in Sectors, k \in CellIndex : Named(sec, s, k, n)}
    /\ \A s \in Sectors, k \in CellIndex :
         IsFile(sec[s][k]) => Holds(sec, of, L, <<s, k>>, store[sec[s][k].name])

HandleIs(sec, file) ==
    IF ~file.in_use THEN [open |-> FALSE]
    ELSE [open |-> TRUE, mode |-> file.mode, position |-> file.position,
          name |-> sec[file.dir_sector][file.dir_slot].name]

Represents(sec, of, L, st) ==
    /\ Stores(sec, of, L, st.store)
    /\ st.handles = [h \in Slots |-> HandleIs(sec, of[h])]

(* The handles that write the file at a place.                             *)
Writers(place) == {h \in OpenAt(place) : open_files[h].mode # MODE_READ}

(* They are none, or one.                                                  *)
LEMMA WritersAre ==
  ASSUME NEW L, Sane(Now, open_files, L), NEW s, NEW k, NEW cell
  PROVE  /\ \A h \in Slots : h \in Writers(Place(s, k, cell)) <=> WritesAt(open_files, h, <<s, k>>)
         /\ \A h \in Slots : WritesAt(open_files, h, <<s, k>>) => Writers(Place(s, k, cell)) = {h}
         /\ Writers(Place(s, k, cell)) \subseteq Slots
<1> DEFINE place == Place(s, k, cell)
<1>1. place.sector = s /\ place.slot = k
  BY DEF Place
<1>2. Writers(place) \subseteq Slots
  BY DEF Writers, OpenAt, Open
<1>3. \A h \in Slots : h \in Writers(place) <=> WritesAt(open_files, h, <<s, k>>)
  <2> HIDE DEF place
  <2> QED
    BY <1>1 DEF Writers, OpenAt, Open, WritesAt, IsOpen, At
<1>4. ASSUME NEW h \in Slots, WritesAt(open_files, h, <<s, k>>)
      PROVE  Writers(place) = {h}
  <2>1. ASSUME NEW g \in Writers(place), g # h PROVE FALSE
    <3>1. g \in Slots /\ WritesAt(open_files, g, <<s, k>>)
      BY <1>2, <1>3, <2>1
    <3> QED
      BY <1>4, <2>1, <3>1 DEF Sane, Alone, WritesAt
  <2> QED
    BY <1>3, <1>4, <2>1
<1> QED
  BY <1>2, <1>3, <1>4

(* Where the chain of a file starts: its entry knows, unless the file is   *)
(* being written.                                                          *)
LEMMA FirstKnown ==
  ASSUME NEW io, NEW of, NEW L, Sane(io, of, L), NEW s \in Sectors, NEW k \in CellIndex,
         IsFile(io.disk.sector[s][k])
  PROVE  /\ (\A h \in Slots : ~WritesAt(of, h, <<s, k>>)) =>
                io.disk.sector[s][k].first_sector = FirstOf(L, <<s, k>>)
         /\ \A h \in Slots : WritesAt(of, h, <<s, k>>) => of[h].first_sector = FirstOf(L, <<s, k>>)
<1> DEFINE sec == io.disk.sector
           p == <<s, k>>
<1>1. ASSUME NEW h \in Slots, IsOpen(of, h), At(of[h]) = p
      PROVE  /\ of[h].first_sector = FirstOf(L, p)
             /\ of[h].mode = MODE_READ => sec[s][k].first_sector = of[h].first_sector
  <2>1. HandleOk(of[h], sec, L)
    BY <1>1, HandlesAre DEF IsOpen
  <2>2. of[h].dir_sector = s /\ of[h].dir_slot = k
    BY <1>1 DEF At
  <2> QED
    BY <1>1, <2>1, <2>2 DEF HandleOk
<1>2. ASSUME \A h \in Slots : ~WritesAt(of, h, p)
      PROVE  sec[s][k].first_sector = FirstOf(L, p)
  <2>1. CASE p \in Opened(of)
    <3>1. PICK h \in Slots : IsOpen(of, h) /\ At(of[h]) = p
      BY <2>1 DEF Opened
    <3>2. of[h].mode = MODE_READ
      BY <1>2, <3>1 DEF WritesAt
    <3> QED
      BY <1>1, <3>1, <3>2
  <2>2. CASE p \notin Opened(of)
    BY <2>2 DEF Sane, Fine, Tidy, IsFile
  <2> QED
    BY <2>1, <2>2
<1> QED
  BY <1>1, <1>2 DEF WritesAt

(* The bytes of the abstract store, from the inside out.                   *)
BytesOf(place, writers, extent, chain) ==
    [i \in 1 .. extent.size |-> CellAt(chain[(i - 1) \div Cells + 1], (i - 1) % Cells, writers)]

LEMMA BytesAtIs ==
  ASSUME NEW place
  PROVE  BytesAt(place) =
           BytesOf(place, Writers(place), Extent(place, Writers(place)),
                   Chain(Now, Extent(place, Writers(place)).first_sector))
<1> DEFINE w == Writers(place)
           C(writers, extent, chain) == BytesOf(place, writers, extent, chain)
           E(writers, extent) ==
             CHOOSE result \in {C(writers, extent, chain) : chain \in {Chain(Now, extent.first_sector)}} : TRUE
           W(writers) == CHOOSE result \in {E(writers, extent) : extent \in {Extent(place, writers)}} : TRUE
<1>1. BytesAt(place) = CHOOSE result \in {W(writers) : writers \in {w}} : TRUE
  BY Zenon DEF BytesAt, Bind, Writers, BytesOf
<1>2. (CHOOSE result \in {W(writers) : writers \in {w}} : TRUE) = W(w)
  <2> HIDE DEF W, w
  <2> QED
    OBVIOUS
<1>3. W(w) = E(w, Extent(place, w))
  <2> HIDE DEF E, w
  <2> QED
    OBVIOUS
<1>4. ASSUME NEW e
      PROVE  E(w, e) = C(w, e, Chain(Now, e.first_sector))
  <2> HIDE DEF C, w
  <2> QED
    OBVIOUS
<1> HIDE DEF W, E
<1> QED
  BY <1>1, <1>2, <1>3, <1>4

(* They are those that the file holds.                                     *)
LEMMA SeenBytes ==
  ASSUME NEW L, Sane(Now, open_files, L), Minds("mix"), NEW s \in Sectors, NEW k \in CellIndex,
         IsFile(Now.disk.sector[s][k])
  PROVE  Holds(Now.disk.sector, open_files, L, <<s, k>>, BytesAt(Place(s, k, Now.disk.sector[s][k])))
<1> DEFINE sec == Now.disk.sector
           p == <<s, k>>
           place == Place(s, k, sec[s][k])
           w == Writers(place)
           extent == Extent(place, w)
<1>1. /\ \A h \in Slots : h \in w <=> WritesAt(open_files, h, p)
      /\ \A h \in Slots : WritesAt(open_files, h, p) => w = {h}
      /\ w \subseteq Slots
  BY WritersAre
<1>2. /\ (\A h \in Slots : ~WritesAt(open_files, h, p)) => sec[s][k].first_sector = FirstOf(L, p)
      /\ \A h \in Slots : WritesAt(open_files, h, p) => open_files[h].first_sector = FirstOf(L, p)
  BY FirstKnown
<1>3. Chain(Now, FirstOf(L, p)) = L[p]
  <2>1. Laid(Now.disk.fat, L) /\ p \in Places
    BY PlacesAre DEF Sane, Fine, CellIndex
  <2> QED
    BY <2>1, LaidIsChain
<1>4. BytesAt(place) = BytesOf(place, w, extent, Chain(Now, extent.first_sector))
  BY BytesAtIs
<1>5. place.entry = sec[s][k] /\ SizeAt(sec, p) = sec[s][k].size
  BY DEF Place, SizeAt
<1>6. disk.sector = sec /\ DOMAIN sec = Sectors
  <2>1. Now \in IOs(Contents(Values))
    BY DEF Sane, Fine
  <2> QED
    BY <2>1, NowIs, IOsAre
<1> HIDE DEF sec, p, place, w
<1>7. ASSUME \A h \in Slots : ~WritesAt(open_files, h, p)
      PROVE  BytesAt(place) = Data(L[p], SizeAt(sec, p), sec)
  <2>1. w = {}
    BY <1>1, <1>7
  <2>2. extent = sec[s][k]
    BY <1>5, <2>1 DEF Extent
  <2> HIDE DEF extent
  <2>3. BytesAt(place) = BytesOf(place, w, extent, L[p])
    BY <1>2, <1>3, <1>4, <1>7, <2>2
  <2>4. \A t, j : CellAt(t, j, w) = sec[t][j]
    BY <1>6, <2>1 DEF CellAt
  <2> QED
    BY <1>5, <2>2, <2>3, <2>4 DEF BytesOf, Data
<1>8. ASSUME NEW h \in Slots, WritesAt(open_files, h, p)
      PROVE  BytesAt(place) = Data(L[p], open_files[h].file_size, View(sec, open_files[h]))
  <2> DEFINE file == open_files[h]
  <2>1. w = {h} /\ h \in Nat
    BY <1>1, <1>8 DEF Slots
  <2>2. Min({h}) = h
    BY <2>1, MinIsIn
  <2>3. extent.first_sector = file.first_sector /\ extent.size = file.file_size
    BY <2>1, <2>2 DEF Extent
  <2>4. BytesAt(place) = BytesOf(place, w, extent, L[p])
    BY <1>2, <1>3, <1>4, <1>8, <2>3
  <2>5. \A t \in Sectors : \A j : CellAt(t, j, w) = View(sec, file)[t][j]
    <3> SUFFICES ASSUME NEW t \in Sectors, NEW j PROVE CellAt(t, j, w) = View(sec, file)[t][j]
      OBVIOUS
    <3>1. CASE file.buffer_sector = t
      <4>1. {g \in w : open_files[g].buffer_sector = t} = {h}
        BY <2>1, <3>1
      <4>2. CellAt(t, j, w) = file.buffer[j]
        BY <2>2, <4>1 DEF CellAt
      <4> HIDE DEF file
      <4> QED
        BY <1>6, <3>1, <4>2 DEF View
    <3>2. CASE file.buffer_sector # t
      <4>1. {g \in w : open_files[g].buffer_sector = t} = {}
        BY <2>1, <3>2
      <4>2. CellAt(t, j, w) = sec[t][j]
        BY <1>6, <4>1 DEF CellAt
      <4> HIDE DEF file
      <4> QED
        BY <1>6, <3>2, <4>2 DEF View
    <3> QED
      BY <3>1, <3>2
  <2>6. L[p] \in Seq(Sectors) /\ Len(L[p]) = SectorsFor(file.file_size) /\ file.file_size \in Nat
    BY <1>8, SizesAre DEF p, sec
  <2>7. \A i \in 1 .. file.file_size : L[p][(i - 1) \div Cells + 1] \in Sectors
    <3>1. PICK q, n : q = L[p] /\ n = file.file_size
      OBVIOUS
    <3> QED
      BY <2>6, <3>1, ByteIsAt
  <2>8. \A i \in 1 .. file.file_size :
           CellAt(L[p][(i - 1) \div Cells + 1], (i - 1) % Cells, w) =
              View(sec, file)[L[p][(i - 1) \div Cells + 1]][(i - 1) % Cells]
    BY <2>5, <2>7
  <2> HIDE DEF file, extent
  <2> QED
    BY <2>3, <2>4, <2>8, Zenon DEF BytesOf, Data, file
<1>9. Holds(sec, open_files, L, p, BytesAt(place))
  BY <1>7, <1>8 DEF Holds
<1> QED
  BY <1>9 DEF sec, p, place

(* What the abstract store is, is what the state represents.               *)
Shown == \A L : Minds("mix") /\ Faithful(Now, open_files, L) => Represents(disk.sector, open_files, L, Seen)

LEMMA SeenIsShown ==
  Shown
<1> SUFFICES ASSUME NEW L, Minds("mix"), Faithful(Now, open_files, L)
             PROVE  Represents(disk.sector, open_files, L, Seen)
  BY DEF Shown
<1> DEFINE sec == disk.sector
           known == {m \in Names : PlaceOf(m).found}
           store == [n \in known |-> Bind(PlaceOf(n), BytesAt)]
           handles == [h \in Slots |-> HandleOf(open_files[h])]
<1>1. Sane(Now, open_files, L) /\ Flat(Now.disk.sector) /\ Now.disk.sector = sec
  BY NowIs DEF Faithful
<1>2. \A n : Looked(sec, n, PlaceOf(n))
  BY <1>1, Looks DEF PlaceOf
<1>3. \A s, t \in Sectors, k, j \in CellIndex : \A n :
         Named(sec, s, k, n) /\ Named(sec, t, j, n) => s = t /\ k = j
  <2>1. \A s, t \in Sectors, k, j \in CellIndex :
          /\ IsEntry(sec[s][k])
          /\ IsEntry(sec[t][j])
          /\ sec[s][k].name = sec[t][j].name
          => s = t /\ k = j
    BY <1>1, RootIs
  <2> QED
    BY <2>1 DEF Named, IsFile
<1>4. ASSUME NEW s \in Sectors, NEW k \in CellIndex, NEW n, Named(sec, s, k, n)
      PROVE  PlaceOf(n) = Place(s, k, sec[s][k]) /\ PlaceOf(n).found
  <2>1. PICK t \in Sectors, j \in CellIndex : PlaceOf(n) = Place(t, j, sec[t][j]) /\ Named(sec, t, j, n)
    BY <1>2, <1>4 DEF Looked
  <2>2. s = t /\ k = j
    BY <1>3, <1>4, <2>1
  <2> QED
    BY <2>1, <2>2 DEF Place
<1>5. ASSUME NEW n, PlaceOf(n).found
      PROVE  \E s \in Sectors, k \in CellIndex : Named(sec, s, k, n)
  BY <1>2, <1>5 DEF Looked, NotFound
<1>6. known = {n \in Names : \E s \in Sectors, k \in CellIndex : Named(sec, s, k, n)}
  BY <1>4, <1>5
<1>7. ASSUME NEW s \in Sectors, NEW k \in CellIndex, IsFile(sec[s][k])
      PROVE  Holds(sec, open_files, L, <<s, k>>, store[sec[s][k].name])
  <2> DEFINE n == sec[s][k].name
  <2>1. Named(sec, s, k, n) /\ n \in Names
    BY <1>1, <1>7, RootIs DEF Named, IsFile
  <2>2. n \in known /\ PlaceOf(n) = Place(s, k, sec[s][k])
    BY <1>4, <2>1
  <2>3. store[n] = BytesAt(PlaceOf(n))
    <3>1. store[n] = Bind(PlaceOf(n), BytesAt)
      BY <2>2
    <3>2. Bind(PlaceOf(n), BytesAt) = CHOOSE result \in {BytesAt(v) : v \in {PlaceOf(n)}} : TRUE
      BY Zenon DEF Bind
    <3>3. (CHOOSE result \in {BytesAt(v) : v \in {PlaceOf(n)}} : TRUE) = BytesAt(PlaceOf(n))
      OBVIOUS
    <3> QED
      BY <3>1, <3>2, <3>3
  <2>4. Holds(Now.disk.sector, open_files, L, <<s, k>>, BytesAt(Place(s, k, Now.disk.sector[s][k])))
    BY <1>1, <1>7, SeenBytes
  <2> HIDE DEF store, n, known
  <2> QED
    BY <1>1, <2>2, <2>3, <2>4 DEF n
<1>8. DOMAIN store = known
  OBVIOUS
<1>9. store = [n \in DOMAIN store |-> store[n]]
  OBVIOUS
<1>10. ASSUME NEW h \in Slots
       PROVE  HandleOf(open_files[h]) = HandleIs(sec, open_files[h])
  <2>1. CASE ~open_files[h].in_use
    BY <2>1 DEF HandleOf, HandleIs
  <2>2. CASE open_files[h].in_use
    <3>1. open_files[h].dir_sector \in Sectors
      BY <1>1, <2>2, HandlesAre
    <3>2. read_dirent_at(Now, open_files[h].dir_sector, open_files[h].dir_slot)
             = sec[open_files[h].dir_sector][open_files[h].dir_slot]
      BY <1>1, <3>1 DEF read_dirent_at
    <3> QED
      BY <3>2 DEF HandleOf, HandleIs
  <2> QED
    BY <2>1, <2>2
<1>11. handles = [h \in Slots |-> HandleIs(sec, open_files[h])]
  BY <1>10
<1>12. Seen = [store |-> store, handles |-> handles]
  BY DEF Seen
<1> HIDE DEF store, known, handles
<1>13. Seen.store = store /\ Seen.handles = handles
  BY <1>12
<1>14. Stores(sec, open_files, L, store)
  BY <1>6, <1>7, <1>8, <1>9 DEF Stores
<1> QED
  BY <1>11, <1>13, <1>14 DEF Represents

(* A step lets the files be, but for those at the places P.                *)
Keeps(sec, of, L, to, og, M, P) ==
    \A s \in Sectors, k \in CellIndex : <<s, k>> \notin P =>
        /\ IsFile(to[s][k]) <=> IsFile(sec[s][k])
        /\ IsFile(sec[s][k]) => to[s][k].name = sec[s][k].name /\ Carries(sec, of, L, to, og, M, <<s, k>>)

(* What the files are called.                                              *)
NamesDiffer(sec) ==
    /\ \A s \in Sectors, k \in CellIndex : IsFile(sec[s][k]) => sec[s][k].name \in Names
    /\ \A s, t \in Sectors, k, j \in CellIndex :
         /\ IsFile(sec[s][k])
         /\ IsFile(sec[t][j])
         /\ sec[s][k].name = sec[t][j].name
         => s = t /\ k = j

(* No two are called alike.                                                *)
LEMMA FaithfulNames ==
  ASSUME NEW io, NEW of, NEW L, Faithful(io, of, L)
  PROVE  NamesDiffer(io.disk.sector)
BY RootIs DEF Faithful, NamesDiffer, IsFile

(* A file of the store is one on the disk.                                 *)
LEMMA StoreNames ==
  ASSUME NEW sec, NEW of, NEW L, NEW store, Stores(sec, of, L, store), NamesDiffer(sec)
  PROVE  /\ \A s \in Sectors, k \in CellIndex : IsFile(sec[s][k]) =>
              sec[s][k].name \in DOMAIN store /\ Holds(sec, of, L, <<s, k>>, store[sec[s][k].name])
         /\ \A n \in DOMAIN store : n \in Names /\ \E s \in Sectors, k \in CellIndex :
              IsFile(sec[s][k]) /\ sec[s][k].name = n
BY DEF Stores, NamesDiffer, Named

(* A step from what the one store stands for to what the other does.       *)
Leads(sec, of, L, store, to, og, M, new, P) ==
    /\ Stores(sec, of, L, store) /\ NamesDiffer(sec)
    /\ Stores(to, og, M, new) /\ NamesDiffer(to)
    /\ Keeps(sec, of, L, to, og, M, P)

(* A file that is in both.                                                 *)
Remains(sec, store, to, new, s, k) ==
    /\ IsFile(sec[s][k]) /\ IsFile(to[s][k]) /\ to[s][k].name = sec[s][k].name
    /\ sec[s][k].name \in DOMAIN store /\ sec[s][k].name \in DOMAIN new
    /\ new[sec[s][k].name] = store[sec[s][k].name]

(* A file that a step lets be is in the store that it leads to.            *)
LEMMA StoreAt ==
  ASSUME NEW sec, NEW of, NEW L, NEW store, NEW to, NEW og, NEW M, NEW new,
         NEW P, Leads(sec, of, L, store, to, og, M, new, P),
         NEW s \in Sectors, NEW k \in CellIndex, <<s, k>> \notin P, IsFile(sec[s][k]) \/ IsFile(to[s][k])
  PROVE  Remains(sec, store, to, new, s, k)
<1>1. /\ IsFile(sec[s][k]) /\ IsFile(to[s][k]) /\ to[s][k].name = sec[s][k].name
      /\ Carries(sec, of, L, to, og, M, <<s, k>>)
  BY DEF Leads, Keeps
<1>2. PICK n : n = sec[s][k].name
  OBVIOUS
<1>3. n \in DOMAIN store /\ Holds(sec, of, L, <<s, k>>, store[n])
  BY <1>1, <1>2, StoreNames DEF Leads
<1>4. n \in DOMAIN new /\ Holds(to, og, M, <<s, k>>, new[n])
  BY <1>1, <1>2, StoreNames DEF Leads
<1>5. Holds(to, og, M, <<s, k>>, store[n])
  BY <1>1, <1>3 DEF Carries
<1>6. new[n] = store[n]
  BY <1>4, <1>5, HoldsOne
<1> QED
  BY <1>1, <1>2, <1>3, <1>4, <1>6 DEF Remains

(* A step that lets all files be leaves the store.                         *)
LEMMA StoreStays ==
  ASSUME NEW sec, NEW of, NEW L, NEW store, NEW to, NEW og, NEW M, NEW new,
         Leads(sec, of, L, store, to, og, M, new, {})
  PROVE  new = store
<1>1. ASSUME NEW n \in DOMAIN store PROVE n \in DOMAIN new /\ new[n] = store[n]
  <2>1. PICK s \in Sectors, k \in CellIndex : IsFile(sec[s][k]) /\ sec[s][k].name = n
    BY StoreNames DEF Leads
  <2>2. <<s, k>> \notin {}
    OBVIOUS
  <2>3. Remains(sec, store, to, new, s, k)
    BY <2>1, <2>2, StoreAt
  <2> QED
    BY <2>1, <2>3 DEF Remains
<1>2. ASSUME NEW n \in DOMAIN new PROVE n \in DOMAIN store
  <2>1. PICK s \in Sectors, k \in CellIndex : IsFile(to[s][k]) /\ to[s][k].name = n
    BY StoreNames DEF Leads
  <2>2. <<s, k>> \notin {}
    OBVIOUS
  <2>3. Remains(sec, store, to, new, s, k)
    BY <2>1, <2>2, StoreAt
  <2> QED
    BY <2>1, <2>3 DEF Remains
<1>3. store = [n \in DOMAIN store |-> store[n]] /\ new = [n \in DOMAIN new |-> new[n]]
  BY DEF Leads, Stores
<1>4. DOMAIN new = DOMAIN store
  BY <1>1, <1>2
<1> QED
  BY <1>1, <1>3, <1>4

(* The store with other bytes under a name.                                *)
StoreWith(store, name, bytes) ==
    [n \in DOMAIN store \cup {name} |-> IF n = name THEN bytes ELSE store[n]]

(* A step that writes one file, or makes one, writes or makes it in the    *)
(* store.                                                                  *)
LEMMA StoreWrites ==
  ASSUME NEW sec, NEW of, NEW L, NEW store, NEW to, NEW og, NEW M, NEW new,
         NEW s \in Sectors, NEW k \in CellIndex, Leads(sec, of, L, store, to, og, M, new, {<<s, k>>}),
         NEW n, IsFile(to[s][k]), to[s][k].name = n, NEW b, Holds(to, og, M, <<s, k>>, b),
         IsFile(sec[s][k]) => sec[s][k].name = n
  PROVE  new = StoreWith(store, n, b)
<1>1. n \in DOMAIN new /\ new[n] = b
  <2>1. n \in DOMAIN new /\ Holds(to, og, M, <<s, k>>, new[n])
    BY StoreNames DEF Leads
  <2> QED
    BY <2>1, HoldsOne
<1>2. ASSUME NEW m \in DOMAIN store, m # n PROVE m \in DOMAIN new /\ new[m] = store[m]
  <2>1. PICK t \in Sectors, j \in CellIndex : IsFile(sec[t][j]) /\ sec[t][j].name = m
    BY StoreNames DEF Leads
  <2>2. <<t, j>> \notin {<<s, k>>}
    BY <1>2, <2>1
  <2>3. Remains(sec, store, to, new, t, j)
    BY <2>1, <2>2, StoreAt
  <2> QED
    BY <2>1, <2>3 DEF Remains
<1>3. ASSUME NEW m \in DOMAIN new, m # n PROVE m \in DOMAIN store
  <2>1. PICK t \in Sectors, j \in CellIndex : IsFile(to[t][j]) /\ to[t][j].name = m
    BY StoreNames DEF Leads
  <2>2. <<t, j>> \notin {<<s, k>>}
    BY <1>3, <2>1
  <2>3. Remains(sec, store, to, new, t, j)
    BY <2>1, <2>2, StoreAt
  <2> QED
    BY <2>1, <2>3 DEF Remains
<1>4. new = [m \in DOMAIN new |-> new[m]]
  BY DEF Leads, Stores
<1>5. DOMAIN new = DOMAIN store \cup {n}
  BY <1>1, <1>2, <1>3
<1>6. \A m \in DOMAIN store \cup {n} : new[m] = IF m = n THEN b ELSE store[m]
  BY <1>1, <1>2
<1> QED
  BY <1>4, <1>5, <1>6 DEF StoreWith

(* A step that removes one removes it from the store.                      *)
LEMMA StoreLoses ==
  ASSUME NEW sec, NEW of, NEW L, NEW store, NEW to, NEW og, NEW M, NEW new,
         NEW s \in Sectors, NEW k \in CellIndex, Leads(sec, of, L, store, to, og, M, new, {<<s, k>>}),
         IsFile(sec[s][k]), ~IsFile(to[s][k])
  PROVE  new = [n \in DOMAIN store \ {sec[s][k].name} |-> store[n]]
<1> DEFINE n == sec[s][k].name
<1>1. ASSUME NEW m \in DOMAIN store, m # n PROVE m \in DOMAIN new /\ new[m] = store[m]
  <2>1. PICK t \in Sectors, j \in CellIndex : IsFile(sec[t][j]) /\ sec[t][j].name = m
    BY StoreNames DEF Leads
  <2>2. <<t, j>> \notin {<<s, k>>}
    BY <1>1, <2>1
  <2>3. Remains(sec, store, to, new, t, j)
    BY <2>1, <2>2, StoreAt
  <2> QED
    BY <2>1, <2>3 DEF Remains
<1>2. ASSUME NEW m \in DOMAIN new PROVE m \in DOMAIN store /\ m # n
  <2>1. PICK t \in Sectors, j \in CellIndex : IsFile(to[t][j]) /\ to[t][j].name = m
    BY StoreNames DEF Leads
  <2>2. <<t, j>> \notin {<<s, k>>}
    BY <2>1
  <2>25. Remains(sec, store, to, new, t, j)
    BY <2>1, <2>2, StoreAt
  <2>3. IsFile(sec[t][j]) /\ sec[t][j].name = m /\ m \in DOMAIN store
    BY <2>1, <2>25 DEF Remains
  <2>4. m # n
    BY <2>2, <2>3 DEF Leads, NamesDiffer
  <2> QED
    BY <2>3, <2>4
<1>3. new = [m \in DOMAIN new |-> new[m]]
  BY DEF Leads, Stores
<1>4. DOMAIN new = DOMAIN store \ {n}
  BY <1>1, <1>2
<1> HIDE DEF n
<1> QED
  BY <1>1, <1>3, <1>4, Zenon DEF n

(* Steps one after the other.                                              *)
LEMMA KeepsOn ==
  ASSUME NEW sec, NEW of, NEW L, NEW mid, NEW om, NEW K, NEW to, NEW og, NEW M, NEW P,
         Keeps(sec, of, L, mid, om, K, P), Keeps(mid, om, K, to, og, M, {})
  PROVE  Keeps(sec, of, L, to, og, M, P)
BY DEF Keeps, Carries

(* What a step does to sectors: the files that are not at P, and their     *)
(* sectors, are the same, and whatever is written is of the places X.      *)
Touches(sec, L, to, M, P, X) ==
    /\ DOMAIN to = Sectors
    /\ \A t \in Sectors : (\A x \in X : t \notin On(M, x)) => to[t] = sec[t]
    /\ \A s \in Sectors, k \in CellIndex : <<s, k>> \notin P =>
        /\ IsFile(to[s][k]) <=> IsFile(sec[s][k])
        /\ IsFile(sec[s][k]) => /\ to[s][k].name = sec[s][k].name /\ to[s][k].size = sec[s][k].size
                                /\ M[<<s, k>>] = L[<<s, k>>] /\ <<s, k>> \notin X

(* Such a step lets the other files be, if it lets the handles be that     *)
(* write them.                                                             *)
LEMMA TouchesKeeps ==
  ASSUME NEW io, NEW of, NEW L, Sane(io, of, L), Minds("mix"), NEW fat, NEW to, NEW og, NEW M, Laid(fat, M),
         NEW P, NEW X, X \subseteq Places, Touches(io.disk.sector, L, to, M, P, X),
         \A s \in Sectors, k \in CellIndex : <<s, k>> \notin P =>
           \A h \in Slots : /\ WritesAt(og, h, <<s, k>>) <=> WritesAt(of, h, <<s, k>>)
                            /\ WritesAt(of, h, <<s, k>>) => og[h] = of[h]
  PROVE  Keeps(io.disk.sector, of, L, to, og, M, P)
<1> SUFFICES ASSUME NEW s \in Sectors, NEW k \in CellIndex, <<s, k>> \notin P, IsFile(io.disk.sector[s][k])
             PROVE  Carries(io.disk.sector, of, L, to, og, M, <<s, k>>)
  BY ZenonT(60) DEF Keeps, Touches
<1> DEFINE p == <<s, k>>
<1>1. p \in Places
  BY PlacesAre DEF CellIndex
<1>2. DOMAIN to = Sectors /\ M[p] = L[p] /\ to[s][k].size = io.disk.sector[s][k].size /\ p \notin X
  BY DEF Touches
<1>3. L \in [Places -> Seq(Sectors)]
  BY DEF Sane, Fine, Laid
<1>4. ASSUME NEW t \in On(L, p) PROVE to[t] = io.disk.sector[t]
  <2>1. t \in Sectors /\ t \in On(M, p)
    BY <1>1, <1>2, <1>3, <1>4, OnSectors DEF On
  <2>2. ASSUME NEW x \in X, t \in On(M, x) PROVE FALSE
    <3>1. x \in Places /\ x # p
      BY <1>2, <2>2
    <3>2. On(M, p) \cap On(M, x) = {}
      BY <1>1, <3>1, OnDisjoint
    <3> QED
      BY <2>1, <2>2, <3>2
  <2> QED
    BY <2>1, <2>2 DEF Touches
<1> QED
  BY <1>2, <1>4, CarriesOn

(* Handles whose file keeps its name.                                      *)
LEMMA HandleLooksSame ==
  ASSUME NEW io, NEW of, NEW L, Sane(io, of, L), NEW to,
         \A s \in Sectors, k \in CellIndex : IsFile(io.disk.sector[s][k]) => to[s][k].name = io.disk.sector[s][k].name,
         NEW h \in Slots
  PROVE  HandleIs(to, of[h]) = HandleIs(io.disk.sector, of[h])
<1>1. CASE ~of[h].in_use
  BY <1>1 DEF HandleIs
<1>2. CASE of[h].in_use
  <2>1. HandleOk(of[h], io.disk.sector, L) /\ of[h].dir_sector \in Sectors /\ of[h].dir_slot \in CellIndex
    BY SMTT(60), <1>2, HandlesAre
  <2>2. to[of[h].dir_sector][of[h].dir_slot].name = io.disk.sector[of[h].dir_sector][of[h].dir_slot].name
    BY ZenonT(60), <2>1 DEF HandleOk
  <2> QED
    BY <2>2 DEF HandleIs
<1> QED
  BY <1>1, <1>2

-----------------------------------------------------------------------------
(* What the calls do to the files, one by one. The buffer of a handle of a *)
(* file that a step lets be is still what is on the disk.                  *)
LEMMA CleanStays ==
  ASSUME NEW io, NEW of, NEW L, Sane(io, of, L), NEW h \in Slots, IsOpen(of, h), Clean(of[h], io.disk.sector),
         NEW fat, NEW to, NEW M, Laid(fat, M), NEW P, NEW X, X \subseteq Places,
         Touches(io.disk.sector, L, to, M, P, X), At(of[h]) \notin P
  PROVE  Clean(of[h], to)
<1> DEFINE file == of[h]
           sec == io.disk.sector
<1>1. /\ HandleOk(file, sec, L) /\ file.dir_sector \in Sectors /\ file.dir_slot \in CellIndex
      /\ At(file) \in Places /\ L \in [Places -> Seq(Sectors)]
  BY HandlesAre DEF IsOpen, Sane, Fine, Laid
<1> HIDE DEF file, sec
<1>2. At(file) = <<file.dir_sector, file.dir_slot>> /\ IsFile(sec[file.dir_sector][file.dir_slot])
  BY <1>1 DEF At, HandleOk
<1>3. M[At(file)] = L[At(file)] /\ At(file) \notin X
  BY <1>1, <1>2 DEF Touches, file, sec
<1> SUFFICES ASSUME file.buffer_sector # NO_SECTOR, ~file.buffer_dirty
             PROVE  file.buffer = to[file.buffer_sector]
  BY DEF Clean, file
<1>4. file.buffer_sector \in On(M, At(file)) /\ file.buffer_sector \in Sectors
  BY <1>1, <1>3, OnSectors DEF HandleOk, On
<1>5. ASSUME NEW x \in X, file.buffer_sector \in On(M, x) PROVE FALSE
  <2>1. x \in Places /\ x # At(file)
    BY <1>3, <1>5
  <2>2. On(M, At(file)) \cap On(M, x) = {}
    BY <1>1, <2>1, OnDisjoint
  <2> QED
    BY <1>4, <1>5, <2>2
<1>6. to[file.buffer_sector] = sec[file.buffer_sector]
  BY <1>4, <1>5 DEF Touches, sec
<1> QED
  BY <1>6 DEF Clean, file, sec

(* An open file is a file.                                                 *)
LEMMA OpenIsFile ==
  ASSUME NEW io, NEW of, NEW L, Sane(io, of, L), NEW h \in Slots, IsOpen(of, h),
         NEW s, NEW k, At(of[h]) = <<s, k>>
  PROVE  s \in Sectors /\ k \in CellIndex /\ IsFile(io.disk.sector[s][k])
<1>1. HandleOk(of[h], io.disk.sector, L) /\ of[h].dir_sector \in Sectors /\ of[h].dir_slot \in CellIndex
  BY HandlesAre DEF IsOpen
<1>2. of[h].dir_sector = s /\ of[h].dir_slot = k
  BY DEF At
<1> QED
  BY <1>1, <1>2 DEF HandleOk

(* A file that is empty has no bytes.                                      *)
LEMMA EmptyData ==
  ASSUME NEW q, NEW view
  PROVE  Data(q, 0, view) = <<>>
<1>1. 1 .. 0 = {}
  OBVIOUS
<1> QED
  BY <1>1 DEF Data

(* A new file, at cell k of sector s.                                      *)
NewIn(io, of, L, name, to, M, s, k) ==
    /\ Faithful(to, of, M)
    /\ s \in Sectors /\ k \in CellIndex
    /\ to.disk.sector[s][k] = EmptyFile(name) /\ ~IsFile(io.disk.sector[s][k])
    /\ \A h \in Slots : IsOpen(of, h) => At(of[h]) # <<s, k>>
    /\ Keeps(io.disk.sector, of, L, to.disk.sector, of, M, {<<s, k>>})
    /\ Holds(to.disk.sector, of, M, <<s, k>>, <<>>)

(* It is empty, and the others are as they were.                           *)
LEMMA MadeIsNew ==
  ASSUME NEW io, NEW of, NEW L, Faithful(io, of, L), Minds("mix"), NEW name \in Names,
         NEW r, NEW M, NEW s, NEW k, Made(Values, Opened(of), io, L, RootAt, EmptyFile(name), r, M, s, k),
         Kept(Values, Opened(of), io, L, r.io, M)
  PROVE  NewIn(io, of, L, name, r.io, M, s, k)
<1> DEFINE sec == io.disk.sector
           to == r.io.disk.sector
           p == <<s, k>>
<1>1. Sane(io, of, L) /\ Flat(sec) /\ Cleans(of, sec) /\ L[TakenAt] = <<>>
  BY DEF Faithful, Sane
<1>2. /\ Fine(Values, r.io, M, Opened(of)) /\ s \in Sectors /\ k \in CellIndex
      /\ to[s][k] = EmptyFile(name) /\ ~IsEntry(sec[s][k]) /\ M[p] = <<>>
      /\ \A q \in Places : q # RootAt /\ q # TakenAt /\ q # p => M[q] = L[q]
      /\ \A t \in Sectors, j \in CellIndex : <<t, j>> # p =>
          /\ IsEntry(to[t][j]) <=> IsEntry(sec[t][j])
          /\ IsEntry(sec[t][j]) => to[t][j] = sec[t][j]
      /\ \A t \in Sectors : t \notin On(M, RootAt) => to[t] = sec[t]
  BY <1>1 DEF Made
<1>3. Sane(r.io, of, M)
  BY <1>1, KeptSane
<1>4. IsFile(EmptyFile(name)) /\ EmptyFile(name).size = 0 /\ ~IsDirectory(EmptyFile(name))
  BY EmptyFileIs DEF IsFile, IsDirectory
<1>5. RootAt \in Places /\ Laid(r.io.disk.fat, M) /\ DOMAIN to = Sectors
  BY <1>2, PlacesAre, IOsAre DEF Fine
<1> HIDE DEF sec, to, p
<1>6. ~IsFile(sec[s][k])
  BY <1>2 DEF IsFile
<1>7. ASSUME NEW h \in Slots, IsOpen(of, h) PROVE At(of[h]) # p
  BY <1>1, <1>6, <1>7, OpenIsFile DEF p, sec
<1>8. Touches(sec, L, to, M, {p}, {RootAt})
  <2>1. ASSUME NEW t \in Sectors, NEW j \in CellIndex, <<t, j>> # p
        PROVE  /\ IsFile(to[t][j]) <=> IsFile(sec[t][j])
               /\ IsFile(sec[t][j]) => to[t][j] = sec[t][j]
               /\ M[<<t, j>>] = L[<<t, j>>] /\ <<t, j>> # RootAt
    <3>1. <<t, j>> \in Places /\ <<t, j>> # RootAt /\ <<t, j>> # TakenAt
      BY PlacesAre DEF CellIndex
    <3> QED
      BY <1>2, <2>1, <3>1 DEF IsFile
  <2> QED
    BY <1>2, <1>5, <2>1 DEF Touches
<1>9. Keeps(sec, of, L, to, of, M, {p})
  BY <1>1, <1>5, <1>8, TouchesKeeps DEF sec
<1>10. Holds(to, of, M, p, <<>>)
  <2>1. SizeAt(to, p) = 0
    BY <1>2, <1>4 DEF SizeAt, p
  <2> QED
    BY <1>2, <1>7, <2>1, EmptyData DEF Holds, WritesAt
<1>11. Flat(to)
  <2>1. ASSUME NEW t \in Sectors, NEW j \in CellIndex PROVE ~IsDirectory(to[t][j])
    BY <1>1, <1>2, <1>4 DEF Flat, p, IsDirectory
  <2> QED
    BY <2>1 DEF Flat
<1>12. Cleans(of, to)
  <2>1. ASSUME NEW h \in Slots, IsOpen(of, h) PROVE Clean(of[h], to)
    <3>1. At(of[h]) \notin {p} /\ Clean(of[h], sec)
      BY <1>1, <1>7, <2>1 DEF Cleans
    <3> QED
      BY <1>1, <1>5, <1>8, <2>1, <3>1, CleanStays DEF sec
  <2> QED
    BY <2>1 DEF Cleans
<1> QED
  BY <1>2, <1>3, <1>6, <1>7, <1>9, <1>10, <1>11, <1>12 DEF NewIn, Faithful, sec, to, p

(* CREATE, touch and file_open make it, or there is no room.               *)
LEMMA MakesNew ==
  ASSUME NEW io, NEW of, NEW L, Faithful(io, of, L), Minds("mix"), NEW name \in Names,
         ~dir_find_in(io, root_start, name).found
  PROVE  \/ dir_create_in(io, root_start, EmptyFile(name)) = [io |-> io, place |-> NotFound]
         \/ \E M, s, k :
              /\ NewIn(io, of, L, name, dir_create_in(io, root_start, EmptyFile(name)).io, M, s, k)
              /\ HasPlace(dir_create_in(io, root_start, EmptyFile(name)), s, k, EmptyFile(name))
<1> DEFINE r == dir_create_in(io, root_start, EmptyFile(name))
<1>1. /\ Sane(io, of, L) /\ Flat(io.disk.sector) /\ Fine(Values, io, L, Opened(of)) /\ L[TakenAt] = <<>>
  BY DEF Faithful, Sane
<1>2. RootAt \in Dirs(io.disk.sector) /\ FirstOf(L, RootAt) = root_start
  BY <1>1, RootFirst
<1>3. \A s \in Sectors, k \in CellIndex : ~Named(io.disk.sector, s, k, name)
  <2>1. Looked(io.disk.sector, name, dir_find_in(io, root_start, name))
    BY <1>1, Looks
  <2> QED
    BY <2>1 DEF Looked, Place
<1>4. \A t \in On(L, RootAt), j \in CellIndex :
            IsEntry(io.disk.sector[t][j]) => io.disk.sector[t][j].name # name
  <2>1. On(L, RootAt) \subseteq Sectors
    BY PlacesAre, <1>1, OnSectors DEF Fine, Laid
  <2> QED
    BY <1>1, <1>3, <2>1 DEF Named, Flat, IsFile, IsDirectory
<1>5. \/ dir_create_in(io, FirstOf(L, RootAt), EmptyFile(name)) = [io |-> io, place |-> NotFound]
      \/ \E M, s, k :
           /\ Made(Values, Opened(of), io, L, RootAt, EmptyFile(name),
                   dir_create_in(io, FirstOf(L, RootAt), EmptyFile(name)), M, s, k)
           /\ Kept(Values, Opened(of), io, L, dir_create_in(io, FirstOf(L, RootAt), EmptyFile(name)).io, M)
  BY <1>1, <1>2, <1>4, MakesFile
<1>6. \/ r = [io |-> io, place |-> NotFound]
      \/ \E M, s, k : Made(Values, Opened(of), io, L, RootAt, EmptyFile(name), r, M, s, k)
                      /\ Kept(Values, Opened(of), io, L, r.io, M)
  BY <1>2, <1>5
<1> HIDE DEF r
<1>7. ASSUME NEW M, NEW s, NEW k, Made(Values, Opened(of), io, L, RootAt, EmptyFile(name), r, M, s, k),
             Kept(Values, Opened(of), io, L, r.io, M)
      PROVE  NewIn(io, of, L, name, r.io, M, s, k) /\ HasPlace(r, s, k, EmptyFile(name))
  <2>1. NewIn(io, of, L, name, r.io, M, s, k)
    BY <1>7, MadeIsNew
  <2> QED
    BY <1>7, <2>1 DEF Made
<1> QED
  BY <1>6, <1>7 DEF r

(* The file at cell k of sector s is gone.                                 *)
GoneIn(io, of, L, to, M, s, k) ==
    /\ Faithful(to, of, M) /\ ~IsFile(to.disk.sector[s][k])
    /\ Keeps(io.disk.sector, of, L, to.disk.sector, of, M, {<<s, k>>})

(* DESTROY and rm let all others be.                                       *)
LEMMA RemovesOne ==
  ASSUME NEW io, NEW of, NEW L, Faithful(io, of, L), Minds("mix"), NEW s \in Sectors, NEW k \in CellIndex,
         IsFile(io.disk.sector[s][k]), <<s, k>> \notin Opened(of)
  PROVE  /\ dir_delete_at(io, s, k).ok
         /\ GoneIn(io, of, L, dir_delete_at(io, s, k).io, Removed(L, <<s, k>>), s, k)
<1> DEFINE sec == io.disk.sector
           r == dir_delete_at(io, s, k)
           to == r.io.disk.sector
           p == <<s, k>>
           M == Removed(L, p)
<1>1. /\ Sane(io, of, L) /\ Flat(sec) /\ Cleans(of, sec) /\ Fine(Values, io, L, Opened(of))
      /\ L \in [Places -> Seq(Sectors)] /\ sec \in [Sectors -> Contents(Values)]
  BY IOsAre DEF Faithful, Sane, Fine, Laid
<1>2. IsEntry(sec[s][k]) /\ ~sec[s][k].dir /\ ~IsDirectory(sec[s][k])
  BY DEF IsFile, IsDirectory
<1>3. r.ok
  BY <1>1, <1>2, FineRemoved
<1>4. to = Put(sec, s, k, Zero)
  <2>1. MayDelete(io, L, Opened(of), s, k)
    BY <1>2 DEF MayDelete
  <2> QED
    BY <1>1, <2>1, DirentRemoved
<1>5. Sane(r.io, of, M)
  BY <1>1, <1>2, RemovedSane
<1>6. to[s][k] = Zero /\ \A t \in Sectors, j \in CellIndex : <<t, j>> # p => to[t][j] = sec[t][j]
  <2>1. PICK u \in [Sectors -> Contents(Values)] : u = sec
    BY <1>1
  <2>2. /\ Put(u, s, k, Zero)[s][k] = Zero
        /\ \A t \in Sectors, j \in CellIndex : <<t, j>> # <<s, k>> => Put(u, s, k, Zero)[t][j] = u[t][j]
    BY PutIs
  <2> HIDE DEF to, sec
  <2> QED
    BY <1>4, <2>1, <2>2
<1>7. p \in Places /\ RootAt \in Places /\ p # RootAt
  BY PlacesAre DEF CellIndex
<1>8. Laid(r.io.disk.fat, M) /\ DOMAIN to = Sectors
  BY <1>5, IOsAre DEF Sane, Fine
<1>9. s \in On(M, RootAt)
  <2>1. s \in On(L, RootAt)
    BY <1>1, <1>2, RootIs
  <2>2. M[RootAt] = L[RootAt]
    BY <1>1, <1>7 DEF Removed
  <2> QED
    BY <2>1, <2>2 DEF On
<1>10. \A q \in Places : q # p => M[q] = L[q]
  BY <1>1, <1>7 DEF Removed
<1>11. \A t \in Sectors : t # s => to[t] = sec[t]
  BY <1>1, <1>4 DEF Put
<1> HIDE DEF r, to, M, sec
<1>12. Touches(sec, L, to, M, {p}, {RootAt})
  <2>1. ASSUME NEW t \in Sectors, NEW j \in CellIndex, <<t, j>> # p
        PROVE  to[t][j] = sec[t][j] /\ M[<<t, j>>] = L[<<t, j>>] /\ <<t, j>> # RootAt
    <3>1. <<t, j>> \in Places /\ <<t, j>> # RootAt
      BY PlacesAre DEF CellIndex
    <3> QED
      BY <1>6, <1>10, <2>1, <3>1
  <2> HIDE DEF p
  <2> QED
    BY <1>8, <1>9, <1>11, <2>1 DEF Touches
<1>13. Keeps(sec, of, L, to, of, M, {p})
  <2>1. PICK N, fat, new : N = M /\ fat = r.io.disk.fat /\ new = to
    OBVIOUS
  <2>2. Laid(fat, N) /\ {RootAt} \subseteq Places /\ Touches(io.disk.sector, L, new, N, {p}, {RootAt})
    BY <1>7, <1>8, <1>12, <2>1 DEF sec
  <2>3. Keeps(io.disk.sector, of, L, new, of, N, {p})
    <3>1. PICK P, X : P = {p} /\ X = {RootAt}
      OBVIOUS
    <3>2. Sane(io, of, L)
      BY <1>1
    <3>3. Laid(fat, N) /\ X \subseteq Places /\ Touches(io.disk.sector, L, new, N, P, X)
      BY <2>2, <3>1
    <3> HIDE DEF p, sec, r, to, M
    <3>4. Keeps(io.disk.sector, of, L, new, of, N, P)
      BY <3>2, <3>3, TouchesKeeps
    <3> QED
      BY <3>1, <3>4
  <2> QED
    BY <2>1, <2>3 DEF sec
<1>14. ~IsFile(to[s][k]) /\ ~IsDirectory(to[s][k])
  BY <1>6 DEF IsFile, IsDirectory, IsEntry, Zero
<1>15. Flat(to)
  BY <1>1, <1>6, <1>14 DEF Flat
<1>16. Cleans(of, to)
  <2>1. ASSUME NEW h \in Slots, IsOpen(of, h) PROVE Clean(of[h], to)
    <3>1. At(of[h]) \notin {p} /\ Clean(of[h], sec)
      BY <1>1, <2>1 DEF Cleans, Opened
    <3>2. PICK N, fat, new, P, X : N = M /\ fat = r.io.disk.fat /\ new = to /\ P = {p} /\ X = {RootAt}
      OBVIOUS
    <3>3. Laid(fat, N) /\ X \subseteq Places /\ Touches(io.disk.sector, L, new, N, P, X)
      BY <1>7, <1>8, <1>12, <3>2 DEF sec
    <3>4. Sane(io, of, L) /\ Clean(of[h], io.disk.sector) /\ At(of[h]) \notin P /\ IsOpen(of, h)
      BY <1>1, <2>1, <3>1, <3>2 DEF sec
    <3>5. Clean(of[h], new)
      BY <3>3, <3>4, CleanStays
    <3> QED
      BY <3>2, <3>5
  <2> QED
    BY <2>1 DEF Cleans
<1> QED
  BY <1>3, <1>5, <1>13, <1>14, <1>15, <1>16 DEF GoneIn, Faithful, r, sec, to, M

(* The number of bytes.                                                    *)
LEMMA DataLength ==
  ASSUME NEW q, NEW n \in Nat, NEW view
  PROVE  Len(Data(q, n, view)) = n
BY DEF Data

(* A buffer that is for no sector shows nothing.                           *)
LEMMA ViewNone ==
  ASSUME NEW C, NEW sec \in [Sectors -> C], NEW file, file.buffer_sector = NO_SECTOR
  PROVE  View(sec, file) = sec
<1>1. NO_SECTOR \notin Sectors
  BY DiskAssumption DEF Sectors, NO_SECTOR
<1> QED
  BY <1>1 DEF View

(* Slot g is the only one that changes from `of' to `og'.                  *)
Takes(of, og, g) == \A h \in Slots : h # g => og[h] = of[h]

(* The file at cell k of sector s is open by slot g.                       *)
OpenIn(io, of, L, og, g, mode, s, k) ==
    /\ Faithful(io, og, L) /\ Takes(of, og, g)
    /\ Keeps(io.disk.sector, of, L, io.disk.sector, og, L, {})
    /\ HandleIs(io.disk.sector, og[g]) =
         [open |-> TRUE, mode |-> mode, name |-> io.disk.sector[s][k].name,
          position |-> IF mode = MODE_APPEND THEN io.disk.sector[s][k].size ELSE 0]
    /\ \A b : Holds(io.disk.sector, of, L, <<s, k>>, b) => Len(b) = io.disk.sector[s][k].size

(* A file that nobody writes, or nobody reads, is opened.                  *)
LEMMA Opens ==
  ASSUME NEW io, NEW of, NEW L, Faithful(io, of, L), Minds("mix"), NEW s \in Sectors, NEW k \in CellIndex,
         IsFile(io.disk.sector[s][k]), NEW at, HasPlace(at, s, k, io.disk.sector[s][k]), NEW mode \in Modes,
         NEW g \in Slots, ~of[g].in_use,
         \A h \in Slots : IsOpen(of, h) /\ At(of[h]) = <<s, k>> => mode = MODE_READ /\ of[h].mode = MODE_READ
  PROVE  OpenIn(io, of, L, [of EXCEPT ![g] = NewFile(io, at.place, mode)], g, mode, s, k)
<1> DEFINE sec == io.disk.sector
           p == <<s, k>>
           new == NewFile(io, at.place, mode)
           og == [of EXCEPT ![g] = new]
<1>1. /\ Sane(io, of, L) /\ Flat(sec) /\ Cleans(of, sec) /\ sec \in [Sectors -> Contents(Values)]
      /\ DOMAIN of = Slots
  BY IOsAre DEF Faithful, Sane, Fine
<1>2. \A h \in Slots : ~WritesAt(of, h, p)
  BY DEF WritesAt
<1>3. /\ L[p] \in Seq(Sectors) /\ sec[s][k].size \in Nat /\ Len(L[p]) = SectorsFor(sec[s][k].size)
      /\ sec[s][k].first_sector = FirstOf(L, p)
  BY <1>1, <1>2, SizesAre, FirstKnown
<1>4. HandleOk(new, sec, L) /\ At(new) = p /\ new.mode = mode
  BY <1>1, <1>3, NewFileOk
<1>5. /\ new.in_use /\ new.dir_sector = s /\ new.dir_slot = k /\ new.buffer_sector = NO_SECTOR
      /\ new.position = IF mode = MODE_APPEND THEN sec[s][k].size ELSE 0
      /\ new.file_size = sec[s][k].size
  BY DEF NewFile, HasPlace
<1> HIDE DEF new
<1>6. og[g] = new /\ \A h \in Slots : h # g => og[h] = of[h]
  BY <1>1
<1>7. Sane(io, og, L)
  <2>1. \A h \in Slots : IsOpen(of, h) /\ At(of[h]) = At(new) => of[h].mode = MODE_READ /\ new.mode = MODE_READ
    BY <1>4
  <2>2. HandleOk(new, io.disk.sector, L)
    BY <1>4
  <2> QED
    BY <1>1, <2>1, <2>2, OpenedSane
<1> HIDE DEF og
<1>8. Cleans(og, sec)
  BY <1>1, <1>5, <1>6 DEF Cleans, Clean, IsOpen
<1>9. Touches(sec, L, sec, L, {p}, {})
  BY <1>1 DEF Touches
<1>10. \A h \in Slots : \A q : q # p =>
          /\ WritesAt(og, h, q) <=> WritesAt(of, h, q)
          /\ WritesAt(of, h, q) => og[h] = of[h]
  BY <1>4, <1>6 DEF WritesAt, IsOpen
<1>11. Keeps(sec, of, L, sec, og, L, {p})
  <2>1. PICK P, X, fat : P = {p} /\ X = {} /\ fat = io.disk.fat
    OBVIOUS
  <2>2. X \subseteq Places /\ Laid(fat, L) /\ Touches(io.disk.sector, L, sec, L, P, X)
    BY <1>1, <1>9, <2>1 DEF Sane, Fine
  <2>3. \A t \in Sectors, j \in CellIndex : <<t, j>> \notin P =>
           \A h \in Slots : /\ WritesAt(og, h, <<t, j>>) <=> WritesAt(of, h, <<t, j>>)
                            /\ WritesAt(of, h, <<t, j>>) => og[h] = of[h]
    BY <1>10, <2>1
  <2>4. Keeps(io.disk.sector, of, L, sec, og, L, P)
    BY <1>1, <2>2, <2>3, TouchesKeeps
  <2> QED
    BY <2>1, <2>4
<1>12. Carries(sec, of, L, sec, og, L, p)
  <2> SUFFICES ASSUME NEW b, Holds(sec, of, L, p, b) PROVE Holds(sec, og, L, p, b)
    BY DEF Carries
  <2>1. b = Data(L[p], SizeAt(sec, p), sec) /\ SizeAt(sec, p) = sec[s][k].size
    BY <1>2 DEF Holds, SizeAt
  <2>2. ASSUME NEW h \in Slots, WritesAt(og, h, p)
        PROVE  b = Data(L[p], og[h].file_size, View(sec, og[h]))
    <3>1. h = g
      BY <1>2, <1>6, <2>2 DEF WritesAt, IsOpen
    <3>2. og[h].file_size = sec[s][k].size /\ View(sec, og[h]) = sec
      BY <1>1, <1>5, <1>6, <3>1, ViewNone
    <3> QED
      BY <2>1, <3>2
  <2> QED
    BY <2>1, <2>2 DEF Holds
<1>13. Keeps(sec, of, L, sec, og, L, {})
  BY <1>11, <1>12 DEF Keeps
<1>14. \A b : Holds(sec, of, L, p, b) => Len(b) = sec[s][k].size
  BY <1>2, <1>3, DataLength DEF Holds, SizeAt
<1>15. HandleIs(sec, og[g]) =
         [open |-> TRUE, mode |-> mode, name |-> sec[s][k].name,
          position |-> IF mode = MODE_APPEND THEN sec[s][k].size ELSE 0]
  BY <1>4, <1>5, <1>6 DEF HandleIs
<1> QED
  BY <1>1, <1>6, <1>7, <1>8, <1>13, <1>14, <1>15 DEF OpenIn, Takes, Faithful, sec, og, p, new

(* What a view has.                                                        *)
LEMMA ViewIs ==
  ASSUME NEW C, NEW sec \in [Sectors -> C], NEW file
  PROVE  /\ DOMAIN View(sec, file) = Sectors
         /\ \A t \in Sectors : View(sec, file)[t] = IF t = file.buffer_sector THEN file.buffer ELSE sec[t]
BY DEF View

(* What flush_buffer leaves is what the handle sees.                       *)
LEMMA FlushedView ==
  ASSUME NEW io \in IOs(Contents(Values)), NEW file, Clean(file, io.disk.sector),
         file.buffer \in Contents(Values), file.buffer_sector \in Sectors \cup {NO_SECTOR}
  PROVE  flush_buffer(io, file).disk.sector = View(io.disk.sector, file)
<1>1. io.disk.sector \in [Sectors -> Contents(Values)]
  BY IOsAre
<1>2. CASE file.buffer_sector = NO_SECTOR
  BY <1>1, <1>2, ViewNone DEF flush_buffer
<1>3. CASE file.buffer_sector # NO_SECTOR /\ file.buffer_dirty
  <2>1. file.buffer_sector \in Sectors /\ flush_buffer(io, file) = write_sector(io, file.buffer_sector, file.buffer)
    BY <1>3 DEF flush_buffer
  <2>2. write_sector(io, file.buffer_sector, file.buffer).disk.sector =
          [io.disk.sector EXCEPT ![file.buffer_sector] = file.buffer]
    BY <2>1, SectorWritten
  <2> QED
    BY <2>1, <2>2 DEF View
<1>4. CASE file.buffer_sector # NO_SECTOR /\ ~file.buffer_dirty
  <2>1. file.buffer = io.disk.sector[file.buffer_sector] /\ flush_buffer(io, file) = io
    BY <1>4 DEF Clean, flush_buffer
  <2> QED
    BY <1>1, <2>1 DEF View
<1> QED
  BY <1>2, <1>3, <1>4

(* What file_close does to the disk when the buffer is written.            *)
SavedIn(sec, to, file, s, k) ==
    /\ DOMAIN to = Sectors
    /\ \A t \in Sectors : t # s => to[t] = sec[t]
    /\ \A t \in Sectors, j \in CellIndex : <<t, j>> # <<s, k>> => to[t][j] = sec[t][j]
    /\ IsFile(to[s][k]) /\ to[s][k].name = sec[s][k].name /\ to[s][k].size = file.file_size

(* It only writes the entry, which then knows the size.                    *)
LEMMA SavesOne ==
  ASSUME NEW io, NEW of, NEW h, NEW L, Apart(io, of, h, L), HandleOk(of[h], io.disk.sector, L), Minds("mix"),
         NEW s, NEW k, At(of[h]) = <<s, k>>
  PROVE  SavedIn(io.disk.sector, SaveEntry(io, of[h]).disk.sector, of[h], s, k)
<1> DEFINE file == of[h]
           sec == io.disk.sector
           entry == sec[s][k]
           new == Saved(entry, file)
           to == write_dirent_at(io, s, k, new).disk.sector
<1>0. file.dir_sector = s /\ file.dir_slot = k
  BY SMTT(60) DEF At
<1>1. /\ s \in Sectors /\ k \in CellIndex /\ file \in Held /\ IsFile(entry)
      /\ Fine(Values, io, L, Opened(of)) /\ sec \in [Sectors -> Contents(Values)]
      /\ file.first_sector = FirstOf(L, <<s, k>>) /\ Located(file, entry, L[At(file)])
  BY <1>0, IOsAre DEF Apart, HandleOk, Fine
<1>2. read_dirent_at(io, s, k) = entry /\ entry.kind = "dirent" /\ entry \in CellSet(Values)
  BY <1>1 DEF read_dirent_at, IsFile, IsEntry, Contents
<1>3. CASE ~file.modified
  <2>1. SaveEntry(io, file) = io
    BY <1>3 DEF SaveEntry
  <2>2. file.file_size = entry.size
    BY <1>1, <1>3 DEF Located
  <2> QED
    BY <1>1, <2>1, <2>2 DEF SavedIn
<1>4. ASSUME file.modified
      PROVE  SavedIn(sec, SaveEntry(io, file).disk.sector, file, s, k)
  <2>1. SaveEntry(io, file).disk.sector = to
    BY <1>0, <1>2, <1>4 DEF SaveEntry, Saved
  <2>2. /\ new \in CellSet(Values) /\ IsFile(new) /\ new.name = entry.name
        /\ new.first_sector = FirstOf(L, <<s, k>>) /\ new.size = file.file_size
    <3> HIDE DEF file, entry
    <3> QED
      BY <1>1, <1>2, SavedIs
  <2> HIDE DEF new
  <2>3. to = Put(sec, s, k, new)
    <3>1. /\ IsEntry(sec[s][k]) /\ ~sec[s][k].dir /\ IsEntry(new) /\ ~new.dir
          /\ new.name = sec[s][k].name /\ new.first_sector = FirstOf(L, <<s, k>>)
          /\ s \in Sectors /\ k \in CellIndex /\ Fine(Values, io, L, Opened(of)) /\ new \in CellSet(Values)
      BY <1>1, <2>2 DEF IsFile
    <3>2. PICK W, e, v : W = Opened(of) /\ e = new /\ v = io.disk.sector
      OBVIOUS
    <3>3. /\ IsEntry(io.disk.sector[s][k]) /\ ~io.disk.sector[s][k].dir /\ IsEntry(e) /\ ~e.dir
          /\ e.name = io.disk.sector[s][k].name /\ e.first_sector = FirstOf(L, <<s, k>>)
          /\ s \in Sectors /\ k \in CellIndex /\ Fine(Values, io, L, W) /\ e \in CellSet(Values)
      BY <3>1, <3>2
    <3> HIDE DEF file, entry, to, sec
    <3>4. /\ Fine(Values, write_dirent_at(io, s, k, e), L, W)
          /\ write_dirent_at(io, s, k, e).disk.sector = Put(io.disk.sector, s, k, e)
      BY <3>3, EntrySaved
    <3> QED
      BY <3>2, <3>4 DEF to, sec
  <2>4. /\ to[s][k] = new
        /\ \A t \in Sectors, j \in CellIndex : <<t, j>> # <<s, k>> => to[t][j] = sec[t][j]
    <3>1. s \in Sectors /\ k \in CellIndex /\ sec \in [Sectors -> Contents(Values)]
      BY <1>1
    <3> HIDE DEF to, sec, file, entry
    <3>2. /\ Put(sec, s, k, new)[s][k] = new
          /\ \A t \in Sectors, j \in CellIndex : <<t, j>> # <<s, k>> => Put(sec, s, k, new)[t][j] = sec[t][j]
      BY <3>1, PutIs
    <3> QED
      BY <2>3, <3>2
  <2>5. DOMAIN to = Sectors /\ \A t \in Sectors : t # s => to[t] = sec[t]
    BY <1>1, <2>3 DEF Put
  <2> HIDE DEF to
  <2> QED
    BY <2>1, <2>2, <2>4, <2>5 DEF SavedIn
<1> QED
  BY <1>3, <1>4

(* Handle h is closed, and the files are as they were.                     *)
ClosedIn(io, of, L, to, og, h) ==
    /\ Faithful(to, og, L)
    /\ Keeps(io.disk.sector, of, L, to.disk.sector, og, L, {})

(* Nothing is written for a handle that only reads.                        *)
LEMMA ReaderCloses ==
  ASSUME NEW io, NEW of, NEW L, Faithful(io, of, L), NEW h \in Slots, IsOpen(of, h), of[h].mode = MODE_READ,
         NEW to, to = Closing(io, of[h]), NEW og, og = [of EXCEPT ![h] = Closed], Sane(to, og, L)
  PROVE  ClosedIn(io, of, L, to, og, h)
<1>1. HandleOk(of[h], io.disk.sector, L) /\ DOMAIN of = Slots
  BY SMTT(60), HandlesAre DEF Faithful, IsOpen, Sane
<1>2. ~of[h].modified /\ ~of[h].buffer_dirty
  BY ZenonT(60), <1>1 DEF HandleOk
<1>3. to = io
  BY <1>2 DEF Closing, flush_buffer, SaveEntry
<1>4. \A g \in Slots : IF g = h THEN ~og[g].in_use ELSE og[g] = of[g]
  BY <1>1 DEF Closed
<1>5. \A q : \A g \in Slots : /\ WritesAt(og, g, q) <=> WritesAt(of, g, q)
                              /\ WritesAt(of, g, q) => og[g] = of[g]
  BY <1>4 DEF WritesAt, IsOpen
<1>6. Keeps(io.disk.sector, of, L, io.disk.sector, og, L, {})
  BY ZenonT(60), <1>5 DEF Keeps, Carries, Holds
<1>7. Cleans(og, io.disk.sector)
  BY <1>4 DEF Faithful, Cleans, IsOpen
<1> QED
  BY <1>3, <1>6, <1>7 DEF ClosedIn, Faithful

(* What the sectors are when a handle that writes is closed.               *)
ClosedTo(sec, L, to, file, s, k) ==
    /\ Touches(sec, L, to, L, {<<s, k>>}, {RootAt, <<s, k>>})
    /\ IsFile(sec[s][k]) /\ IsFile(to[s][k]) /\ to[s][k].name = sec[s][k].name /\ to[s][k].size = file.file_size
    /\ \A t \in On(L, <<s, k>>) : to[t] = View(sec, file)[t]
    /\ \A t \in Sectors, j \in CellIndex : <<t, j>> # <<s, k>> =>
          /\ IsEntry(to[t][j]) <=> IsEntry(sec[t][j])
          /\ IsEntry(sec[t][j]) => to[t][j] = sec[t][j]

(* They are the file's sectors with the handle's buffer, and its entry.    *)
LEMMA WriterSaves ==
  ASSUME NEW io, NEW of, NEW L, Faithful(io, of, L), Minds("mix"), NEW h \in Slots, IsOpen(of, h),
         of[h].mode # MODE_READ, NEW to, to = Closing(io, of[h]), NEW s, NEW k, At(of[h]) = <<s, k>>
  PROVE  ClosedTo(io.disk.sector, L, to.disk.sector, of[h], s, k)
<1> DEFINE file == of[h]
           sec == io.disk.sector
           view == View(sec, file)
           new == to.disk.sector
           p == <<s, k>>
<1>1. /\ Sane(io, of, L) /\ Flat(sec) /\ Clean(file, sec) /\ Laid(io.disk.fat, L)
      /\ L \in [Places -> Seq(Sectors)] /\ io \in IOs(Contents(Values)) /\ sec \in [Sectors -> Contents(Values)]
  BY IOsAre DEF Faithful, Cleans, Sane, Fine, Laid
<1>2. Apart(io, of, h, L) /\ HandleOk(file, sec, L) /\ file \in Held
  <2>1. Apart(io, of, h, L) /\ HandleOk(of[h], io.disk.sector, L)
    BY <1>1, ApartFrom DEF IsOpen
  <2> QED
    BY ZenonT(60), <2>1 DEF HandleOk
<1>3. s \in Sectors /\ k \in CellIndex /\ IsFile(sec[s][k]) /\ p \in Places /\ p # RootAt /\ RootAt \in Places
  <2>1. s \in Sectors /\ k \in CellIndex /\ IsFile(sec[s][k])
    BY <1>1, OpenIsFile
  <2> QED
    BY <2>1, PlacesAre DEF CellIndex
<1>4. PICK mid : mid = flush_buffer(io, file)
  OBVIOUS
<1>5. Buffered(file, L, At(file)) /\ (file.buffer_dirty => of[h].mode # MODE_READ)
  BY <1>2, HandleStays DEF SameEntries
<1>6. Apart(mid, of, h, L) /\ SameEntries(sec, mid.disk.sector)
  BY <1>2, <1>4, <1>5, Flushes
<1>7. HandleOk(file, mid.disk.sector, L)
  BY <1>2, <1>6, HandleStays
<1>8. mid.disk.sector = view
  <2>1. file.buffer \in Contents(Values) /\ file.buffer_sector \in Sectors \cup {NO_SECTOR}
    BY <1>2 DEF Held
  <2> HIDE DEF file
  <2> QED
    BY <1>1, <1>4, <2>1, FlushedView
<1>9. to = SaveEntry(mid, file)
  BY <1>4 DEF Closing
<1>10. SavedIn(mid.disk.sector, new, file, s, k)
  BY <1>6, <1>7, <1>9, SavesOne
<1>11. DOMAIN view = Sectors /\ \A t \in Sectors : t # file.buffer_sector => view[t] = sec[t]
  <2>0. PICK u \in [Sectors -> Contents(Values)] : u = sec
    BY <1>1
  <2>1. PICK f : f = file
    OBVIOUS
  <2>2. DOMAIN View(u, f) = Sectors /\ \A t \in Sectors : View(u, f)[t] = IF t = f.buffer_sector THEN f.buffer ELSE u[t]
    BY ViewIs
  <2> HIDE DEF sec, file
  <2> QED
    BY <2>0, <2>1, <2>2
<1>12. s \in On(L, RootAt)
  BY <1>1, <1>3, RootIs DEF IsFile
<1>13. \A t \in On(L, p) : t \in Sectors /\ t # s
  <2>1. On(L, p) \cap On(L, RootAt) = {}
    BY <1>1, <1>3, OnDisjoint
  <2>2. On(L, p) \subseteq Sectors
    BY <1>1, <1>3, OnSectors
  <2> QED
    BY <1>12, <2>1, <2>2
<1>14. file.buffer_sector = NO_SECTOR \/ file.buffer_sector \in On(L, p)
  BY <1>5 DEF Buffered
<1>15. \A t \in Sectors : t # NO_SECTOR
  BY DiskAssumption DEF Sectors, NO_SECTOR
<1> HIDE DEF view, file, new, sec, p
<1>16. /\ DOMAIN new = Sectors
       /\ \A t \in Sectors : t # s => new[t] = view[t]
       /\ \A t \in Sectors, j \in CellIndex : <<t, j>> # p => new[t][j] = view[t][j]
       /\ IsFile(new[s][k]) /\ new[s][k].name = view[s][k].name /\ new[s][k].size = file.file_size
  BY <1>8, <1>10 DEF SavedIn, p
<1>17. view[s] = sec[s]
  BY <1>3, <1>11, <1>13, <1>14, <1>15
<1>18. \A t \in Sectors : t \notin On(L, RootAt) /\ t \notin On(L, p) => new[t] = sec[t]
  BY <1>11, <1>12, <1>14, <1>15, <1>16
<1>19. \A t \in Sectors, j \in CellIndex : <<t, j>> # p =>
          /\ IsEntry(new[t][j]) <=> IsEntry(sec[t][j])
          /\ IsEntry(sec[t][j]) => new[t][j] = sec[t][j]
  BY <1>6, <1>8, <1>16 DEF SameEntries
<1>20. \A t \in On(L, p) : new[t] = view[t]
  BY <1>13, <1>16
<1>21. Touches(sec, L, new, L, {p}, {RootAt, p})
  <2>1. ASSUME NEW t \in Sectors, NEW j \in CellIndex, <<t, j>> # p
        PROVE  /\ IsFile(new[t][j]) <=> IsFile(sec[t][j])
               /\ IsFile(sec[t][j]) => new[t][j] = sec[t][j]
               /\ <<t, j>> \notin {RootAt, p}
    <3>1. <<t, j>> # RootAt
      BY PlacesAre DEF CellIndex
    <3> QED
      BY <1>19, <2>1, <3>1 DEF IsFile
  <2> QED
    BY <1>16, <1>18, <2>1 DEF Touches
<1>22. IsFile(sec[s][k]) /\ new[s][k].name = sec[s][k].name
  BY <1>3, <1>16, <1>17
<1> QED
  BY ZenonT(60), <1>16, <1>19, <1>20, <1>21, <1>22 DEF ClosedTo, view, file, new, sec, p

(* The file that a handle was writing has the bytes that the handle saw.   *)
LEMMA WriterCloses ==
  ASSUME NEW io, NEW of, NEW L, Faithful(io, of, L), Minds("mix"), NEW h \in Slots, IsOpen(of, h),
         of[h].mode # MODE_READ, NEW to, to = Closing(io, of[h]), NEW og, og = [of EXCEPT ![h] = Closed],
         Sane(to, og, L)
  PROVE  ClosedIn(io, of, L, to, og, h)
<1> DEFINE sec == io.disk.sector
           new == to.disk.sector
<1>1. PICK s, k : At(of[h]) = <<s, k>>
  BY DEF At
<1>2. ClosedTo(sec, L, new, of[h], s, k)
  BY <1>1, WriterSaves
<1>3. /\ Sane(io, of, L) /\ Flat(sec) /\ Cleans(of, sec) /\ Laid(io.disk.fat, L) /\ DOMAIN of = Slots
      /\ s \in Sectors /\ k \in CellIndex /\ {RootAt, <<s, k>>} \subseteq Places
  <2>1. Sane(io, of, L) /\ s \in Sectors /\ k \in CellIndex
    BY <1>1, OpenIsFile DEF Faithful
  <2> QED
    BY <2>1, PlacesAre DEF Faithful, Sane, Fine, CellIndex
<1>4. PICK P, X : P = {<<s, k>>} /\ X = {RootAt, <<s, k>>}
  BY ZenonT(60)
<1>5. Touches(sec, L, new, L, P, X) /\ X \subseteq Places
  BY <1>2, <1>3, <1>4 DEF ClosedTo
<1>6. \A g \in Slots : g # h => og[g] = of[g]
  BY <1>3
<1>7. ~og[h].in_use
  BY <1>3 DEF Closed
<1>8. \A g \in Slots : IsOpen(of, g) /\ g # h => At(of[g]) # <<s, k>>
  <2>1. Apart(io, of, h, L)
    BY <1>3, ApartFrom DEF IsOpen
  <2> QED
    BY <1>1, <2>1, WriterAlone
<1>9. Keeps(sec, of, L, new, og, L, P)
  <2>1. \A t \in Sectors, j \in CellIndex : <<t, j>> \notin P =>
           \A g \in Slots : /\ WritesAt(og, g, <<t, j>>) <=> WritesAt(of, g, <<t, j>>)
                            /\ WritesAt(of, g, <<t, j>>) => og[g] = of[g]
    BY <1>1, <1>4, <1>6, <1>7 DEF WritesAt, IsOpen
  <2>2. PICK fat : Laid(fat, L)
    BY <1>3
  <2>3. Touches(io.disk.sector, L, new, L, P, X)
    BY <1>5
  <2>4. Keeps(io.disk.sector, of, L, new, og, L, P)
    <3>1. Sane(io, of, L) /\ X \subseteq Places
      BY <1>3, <1>5
    <3>2. PICK v : v = new
      OBVIOUS
    <3>3. Touches(io.disk.sector, L, v, L, P, X)
      BY <2>3, <3>2
    <3> HIDE DEF new
    <3>4. Keeps(io.disk.sector, of, L, v, og, L, P)
      BY <2>1, <2>2, <3>1, <3>3, TouchesKeeps
    <3> QED
      BY <3>2, <3>4
  <2> QED
    BY <2>4
<1>10. Carries(sec, of, L, new, og, L, <<s, k>>)
  <2> SUFFICES ASSUME NEW b, Holds(sec, of, L, <<s, k>>, b)
               PROVE  Holds(new, og, L, <<s, k>>, b)
    BY DEF Carries
  <2>1. WritesAt(of, h, <<s, k>>)
    BY <1>1 DEF WritesAt
  <2>2. b = Data(L[<<s, k>>], of[h].file_size, View(sec, of[h]))
    BY <2>1 DEF Holds
  <2>3. \A g \in Slots : ~WritesAt(og, g, <<s, k>>)
    BY SMTT(60), <1>6, <1>7, <1>8 DEF WritesAt, IsOpen
  <2>4. /\ L[<<s, k>>] \in Seq(Sectors) /\ of[h].file_size \in Nat
        /\ Len(L[<<s, k>>]) = SectorsFor(of[h].file_size)
    <3>1. /\ IsFile(io.disk.sector[s][k]) /\ Sane(io, of, L)
          /\ s \in Sectors /\ k \in CellIndex
      BY SMTT(60), <1>2, <1>3 DEF ClosedTo
    <3> HIDE DEF sec, new
    <3> QED
      BY SMTT(60), <2>1, <3>1, SizesAre
  <2>5. SizeAt(new, <<s, k>>) = of[h].file_size
    BY ZenonT(60), <1>2 DEF ClosedTo, SizeAt
  <2>6. PICK q, n, u, v : q = L[<<s, k>>] /\ n = of[h].file_size /\ u = View(sec, of[h]) /\ v = new
    OBVIOUS
  <2>7. q \in Seq(Sectors) /\ n \in Nat /\ Len(q) = SectorsFor(n) /\ \A t \in Items(q) : u[t] = v[t]
    BY ZenonT(60), <1>2, <2>4, <2>6 DEF ClosedTo, On
  <2>8. Data(q, n, u) = Data(q, n, v)
    BY SMTT(60), <2>7, DataAlike
  <2> QED
    BY <2>2, <2>3, <2>5, <2>6, <2>8 DEF Holds
<1>11. Keeps(sec, of, L, new, og, L, {})
  BY ZenonT(60), <1>2, <1>4, <1>9, <1>10 DEF Keeps, ClosedTo
<1>12. Flat(new)
  <2> SUFFICES ASSUME NEW t \in Sectors, NEW j \in CellIndex PROVE ~IsDirectory(new[t][j])
    BY SMTT(60) DEF Flat
  <2>1. CASE <<t, j>> = <<s, k>>
    BY ZenonT(60), <1>2, <2>1 DEF ClosedTo, IsFile, IsDirectory
  <2>2. CASE <<t, j>> # <<s, k>>
    BY ZenonT(60), <1>2, <1>3, <2>2 DEF ClosedTo, IsDirectory, Flat
  <2> QED
    BY <2>1, <2>2
<1>13. Cleans(og, new)
  <2> SUFFICES ASSUME NEW g \in Slots, IsOpen(og, g) PROVE Clean(og[g], new)
    BY DEF Cleans
  <2>1. g # h /\ IsOpen(of, g) /\ og[g] = of[g]
    BY <1>6, <1>7 DEF IsOpen
  <2>2. Clean(of[g], io.disk.sector) /\ At(of[g]) \notin P
    BY <1>3, <1>4, <1>8, <2>1 DEF Cleans
  <2>3. PICK fat, v : Laid(fat, L) /\ v = new
    BY <1>3
  <2>4. Touches(io.disk.sector, L, v, L, P, X)
    BY <1>5, <2>3
  <2>5. Clean(of[g], v)
    BY <1>3, <1>5, <2>1, <2>2, <2>3, <2>4, CleanStays
  <2> QED
    BY <2>1, <2>3, <2>5
<1> QED
  BY <1>11, <1>12, <1>13 DEF ClosedIn, Faithful

(* file_close lets the files be.                                           *)
LEMMA Closes ==
  ASSUME NEW io, NEW of, NEW L, Faithful(io, of, L), Minds("mix"), NEW h \in Slots, IsOpen(of, h)
  PROVE  ClosedIn(io, of, L, Closing(io, of[h]), [of EXCEPT ![h] = Closed], h)
<1>1. PICK to, og : to = Closing(io, of[h]) /\ og = [of EXCEPT ![h] = Closed]
  OBVIOUS
<1>2. Sane(to, og, L)
  <2>1. Apart(io, of, h, L) /\ HandleOk(of[h], io.disk.sector, L)
    BY ApartFrom DEF IsOpen, Faithful
  <2>2. PICK mid : mid = flush_buffer(io, of[h])
    OBVIOUS
  <2>3. Buffered(of[h], L, At(of[h])) /\ (of[h].buffer_dirty => of[h].mode # MODE_READ)
    BY ZenonT(60), <2>1, HandleStays DEF SameEntries, HandleOk
  <2>4. Apart(mid, of, h, L) /\ SameEntries(io.disk.sector, mid.disk.sector)
    BY <2>1, <2>2, <2>3, Flushes
  <2>5. HandleOk(of[h], mid.disk.sector, L)
    BY <2>1, <2>4, HandleStays
  <2>6. Sane(SaveEntry(mid, of[h]), [of EXCEPT ![h] = Closed], L)
    BY <2>4, <2>5, Saves
  <2> QED
    BY <1>1, <2>2, <2>6 DEF Closing
<1>3. ClosedIn(io, of, L, to, og, h)
  BY <1>1, <1>2, ReaderCloses, WriterCloses
<1> QED
  BY <1>1, <1>3

-----------------------------------------------------------------------------
(* Reading. What load_buffer leaves of a job.                              *)
ViewLoaded(at, in) ==
    /\ View(in.io.disk.sector, in.file) = View(at.io.disk.sector, at.file)
    /\ Clean(in.file, in.io.disk.sector)
    /\ in.file.buffer_sector = at.file.current_sector
    /\ in.file.buffer = View(at.io.disk.sector, at.file)[at.file.current_sector]
    /\ SameHandle(at.file, in.file)
    /\ in.read = at.read /\ in.stopped = at.stopped /\ in.written = at.written
    /\ in.io.disk.sector = at.io.disk.sector \/ in.io.disk.sector = View(at.io.disk.sector, at.file)
    /\ ~at.file.buffer_dirty => in.io = at.io /\ ~in.file.buffer_dirty

(* The handle sees the sectors as before, and has that at the cursor.      *)
LEMMA LoadsView ==
  ASSUME NEW at \in Jobs, Clean(at.file, at.io.disk.sector), at.file.current_sector \in Sectors
  PROVE  ViewLoaded(at, load_buffer(at))
<1> DEFINE cur == at.file.current_sector
           sec == at.io.disk.sector
           view == View(sec, at.file)
           mid == flush_buffer(at.io, at.file)
           in == load_buffer(at)
<1>1. /\ at.file \in Held /\ at.io \in IOs(Contents(Values)) /\ sec \in [Sectors -> Contents(Values)]
  BY IOsAre DEF Jobs
<1>2. at.file.buffer \in Contents(Values) /\ at.file.buffer_sector \in Sectors \cup {NO_SECTOR}
  BY <1>1 DEF Held
<1>3. DOMAIN view = Sectors /\ \A t \in Sectors : view[t] = IF t = at.file.buffer_sector THEN at.file.buffer ELSE sec[t]
  <2>0. PICK u \in [Sectors -> Contents(Values)] : u = sec
    BY <1>1
  <2>1. PICK f : f = at.file
    OBVIOUS
  <2>2. DOMAIN View(u, f) = Sectors /\ \A t \in Sectors : View(u, f)[t] = IF t = f.buffer_sector THEN f.buffer ELSE u[t]
    BY ViewIs
  <2> HIDE DEF sec
  <2> QED
    BY <2>0, <2>1, <2>2
<1>4. CASE at.file.buffer_sector = cur
  <2>1. in = at
    BY <1>4 DEF load_buffer
  <2>2. at.file.buffer = view[cur]
    BY <1>3, <1>4
  <2> QED
    BY <1>4, <2>1, <2>2 DEF ViewLoaded, SameHandle
<1>5. ASSUME at.file.buffer_sector # cur
      PROVE  ViewLoaded(at, in)
  <2>1. mid.disk.sector = view
    BY <1>1, <1>2, FlushedView
  <2>2. ~at.file.buffer_dirty => mid = at.io
    BY DEF flush_buffer
  <2> HIDE DEF mid
  <2>3. Flushed(at) = [at EXCEPT !.io = mid, !.file.buffer_dirty = FALSE]
    BY DEF Flushed, mid
  <2>4. Flushed(at).io = mid
    BY <1>1, <2>3 DEF Jobs
  <2> DEFINE cells == mid.disk.sector[cur]
  <2>5. in = [[at EXCEPT !.io = mid, !.file.buffer_dirty = FALSE]
                EXCEPT !.file.buffer = cells, !.file.buffer_sector = cur]
    BY <1>5, <2>3, <2>4 DEF load_buffer
  <2> HIDE DEF in, cells
  <2>6. /\ in.io = mid /\ in.stopped = at.stopped /\ in.written = at.written /\ in.read = at.read
        /\ SameHandle(at.file, in.file)
        /\ in.file.buffer = cells /\ in.file.buffer_sector = cur /\ in.file.buffer_dirty = FALSE
    BY <1>1, <2>5 DEF Jobs, Held, SameHandle
  <2>7. cells = view[cur]
    BY <2>1 DEF cells
  <2>8. View(in.io.disk.sector, in.file) = view
    <3>1. View(in.io.disk.sector, in.file) = [view EXCEPT ![cur] = view[cur]]
      BY <2>1, <2>6, <2>7 DEF View
    <3>2. view = [t \in Sectors |-> view[t]]
      BY <1>1 DEF View
    <3> HIDE DEF view, cur
    <3> QED
      BY <3>1, <3>2
  <2>9. Clean(in.file, in.io.disk.sector)
    BY <2>1, <2>6, <2>7 DEF Clean
  <2> HIDE DEF view, sec
  <2> QED
    BY <2>1, <2>2, <2>6, <2>7, <2>8, <2>9 DEF ViewLoaded, view, sec
<1> QED
  BY <1>4, <1>5

(* What a handle that does not write sees is what is on the disk.          *)
LEMMA ViewClean ==
  ASSUME NEW C, NEW sec \in [Sectors -> C], NEW file, Clean(file, sec), ~file.buffer_dirty,
         file.buffer_sector \in Sectors \cup {NO_SECTOR}
  PROVE  View(sec, file) = sec
<1>1. CASE file.buffer_sector = NO_SECTOR
  BY <1>1, ViewNone
<1>2. CASE file.buffer_sector # NO_SECTOR
  BY <1>2 DEF Clean, View
<1> QED
  BY <1>1, <1>2

(* How far a read has come: from position `from', at most n bytes, of the  *)
(* file whose bytes are b.                                                 *)
ReadSoFar(at, io, of, h, L, b, from, n) ==
    /\ Working(at, of, h, L) /\ at.io = io /\ Clean(at.file, io.disk.sector)
    /\ at.file.file_size = of[h].file_size
    /\ at.file.position = from + Len(at.read) /\ at.file.position <= from + n
    /\ \A i \in 1 .. Len(at.read) : at.read[i] = b[from + i]
    /\ IF at.stopped THEN at.file.position = of[h].file_size ELSE at.file.position = from + n

(* A file without sectors has no bytes.                                    *)
LEMMA NoSectorsFor ==
  ASSUME NEW n \in Nat, SectorsFor(n) = 0
  PROVE  n = 0
BY SectorsForIs

(* The byte at the position is in the sector at the cursor of a handle     *)
(* that reads.                                                             *)
LEMMA CursorIsAtByte ==
  ASSUME NEW f \in Held, f.mode = MODE_READ, f.position < f.file_size, NEW q, q # <<>>,
         NEW entry, Located(f, entry, q), Minds("mix"), NEW view
  PROVE  Data(q, f.file_size, view)[f.position + 1] = view[f.current_sector][f.position % Cells]
<1>1. f.position \in Nat /\ f.file_size \in Nat
  BY DEF Held
<1>2. f.current_sector = q[CursorIndex(f)]
  BY DEF Located
<1>3. CursorIndex(f) = f.position \div Cells + 1
  <2>1. CASE f.position = 0
    BY <2>1, OneSector DEF CursorIndex
  <2>2. CASE f.position # 0
    BY <2>2 DEF CursorIndex
  <2> QED
    BY <2>1, <2>2
<1>4. f.position + 1 \in 1 .. f.file_size /\ (f.position + 1) - 1 = f.position
  BY <1>1
<1>5. Data(q, f.file_size, view)[f.position + 1] =
        view[q[((f.position + 1) - 1) \div Cells + 1]][((f.position + 1) - 1) % Cells]
  BY <1>4 DEF Data
<1> QED
  BY <1>2, <1>3, <1>4, <1>5

(* What a turn of the loop of file_read leaves, if it reads a byte.        *)
TurnedRead(at, in, to) ==
    /\ to.io = in.io /\ to.stopped = in.stopped
    /\ to.read = Append(in.read, in.file.buffer[in.file.position % Cells])
    /\ to.file.position = in.file.position + 1 /\ to.file.file_size = in.file.file_size
    /\ to.file.buffer = in.file.buffer /\ to.file.buffer_sector = in.file.buffer_sector
    /\ to.file.buffer_dirty = in.file.buffer_dirty

LEMMA ReadTurn ==
  ASSUME NEW at, NEW n, Readable(at), NEW in \in Jobs, in = load_buffer(at)
  PROVE  TurnedRead(at, in, ReadByte(at, n))
<1> DEFINE here == ReadHere(in)
           to == AfterByte(here)
           byte == in.file.buffer[in.file.position % Cells]
<1>1. ReadByte(at, n) = to
  BY ReadByteIs
<1>2. here = [in EXCEPT !.read = Append(@, byte), !.file.position = @ + 1]
  BY DEF ReadHere
<1> HIDE DEF here, byte
<1>3. /\ here.io = in.io /\ here.stopped = in.stopped /\ here.read = Append(in.read, byte)
      /\ here.file = [in.file EXCEPT !.position = in.file.position + 1] /\ DOMAIN here = DOMAIN in
  BY <1>2 DEF Jobs
<1>4. /\ here.file.position = in.file.position + 1 /\ here.file.file_size = in.file.file_size
      /\ here.file.buffer = in.file.buffer /\ here.file.buffer_sector = in.file.buffer_sector
      /\ here.file.buffer_dirty = in.file.buffer_dirty
  BY <1>3 DEF Jobs, Held
<1>5. /\ to.io = here.io /\ to.stopped = here.stopped /\ to.read = here.read
      /\ to.file.position = here.file.position /\ to.file.file_size = here.file.file_size
      /\ to.file.buffer = here.file.buffer /\ to.file.buffer_sector = here.file.buffer_sector
      /\ to.file.buffer_dirty = here.file.buffer_dirty
  <2>1. CASE to = here
    BY <2>1
  <2>2. CASE to = [here EXCEPT !.file.current_sector = NextOf(here)]
    <3>1. DOMAIN here = {"io", "file", "read", "written", "stopped"}
      BY <1>3 DEF Jobs
    <3> HIDE DEF to
    <3>2. /\ to.io = here.io /\ to.stopped = here.stopped /\ to.read = here.read
          /\ to.file = [here.file EXCEPT !.current_sector = NextOf(here)]
      BY <2>2, <3>1
    <3> QED
      BY <1>3, <3>2 DEF Jobs, Held
  <2> QED
    BY <2>1, <2>2 DEF AfterByte
<1> QED
  BY <1>1, <1>3, <1>4, <1>5 DEF TurnedRead, byte

(* Each turn reads the next byte of the file, or stops at its end.         *)
LEMMA ReadsOn ==
  ASSUME NEW at, NEW io, NEW of, NEW h, NEW L, NEW b, NEW from \in Nat, NEW n \in Nat,
         ReadSoFar(at, io, of, h, L, b, from, n), of[h].mode = MODE_READ, Minds("mix"),
         b = Data(L[At(of[h])], of[h].file_size, io.disk.sector), NEW m
  PROVE  ReadSoFar(ReadByte(at, m), io, of, h, L, b, from, n + 1)
<1> DEFINE file == at.file
           p == At(of[h])
           sec == io.disk.sector
           to == ReadByte(at, m)
<1>1. /\ Near(at, of, h, L) /\ Settled(file, sec, L) /\ at.io = io /\ at \in Jobs /\ file \in Held
      /\ L \in [Places -> Seq(Sectors)] /\ p \in Places /\ At(file) = p /\ file.mode = MODE_READ
      /\ sec \in [Sectors -> Contents(Values)] /\ Clean(file, sec)
  BY NearParts, IOsAre DEF ReadSoFar, Working, Near
<1>2. ~file.buffer_dirty /\ \E entry : Located(file, entry, L[p])
  BY <1>1 DEF Settled
<1>3. /\ file.position \in Nat /\ file.file_size \in Nat /\ file.file_size = of[h].file_size
      /\ file.position <= file.file_size /\ Len(L[p]) = SectorsFor(file.file_size)
      /\ at.read \in Seq(CellSet(Values)) /\ Len(at.read) \in Nat
  BY <1>1, <1>2 DEF Held, Located, ReadSoFar, Jobs
<1>4. Working(to, of, h, L)
  BY ReadByteWorks DEF ReadSoFar
<1>5. CASE ~Readable(at)
  <2>1. to = [at EXCEPT !.stopped = TRUE]
    BY <1>5, ReadByteIs
  <2> HIDE DEF to
  <2>2. to.io = at.io /\ to.file = file /\ to.read = at.read /\ to.stopped
    BY <1>1, <2>1 DEF Jobs
  <2>3. file.position = file.file_size
    <3>1. CASE at.stopped
      BY <1>3, <3>1 DEF ReadSoFar
    <3>2. CASE file.position >= file.file_size
      BY <1>3, <3>2
    <3>3. CASE file.current_sector = NO_SECTOR
      <4>1. file.current_sector \notin On(L, p)
        BY <1>1, <3>3, OnSome
      <4>2. L[p] = <<>>
        BY <1>1, <4>1 DEF Near, HandleNear
      <4>3. Len(L[p]) = 0
        BY <4>2
      <4>4. file.file_size = 0
        BY <1>3, <4>3, NoSectorsFor
      <4> HIDE DEF file
      <4> QED
        BY <1>3, <4>4
    <3> QED
      BY <1>5, <3>1, <3>2, <3>3 DEF Readable
  <2>4. file.position <= from + (n + 1)
    BY <1>3 DEF ReadSoFar
  <2> QED
    BY <1>1, <1>3, <1>4, <2>2, <2>3, <2>4 DEF ReadSoFar, to
<1>6. ASSUME Readable(at)
      PROVE  ReadSoFar(to, io, of, h, L, b, from, n + 1)
  <2>1. PICK in : in = load_buffer(at)
    OBVIOUS
  <2>2. /\ ~at.stopped /\ file.position < file.file_size /\ file.current_sector # NO_SECTOR
        /\ file.current_sector \in On(L, p)
    BY <1>1, <1>3, <1>6 DEF Readable, Near, HandleNear
  <2>3. L[p] # <<>> /\ file.current_sector \in Sectors
    BY <1>1, <2>2, OnSome
  <2>4. in \in Jobs
    BY <1>1, <2>1, <2>2, LoadBuffer DEF Loads
  <2>5. ViewLoaded(at, in)
    BY <1>1, <2>1, <2>3, LoadsView
  <2>6. TurnedRead(at, in, to)
    BY <1>6, <2>1, <2>4, ReadTurn
  <2>7. View(sec, file) = sec
    BY <1>1, <1>2, ViewClean DEF Held
  <2> HIDE DEF to
  <2>8. /\ to.io = io /\ ~to.stopped /\ to.file.position = file.position + 1 /\ to.file.file_size = file.file_size
        /\ to.file.buffer = sec[file.current_sector] /\ to.file.buffer_sector = file.current_sector
        /\ to.read = Append(at.read, sec[file.current_sector][file.position % Cells])
    BY <1>1, <1>2, <2>2, <2>5, <2>6, <2>7 DEF ViewLoaded, TurnedRead, SameHandle
  <2>9. sec[file.current_sector][file.position % Cells] = b[file.position + 1]
    <3>1. PICK entry : Located(file, entry, L[p])
      BY <1>2
    <3>2. PICK f, q : f = file /\ q = L[p]
      OBVIOUS
    <3>3. f \in Held /\ f.mode = MODE_READ /\ f.position < f.file_size /\ q # <<>> /\ Located(f, entry, q)
      BY <1>1, <2>2, <2>3, <3>1, <3>2
    <3>4. Data(q, f.file_size, sec)[f.position + 1] = sec[f.current_sector][f.position % Cells]
      BY <3>3, CursorIsAtByte
    <3> QED
      BY <1>3, <3>2, <3>4
  <2>10. Clean(to.file, io.disk.sector)
    BY <2>8 DEF Clean
  <2>11. file.position = from + Len(at.read) /\ file.position = from + n
         /\ \A i \in 1 .. Len(at.read) : at.read[i] = b[from + i]
    BY <2>2 DEF ReadSoFar
  <2>12. /\ Len(to.read) = Len(at.read) + 1
         /\ \A i \in 1 .. Len(to.read) : to.read[i] = b[from + i]
    <3> HIDE DEF file
    <3>1. PICK c : c = sec[file.current_sector][file.position % Cells] /\ c = b[from + (Len(at.read) + 1)]
      BY <1>3, <2>9, <2>11
    <3>2. to.read = Append(at.read, c)
      BY <2>8, <3>1
    <3>3. Len(to.read) = Len(at.read) + 1 /\ to.read[Len(at.read) + 1] = c
          /\ \A i \in 1 .. Len(at.read) : to.read[i] = at.read[i]
      BY <1>3, <3>2
    <3>4. ASSUME NEW i \in 1 .. Len(to.read) PROVE to.read[i] = b[from + i]
      <4>1. CASE i = Len(at.read) + 1
        BY <3>1, <3>3, <4>1
      <4>2. CASE i # Len(at.read) + 1
        <5>1. i \in 1 .. Len(at.read)
          BY <1>3, <3>3, <4>2
        <5> QED
          BY <2>11, <3>3, <5>1
      <4> QED
        BY <4>1, <4>2
    <3> QED
      BY <3>3, <3>4
  <2>13. /\ to.file.position = from + Len(to.read) /\ to.file.position = from + (n + 1)
         /\ to.file.file_size = of[h].file_size
    <3>1. PICK x, y, u, v : x = file.position /\ y = to.file.position /\ u = Len(at.read) /\ v = Len(to.read)
      BY ZenonT(60)
    <3>2. y = x + 1 /\ x = from + u /\ x = from + n /\ v = u + 1 /\ u \in Nat
      BY ZenonT(60), <1>3, <2>8, <2>11, <2>12, <3>1
    <3>3. y = from + v /\ y = from + (n + 1)
      BY <3>2
    <3> QED
      BY <1>3, <2>8, <3>1, <3>3
  <2>14. to.file.position <= from + (n + 1)
    BY <2>13
  <2>15. Working(to, of, h, L)
    BY <1>4 DEF to
  <2> QED
    BY ZenonT(60), <2>8, <2>10, <2>12, <2>13, <2>14, <2>15 DEF ReadSoFar
<1> QED
  BY <1>5, <1>6

(* A read or write starts from the state between calls.                    *)
LEMMA JobStarts ==
  ASSUME NEW L, Sane(Now, open_files, L), NEW h \in Slots, IsOpen(open_files, h)
  PROVE  /\ Working(Job(h), open_files, h, L) /\ Job(h) \in Workings(open_files, h)
         /\ Job(h).io = Now /\ Job(h).file = open_files[h] /\ Job(h).read = <<>> /\ Job(h).written = 0
         /\ ~Job(h).stopped
<1>1. Apart(Now, open_files, h, L) /\ HandleOk(open_files[h], Now.disk.sector, L)
  BY ApartFrom DEF IsOpen
<1>2. HandleNear(open_files[h], Now.disk.sector, L) /\ Settled(open_files[h], Now.disk.sector, L)
  BY SMTT(60), <1>1, HandleParts
<1>3. open_files[h] \in Held /\ (open_files[h].buffer_dirty => open_files[h].mode # MODE_READ)
  BY ZenonT(60), <1>1 DEF HandleOk
<1>4. Now \in IOs(Contents(Values))
  BY DEF Sane, Fine
<1>5. Job(h) \in Jobs
  <2>1. <<>> \in Seq(CellSet(Values))
    OBVIOUS
  <2> HIDE DEF Now
  <2> QED
    BY <1>3, <1>4, <2>1 DEF Jobs, Job
<1>6. Job(h).io = Now /\ Job(h).file = open_files[h] /\ Job(h).read = <<>> /\ Job(h).written = 0 /\ ~Job(h).stopped
  BY DEF Job
<1>7. Working(Job(h), open_files, h, L)
  BY <1>1, <1>2, <1>3, <1>5, <1>6 DEF Working, Near
<1> QED
  BY <1>5, <1>6, <1>7 DEF Workings

(* The bytes of a file that is open for reading are those on the disk.     *)
LEMMA ReaderHolds ==
  ASSUME NEW io, NEW of, NEW L, Sane(io, of, L), Minds("mix"), NEW h \in Slots, IsOpen(of, h),
         of[h].mode = MODE_READ, NEW b, Holds(io.disk.sector, of, L, At(of[h]), b)
  PROVE  b = Data(L[At(of[h])], of[h].file_size, io.disk.sector) /\ of[h].file_size \in Nat
<1>1. HandleOk(of[h], io.disk.sector, L) /\ of[h].file_size \in Nat
  BY ZenonT(60), HandlesAre DEF IsOpen, Held
<1>2. \A g \in Slots : ~WritesAt(of, g, At(of[h]))
  BY DEF Sane, Alone, WritesAt
<1>3. SizeAt(io.disk.sector, At(of[h])) = of[h].file_size
  BY ZenonT(60), <1>1 DEF HandleOk, Located, SizeAt, At
<1> QED
  BY <1>1, <1>2, <1>3 DEF Holds

(* The loop of file_read reads up to the count or the end of the file.     *)
LEMMA ReadsAll ==
  ASSUME NEW L, Faithful(Now, open_files, L), Minds("mix"), NEW h \in Slots, IsOpen(open_files, h),
         open_files[h].mode = MODE_READ, NEW count \in Nat,
         NEW at, at = Repeat(ReadByte, Job(h), count),
         NEW b, b = Data(L[At(open_files[h])], open_files[h].file_size, Now.disk.sector)
  PROVE  ReadSoFar(at, Now, open_files, h, L, b, open_files[h].position, count)
<1> DEFINE of == open_files
           from == of[h].position
           V == Workings(of, h)
<1>1. Sane(Now, of, L) /\ Cleans(of, Now.disk.sector) /\ from \in Nat
  BY HandlesAre DEF Faithful, IsOpen, Held
<1>2. /\ Working(Job(h), of, h, L) /\ Job(h) \in V
      /\ Job(h).io = Now /\ Job(h).file = of[h] /\ Job(h).read = <<>> /\ ~Job(h).stopped
  BY <1>1, JobStarts
<1>3. \A v \in V : \A n \in 1 .. count : ReadByte(v, n) \in V
  <2> SUFFICES ASSUME NEW v \in V, NEW n \in 1 .. count PROVE ReadByte(v, n) \in V
    OBVIOUS
  <2>1. PICK M : Working(v, of, h, M)
    BY DEF Workings
  <2>2. Working(ReadByte(v, n), of, h, M)
    BY <2>1, ReadByteWorks
  <2> QED
    BY <2>2 DEF Workings, Working, Near
<1> HIDE DEF V
<1>4. PICK run : Reading(run, V, Job(h), count) /\ Repeat(ReadByte, Job(h), count) = run[count]
  BY <1>2, <1>3, ReadRuns
<1> DEFINE T == {n \in 0 .. count : ReadSoFar(run[n], Now, of, h, L, b, from, n)}
<1>5. 0 \in T
  <2>1. run[0] = Job(h) /\ 0 \in 0 .. count
    BY <1>4 DEF Reading
  <2>2. Clean(of[h], Now.disk.sector)
    BY <1>1 DEF Cleans
  <2>3. Len(Job(h).read) = 0
    BY <1>2
  <2>4. ReadSoFar(Job(h), Now, of, h, L, b, from, 0)
    <3> HIDE DEF of
    <3> QED
      BY <1>1, <1>2, <2>2, <2>3 DEF ReadSoFar
  <2> QED
    BY <2>1, <2>4
<1>6. ASSUME NEW n \in 1 .. count, n - 1 \in T PROVE n \in T
  <2>1. run[n] = ReadByte(run[n - 1], n)
    BY <1>4 DEF Reading
  <2>2. ReadSoFar(run[n - 1], Now, of, h, L, b, from, n - 1) /\ n - 1 \in Nat
    BY <1>6
  <2>3. PICK i : i = n - 1
    OBVIOUS
  <2>4. ReadSoFar(ReadByte(run[i], n), Now, of, h, L, b, from, i + 1)
    BY <1>1, <2>2, <2>3, ReadsOn
  <2>5. i + 1 = n /\ n \in 0 .. count
    BY <2>3
  <2> QED
    BY <2>1, <2>3, <2>4, <2>5
<1> HIDE DEF T
<1>7. 0 .. count \subseteq T
  BY <1>5, <1>6, Induct
<1> QED
  BY <1>4, <1>7 DEF T

(* What file_read leaves, and what it returns.                             *)
SamePlace(f, g) ==
    g.in_use /\ f.in_use /\ g.mode = f.mode /\ g.dir_sector = f.dir_sector /\ g.dir_slot = f.dir_slot

UpTo(from, count, length) == IF from + count < length THEN from + count ELSE length

ReadIn(io, of, L, at, og, h, count, b) ==
    /\ at.io = io /\ Faithful(io, og, L) /\ Takes(of, og, h)
    /\ Keeps(io.disk.sector, of, L, io.disk.sector, og, L, {})
    /\ SamePlace(of[h], og[h]) /\ og[h].position = UpTo(of[h].position, count, Len(b))
    /\ at.read = SubSeq(b, of[h].position + 1, og[h].position)

(* A part of a sequence.                                                   *)
LEMMA PartIs ==
  ASSUME NEW S, NEW r \in Seq(S), NEW B, NEW b \in Seq(B), NEW from \in Nat, NEW to \in Nat,
         to = from + Len(r), to <= Len(b), \A i \in 1 .. Len(r) : r[i] = b[from + i]
  PROVE  r = SubSeq(b, from + 1, to)
<1>1. Len(r) \in Nat /\ r = [i \in 1 .. Len(r) |-> r[i]]
  OBVIOUS
<1> DEFINE part == SubSeq(b, from + 1, to)
<1>2. Len(part) = Len(r) /\ part \in Seq(B)
  BY <1>1
<1>3. \A i \in 1 .. Len(r) : part[i] = b[from + i]
  BY <1>1
<1>4. part = [i \in 1 .. Len(r) |-> part[i]]
  BY <1>2
<1> HIDE DEF part
<1>5. part = r
  BY <1>1, <1>3, <1>4
<1> QED
  BY <1>5 DEF part

(* The bytes are a sequence.                                               *)
LEMMA DataSeq ==
  ASSUME NEW q, NEW n \in Nat, NEW view
  PROVE  \E B : Data(q, n, view) \in Seq(B)
<1> DEFINE b == Data(q, n, view)
<1>1. b = [i \in 1 .. n |-> b[i]]
  BY DEF Data
<1> HIDE DEF b
<1>2. b \in Seq({b[i] : i \in 1 .. n})
  BY <1>1
<1> QED
  BY <1>2 DEF b

(* The handle after a read or write is sane.                               *)
LEMMA WorkEnds ==
  ASSUME NEW at, NEW of, NEW h, NEW L, Working(at, of, h, L)
  PROVE  /\ Sane(at.io, [of EXCEPT ![h] = at.file], L)
         /\ SamePlace(of[h], at.file) /\ At(at.file) = At(of[h]) /\ DOMAIN of = Slots /\ h \in Slots
<1>1. /\ HandleOk(at.file, at.io.disk.sector, L) /\ Apart(at.io, of, h, L)
      /\ At(at.file) = At(of[h]) /\ at.file.mode = of[h].mode /\ at.file \in Held
  BY HandleParts DEF Working, Near, HandleNear
<1>2. Sane(at.io, [of EXCEPT ![h] = at.file], L)
  BY <1>1, ApartSane
<1>3. SamePlace(of[h], at.file)
  BY <1>1 DEF Held, SamePlace, At, Apart, IsOpen
<1> QED
  BY <1>1, <1>2, <1>3 DEF Apart

(* file_read.                                                              *)
LEMMA Reads ==
  ASSUME NEW L, Faithful(Now, open_files, L), Minds("mix"), NEW h \in Slots, IsOpen(open_files, h),
         open_files[h].mode = MODE_READ, NEW count \in Nat,
         NEW at, at = Repeat(ReadByte, Job(h), count),
         NEW b, Holds(Now.disk.sector, open_files, L, At(open_files[h]), b),
         NEW og, og = [open_files EXCEPT ![h] = at.file]
  PROVE  ReadIn(Now, open_files, L, at, og, h, count, b)
<1> DEFINE of == open_files
           from == of[h].position
           sec == Now.disk.sector
<1>1. /\ Sane(Now, of, L) /\ Flat(sec) /\ Cleans(of, sec) /\ from \in Nat
  BY HandlesAre DEF Faithful, IsOpen, Held
<1>2. b = Data(L[At(of[h])], of[h].file_size, sec) /\ of[h].file_size \in Nat
  BY <1>1, ReaderHolds
<1>3. ReadSoFar(at, Now, of, h, L, b, from, count)
  BY <1>2, ReadsAll
<1>4. /\ Working(at, of, h, L) /\ at.io = Now /\ Clean(at.file, sec)
      /\ at.read \in Seq(CellSet(Values)) /\ at.file.position \in Nat /\ at.file.position <= of[h].file_size
      /\ at.file \in Held
  <2>1. /\ Working(at, of, h, L) /\ at.io = Now /\ Clean(at.file, sec) /\ at.file.file_size = of[h].file_size
    BY <1>3 DEF ReadSoFar
  <2>2. at \in Jobs /\ at.file \in Held /\ Settled(at.file, sec, L)
    BY SMTT(60), <2>1 DEF Working, Near, HandleNear
  <2>3. at.file.position <= at.file.file_size
    BY <2>2 DEF Settled, Located
  <2> QED
    BY <2>1, <2>2, <2>3 DEF Jobs, Held
<1>5. Len(b) = of[h].file_size
  BY <1>2, DataLength
<1>6. /\ Sane(Now, og, L) /\ SamePlace(of[h], at.file) /\ At(at.file) = At(of[h]) /\ DOMAIN of = Slots
  BY <1>4, WorkEnds
<1>7. og[h] = at.file /\ \A g \in Slots : g # h => og[g] = of[g]
  BY <1>6
<1> HIDE DEF of, sec
<1>8. at.file.position = UpTo(from, count, Len(b))
  <2>1. PICK x, n : x = at.file.position /\ n = of[h].file_size
    OBVIOUS
  <2>2. x <= from + count /\ (x = n \/ x = from + count) /\ x <= n /\ x \in Nat /\ n \in Nat
    BY <1>2, <1>3, <1>4, <2>1 DEF ReadSoFar
  <2>3. x = UpTo(from, count, n)
    BY <1>1, <2>2 DEF UpTo
  <2> QED
    BY <1>5, <2>1, <2>3
<1>9. at.read = SubSeq(b, from + 1, at.file.position)
  <2>1. at.file.position = from + Len(at.read) /\ \A i \in 1 .. Len(at.read) : at.read[i] = b[from + i]
    BY <1>3 DEF ReadSoFar
  <2>2. PICK B : b \in Seq(B)
    BY <1>2, DataSeq
  <2>3. PICK r, f, t, C : r = at.read /\ f = from /\ t = at.file.position /\ C = CellSet(Values)
    OBVIOUS
  <2>4. /\ r \in Seq(C) /\ f \in Nat /\ t \in Nat /\ t = f + Len(r) /\ t <= Len(b)
        /\ \A i \in 1 .. Len(r) : r[i] = b[f + i]
    BY <1>1, <1>4, <1>5, <2>1, <2>3
  <2>5. r = SubSeq(b, f + 1, t)
    BY ZenonT(60), <2>2, <2>4, PartIs
  <2> QED
    BY <2>3, <2>5
<1>10. Keeps(sec, of, L, sec, og, L, {})
  <2>1. \A q : \A g \in Slots : /\ WritesAt(og, g, q) <=> WritesAt(of, g, q)
                                /\ WritesAt(of, g, q) => og[g] = of[g]
    BY <1>6, <1>7 DEF WritesAt, IsOpen, SamePlace, of
  <2> QED
    BY ZenonT(60), <2>1 DEF Keeps, Carries, Holds
<1>11. Cleans(og, sec)
  BY <1>1, <1>4, <1>7 DEF Cleans, IsOpen
<1> QED
  BY <1>1, <1>4, <1>6, <1>7, <1>8, <1>9, <1>10, <1>11 DEF ReadIn, Faithful, Takes, of, sec

-----------------------------------------------------------------------------
(* Writing. A longer chain holds the same bytes.                           *)
LEMMA DataLonger ==
  ASSUME NEW q \in Seq(Sectors), NEW n \in Nat, Len(q) = SectorsFor(n), NEW r, NEW view,
         \A i \in 1 .. Len(q) : r[i] = q[i]
  PROVE  Data(r, n, view) = Data(q, n, view)
<1>1. ASSUME NEW i \in 1 .. n
      PROVE  view[r[(i - 1) \div Cells + 1]][(i - 1) % Cells] = view[q[(i - 1) \div Cells + 1]][(i - 1) % Cells]
  <2>1. (i - 1) \div Cells + 1 \in 1 .. Len(q)
    BY ByteIsAt
  <2> QED
    BY <2>1
<1> QED
  BY <1>1 DEF Data

(* The larger of two sizes.                                                *)
Larger(m, n) == IF m > n THEN m ELSE n

(* The bytes d with one more, or another, at a position.                   *)
WithByteAt(d, n, position, cell) == [i \in 1 .. n |-> IF i = position + 1 THEN cell ELSE d[i]]

(* The sectors with a byte.                                                *)
ViewWith(view, new, s, k, cell) ==
    /\ new[s][k] = cell
    /\ \A t \in Sectors, j \in CellIndex : <<t, j>> # <<s, k>> => new[t][j] = view[t][j]

(* A position is that of one sector and one cell.                          *)
LEMMA PositionsDiffer ==
  ASSUME NEW m \in Nat, NEW n \in Nat, m \div Cells = n \div Cells, m % Cells = n % Cells
  PROVE  m = n
<1>1. m = Cells * (m \div Cells) + (m % Cells)
  BY Division, DiskAssumption
<1>2. n = Cells * (n \div Cells) + (n % Cells)
  BY Division, DiskAssumption
<1> QED
  BY <1>1, <1>2

(* A byte that is written changes the bytes of the file at its position.   *)
LEMMA DataWith ==
  ASSUME NEW q \in Seq(Sectors), \A i, j \in 1 .. Len(q) : q[i] = q[j] => i = j,
         NEW n \in Nat, NEW position \in Nat, position <= n,
         NEW m, m = Larger(position + 1, n), Len(q) = SectorsFor(m),
         NEW view, NEW new, NEW cell,
         ViewWith(view, new, q[position \div Cells + 1], position % Cells, cell)
  PROVE  Data(q, m, new) = WithByteAt(Data(q, n, view), m, position, cell)
<1>1. m \in Nat /\ position + 1 \in 1 .. m /\ \A i \in 1 .. m : i # position + 1 => i \in 1 .. n
  BY DEF Larger
<1>2. ASSUME NEW i \in 1 .. m
      PROVE  new[q[(i - 1) \div Cells + 1]][(i - 1) % Cells] =
               IF i = position + 1 THEN cell ELSE Data(q, n, view)[i]
  <2>1. CASE i = position + 1
    <3>1. i - 1 = position
      BY <2>1
    <3> QED
      BY <2>1, <3>1 DEF ViewWith
  <2>2. CASE i # position + 1
    <3>1. PICK a, b, t, j, c, d : /\ a = (i - 1) \div Cells /\ b = position \div Cells
                               /\ t = q[a + 1] /\ j = (i - 1) % Cells /\ c = q[b + 1] /\ d = position % Cells
      OBVIOUS
    <3>2. a + 1 \in 1 .. Len(q) /\ j \in CellIndex /\ t \in Sectors
      BY <1>1, <3>1, ByteIsAt
    <3>3. b + 1 \in 1 .. Len(q)
      <4>1. PICK g : g = position + 1
        OBVIOUS
      <4>2. g \in 1 .. m /\ g - 1 = position
        BY <1>1, <4>1
      <4>3. (g - 1) \div Cells + 1 \in 1 .. Len(q)
        BY <1>1, <4>2, ByteIsAt
      <4> QED
        BY <3>1, <4>2, <4>3
    <3>4. <<t, j>> # <<c, d>>
      <4> SUFFICES ASSUME t = c, j = d PROVE FALSE
        OBVIOUS
      <4>1. a = b
        <5>1. a + 1 = b + 1
          BY <3>1, <3>2, <3>3
        <5>2. a \in Int /\ b \in Int
          BY <1>1, <3>1, DiskAssumption, Division
        <5> QED
          BY <5>1, <5>2
      <4>2. PICK e : e = i - 1
        OBVIOUS
      <4>3. e \in Nat
        BY <4>2
      <4>4. e \div Cells = position \div Cells /\ e % Cells = position % Cells
        BY <3>1, <4>1, <4>2, Zenon
      <4>5. e = position
        BY <4>3, <4>4, PositionsDiffer
      <4> QED
        BY <1>1, <2>2, <4>2, <4>5
    <3>5. new[t][j] = view[t][j]
      BY <3>1, <3>2, <3>4 DEF ViewWith
    <3>6. i \in 1 .. n
      BY <1>1, <2>2
    <3>7. Data(q, n, view)[i] = view[q[(i - 1) \div Cells + 1]][(i - 1) % Cells]
      BY <3>6 DEF Data
    <3> QED
      BY <2>2, <3>1, <3>5, <3>7
  <2> QED
    BY <2>1, <2>2
<1>3. WithByteAt(Data(q, n, view), m, position, cell) =
        [i \in 1 .. m |-> IF i = position + 1 THEN cell ELSE Data(q, n, view)[i]]
  BY DEF WithByteAt
<1>4. Data(q, m, new) = [i \in 1 .. m |-> new[q[(i - 1) \div Cells + 1]][(i - 1) % Cells]]
  BY DEF Data
<1> QED
  BY ZenonT(60), <1>2, <1>3, <1>4

(* The bytes b with n of them, from a position on, overwritten.            *)
Over(b, from, n, cell) ==
    [i \in 1 .. Larger(from + n, Len(b)) |-> IF i \in from + 1 .. from + n THEN cell ELSE b[i]]

(* Overwriting the next one.                                               *)
NextOver(b, from, n, cell) ==
    /\ Over(b, from, n + 1, cell) =
         WithByteAt(Over(b, from, n, cell), Larger(from + (n + 1), Len(b)), from + n, cell)
    /\ Larger((from + n) + 1, Larger(from + n, Len(b))) = Larger(from + (n + 1), Len(b))

LEMMA OverNext ==
  ASSUME NEW b, Len(b) \in Nat, NEW from \in Nat, NEW n \in Nat, NEW cell
  PROVE  NextOver(b, from, n, cell)
<1> DEFINE m == Larger(from + n, Len(b))
           k == Larger(from + (n + 1), Len(b))
<1>1. m \in Nat /\ k \in Nat /\ Larger((from + n) + 1, m) = k
      /\ \A i \in 1 .. k : i # (from + n) + 1 => i \in 1 .. m
  BY DEF Larger
<1>2. ASSUME NEW i \in 1 .. k
      PROVE  (IF i \in from + 1 .. from + (n + 1) THEN cell ELSE b[i]) =
             (IF i = (from + n) + 1 THEN cell ELSE Over(b, from, n, cell)[i])
  <2>1. CASE i = (from + n) + 1
    BY <1>1, <2>1
  <2>2. CASE i # (from + n) + 1
    <3>1. i \in 1 .. m
      BY <1>1, <2>2
    <3>2. Over(b, from, n, cell)[i] = IF i \in from + 1 .. from + n THEN cell ELSE b[i]
      BY <3>1 DEF Over
    <3>3. i \in from + 1 .. from + (n + 1) <=> i \in from + 1 .. from + n
      BY <1>1, <2>2
    <3> QED
      BY <2>2, <3>2, <3>3
  <2> QED
    BY <2>1, <2>2
<1> HIDE DEF m, k
<1>3. Over(b, from, n + 1, cell) = [i \in 1 .. k |-> IF i \in from + 1 .. from + (n + 1) THEN cell ELSE b[i]]
  BY DEF Over, k
<1>4. WithByteAt(Over(b, from, n, cell), k, from + n, cell) =
        [i \in 1 .. k |-> IF i = (from + n) + 1 THEN cell ELSE Over(b, from, n, cell)[i]]
  BY DEF WithByteAt
<1>5. Over(b, from, n + 1, cell) = WithByteAt(Over(b, from, n, cell), k, from + n, cell)
  BY <1>2, <1>3, <1>4
<1> QED
  BY <1>1, <1>5 DEF m, k, NextOver

(* What a turn of the loop of file_write leaves, if it writes a byte: the  *)
(* handle sees it, and the rest as before.                                 *)
Puts(at, to, q, cell) ==
    /\ to.written = at.written + 1 /\ to.stopped = at.stopped
    /\ to.file.position = at.file.position + 1 /\ to.file.file_size = SizeWith(at.file)
    /\ ViewWith(View(at.io.disk.sector, at.file), View(to.io.disk.sector, to.file),
                at.file.current_sector, at.file.position % Cells, cell)
    /\ Clean(to.file, to.io.disk.sector)
    /\ \A t \in Sectors : t \notin Items(q) => to.io.disk.sector[t] = at.io.disk.sector[t]

(* The byte that is put in the buffer is seen at the position.             *)
LEMMA PutShows ==
  ASSUME NEW at, NEW of, NEW h, NEW L, Ready(at, of, h, L), ~at.stopped, NEW value \in Values,
         Clean(at.file, at.io.disk.sector)
  PROVE  Puts(at, PutByte(load_buffer(at), value), L[At(of[h])], ByteCell(value))
<1> DEFINE p == At(of[h])
           f == at.file
           sec == at.io.disk.sector
           view == View(sec, f)
           in == load_buffer(at)
           to == PutByte(in, value)
           cell == ByteCell(value)
<1>0. Near(at, of, h, L) /\ L[p] # <<>>
  BY DEF Ready
<1>1. /\ L \in [Places -> Seq(Sectors)] /\ p \in Places /\ f \in Held /\ At(f) = p /\ at \in Jobs
      /\ HandleNear(f, sec, L) /\ sec \in [Sectors -> Contents(Values)]
  BY <1>0, NearParts, IOsAre DEF Near
<1>2. f.current_sector \in On(L, p) /\ (f.buffer_sector = NO_SECTOR \/ f.buffer_sector \in On(L, p))
  BY <1>0, <1>1 DEF HandleNear, Buffered
<1>3. f.current_sector # NO_SECTOR /\ f.current_sector \in Sectors /\ NO_SECTOR \notin Sectors
  <2>1. f.current_sector # NO_SECTOR /\ f.current_sector \in Sectors
    <3> HIDE DEF p, f
    <3> QED
      BY <1>1, <1>2, OnSome
  <2>2. NO_SECTOR \notin Sectors
    BY DiskAssumption DEF NO_SECTOR, Sectors
  <2> QED
    BY <2>1, <2>2
<1>4. Loads(at, in, of, h, L)
  BY <1>0, <1>3, LoadBuffer
<1>5. ViewLoaded(at, in)
  BY <1>1, <1>3, LoadsView
<1> HIDE DEF in
<1>6. in \in Jobs /\ in.file \in Held /\ SameHandle(f, in.file) /\ in.io.disk.sector \in [Sectors -> Contents(Values)]
  BY <1>4, IOsAre DEF Loads, Jobs
<1>7. to = [in EXCEPT !.written = @ + 1,
                      !.file.buffer[in.file.position % Cells] = cell,
                      !.file.buffer_dirty = TRUE, !.file.modified = TRUE,
                      !.file.position = @ + 1,
                      !.file.file_size = Max({@, in.file.position + 1})]
  BY DEF PutByte
<1> HIDE DEF to
<1> DEFINE new == WithByte(in.file, value)
<1>8. to.io = in.io /\ to.file = new /\ to.written = in.written + 1 /\ to.stopped = in.stopped
  BY <1>6, <1>7 DEF Jobs, Held, WithByte
<1>9. /\ new.buffer_sector = in.file.buffer_sector /\ new.position = in.file.position + 1
      /\ new.file_size = SizeWith(in.file) /\ new \in Held
  BY <1>6, BytePut DEF ByteIn
<1>10. new.buffer_dirty = TRUE /\ new.buffer = [in.file.buffer EXCEPT ![in.file.position % Cells] = cell]
  BY <1>6 DEF Held, WithByte
<1> HIDE DEF new
<1> DEFINE j == f.position % Cells
           cur == f.current_sector
           newsec == to.io.disk.sector
           newview == View(newsec, to.file)
<1>11. j \in CellIndex
  BY <1>1, DiskAssumption, Division DEF CellIndex, Held
<1>12. /\ in.file.position = f.position /\ in.file.file_size = f.file_size
       /\ in.file.buffer_sector = cur /\ in.file.buffer = view[cur] /\ newsec = in.io.disk.sector
       /\ View(newsec, in.file) = view
       /\ newsec = sec \/ newsec = view
       /\ in.written = at.written /\ in.stopped = at.stopped
  BY <1>5, <1>6, <1>8 DEF ViewLoaded, SameHandle
<1>13. to.file.position = f.position + 1 /\ to.file.file_size = SizeWith(f) /\ to.written = at.written + 1
       /\ to.stopped = at.stopped
  BY <1>8, <1>9, <1>12 DEF SizeWith
<1>14. /\ \A t \in Sectors : view[t] = IF t = f.buffer_sector THEN f.buffer ELSE sec[t]
       /\ \A t \in Sectors : newview[t] = IF t = cur THEN to.file.buffer ELSE newsec[t]
       /\ \A t \in Sectors : view[t] = IF t = cur THEN view[cur] ELSE newsec[t]
  <2>1. newsec \in [Sectors -> Contents(Values)]
    BY <1>6, <1>12
  <2>2. \A t \in Sectors : view[t] = IF t = f.buffer_sector THEN f.buffer ELSE sec[t]
    <3> HIDE DEF sec, f
    <3> QED
      BY <1>1, ViewIs
  <2>3. \A t \in Sectors : newview[t] = IF t = to.file.buffer_sector THEN to.file.buffer ELSE newsec[t]
    <3> HIDE DEF newsec
    <3> QED
      BY <2>1, ViewIs
  <2>4. \A t \in Sectors : View(newsec, in.file)[t] = IF t = in.file.buffer_sector THEN in.file.buffer ELSE newsec[t]
    <3> HIDE DEF newsec
    <3> QED
      BY <2>1, ViewIs
  <2>5. to.file.buffer_sector = cur
    BY <1>8, <1>9, <1>12
  <2> HIDE DEF view, newview, newsec, cur
  <2> QED
    BY <1>12, <2>2, <2>3, <2>4, <2>5
<1>15. to.file.buffer = [view[cur] EXCEPT ![j] = cell] /\ view[cur] \in Contents(Values)
  BY <1>6, <1>8, <1>10, <1>12 DEF Held
<1>16. ViewWith(view, newview, cur, j, cell)
  <2> HIDE DEF view, newview, cur, j, cell
  <2>1. DOMAIN view[cur] = CellIndex
    BY <1>15 DEF Contents
  <2>2. newview[cur] = [view[cur] EXCEPT ![j] = cell]
    BY <1>3, <1>14, <1>15 DEF cur
  <2>3. newview[cur][j] = cell
    BY <1>11, <2>1, <2>2
  <2>4. ASSUME NEW t \in Sectors, NEW i \in CellIndex, <<t, i>> # <<cur, j>> PROVE newview[t][i] = view[t][i]
    <3>1. CASE t = cur
      BY <2>1, <2>2, <2>4, <3>1
    <3>2. CASE t # cur
      BY <1>14, <3>2
    <3> QED
      BY <3>1, <3>2
  <2> QED
    BY <2>3, <2>4 DEF ViewWith
<1>17. Clean(to.file, newsec)
  BY <1>8, <1>10 DEF Clean
<1>18. \A t \in Sectors : t \notin On(L, p) => newsec[t] = sec[t]
  BY <1>2, <1>3, <1>12, <1>14
<1> QED
  BY <1>13, <1>16, <1>17, <1>18 DEF Puts, On, in, to

(* Before the byte is put the chain becomes as long as it needs.           *)
LEMMA GetsReady ==
  ASSUME NEW at, NEW of, NEW h, NEW L, Working(at, of, h, L), ~at.stopped, of[h].mode # MODE_READ
  PROVE  \E M : /\ Ready(BeforeByte(FirstSector(at)), of, h, M)
                /\ Longest(L, M, At(of[h])) /\ Unwritten(at, BeforeByte(FirstSector(at)))
<1>1. PICK K : Begun(FirstSector(at), of, h, K) /\ Longest(L, K, At(of[h])) /\ Unwritten(at, FirstSector(at))
  BY FirstSectorBegins
<1>2. PICK first, p : first = FirstSector(at) /\ p = At(of[h])
  OBVIOUS
<1>3. Begun(first, of, h, K)
  BY <1>1, <1>2
<1>4. PICK M : Ready(BeforeByte(first), of, h, M) /\ Longest(K, M, At(of[h])) /\ Unwritten(first, BeforeByte(first))
  BY <1>3, BeforeByteReady
<1>5. Unwritten(at, BeforeByte(first))
  BY <1>1, <1>2, <1>4 DEF Unwritten
<1>6. L \in [Places -> Seq(Sectors)] /\ K \in [Places -> Seq(Sectors)] /\ M \in [Places -> Seq(Sectors)] /\ p \in Places
  <2>1. Near(at, of, h, L) /\ Near(first, of, h, K) /\ Near(BeforeByte(first), of, h, M)
    BY <1>3, <1>4 DEF Working, Begun, Ready
  <2> QED
    BY <1>2, <2>1, NearParts
<1>7. Longest(L, M, p)
  <2>1. Longest(L, K, p) /\ Longest(K, M, p)
    BY <1>1, <1>2, <1>4
  <2>2. Len(L[p]) \in Nat /\ Len(K[p]) \in Nat /\ Len(M[p]) \in Nat
    BY <1>6
  <2>3. \A i \in 1 .. Len(L[p]) : i \in 1 .. Len(K[p])
    BY <2>1, <2>2 DEF Longest
  <2> QED
    BY <2>1, <2>2, <2>3 DEF Longest
<1> QED
  BY <1>2, <1>4, <1>5, <1>7

(* The handle of the job `at' sees n of the bytes b, from a position on,   *)
(* overwritten.                                                            *)
Overwritten(at, q, b, from, n, cell) ==
    /\ at.file.file_size = Larger(from + n, Len(b))
    /\ Data(q, at.file.file_size, View(at.io.disk.sector, at.file)) = Over(b, from, n, cell)

(* How far a write has come: of the file whose bytes are b, some, at most  *)
(* n, from where the handle was, have become `cell', and its chain is M's. *)
WrittenSoFar(at, io, of, h, L, M, b, n, cell) ==
    /\ Working(at, of, h, M) /\ Clean(at.file, at.io.disk.sector)
    /\ at.written \in 0 .. n /\ at.file.position = of[h].position + at.written
    /\ Overwritten(at, M[At(of[h])], b, of[h].position, at.written, cell)
    /\ \A q \in Places : q # At(of[h]) => M[q] = L[q]
    /\ \A t \in Sectors : t \notin On(M, At(of[h])) => at.io.disk.sector[t] = io.disk.sector[t]

(* A chain that becomes longer keeps its sectors.                          *)
LEMMA LongestOn ==
  ASSUME NEW M \in [Places -> Seq(Sectors)], NEW N \in [Places -> Seq(Sectors)], NEW p \in Places, Longest(M, N, p)
  PROVE  On(M, p) \subseteq On(N, p)
<1>1. Len(M[p]) \in Nat /\ Len(N[p]) \in Nat /\ Len(M[p]) <= Len(N[p])
  BY DEF Longest
<1>2. \A i \in 1 .. Len(M[p]) : i \in 1 .. Len(N[p]) /\ N[p][i] = M[p][i]
  BY <1>1 DEF Longest
<1> QED
  BY <1>2 DEF On, Items

(* Getting ready for a byte shows nothing.                                 *)
LEMMA ReadyShows ==
  ASSUME NEW at, NEW io, NEW of, NEW h, NEW L, NEW M, NEW b, NEW n, NEW cell,
         WrittenSoFar(at, io, of, h, L, M, b, n, cell), Minds("mix"),
         NEW here, NEW N, Near(here, of, h, N), Longest(M, N, At(of[h])), Unwritten(at, here)
  PROVE  /\ Clean(here.file, here.io.disk.sector)
         /\ here.written = at.written /\ here.file.position = of[h].position + at.written
         /\ Overwritten(here, N[At(of[h])], b, of[h].position, at.written, cell)
         /\ \A q \in Places : q # At(of[h]) => N[q] = L[q]
         /\ \A t \in Sectors : t \notin On(N, At(of[h])) => here.io.disk.sector[t] = io.disk.sector[t]
<1> DEFINE p == At(of[h])
<1>1. /\ M \in [Places -> Seq(Sectors)] /\ N \in [Places -> Seq(Sectors)] /\ p \in Places
      /\ Near(at, of, h, M) /\ at.file \in Held /\ At(at.file) = p
  <2>1. Near(at, of, h, M)
    BY DEF WrittenSoFar, Working
  <2> QED
    BY <2>1, NearParts DEF Near
<1>2. Len(M[p]) = SectorsFor(at.file.file_size) /\ at.file.file_size \in Nat
  <2>1. Settled(at.file, at.io.disk.sector, M)
    BY DEF WrittenSoFar, Working
  <2> QED
    BY <1>1, <2>1 DEF Settled, Located, Held
<1>3. View(here.io.disk.sector, here.file) = View(at.io.disk.sector, at.file)
  BY DEF Unwritten, View
<1>4. Data(N[p], here.file.file_size, View(here.io.disk.sector, here.file)) =
        Data(M[p], at.file.file_size, View(at.io.disk.sector, at.file))
  <2>1. PICK q, r, m, view : q = M[p] /\ r = N[p] /\ m = at.file.file_size /\ view = View(at.io.disk.sector, at.file)
    OBVIOUS
  <2>2. q \in Seq(Sectors) /\ m \in Nat /\ Len(q) = SectorsFor(m) /\ \A i \in 1 .. Len(q) : r[i] = q[i]
    BY <1>1, <1>2, <2>1 DEF Longest
  <2>3. Data(r, m, view) = Data(q, m, view)
    BY <2>2, DataLonger
  <2>4. here.file.file_size = m
    BY <2>1 DEF Unwritten
  <2> QED
    BY <1>3, <2>1, <2>3, <2>4
<1>5. Clean(here.file, here.io.disk.sector)
  BY DEF WrittenSoFar, Unwritten, Clean
<1>6. On(M, p) \subseteq On(N, p)
  BY <1>1, LongestOn
<1>7. \A t \in Sectors : t \notin On(N, p) => here.io.disk.sector[t] = io.disk.sector[t]
  BY <1>6 DEF WrittenSoFar, Unwritten
<1>8. \A q \in Places : q # p => N[q] = L[q]
  BY DEF WrittenSoFar, Longest
<1> HIDE DEF p
<1> QED
  BY <1>4, <1>5, <1>7, <1>8 DEF WrittenSoFar, Unwritten, Overwritten, p

(* The size of a file with one byte more.                                  *)
LEMMA SizeWithIs ==
  ASSUME NEW f \in Held
  PROVE  SizeWith(f) = Larger(f.position + 1, f.file_size)
<1>1. PICK a \in Nat, c \in Nat : a = f.file_size /\ c = f.position + 1
  BY DEF Held
<1>2. Max({a, c}) = IF a >= c THEN a ELSE c
  BY LargestOfTwo
<1> QED
  BY <1>1, <1>2 DEF SizeWith, Larger

(* A byte that is written is in the file.                                  *)
LEMMA PutIsIn ==
  ASSUME NEW here, NEW of, NEW h, NEW N, Ready(here, of, h, N), ~here.stopped, Minds("mix"),
         NEW b, Len(b) \in Nat, NEW from \in Nat, NEW n \in Nat, NEW cell,
         here.file.position = from + n, Overwritten(here, N[At(of[h])], b, from, n, cell),
         NEW to, Puts(here, to, N[At(of[h])], cell)
  PROVE  Overwritten(to, N[At(of[h])], b, from, n + 1, cell)
<1> DEFINE f == here.file
<1>1. PICK q : q = N[At(of[h])]
  OBVIOUS
<1>2. PICK position, size, m, k, view, new, s, g :
         /\ position = from + n /\ size = f.file_size /\ m = SizeWith(f) /\ k = Larger(from + (n + 1), Len(b))
         /\ view = View(here.io.disk.sector, f) /\ new = View(to.io.disk.sector, to.file)
         /\ s = f.current_sector /\ g = f
  OBVIOUS
<1>3. /\ Near(here, of, h, N) /\ Aimed(f, f.current_sector, q)
  BY <1>1 DEF Ready
<1>4. /\ N \in [Places -> Seq(Sectors)] /\ At(of[h]) \in Places /\ Laid(here.io.disk.fat, N) /\ g \in Held
  BY <1>2, <1>3, NearParts
<1>5. g.position = position /\ g.file_size = size /\ position \in Nat /\ size \in Nat
  BY <1>2, <1>4 DEF Held
<1>6. m = Larger(position + 1, size)
  <2>1. SizeWith(g) = Larger(g.position + 1, g.file_size)
    BY <1>4, SizeWithIs
  <2> QED
    BY <1>2, <1>5, <2>1
<1>7. position <= size /\ Len(q) = SectorsFor(m) /\ s = q[position \div Cells + 1]
  BY <1>2, <1>3, <1>5 DEF Aimed
<1>8. q \in Seq(Sectors) /\ \A i, j \in 1 .. Len(q) : q[i] = q[j] => i = j
  BY <1>1, <1>4 DEF Laid
<1>9. to.file.file_size = m /\ ViewWith(view, new, s, position % Cells, cell)
  BY <1>2, <1>5 DEF Puts
<1>10. ViewWith(view, new, q[position \div Cells + 1], position % Cells, cell)
  BY <1>7, <1>9
<1>11. Data(q, m, new) = WithByteAt(Data(q, size, view), m, position, cell)
  BY SMTT(60), <1>5, <1>6, <1>7, <1>8, <1>10, DataWith
<1>12. /\ Over(b, from, n + 1, cell) = WithByteAt(Over(b, from, n, cell), Larger(from + (n + 1), Len(b)), from + n, cell)
       /\ Larger((from + n) + 1, Larger(from + n, Len(b))) = Larger(from + (n + 1), Len(b))
  <2>1. NextOver(b, from, n, cell)
    BY OverNext
  <2> QED
    BY <2>1 DEF NextOver
<1>13. size = Larger(from + n, Len(b))
  BY <1>2 DEF Overwritten
<1>14. m = k
  BY <1>2, <1>6, <1>12, <1>13
<1>15. Data(q, size, view) = Over(b, from, n, cell)
  BY <1>1, <1>2 DEF Overwritten
<1>16. Data(q, m, new) = Over(b, from, n + 1, cell)
  BY <1>2, <1>11, <1>12, <1>14, <1>15
<1> QED
  BY <1>1, <1>2, <1>9, <1>14, <1>16 DEF Overwritten

(* Each turn writes the next byte of the file, or the disk is full.        *)
LEMMA WritesOn ==
  ASSUME NEW at, NEW io, NEW of, NEW h, NEW L, NEW M, NEW b, NEW n \in Nat, NEW value \in Values,
         WrittenSoFar(at, io, of, h, L, M, b, n, ByteCell(value)), Minds("mix"),
         of[h].mode # MODE_READ, of[h].position \in Nat, Len(b) \in Nat
  PROVE  \E N : WrittenSoFar(WriteByte(at, value), io, of, h, L, N, b, n + 1, ByteCell(value))
<1> DEFINE to == WriteByte(at, value)
           from == of[h].position
           p == At(of[h])
<1>1. at.written \in 0 .. n /\ Working(at, of, h, M)
  BY DEF WrittenSoFar
<1>2. PICK cell : cell = ByteCell(value)
  OBVIOUS
<1>3. CASE at.stopped
  <2>1. to = at
    BY <1>3, WriteByteIs
  <2>2. at.written \in 0 .. n + 1
    BY <1>1
  <2>3. WrittenSoFar(at, io, of, h, L, M, b, n + 1, ByteCell(value))
    BY <2>2 DEF WrittenSoFar
  <2> QED
    BY <2>1, <2>3
<1>4. ASSUME ~at.stopped
      PROVE  \E N : WrittenSoFar(to, io, of, h, L, N, b, n + 1, ByteCell(value))
  <2> DEFINE here == BeforeByte(FirstSector(at))
  <2>1. PICK N : Ready(here, of, h, N) /\ Longest(M, N, p) /\ Unwritten(at, here)
    BY <1>1, <1>4, GetsReady
  <2>2. to = IF here.stopped THEN here ELSE PutByte(load_buffer(here), value)
    BY <1>4, WriteByteIs
  <2> HIDE DEF here, to
  <2>3. Near(here, of, h, N)
    BY <2>1 DEF Ready
  <2>4. WrittenSoFar(at, io, of, h, L, M, b, n, cell)
    BY <1>2
  <2>5. /\ Clean(here.file, here.io.disk.sector)
        /\ here.written = at.written /\ here.file.position = from + at.written
        /\ Overwritten(here, N[p], b, from, at.written, cell)
        /\ \A q \in Places : q # p => N[q] = L[q]
        /\ \A t \in Sectors : t \notin On(N, p) => here.io.disk.sector[t] = io.disk.sector[t]
    BY <2>1, <2>3, <2>4, ReadyShows
  <2>6. CASE here.stopped
    <3>1. to = here /\ Working(here, of, h, N) /\ here.written \in 0 .. n + 1
      BY <1>1, <2>1, <2>2, <2>5, <2>6 DEF Ready
    <3>2. WrittenSoFar(here, io, of, h, L, N, b, n + 1, cell)
      BY <2>5, <3>1 DEF WrittenSoFar
    <3> QED
      BY <1>2, <3>1, <3>2
  <2>7. CASE ~here.stopped
    <3>1. to = PutByte(load_buffer(here), value)
      BY <2>2, <2>7
    <3>2. Working(to, of, h, N)
      BY <2>1, <2>7, <3>1, PutByteWorks
    <3>3. Puts(here, to, N[p], cell)
      BY <1>2, <2>1, <2>5, <2>7, <3>1, PutShows
    <3>4. PICK m \in Nat : m = at.written /\ m \in 0 .. n
      BY <1>1
    <3>5. Overwritten(to, N[p], b, from, m + 1, cell)
      BY <2>1, <2>5, <2>7, <3>3, <3>4, PutIsIn
    <3>6. /\ to.written = m + 1 /\ m + 1 \in 0 .. n + 1 /\ to.file.position = from + (m + 1)
          /\ Clean(to.file, to.io.disk.sector)
          /\ \A t \in Sectors : t \notin On(N, p) => to.io.disk.sector[t] = io.disk.sector[t]
      BY <2>5, <3>3, <3>4 DEF Puts, On
    <3>7. WrittenSoFar(to, io, of, h, L, N, b, n + 1, cell)
      <4> HIDE DEF to
      <4> QED
        BY <2>5, <3>2, <3>5, <3>6 DEF WrittenSoFar
    <3> QED
      BY <1>2, <3>7
  <2> QED
    BY <2>6, <2>7
<1> QED
  BY <1>3, <1>4 DEF to

(* Overwriting nothing changes nothing.                                    *)
LEMMA OverNone ==
  ASSUME NEW q, NEW n \in Nat, NEW view, NEW b, b = Data(q, n, view), NEW from \in Nat, from <= n, NEW cell
  PROVE  Over(b, from, 0, cell) = b /\ Larger(from + 0, Len(b)) = n
<1>1. Len(b) = n /\ b = [i \in 1 .. n |-> b[i]]
  BY DataLength DEF Data
<1>2. Larger(from + 0, n) = n /\ from + 1 .. from + 0 = {}
  BY DEF Larger
<1>3. Over(b, from, 0, cell) = [i \in 1 .. n |-> IF i \in {} THEN cell ELSE b[i]]
  BY <1>1, <1>2 DEF Over
<1> QED
  BY <1>1, <1>2, <1>3

(* The loop of file_write.                                                 *)
LEMMA WritesAll ==
  ASSUME NEW L, Faithful(Now, open_files, L), Minds("mix"), NEW h \in Slots, IsOpen(open_files, h),
         open_files[h].mode # MODE_READ, NEW count \in Nat, NEW value \in Values,
         NEW at, at = Written(Job(h), count, value),
         NEW b, Holds(Now.disk.sector, open_files, L, At(open_files[h]), b)
  PROVE  /\ \E M : WrittenSoFar(at, Now, open_files, h, L, M, b, count, ByteCell(value))
         /\ Len(b) \in Nat /\ open_files[h].position \in Nat
<1> DEFINE of == open_files
           from == of[h].position
           V == Workings(of, h)
           p == At(of[h])
           sec == Now.disk.sector
           cell == ByteCell(value)
<1>1. Sane(Now, of, L) /\ Cleans(of, sec) /\ from \in Nat /\ of[h].file_size \in Nat /\ h \in Slots
  BY HandlesAre DEF Faithful, IsOpen, Held
<1>2. /\ Working(Job(h), of, h, L) /\ Job(h) \in V
      /\ Job(h).io = Now /\ Job(h).file = of[h] /\ Job(h).written = 0
  BY <1>1, JobStarts
<1>3. b = Data(L[p], of[h].file_size, View(sec, of[h]))
  <2>1. WritesAt(of, h, p)
    BY DEF WritesAt
  <2> QED
    BY <1>1, <2>1 DEF Holds
<1>4. Len(b) = of[h].file_size
  BY <1>1, <1>3, DataLength
<1>5. from <= of[h].file_size
  <2>1. Settled(of[h], sec, L)
    BY <1>2 DEF Working
  <2> QED
    BY <2>1 DEF Settled, Located
<1>6. Over(b, from, 0, cell) = b /\ Larger(from + 0, Len(b)) = of[h].file_size
  <2>1. PICK q, n, view, f, c : /\ q = L[p] /\ n = of[h].file_size /\ view = View(sec, of[h]) /\ f = from
                                /\ c = cell
    OBVIOUS
  <2>2. n \in Nat /\ b = Data(q, n, view) /\ f \in Nat /\ f <= n
    BY <1>1, <1>3, <1>5, <2>1
  <2>3. Over(b, f, 0, c) = b /\ Larger(f + 0, Len(b)) = n
    BY <2>2, OverNone
  <2> QED
    BY <2>1, <2>3
<1>7. \A v \in V : WriteByte(v, value) \in V
  BY WriteByteWorks
<1> HIDE DEF V
<1>8. PICK run : Writing(run, V, Job(h), count, value) /\ Written(Job(h), count, value) = run[count]
  BY <1>2, <1>7, WriteRuns
<1> DEFINE T == {n \in 0 .. count : \E M : WrittenSoFar(run[n], Now, of, h, L, M, b, n, cell)}
<1>9. 0 \in T
  <2>1. run[0] = Job(h) /\ 0 \in 0 .. count
    BY <1>8 DEF Writing
  <2>2. Clean(of[h], sec)
    BY <1>1 DEF Cleans
  <2>3. WrittenSoFar(Job(h), Now, of, h, L, L, b, 0, cell)
    <3> HIDE DEF of
    <3> QED
      BY <1>1, <1>2, <1>3, <1>6, <2>2 DEF WrittenSoFar, Overwritten
  <2> QED
    BY <2>1, <2>3
<1>10. ASSUME NEW n \in 1 .. count, n - 1 \in T PROVE n \in T
  <2>1. run[n] = WriteByte(run[n - 1], value)
    BY <1>8 DEF Writing
  <2>2. PICK i : i = n - 1
    OBVIOUS
  <2>3. PICK M : WrittenSoFar(run[i], Now, of, h, L, M, b, i, cell)
    BY <1>10, <2>2
  <2>4. PICK N : WrittenSoFar(WriteByte(run[i], value), Now, of, h, L, N, b, i + 1, cell)
    BY <1>1, <1>4, <2>2, <2>3, WritesOn
  <2>5. i + 1 = n /\ n \in 0 .. count
    BY <2>2
  <2> QED
    BY <2>1, <2>2, <2>4, <2>5
<1> HIDE DEF T
<1>11. 0 .. count \subseteq T
  BY <1>9, <1>10, Induct
<1>12. \E M : WrittenSoFar(run[count], Now, of, h, L, M, b, count, cell)
  BY <1>11 DEF T
<1> QED
  BY <1>1, <1>4, <1>8, <1>12

(* What file_write does to the sectors: those of the file at p change, and *)
(* no entry does.                                                          *)
WroteTo(sec, L, new, M, s, k) ==
    /\ DOMAIN new = Sectors
    /\ \A t \in Sectors : t \notin On(M, <<s, k>>) => new[t] = sec[t]
    /\ \A t \in On(M, <<s, k>>), j \in CellIndex : ~IsEntry(new[t][j]) /\ ~IsEntry(sec[t][j])
    /\ \A q \in Places : q # <<s, k>> => M[q] = L[q]
    /\ s \in Sectors /\ k \in CellIndex /\ IsFile(sec[s][k])

LEMMA WritesTo ==
  ASSUME NEW io, NEW of, NEW L, Faithful(io, of, L), NEW h \in Slots, IsOpen(of, h),
         NEW s, NEW k, At(of[h]) = <<s, k>>, NEW to, NEW M, Apart(to, of, h, M),
         \A q \in Places : q # <<s, k>> => M[q] = L[q],
         \A t \in Sectors : t \notin On(M, <<s, k>>) => to.disk.sector[t] = io.disk.sector[t]
  PROVE  WroteTo(io.disk.sector, L, to.disk.sector, M, s, k)
<1> DEFINE sec == io.disk.sector
           new == to.disk.sector
           p == <<s, k>>
<1>1. Sane(io, of, L) /\ Flat(sec)
  BY DEF Faithful
<1>2. s \in Sectors /\ k \in CellIndex /\ IsFile(sec[s][k])
  BY <1>1, OpenIsFile
<1>3. p \in Places /\ p # RootAt /\ RootAt \in Places
  BY <1>2, PlacesAre DEF CellIndex
<1>4. Laid(to.disk.fat, M) /\ DOMAIN new = Sectors
  BY IOsAre DEF Apart, Fine
<1>5. ASSUME NEW t \in On(M, p), NEW j \in CellIndex PROVE ~IsEntry(new[t][j]) /\ ~IsEntry(sec[t][j])
  <2>1. t \in Sectors /\ ~IsEntry(new[t][j])
    BY <1>5, FileData
  <2>2. ASSUME IsEntry(sec[t][j]) PROVE FALSE
    <3>1. t \in On(M, RootAt)
      <4>1. t \in On(L, RootAt)
        BY <1>1, <2>1, <2>2, RootIs
      <4>2. M[RootAt] = L[RootAt]
        BY <1>3
      <4> QED
        BY <4>1, <4>2 DEF On
    <3>2. PICK q \in Places, r \in Places : q = p /\ r = RootAt /\ q # r
      BY <1>3
    <3>3. PICK i \in 1 .. Len(M[q]), m \in 1 .. Len(M[r]) : t = M[q][i] /\ t = M[r][m]
      BY <1>5, <3>1, <3>2 DEF On, Items
    <3>4. \A a \in 1 .. Len(M[q]), b \in 1 .. Len(M[r]) : M[q][a] = M[r][b] => q = r
      BY <1>4 DEF Laid
    <3> QED
      BY <3>2, <3>3, <3>4
  <2> QED
    BY <2>1, <2>2
<1> QED
  BY <1>2, <1>4, <1>5 DEF WroteTo

(* The other files are as they were.                                       *)
LEMMA WroteTouches ==
  ASSUME NEW sec, NEW L, NEW new, NEW M, NEW s, NEW k, WroteTo(sec, L, new, M, s, k), NEW P, P = {<<s, k>>}
  PROVE  /\ Touches(sec, L, new, M, P, P)
         /\ IsFile(new[s][k]) /\ new[s][k].name = sec[s][k].name
         /\ Flat(sec) => Flat(new)
<1>1. ASSUME NEW t \in Sectors, NEW j \in CellIndex
      PROVE  \/ new[t][j] = sec[t][j]
             \/ ~IsEntry(new[t][j]) /\ ~IsEntry(sec[t][j])
  BY DEF WroteTo
<1>2. s \notin On(M, <<s, k>>) /\ s \in Sectors /\ k \in CellIndex /\ IsFile(sec[s][k])
  BY DEF WroteTo, IsFile
<1>3. new[s] = sec[s]
  BY <1>2 DEF WroteTo
<1>4. \A t \in Sectors : (\A x \in P : t \notin On(M, x)) => new[t] = sec[t]
  BY DEF WroteTo
<1>5. ASSUME NEW t \in Sectors, NEW j \in CellIndex, <<t, j>> \notin P
      PROVE  /\ IsFile(new[t][j]) <=> IsFile(sec[t][j])
             /\ IsFile(sec[t][j]) => new[t][j].name = sec[t][j].name /\ new[t][j].size = sec[t][j].size
             /\ M[<<t, j>>] = L[<<t, j>>]
  <2>1. M[<<t, j>>] = L[<<t, j>>]
    BY <1>5, PlacesAre DEF WroteTo, CellIndex
  <2> QED
    BY <1>1, <2>1 DEF IsFile
<1>6. Touches(sec, L, new, M, P, P)
  BY <1>4, <1>5 DEF Touches, WroteTo
<1>7. Flat(sec) => Flat(new)
  BY <1>1 DEF Flat, IsDirectory
<1> QED
  BY <1>2, <1>3, <1>6, <1>7

(* What file_write leaves: other files are as they were, and of the file   *)
(* of the handle the bytes from its position on are overwritten.           *)
WroteIn(io, of, L, to, og, M, h, s, k, b, n, cell) ==
    /\ Faithful(to, og, M) /\ Takes(of, og, h) /\ SamePlace(of[h], og[h])
    /\ og[h].position = of[h].position + n
    /\ Keeps(io.disk.sector, of, L, to.disk.sector, og, M, {<<s, k>>})
    /\ s \in Sectors /\ k \in CellIndex /\ IsFile(io.disk.sector[s][k]) /\ IsFile(to.disk.sector[s][k])
    /\ to.disk.sector[s][k].name = io.disk.sector[s][k].name
    /\ Holds(to.disk.sector, og, M, <<s, k>>, Over(b, of[h].position, n, cell))

LEMMA WroteShows ==
  ASSUME NEW io, NEW of, NEW L, Faithful(io, of, L), Minds("mix"), NEW h \in Slots, IsOpen(of, h),
         of[h].mode # MODE_READ, NEW s, NEW k, At(of[h]) = <<s, k>>,
         NEW at, NEW M, NEW b, NEW n, NEW cell, WrittenSoFar(at, io, of, h, L, M, b, n, cell),
         NEW og, og = [of EXCEPT ![h] = at.file]
  PROVE  WroteIn(io, of, L, at.io, og, M, h, s, k, b, at.written, cell)
<1> DEFINE sec == io.disk.sector
           new == at.io.disk.sector
           p == <<s, k>>
<1>1. Sane(io, of, L) /\ Flat(sec) /\ Cleans(of, sec) /\ DOMAIN of = Slots
  BY DEF Faithful, Sane
<1>2. Working(at, of, h, M) /\ Apart(at.io, of, h, M)
  BY DEF WrittenSoFar, Working, Near
<1>3. /\ Sane(at.io, og, M) /\ SamePlace(of[h], at.file) /\ At(at.file) = p
  BY <1>2, WorkEnds
<1>4. og[h] = at.file /\ \A g \in Slots : g # h => og[g] = of[g]
  BY <1>1
<1>5. WroteTo(sec, L, new, M, s, k)
  <2>1. PICK to : to = at.io
    OBVIOUS
  <2>2. /\ Apart(to, of, h, M) /\ \A q \in Places : q # <<s, k>> => M[q] = L[q]
        /\ \A t \in Sectors : t \notin On(M, <<s, k>>) => to.disk.sector[t] = io.disk.sector[t]
    BY <1>2, <2>1 DEF WrittenSoFar
  <2>3. WroteTo(io.disk.sector, L, to.disk.sector, M, s, k)
    BY <2>2, WritesTo
  <2> QED
    BY <2>1, <2>3
<1>6. PICK P : P = {<<s, k>>}
  OBVIOUS
<1>7. /\ Touches(sec, L, new, M, P, P) /\ IsFile(new[s][k]) /\ new[s][k].name = sec[s][k].name
      /\ Flat(new) /\ s \in Sectors /\ k \in CellIndex /\ IsFile(sec[s][k])
  <2>1. PICK u, v : u = sec /\ v = new
    OBVIOUS
  <2>2. WroteTo(u, L, v, M, s, k)
    BY <1>5, <2>1
  <2>3. /\ Touches(u, L, v, M, P, P) /\ IsFile(v[s][k]) /\ v[s][k].name = u[s][k].name
        /\ Flat(u) => Flat(v)
    BY <1>6, <2>2, WroteTouches
  <2>4. s \in Sectors /\ k \in CellIndex /\ IsFile(sec[s][k])
    BY <1>5 DEF WroteTo
  <2> QED
    BY <1>1, <2>1, <2>3, <2>4
<1>8. P \subseteq Places
  BY <1>6, <1>7, PlacesAre DEF CellIndex
<1>9. \A g \in Slots : IsOpen(of, g) /\ g # h => At(of[g]) # p
  <2>1. Apart(io, of, h, L)
    BY <1>1, ApartFrom DEF IsOpen
  <2> QED
    BY <2>1, WriterAlone
<1>10. PICK fat : Laid(fat, M)
  BY <1>2 DEF Apart, Fine
<1>11. Keeps(sec, of, L, new, og, M, P)
  <2>1. \A t \in Sectors, j \in CellIndex : <<t, j>> \notin P =>
           \A g \in Slots : /\ WritesAt(og, g, <<t, j>>) <=> WritesAt(of, g, <<t, j>>)
                            /\ WritesAt(of, g, <<t, j>>) => og[g] = of[g]
    BY <1>3, <1>4, <1>6 DEF WritesAt, IsOpen
  <2>2. PICK v : v = new
    OBVIOUS
  <2>3. Touches(io.disk.sector, L, v, M, P, P)
    BY <1>7, <2>2
  <2>4. Keeps(io.disk.sector, of, L, v, og, M, P)
    BY <1>1, <1>8, <1>10, <2>1, <2>3, TouchesKeeps
  <2> QED
    BY <2>2, <2>4
<1>12. Cleans(og, new)
  <2> SUFFICES ASSUME NEW g \in Slots, IsOpen(og, g) PROVE Clean(og[g], new)
    BY DEF Cleans
  <2>1. CASE g = h
    BY <1>4, <2>1 DEF WrittenSoFar
  <2>2. CASE g # h
    <3>1. IsOpen(of, g) /\ og[g] = of[g]
      BY <1>4, <2>2 DEF IsOpen
    <3>2. Clean(of[g], io.disk.sector) /\ At(of[g]) \notin P
      BY <1>1, <1>6, <1>9, <2>2, <3>1 DEF Cleans
    <3>3. PICK v : v = new
      OBVIOUS
    <3>4. Touches(io.disk.sector, L, v, M, P, P)
      BY <1>7, <3>3
    <3>5. Clean(of[g], v)
      BY <1>1, <1>8, <1>10, <3>1, <3>2, <3>4, CleanStays
    <3> QED
      BY <3>1, <3>3, <3>5
  <2> QED
    BY <2>1, <2>2
<1>13. Holds(new, og, M, p, Over(b, of[h].position, at.written, cell))
  <2>1. WritesAt(og, h, p)
    BY <1>3, <1>4 DEF WritesAt, IsOpen, SamePlace
  <2>2. \A g \in Slots : WritesAt(og, g, p) => g = h
    BY <1>4, <1>9 DEF WritesAt, IsOpen
  <2>3. Over(b, of[h].position, at.written, cell) = Data(M[p], at.file.file_size, View(new, at.file))
    BY DEF WrittenSoFar, Overwritten
  <2> HIDE DEF p, new
  <2> QED
    BY <1>4, <2>1, <2>2, <2>3 DEF Holds
<1>14. og[h].position = of[h].position + at.written
  BY <1>4 DEF WrittenSoFar
<1> QED
  BY <1>3, <1>4, <1>6, <1>7, <1>11, <1>12, <1>13, <1>14 DEF WroteIn, Faithful, Takes

-----------------------------------------------------------------------------
(* Each call is a step of the abstract store, for programs that mind all   *)
(* that they should and make no directories, only files in the root        *)
(* directory.                                                              *)
Plain ==
    /\ Mindful /\ Minds("mix") /\ "mkdir" \notin Calls
    /\ Paths \subseteq {<<n>> : n \in Names}

(* The invariant behind the refinement.                                    *)
Stored == writes = <<>> /\ seen = Seen /\ \E L : Faithful(Now, open_files, L)

(* What a state before a call stands for,                                  *)
LEMMA StandsFor ==
  ASSUME Plain, Stored, Shown
  PROVE  \E L : Faithful(Now, open_files, L) /\ Represents(Now.disk.sector, open_files, L, seen)
<1>1. PICK L : Faithful(Now, open_files, L)
  BY DEF Stored
<1>2. Represents(disk.sector, open_files, L, Seen)
  BY <1>1 DEF Shown, Plain
<1> QED
  BY <1>1, <1>2, NowIs DEF Stored

(* and the state after it.                                                 *)
Arrived(io, og, M, call, result) ==
    /\ Stored' /\ Represents(io.disk.sector, og, M, seen')
    /\ Faithful(io, og, M) /\ answer' = [call |-> call, result |-> result]

LEMMA Arrives ==
  ASSUME Plain, Shown', seen' = Seen', NEW io, NEW call, NEW result, Finish(io, call, result),
         NEW og, open_files' = og, NEW M, Faithful(io, og, M)
  PROVE  Arrived(io, og, M, call, result)
<1>1. disk' = io.disk /\ free_sectors' = io.free_sectors /\ writes' = <<>>
      /\ answer' = [call |-> call, result |-> result]
  BY DEF Finish, Plain, Mindful
<1>2. Now' = Start(io.disk, io.free_sectors)
  BY <1>1 DEF Now
<1>3. Faithful(Now', open_files', M)
  <2>1. Sane(Now', open_files', M)
    BY <1>2, SaneStart DEF Faithful
  <2>2. Now'.disk.sector = io.disk.sector
    BY <1>2 DEF Start
  <2> QED
    BY <2>1, <2>2 DEF Faithful
<1>4. Represents(disk'.sector, open_files', M, Seen')
  BY <1>3 DEF Shown, Plain
<1> QED
  BY <1>1, <1>3, <1>4 DEF Arrived, Stored

(* The handles but h, if it is one, are of files that keep their names.    *)
NamesKept(sec, of, to, h) ==
    \A g \in Slots : g # h /\ IsOpen(of, g) =>
        to[of[g].dir_sector][of[g].dir_slot].name = sec[of[g].dir_sector][of[g].dir_slot].name

(* What becomes of them.                                                   *)
LEMMA HandlesLead ==
  ASSUME NEW sec, NEW of, NEW L, NEW st, Represents(sec, of, L, st),
         NEW to, NEW og, NEW M, NEW new, Represents(to, og, M, new),
         NEW h, Takes(of, og, h), NamesKept(sec, of, to, h)
  PROVE  /\ h \in Slots => new.handles = [st.handles EXCEPT ![h] = HandleIs(to, og[h])]
         /\ h \notin Slots => new.handles = st.handles
         /\ \A g \in Slots : st.handles[g] = HandleIs(sec, of[g])
         /\ DOMAIN st.handles = Slots
<1>1. st.handles = [g \in Slots |-> HandleIs(sec, of[g])] /\ new.handles = [g \in Slots |-> HandleIs(to, og[g])]
  BY DEF Represents
<1>2. ASSUME NEW g \in Slots, g # h PROVE HandleIs(to, og[g]) = HandleIs(sec, of[g])
  BY <1>2 DEF Takes, NamesKept, HandleIs, IsOpen
<1> QED
  BY <1>1, <1>2

(* A step of the files from what st is of to what new is of, which changes *)
(* the handle h at most and the files at P.                                *)
Bridge(io, of, L, st, to, og, M, new, h, P) ==
    /\ Faithful(io, of, L) /\ Represents(io.disk.sector, of, L, st)
    /\ Faithful(to, og, M) /\ Represents(to.disk.sector, og, M, new)
    /\ Takes(of, og, h) /\ NamesKept(io.disk.sector, of, to.disk.sector, h)
    /\ Keeps(io.disk.sector, of, L, to.disk.sector, og, M, P)

Bridged(io, of, L, st, to, og, M, new, h, P) ==
    /\ Leads(io.disk.sector, of, L, st.store, to.disk.sector, og, M, new.store, P)
    /\ h \in Slots => new.handles = [st.handles EXCEPT ![h] = HandleIs(to.disk.sector, og[h])]
    /\ h \notin Slots => new.handles = st.handles
    /\ \A g \in Slots : st.handles[g] = HandleIs(io.disk.sector, of[g])
    /\ DOMAIN st.handles = Slots
    /\ P = {} => new.store = st.store

LEMMA Bridges ==
  ASSUME NEW io, NEW of, NEW L, NEW st, NEW to, NEW og, NEW M, NEW new, NEW h, NEW P,
         Bridge(io, of, L, st, to, og, M, new, h, P)
  PROVE  Bridged(io, of, L, st, to, og, M, new, h, P)
<1>1. PICK u, v, store, next : /\ u = io.disk.sector /\ v = to.disk.sector
                               /\ store = st.store /\ next = new.store
  OBVIOUS
<1>2. NamesDiffer(u) /\ NamesDiffer(v)
  BY <1>1, FaithfulNames DEF Bridge
<1>3. Leads(u, of, L, store, v, og, M, next, P)
  BY <1>1, <1>2 DEF Leads, Bridge, Represents
<1>4. P = {} => next = store
  <2>1. ASSUME P = {} PROVE next = store
    <3>1. Leads(u, of, L, store, v, og, M, next, {})
      BY <1>3, <2>1
    <3> QED
      BY <3>1, StoreStays
  <2> QED
    BY <2>1
<1>5. /\ Represents(u, of, L, st) /\ Represents(v, og, M, new) /\ Takes(of, og, h) /\ NamesKept(u, of, v, h)
  BY <1>1 DEF Bridge
<1>6. /\ h \in Slots => new.handles = [st.handles EXCEPT ![h] = HandleIs(v, og[h])]
      /\ h \notin Slots => new.handles = st.handles
      /\ \A g \in Slots : st.handles[g] = HandleIs(u, of[g])
      /\ DOMAIN st.handles = Slots
  BY <1>5, HandlesLead
<1> QED
  BY <1>1, <1>3, <1>4, <1>6 DEF Bridged

(* A step that lets the files be that are open keeps their names.          *)
LEMMA NamesAreKept ==
  ASSUME NEW io, NEW of, NEW L, Faithful(io, of, L), NEW to, NEW og, NEW M, NEW P,
         Keeps(io.disk.sector, of, L, to, og, M, P), NEW h,
         \A g \in Slots : g # h /\ IsOpen(of, g) => At(of[g]) \notin P
  PROVE  NamesKept(io.disk.sector, of, to, h)
<1> SUFFICES ASSUME NEW g \in Slots, g # h, IsOpen(of, g)
             PROVE  to[of[g].dir_sector][of[g].dir_slot].name =
                      io.disk.sector[of[g].dir_sector][of[g].dir_slot].name
  BY DEF NamesKept
<1>1. PICK s, k : s = of[g].dir_sector /\ k = of[g].dir_slot /\ At(of[g]) = <<s, k>>
  BY DEF At
<1>2. s \in Sectors /\ k \in CellIndex /\ IsFile(io.disk.sector[s][k])
  BY SMTT(60), <1>1, OpenIsFile DEF Faithful
<1>3. to[s][k].name = io.disk.sector[s][k].name
  BY <1>1, <1>2 DEF Keeps
<1> QED
  BY <1>1, <1>3

(* file_close is CloseFile.                                                *)
LEMMA CloseIs ==
  ASSUME Plain, Stored, Shown, Shown', seen' = Seen', NEW h \in Slots, FileClose(h)
  PROVE  Stored' /\ FS!CloseFile(h)
<1>1. PICK L : Faithful(Now, open_files, L) /\ Represents(Now.disk.sector, open_files, L, seen)
  BY StandsFor
<1>2. PICK io, og : /\ io = Closing(Now, open_files[h]) /\ og = [open_files EXCEPT ![h] = Closed]
                    /\ open_files[h].in_use /\ Finish(io, "close", 0) /\ open_files' = og
  BY DEF FileClose
<1>3. Faithful(io, og, L) /\ Keeps(Now.disk.sector, open_files, L, io.disk.sector, og, L, {})
  <2>1. ClosedIn(Now, open_files, L, Closing(Now, open_files[h]), [open_files EXCEPT ![h] = Closed], h)
    BY <1>1, <1>2, Closes DEF Plain, IsOpen
  <2>2. ClosedIn(Now, open_files, L, io, og, h)
    BY <1>2, <2>1
  <2> QED
    BY <2>2 DEF ClosedIn
<1>4. Arrived(io, og, L, "close", 0)
  BY <1>2, <1>3, Arrives
<1>5. PICK st, new, now, of : st = seen /\ new = seen' /\ now = Now /\ of = open_files
  OBVIOUS
<1>6. DOMAIN of = Slots
  BY <1>1, <1>5 DEF Faithful, Sane
<1>7. Bridge(now, of, L, st, io, og, L, new, h, {})
  <2>1. \A g \in Slots : g # h => og[g] = of[g]
    BY <1>2, <1>5, <1>6
  <2>2. Faithful(now, of, L) /\ Keeps(now.disk.sector, of, L, io.disk.sector, og, L, {})
    BY <1>1, <1>3, <1>5
  <2>3. NamesKept(now.disk.sector, of, io.disk.sector, h)
    <3>1. PICK to : to = io.disk.sector
      OBVIOUS
    <3>2. PICK P : P = {}
      OBVIOUS
    <3>3. Keeps(now.disk.sector, of, L, to, og, L, P) /\ \A g \in Slots : g # h /\ IsOpen(of, g) => At(of[g]) \notin P
      BY <2>2, <3>1, <3>2
    <3> QED
      BY <2>2, <3>1, <3>3, NamesAreKept
  <2> QED
    BY <1>1, <1>4, <1>5, <2>1, <2>2, <2>3 DEF Bridge, Arrived, Takes
<1>8. /\ new.store = st.store /\ new.handles = [st.handles EXCEPT ![h] = HandleIs(io.disk.sector, og[h])]
      /\ st.handles[h] = HandleIs(now.disk.sector, of[h])
  <2>1. Bridged(now, of, L, st, io, og, L, new, h, {})
    BY <1>7, Bridges
  <2> QED
    BY <2>1 DEF Bridged
<1>9. og[h] = Closed /\ HandleIs(io.disk.sector, og[h]) = [open |-> FALSE]
  BY <1>2, <1>5, <1>6 DEF HandleIs, Closed
<1>10. st.handles[h].open
  BY <1>2, <1>5, <1>8 DEF HandleIs
<1> QED
  BY <1>4, <1>5, <1>8, <1>9, <1>10 DEF Arrived, FS!CloseFile, FS!Answers, FS!Shut

(* A call leads from one store to the next.                                *)
LEMMA Crosses ==
  ASSUME NEW L, Faithful(Now, open_files, L), Represents(Now.disk.sector, open_files, L, seen),
         NEW io, NEW og, NEW M, NEW call, NEW result, Arrived(io, og, M, call, result),
         NEW h, Takes(open_files, og, h), NEW P, Keeps(Now.disk.sector, open_files, L, io.disk.sector, og, M, P),
         \A g \in Slots : g # h /\ IsOpen(open_files, g) => At(open_files[g]) \notin P
  PROVE  Bridged(Now, open_files, L, seen, io, og, M, seen', h, P)
<1>1. PICK st, new, now, of : st = seen /\ new = seen' /\ now = Now /\ of = open_files
  OBVIOUS
<1>2. /\ Faithful(now, of, L) /\ Represents(now.disk.sector, of, L, st) /\ Takes(of, og, h)
      /\ Keeps(now.disk.sector, of, L, io.disk.sector, og, M, P)
      /\ \A g \in Slots : g # h /\ IsOpen(of, g) => At(of[g]) \notin P
  BY <1>1
<1>3. Faithful(io, og, M) /\ Represents(io.disk.sector, og, M, new)
  BY <1>1 DEF Arrived
<1>4. PICK to : to = io.disk.sector
  OBVIOUS
<1>5. NamesKept(now.disk.sector, of, to, h)
  <2>1. Keeps(now.disk.sector, of, L, to, og, M, P)
    BY <1>2, <1>4
  <2> QED
    BY <1>2, <2>1, NamesAreKept
<1>6. Bridge(now, of, L, st, io, og, M, new, h, P)
  BY <1>2, <1>3, <1>4, <1>5 DEF Bridge
<1>7. Bridged(now, of, L, st, io, og, M, new, h, P)
  BY <1>6, Bridges
<1> QED
  BY <1>1, <1>7

(* A handle with another position.                                         *)
HandleAs(m, position, n) == [open |-> TRUE, mode |-> m, position |-> position, name |-> n]

Shifted(hs, h, m, n, to) == [hs EXCEPT ![h].position = to] = [hs EXCEPT ![h] = HandleAs(m, to, n)]

LEMMA PositionIs ==
  ASSUME NEW hs, NEW h, NEW m, NEW from, NEW n,
         hs[h] = HandleAs(m, from, n), NEW to
  PROVE  Shifted(hs, h, m, n, to)
<1>1. PICK yes : yes = TRUE
  OBVIOUS
<1>2. PICK f, r : f = hs[h] /\ r = [open |-> yes, mode |-> m, position |-> to, name |-> n]
  OBVIOUS
<1>3. f = [open |-> yes, mode |-> m, position |-> from, name |-> n]
  BY <1>1, <1>2 DEF HandleAs
<1>4. [f EXCEPT !.position = to] = r
  BY ONLY <1>2, <1>3
<1>5. [hs EXCEPT ![h].position = to] = [hs EXCEPT ![h] = [f EXCEPT !.position = to]]
  BY <1>2, Zenon
<1>6. [hs EXCEPT ![h].position = to] = [hs EXCEPT ![h] = r]
  BY ZenonT(60), <1>4, <1>5
<1>7. r = HandleAs(m, to, n)
  BY <1>1, <1>2 DEF HandleAs
<1> QED
  BY <1>6, <1>7 DEF Shifted

(* The file of an open handle is in the store, under the handle's name.    *)
LEMMA HandleNamed ==
  ASSUME NEW io, NEW of, NEW L, Faithful(io, of, L), NEW st, Represents(io.disk.sector, of, L, st),
         NEW h \in Slots, IsOpen(of, h), NEW s, NEW k, At(of[h]) = <<s, k>>,
         NEW n, n = io.disk.sector[s][k].name
  PROVE  /\ st.handles[h] = HandleAs(of[h].mode, of[h].position, n)
         /\ n \in DOMAIN st.store /\ s \in Sectors /\ k \in CellIndex /\ IsFile(io.disk.sector[s][k])
         /\ Holds(io.disk.sector, of, L, <<s, k>>, st.store[n])
<1>1. PICK sec, store : sec = io.disk.sector /\ store = st.store
  OBVIOUS
<1>2. s \in Sectors /\ k \in CellIndex /\ IsFile(sec[s][k])
  BY <1>1, OpenIsFile DEF Faithful
<1>3. Stores(sec, of, L, store) /\ NamesDiffer(sec)
  BY <1>1, FaithfulNames DEF Represents
<1>4. sec[s][k].name \in DOMAIN store /\ Holds(sec, of, L, <<s, k>>, store[sec[s][k].name])
  BY <1>2, <1>3, StoreNames
<1>5. st.handles[h] = HandleIs(sec, of[h])
  BY <1>1 DEF Represents
<1>6. of[h].dir_sector = s /\ of[h].dir_slot = k
  BY DEF At
<1>7. st.handles[h] = HandleAs(of[h].mode, of[h].position, n)
  BY <1>1, <1>5, <1>6 DEF HandleIs, HandleAs, IsOpen
<1> QED
  BY <1>1, <1>2, <1>4, <1>7

(* The handle is where it was, but for its position.                       *)
LEMMA HandleMoved ==
  ASSUME NEW f, NEW g, SamePlace(f, g), NEW s, NEW k, At(f) = <<s, k>>, NEW sec, NEW to, to[s][k].name = sec[s][k].name
  PROVE  HandleIs(to, g) = HandleAs(f.mode, g.position, sec[s][k].name)
<1>1. g.in_use /\ g.mode = f.mode /\ g.dir_sector = s /\ g.dir_slot = k
  BY DEF SamePlace, At
<1> QED
  BY <1>1 DEF HandleIs, HandleAs

(* file_read is ReadFile.                                                  *)
LEMMA ReadIs ==
  ASSUME Plain, Stored, Shown, Shown', seen' = Seen', NEW h \in Slots, NEW count \in Counts, FileRead(h, count)
  PROVE  Stored' /\ FS!ReadFile(h, count)
<1>1. PICK L : Faithful(Now, open_files, L) /\ Represents(Now.disk.sector, open_files, L, seen)
  BY StandsFor
<1>2. PICK at, og : /\ at = Repeat(ReadByte, Job(h), count) /\ og = [open_files EXCEPT ![h] = at.file]
                    /\ open_files[h].in_use /\ open_files[h].mode = MODE_READ
                    /\ Finish(at.io, "read", at.read) /\ open_files' = og
  BY DEF FileRead, Plain
<1>3. PICK s, k, n, b : /\ At(open_files[h]) = <<s, k>> /\ n = Now.disk.sector[s][k].name
                        /\ b = seen.store[n]
  BY SMTT(60) DEF At
<1>4. /\ seen.handles[h] = HandleAs(open_files[h].mode, open_files[h].position, n)
      /\ Holds(Now.disk.sector, open_files, L, <<s, k>>, b)
  <2>1. PICK now, st, of : now = Now /\ st = seen /\ of = open_files
    OBVIOUS
  <2>2. Faithful(now, of, L) /\ Represents(now.disk.sector, of, L, st) /\ IsOpen(of, h) /\ At(of[h]) = <<s, k>>
        /\ n = now.disk.sector[s][k].name
    BY <1>1, <1>2, <1>3, <2>1 DEF IsOpen
  <2>3. /\ st.handles[h] = HandleAs(of[h].mode, of[h].position, n)
        /\ Holds(now.disk.sector, of, L, <<s, k>>, st.store[n])
    BY <2>2, HandleNamed
  <2> QED
    BY ZenonT(60), <1>3, <2>1, <2>3
<1>5. ReadIn(Now, open_files, L, at, og, h, count, b)
  <2>1. count \in Nat /\ IsOpen(open_files, h) /\ Minds("mix")
    BY <1>2, QfsAssumption DEF IsOpen, Plain
  <2>2. Holds(Now.disk.sector, open_files, L, At(open_files[h]), b)
    BY ZenonT(60), <1>3, <1>4
  <2> QED
    BY <1>1, <1>2, <2>1, <2>2, Reads
<1>6. Faithful(at.io, og, L)
  BY <1>5 DEF ReadIn
<1>7. Arrived(at.io, og, L, "read", at.read)
  BY <1>2, <1>6, Arrives
<1>8. PICK P : P = {}
  OBVIOUS
<1>9. Bridged(Now, open_files, L, seen, at.io, og, L, seen', h, P)
  <2>1. PICK io, result : io = at.io /\ result = at.read
    OBVIOUS
  <2>2. Arrived(io, og, L, "read", result) /\ Takes(open_files, og, h)
        /\ Keeps(Now.disk.sector, open_files, L, io.disk.sector, og, L, P)
        /\ \A g \in Slots : g # h /\ IsOpen(open_files, g) => At(open_files[g]) \notin P
    BY <1>5, <1>7, <1>8, <2>1 DEF ReadIn
  <2>3. Bridged(Now, open_files, L, seen, io, og, L, seen', h, P)
    BY <1>1, <2>2, Crosses
  <2> QED
    BY <2>1, <2>3
<1>10. /\ seen'.store = seen.store
       /\ seen'.handles = [seen.handles EXCEPT ![h] = HandleIs(at.io.disk.sector, og[h])]
  BY <1>8, <1>9 DEF Bridged
<1>11. HandleIs(at.io.disk.sector, og[h]) =
         HandleAs(open_files[h].mode, og[h].position, n)
  <2>1. at.io = Now /\ SamePlace(open_files[h], og[h])
    BY <1>5 DEF ReadIn
  <2>2. PICK f, g, sec : f = open_files[h] /\ g = og[h] /\ sec = Now.disk.sector
    OBVIOUS
  <2>3. SamePlace(f, g) /\ At(f) = <<s, k>>
    BY <1>3, <2>1, <2>2
  <2>4. HandleIs(sec, g) = HandleAs(f.mode, g.position, sec[s][k].name)
    BY <2>3, HandleMoved
  <2> QED
    BY <1>3, <2>1, <2>2, <2>4
<1>12. /\ og[h].position = UpTo(open_files[h].position, count, Len(b))
       /\ at.read = SubSeq(b, open_files[h].position + 1, og[h].position)
  BY <1>5 DEF ReadIn
<1>13. PICK from, to, m : from = open_files[h].position /\ to = og[h].position /\ m = open_files[h].mode
  OBVIOUS
<1>14. PICK hs, ns, st, ws : hs = seen.handles /\ ns = seen'.handles /\ st = seen.store /\ ws = seen'.store
  BY SMTT(60)
<1>15. /\ hs[h] = HandleAs(m, from, n)
       /\ ns = [hs EXCEPT ![h] = HandleAs(m, to, n)] /\ ws = st /\ b = st[n]
  BY ZenonT(60), <1>3, <1>4, <1>10, <1>11, <1>13, <1>14
<1>16. [hs EXCEPT ![h].position = to] = [hs EXCEPT ![h] = HandleAs(m, to, n)]
  <2>1. Shifted(hs, h, m, n, to)
    BY <1>15, PositionIs
  <2> QED
    BY <2>1 DEF Shifted
<1>17. hs[h].open /\ hs[h].position = from /\ hs[h].name = n
  BY <1>15 DEF HandleAs
<1>18. answer' = [call |-> "read", result |-> SubSeq(b, from + 1, to)] /\ Stored'
       /\ to = IF from + count < Len(b) THEN from + count ELSE Len(b)
  BY <1>7, <1>12, <1>13 DEF Arrived, UpTo
<1> QED
  BY <1>14, <1>15, <1>16, <1>17, <1>18 DEF FS!ReadFile, FS!Answers

(* The bytes of a file that there is are other ones.                       *)
LEMMA StoreChanges ==
  ASSUME NEW store, store = [n \in DOMAIN store |-> store[n]], NEW n \in DOMAIN store, NEW b
  PROVE  StoreWith(store, n, b) = [store EXCEPT ![n] = b]
BY DEF StoreWith

(* file_write is WriteFile, of as many bytes as it says it wrote.          *)
LEMMA WriteIs ==
  ASSUME Plain, Stored, Shown, Shown', seen' = Seen', NEW h \in Slots, NEW count \in Counts, NEW value \in Values,
         FileWrite(h, count, value)
  PROVE  Stored' /\ \E done \in 0 .. count : FS!WriteFile(h, done, ByteCell(value))
<1>1. PICK L : Faithful(Now, open_files, L) /\ Represents(Now.disk.sector, open_files, L, seen)
  BY StandsFor
<1>2. PICK at : /\ at = Written(Job(h), count, value)
                /\ open_files[h].in_use /\ open_files[h].mode # MODE_READ
                /\ Finish(at.io, "write", at.written) /\ open_files' = [open_files EXCEPT ![h] = at.file]
  BY Zenon DEF FileWrite, Written
<1>3. PICK og, cell : og = [open_files EXCEPT ![h] = at.file] /\ cell = ByteCell(value) /\ open_files' = og
  BY <1>2
<1>4. PICK s, k, n, b : /\ At(open_files[h]) = <<s, k>> /\ n = Now.disk.sector[s][k].name
                        /\ b = seen.store[n]
  BY DEF At
<1>5. count \in Nat /\ IsOpen(open_files, h) /\ Minds("mix")
  BY SMTT(60), <1>2, QfsAssumption DEF IsOpen, Plain
<1>6. /\ seen.handles[h] = HandleAs(open_files[h].mode, open_files[h].position, n) /\ n \in DOMAIN seen.store
      /\ s \in Sectors /\ k \in CellIndex /\ IsFile(Now.disk.sector[s][k])
      /\ Holds(Now.disk.sector, open_files, L, <<s, k>>, b)
  <2>1. PICK now, st, of : now = Now /\ st = seen /\ of = open_files
    OBVIOUS
  <2>2. Faithful(now, of, L) /\ Represents(now.disk.sector, of, L, st) /\ IsOpen(of, h) /\ At(of[h]) = <<s, k>>
        /\ n = now.disk.sector[s][k].name
    BY <1>1, <1>4, <1>5, <2>1
  <2>3. /\ st.handles[h] = HandleAs(of[h].mode, of[h].position, n) /\ n \in DOMAIN st.store
        /\ s \in Sectors /\ k \in CellIndex /\ IsFile(now.disk.sector[s][k])
        /\ Holds(now.disk.sector, of, L, <<s, k>>, st.store[n])
    BY <2>2, HandleNamed
  <2> QED
    BY ZenonT(60), <1>4, <2>1, <2>3
<1>7. /\ \E M : WrittenSoFar(at, Now, open_files, h, L, M, b, count, cell)
      /\ Len(b) \in Nat /\ open_files[h].position \in Nat
  <2>1. Holds(Now.disk.sector, open_files, L, At(open_files[h]), b)
    BY ZenonT(60), <1>4, <1>6
  <2>2. /\ \E M : WrittenSoFar(at, Now, open_files, h, L, M, b, count, ByteCell(value))
        /\ Len(b) \in Nat /\ open_files[h].position \in Nat
    BY <1>1, <1>2, <1>5, <2>1, WritesAll
  <2> QED
    BY SMTT(60), <1>3, <2>2
<1>8. PICK M : WrittenSoFar(at, Now, open_files, h, L, M, b, count, cell)
  BY <1>7
<1>9. at.written \in 0 .. count
  BY <1>8 DEF WrittenSoFar
<1>10. WroteIn(Now, open_files, L, at.io, og, M, h, s, k, b, at.written, cell)
  <2>1. PICK now, of : now = Now /\ of = open_files
    BY SMTT(60)
  <2>2. /\ Faithful(now, of, L) /\ IsOpen(of, h) /\ of[h].mode # MODE_READ /\ At(of[h]) = <<s, k>>
        /\ WrittenSoFar(at, now, of, h, L, M, b, count, cell) /\ og = [of EXCEPT ![h] = at.file]
    BY ZenonT(60), <1>1, <1>2, <1>3, <1>4, <1>5, <1>8, <2>1
  <2>3. WroteIn(now, of, L, at.io, og, M, h, s, k, b, at.written, cell)
    BY <1>5, <2>2, WroteShows
  <2> QED
    BY <2>1, <2>3
<1>11. PICK io, wrote, P, bytes : /\ io = at.io /\ wrote = at.written /\ P = {<<s, k>>}
                                  /\ bytes = Over(b, open_files[h].position, wrote, cell)
  BY ZenonT(60)
<1>12. /\ Faithful(io, og, M) /\ Takes(open_files, og, h) /\ SamePlace(open_files[h], og[h])
       /\ og[h].position = open_files[h].position + wrote
       /\ Keeps(Now.disk.sector, open_files, L, io.disk.sector, og, M, P)
       /\ IsFile(io.disk.sector[s][k]) /\ io.disk.sector[s][k].name = n
       /\ Holds(io.disk.sector, og, M, <<s, k>>, bytes)
  BY ZenonT(60), <1>4, <1>10, <1>11 DEF WroteIn
<1>13. Arrived(io, og, M, "write", wrote)
  BY <1>2, <1>3, <1>11, <1>12, Arrives
<1>14. \A g \in Slots : g # h /\ IsOpen(open_files, g) => At(open_files[g]) \notin P
  <2>1. Apart(Now, open_files, h, L)
    BY <1>1, <1>5, ApartFrom DEF Faithful, IsOpen
  <2>2. PICK of, now : of = open_files /\ now = Now
    OBVIOUS
  <2>3. Apart(now, of, h, L) /\ of[h].mode # MODE_READ /\ IsOpen(of, h)
    BY <1>2, <1>5, <2>1, <2>2
  <2>4. \A g \in Slots : IsOpen(of, g) /\ g # h => At(of[g]) # At(of[h])
    BY <2>3, WriterAlone
  <2> QED
    BY <1>4, <1>11, <2>2, <2>4
<1>15. Bridged(Now, open_files, L, seen, io, og, M, seen', h, P)
  BY <1>1, <1>12, <1>13, <1>14, Crosses
<1>16. seen'.store = StoreWith(seen.store, n, bytes)
  <2>1. PICK sec, of, store, to, new : /\ sec = Now.disk.sector /\ of = open_files /\ store = seen.store
                                       /\ to = io.disk.sector /\ new = seen'.store
    OBVIOUS
  <2>2. Leads(sec, of, L, store, to, og, M, new, {<<s, k>>})
    BY SMTT(60), <1>11, <1>15, <2>1 DEF Bridged
  <2>3. s \in Sectors /\ k \in CellIndex /\ IsFile(to[s][k]) /\ to[s][k].name = n
        /\ Holds(to, og, M, <<s, k>>, bytes) /\ sec[s][k].name = n
    BY ZenonT(60), <1>4, <1>6, <1>12, <2>1
  <2>4. new = StoreWith(store, n, bytes)
    BY <2>2, <2>3, StoreWrites
  <2> QED
    BY <2>1, <2>4
<1>17. seen'.store = [seen.store EXCEPT ![n] = bytes]
  <2>1. PICK store : store = seen.store
    OBVIOUS
  <2>2. store = [x \in DOMAIN store |-> store[x]]
    BY <1>1, <2>1 DEF Represents, Stores
  <2>3. n \in DOMAIN store
    BY <1>6, <2>1
  <2>4. StoreWith(store, n, bytes) = [store EXCEPT ![n] = bytes]
    BY <2>2, <2>3, StoreChanges
  <2> QED
    BY <1>16, <2>1, <2>4
<1>18. seen'.handles = [seen.handles EXCEPT ![h] = HandleAs(open_files[h].mode, og[h].position, n)]
  <2>1. seen'.handles = [seen.handles EXCEPT ![h] = HandleIs(io.disk.sector, og[h])]
    BY <1>15 DEF Bridged
  <2>2. PICK f, g, sec, to : f = open_files[h] /\ g = og[h] /\ sec = Now.disk.sector /\ to = io.disk.sector
    OBVIOUS
  <2>3. SamePlace(f, g) /\ At(f) = <<s, k>> /\ to[s][k].name = sec[s][k].name
    BY <1>4, <1>12, <2>2
  <2>4. HandleIs(to, g) = HandleAs(f.mode, g.position, sec[s][k].name)
    BY <2>3, HandleMoved
  <2> QED
    BY <1>4, <2>1, <2>2, <2>4
<1>19. PICK from, to, m : from = open_files[h].position /\ to = og[h].position /\ m = open_files[h].mode
  OBVIOUS
<1>20. PICK hs, ns, st, ws : hs = seen.handles /\ ns = seen'.handles /\ st = seen.store /\ ws = seen'.store
  BY SMTT(60)
<1>21. /\ hs[h] = HandleAs(m, from, n) /\ m # MODE_READ
       /\ ns = [hs EXCEPT ![h] = HandleAs(m, to, n)] /\ ws = [st EXCEPT ![n] = bytes] /\ b = st[n]
  BY ZenonT(60), <1>2, <1>4, <1>6, <1>17, <1>18, <1>19, <1>20
<1>22. [hs EXCEPT ![h].position = to] = ns
  <2>1. Shifted(hs, h, m, n, to)
    BY <1>21, PositionIs
  <2> QED
    BY <1>21, <2>1 DEF Shifted
<1>23. hs[h].open /\ hs[h].position = from /\ hs[h].name = n /\ hs[h].mode # "read"
  BY <1>21 DEF HandleAs, MODE_READ
<1>24. answer' = [call |-> "write", result |-> wrote] /\ Stored' /\ to = from + wrote /\ wrote \in 0 .. count
  BY <1>9, <1>11, <1>12, <1>13, <1>19 DEF Arrived
<1>25. bytes = [i \in 1 .. (IF from + wrote > Len(b) THEN from + wrote ELSE Len(b)) |->
                  IF i \in from + 1 .. from + wrote THEN cell ELSE b[i]]
  BY <1>11, <1>19 DEF Over, Larger
<1>26. FS!WriteFile(h, wrote, cell)
  BY <1>20, <1>21, <1>22, <1>23, <1>24, <1>25 DEF FS!WriteFile, FS!Answers
<1> QED
  BY <1>3, <1>24, <1>26

(* What does not change is kept.                                           *)
LEMMA KeepsSelf ==
  ASSUME NEW sec, NEW of, NEW L
  PROVE  Keeps(sec, of, L, sec, of, L, {}) /\ Takes(of, of, -1)
BY DEF Keeps, Carries, Takes

(* A call that leaves disk and handles leaves the store.                   *)
Stays(call, result) ==
    /\ Stored' /\ answer' = [call |-> call, result |-> result]
    /\ seen'.store = seen.store /\ seen'.handles = seen.handles

LEMMA NothingDone ==
  ASSUME Plain, Stored, Shown, Shown', seen' = Seen', NEW call, NEW result,
         Finish(Now, call, result), open_files' = open_files
  PROVE  Stays(call, result)
<1>1. PICK L : Faithful(Now, open_files, L) /\ Represents(Now.disk.sector, open_files, L, seen)
  BY StandsFor
<1>2. PICK og, P, h : og = open_files /\ P = {} /\ h = -1
  OBVIOUS
<1>3. Faithful(Now, og, L) /\ open_files' = og
  BY <1>1, <1>2
<1>4. Arrived(Now, og, L, call, result)
  BY <1>3, Arrives
<1>5. Keeps(Now.disk.sector, open_files, L, Now.disk.sector, og, L, P) /\ Takes(open_files, og, h)
  <2>1. PICK sec, of : sec = Now.disk.sector /\ of = open_files
    OBVIOUS
  <2>2. Keeps(sec, of, L, sec, of, L, {}) /\ Takes(of, of, -1)
    BY KeepsSelf
  <2> QED
    BY <1>2, <2>1, <2>2
<1>6. \A g \in Slots : g # h /\ IsOpen(open_files, g) => At(open_files[g]) \notin P
  BY <1>2
<1>7. Bridged(Now, open_files, L, seen, Now, og, L, seen', h, P)
  BY <1>1, <1>4, <1>5, <1>6, Crosses
<1>8. h \notin Slots
  BY <1>2 DEF Slots
<1> QED
  BY <1>2, <1>4, <1>7, <1>8 DEF Arrived, Bridged, Stays

(* The store has a file if the search for its name finds it.               *)
LEMMA LooksInStore ==
  ASSUME NEW io, NEW of, NEW L, Faithful(io, of, L), NEW st, Represents(io.disk.sector, of, L, st), NEW n \in Names
  PROVE  \/ dir_find_in(io, root_start, n) = NotFound /\ n \notin DOMAIN st.store
         \/ \E s \in Sectors, k \in CellIndex :
              /\ dir_find_in(io, root_start, n) = Place(s, k, io.disk.sector[s][k])
              /\ Named(io.disk.sector, s, k, n) /\ n \in DOMAIN st.store
<1>1. PICK sec, store : sec = io.disk.sector /\ store = st.store
  OBVIOUS
<1>2. PICK found : found = dir_find_in(io, root_start, n)
  OBVIOUS
<1>3. Looked(sec, n, found)
  <2>1. Sane(io, of, L) /\ Flat(io.disk.sector)
    BY DEF Faithful
  <2>2. Looked(io.disk.sector, n, dir_find_in(io, root_start, n))
    BY <2>1, Looks
  <2> QED
    BY <1>1, <1>2, <2>2
<1>4. DOMAIN store = {m \in Names : \E s \in Sectors, k \in CellIndex : Named(sec, s, k, m)}
  BY <1>1 DEF Represents, Stores
<1>5. \/ found = NotFound /\ n \notin DOMAIN store
      \/ \E s \in Sectors, k \in CellIndex : found = Place(s, k, sec[s][k]) /\ Named(sec, s, k, n) /\ n \in DOMAIN store
  BY <1>3, <1>4 DEF Looked
<1> QED
  BY <1>1, <1>2, <1>5

(* What making a file returns.                                             *)
LEMMA MadeIsFound ==
  ASSUME NEW io, NEW dir, NEW name
  PROVE  NewFileIn(io, dir, name).ok = dir_create_in(io, dir, EmptyFile(name)).place.found
<1> DEFINE made == dir_create_in(io, dir, Dirent(name, FALSE, NO_SECTOR, 0))
           G(m) == [io |-> m.io, ok |-> m.place.found]
<1>1. NewFileIn(io, dir, name) = CHOOSE result \in {G(m) : m \in {made}} : TRUE
  BY Zenon DEF NewFileIn, Bind
<1>2. (CHOOSE result \in {G(m) : m \in {made}} : TRUE) = G(made)
  <2> HIDE DEF G, made
  <2> QED
    OBVIOUS
<1>3. NewFileIn(io, dir, name) = G(made)
  BY <1>1, <1>2
<1> HIDE DEF made
<1> QED
  BY <1>3 DEF made, EmptyFile

(* A file that was made is in the store.                                   *)
LEMMA Adds ==
  ASSUME Plain, Stored, Shown, Shown', seen' = Seen', NEW name \in Names, NEW call, NEW result,
         NEW L, Faithful(Now, open_files, L), Represents(Now.disk.sector, open_files, L, seen),
         NEW io, Finish(io, call, result), open_files' = open_files,
         NEW M, NEW s, NEW k, NewIn(Now, open_files, L, name, io, M, s, k)
  PROVE  /\ Stored' /\ answer' = [call |-> call, result |-> result]
         /\ seen'.store = StoreWith(seen.store, name, <<>>) /\ seen'.handles = seen.handles
<1>1. PICK og, P, h : og = open_files /\ P = {<<s, k>>} /\ h = -1
  OBVIOUS
<1>2. /\ Faithful(io, og, M) /\ s \in Sectors /\ k \in CellIndex
      /\ io.disk.sector[s][k] = EmptyFile(name) /\ ~IsFile(Now.disk.sector[s][k])
      /\ \A g \in Slots : g # h /\ IsOpen(open_files, g) => At(open_files[g]) \notin P
      /\ Keeps(Now.disk.sector, open_files, L, io.disk.sector, og, M, P)
      /\ Holds(io.disk.sector, og, M, <<s, k>>, <<>>)
  BY <1>1 DEF NewIn
<1>3. Arrived(io, og, M, call, result)
  BY <1>1, <1>2, Arrives
<1>4. Takes(open_files, og, h) /\ h \notin Slots
  BY <1>1 DEF Takes, Slots
<1>5. Bridged(Now, open_files, L, seen, io, og, M, seen', h, P)
  BY <1>2, <1>3, <1>4, Crosses
<1>6. PICK sec, of, store, to, new, b : /\ sec = Now.disk.sector /\ of = open_files /\ store = seen.store
                                        /\ to = io.disk.sector /\ new = seen'.store /\ b = <<>>
  OBVIOUS
<1>7. Leads(sec, of, L, store, to, og, M, new, {<<s, k>>})
  BY <1>1, <1>5, <1>6 DEF Bridged
<1>8. IsFile(to[s][k]) /\ to[s][k].name = name /\ Holds(to, og, M, <<s, k>>, b) /\ ~IsFile(sec[s][k])
  <2>1. to[s][k] = EmptyFile(name)
    BY <1>2, <1>6
  <2> QED
    BY <1>2, <1>6, <2>1 DEF EmptyFile, IsFile, IsEntry, Dirent
<1>9. new = StoreWith(store, name, b)
  BY <1>2, <1>7, <1>8, StoreWrites
<1> QED
  BY <1>3, <1>4, <1>5, <1>6, <1>9 DEF Arrived, Bridged

(* A call that makes a file, unless it is there.                           *)
MadeFile(name) ==
    IF dir_find_in(Now, root_start, name).found THEN [io |-> Now, ok |-> TRUE]
    ELSE NewFileIn(Now, root_start, name)

(* It is MakeFile.                                                         *)
LEMMA MakeIs ==
  ASSUME Plain, Stored, Shown, Shown', seen' = Seen', NEW name \in Names, NEW call \in {"CREATE", "touch"},
         NEW at, at = MadeFile(name), Finish(at.io, call, at.ok), open_files' = open_files
  PROVE  Stored' /\ FS!MakeFile(name)
<1>1. PICK L : Faithful(Now, open_files, L) /\ Represents(Now.disk.sector, open_files, L, seen)
  BY StandsFor
<1>2. PICK found : found = dir_find_in(Now, root_start, name)
  OBVIOUS
<1>3. \/ found = NotFound /\ name \notin DOMAIN seen.store
      \/ found.found /\ name \in DOMAIN seen.store
  <2>1. PICK now, of, st : now = Now /\ of = open_files /\ st = seen
    OBVIOUS
  <2>2. Faithful(now, of, L) /\ Represents(now.disk.sector, of, L, st) /\ found = dir_find_in(now, root_start, name)
    BY <1>1, <1>2, <2>1
  <2>3. \/ dir_find_in(now, root_start, name) = NotFound /\ name \notin DOMAIN st.store
        \/ \E s \in Sectors, k \in CellIndex :
              /\ dir_find_in(now, root_start, name) = Place(s, k, now.disk.sector[s][k])
              /\ Named(now.disk.sector, s, k, name) /\ name \in DOMAIN st.store
    BY <2>2, LooksInStore
  <2> QED
    BY <2>1, <2>2, <2>3 DEF Place
<1>4. CASE found.found /\ name \in DOMAIN seen.store
  <2>1. at = [io |-> Now, ok |-> TRUE]
    BY <1>2, <1>4 DEF MadeFile
  <2>2. at.io = Now /\ at.ok = TRUE
    BY <2>1
  <2>3. Finish(Now, call, TRUE)
    BY <2>2
  <2>4. Stays(call, TRUE)
    BY <2>3, NothingDone
  <2> QED
    BY <1>4, <2>4 DEF Stays, FS!MakeFile, FS!Answers
<1>5. CASE found = NotFound /\ name \notin DOMAIN seen.store
  <2>1. PICK r : r = dir_create_in(Now, root_start, EmptyFile(name))
    OBVIOUS
  <2>2. at.io = r.io /\ at.ok = r.place.found
    <3>1. at = NewFileIn(Now, root_start, name)
      BY <1>2, <1>5 DEF MadeFile, NotFound
    <3>2. PICK now : now = Now
      OBVIOUS
    <3>3. /\ NewFileIn(now, root_start, name).io = dir_create_in(now, root_start, EmptyFile(name)).io
          /\ NewFileIn(now, root_start, name).ok = dir_create_in(now, root_start, EmptyFile(name)).place.found
      BY NewFileInIs, MadeIsFound
    <3> QED
      BY <2>1, <3>1, <3>2, <3>3
  <2>3. \/ r = [io |-> Now, place |-> NotFound]
        \/ \E M, s, k : NewIn(Now, open_files, L, name, r.io, M, s, k) /\ HasPlace(r, s, k, EmptyFile(name))
    <3>1. PICK now, of : now = Now /\ of = open_files
      OBVIOUS
    <3>2. ~found.found
      BY <1>5 DEF NotFound
    <3>3. Faithful(now, of, L) /\ Minds("mix") /\ ~dir_find_in(now, root_start, name).found
      BY <1>1, <1>2, <3>1, <3>2 DEF Plain
    <3>4. \/ dir_create_in(now, root_start, EmptyFile(name)) = [io |-> now, place |-> NotFound]
          \/ \E M, s, k :
               /\ NewIn(now, of, L, name, dir_create_in(now, root_start, EmptyFile(name)).io, M, s, k)
               /\ HasPlace(dir_create_in(now, root_start, EmptyFile(name)), s, k, EmptyFile(name))
      BY <3>3, MakesNew
    <3> QED
      BY <2>1, <3>1, <3>4
  <2>4. CASE r = [io |-> Now, place |-> NotFound]
    <3>1. at.io = Now /\ at.ok = FALSE
      BY <2>2, <2>4 DEF NotFound
    <3>2. Finish(Now, call, FALSE)
      BY <3>1
    <3>3. Stays(call, FALSE)
      BY <3>2, NothingDone
    <3> QED
      BY <1>5, <3>3 DEF Stays, FS!MakeFile, FS!Answers
  <2>5. CASE \E M, s, k : NewIn(Now, open_files, L, name, r.io, M, s, k) /\ HasPlace(r, s, k, EmptyFile(name))
    <3>1. PICK M, s, k : NewIn(Now, open_files, L, name, r.io, M, s, k) /\ HasPlace(r, s, k, EmptyFile(name))
      BY <2>5
    <3>2. PICK io : io = r.io
      OBVIOUS
    <3>3. Finish(io, call, TRUE) /\ NewIn(Now, open_files, L, name, io, M, s, k)
      BY <2>2, <3>1, <3>2 DEF HasPlace
    <3>4. /\ Stored' /\ answer' = [call |-> call, result |-> TRUE]
          /\ seen'.store = StoreWith(seen.store, name, <<>>) /\ seen'.handles = seen.handles
      BY <1>1, <3>3, Adds
    <3> QED
      BY <1>5, <3>4 DEF StoreWith, FS!MakeFile, FS!Answers, FS!With
  <2> QED
    BY <2>3, <2>4, <2>5
<1> QED
  BY <1>3, <1>4, <1>5

(* CREATE is MakeFile.                                                     *)
LEMMA CreateIs ==
  ASSUME Plain, Stored, Shown, Shown', seen' = Seen', NEW name \in Names, Create(name)
  PROVE  Stored' /\ FS!MakeFile(name)
<1>1. PICK at : at = MadeFile(name) /\ Finish(at.io, "CREATE", at.ok) /\ open_files' = open_files
  BY DEF Create, Done, MadeFile
<1>2. PICK call \in {"CREATE", "touch"} : call = "CREATE"
  OBVIOUS
<1>3. Finish(at.io, call, at.ok)
  BY <1>1, <1>2
<1> QED
  BY <1>1, <1>3, MakeIs

(* So is touch.                                                            *)
LEMMA TouchIs ==
  ASSUME Plain, Stored, Shown, Shown', seen' = Seen', NEW path \in Paths, Touch(path)
  PROVE  Stored' /\ \E name \in Names : FS!MakeFile(name)
<1>1. PICK name \in Names : path = <<name>>
  BY DEF Plain
<1>2. PICK L : Faithful(Now, open_files, L)
  BY DEF Stored
<1>3. /\ resolve_parent(Now, path) = root_start /\ Last(path) = name
      /\ resolve_path(Now, path) = dir_find_in(Now, root_start, name)
  <2>1. PICK now, of : now = Now /\ of = open_files
    OBVIOUS
  <2>2. Sane(now, of, L)
    BY <1>2, <2>1 DEF Faithful
  <2>3. /\ resolve_parent(now, <<name>>) = root_start /\ Last(<<name>>) = name
        /\ resolve_path(now, <<name>>) = dir_find_in(now, root_start, name)
    BY <2>2, RootPaths
  <2> QED
    BY <1>1, <2>1, <2>3
<1>4. PICK at : at = touch(Now, path) /\ Finish(at.io, "touch", at.ok) /\ open_files' = open_files
  BY DEF Touch, Done
<1>5. at = MadeFile(name)
  <2>1. root_start # NO_SECTOR
    BY SectorsAre DEF EndsChain
  <2> QED
    BY <1>3, <1>4, <2>1 DEF touch, MadeFile
<1>6. PICK call \in {"CREATE", "touch"} : call = "touch"
  OBVIOUS
<1>7. Finish(at.io, call, at.ok)
  BY <1>4, <1>6
<1>8. Stored' /\ FS!MakeFile(name)
  BY <1>4, <1>5, <1>7, MakeIs
<1> QED
  BY <1>8

(* An entry that there is is deleted.                                      *)
LEMMA DeletesEntry ==
  ASSUME NEW io, NEW s \in Sectors, NEW k, IsEntry(io.disk.sector[s][k])
  PROVE  dir_delete_at(io, s, k).ok = TRUE
<1>1. PICK entry : entry = read_dirent_at(io, s, k)
  OBVIOUS
<1>2. entry.kind = "dirent"
  BY <1>1 DEF read_dirent_at, IsEntry
<1>3. PICK freed : freed = IF entry.first_sector = NO_SECTOR THEN io ELSE fat_free(io, entry.first_sector)
  OBVIOUS
<1>4. dir_delete_at(io, s, k) = [io |-> write_dirent_at(freed, s, k, Zero), ok |-> TRUE]
  BY <1>1, <1>2, <1>3 DEF dir_delete_at
<1> QED
  BY <1>4

(* Whatever is deleted in the place of nothing is nothing.                 *)
LEMMA DeletesNothing ==
  ASSUME NEW io
  PROVE  dir_delete_at(io, NotFound.sector, NotFound.slot) = [io |-> io, ok |-> FALSE]
<1>1. PICK s, k : s = NotFound.sector /\ k = NotFound.slot
  OBVIOUS
<1>2. s \notin Sectors
  BY <1>1, SectorsAre DEF NotFound, EndsChain
<1>3. ~IsEntry(read_dirent_at(io, s, k))
  BY <1>2 DEF read_dirent_at, IsEntry, Zero
<1>4. dir_delete_at(io, s, k) = [io |-> io, ok |-> FALSE]
  BY <1>3, NothingRemoved
<1> QED
  BY <1>1, <1>4

(* A call that removes a file, if it is there.                             *)
RemovedFile(place) ==
    IF place.found THEN dir_delete_at(Now, place.sector, place.slot) ELSE [io |-> Now, ok |-> FALSE]

(* It is RemoveFile.                                                       *)
LEMMA RemoveIs ==
  ASSUME Plain, Stored, Shown, Shown', seen' = Seen', NEW name \in Names, NEW call \in {"DESTROY", "rm"},
         NEW place, place = dir_find_in(Now, root_start, name), MayRemove(place),
         NEW at, at = RemovedFile(place), Finish(at.io, call, at.ok), open_files' = open_files
  PROVE  Stored' /\ FS!RemoveFile(name)
<1>1. PICK L : Faithful(Now, open_files, L) /\ Represents(Now.disk.sector, open_files, L, seen)
  BY StandsFor
<1>2. PICK now, of, st : now = Now /\ of = open_files /\ st = seen
  OBVIOUS
<1>3. Faithful(now, of, L) /\ Represents(now.disk.sector, of, L, st) /\ place = dir_find_in(now, root_start, name)
  BY <1>1, <1>2
<1>4. \/ place = NotFound /\ name \notin DOMAIN st.store
      \/ \E s \in Sectors, k \in CellIndex : /\ place = Place(s, k, now.disk.sector[s][k])
                                             /\ Named(now.disk.sector, s, k, name) /\ name \in DOMAIN st.store
  <2>1. \/ dir_find_in(now, root_start, name) = NotFound /\ name \notin DOMAIN st.store
        \/ \E s \in Sectors, k \in CellIndex :
              /\ dir_find_in(now, root_start, name) = Place(s, k, now.disk.sector[s][k])
              /\ Named(now.disk.sector, s, k, name) /\ name \in DOMAIN st.store
    BY <1>3, LooksInStore
  <2> QED
    BY <1>3, <2>1
<1>5. ASSUME place = NotFound, name \notin DOMAIN st.store
      PROVE  Stored' /\ FS!RemoveFile(name)
  <2>1. at = [io |-> Now, ok |-> FALSE]
    BY <1>5 DEF RemovedFile, NotFound
  <2>2. at.io = Now /\ at.ok = FALSE
    BY <2>1
  <2>3. Finish(Now, call, FALSE)
    BY <2>2
  <2>4. Stays(call, FALSE)
    BY <2>3, NothingDone
  <2>5. PICK store : store = seen.store
    OBVIOUS
  <2>6. store = [n \in DOMAIN store |-> store[n]] /\ name \notin DOMAIN store
    BY <1>2, <1>3, <1>5, <2>5 DEF Represents, Stores
  <2>7. DOMAIN store \ {name} = DOMAIN store
    BY <2>6
  <2>8. store = [n \in DOMAIN store \ {name} |-> store[n]]
    BY <2>6, <2>7, Zenon
  <2>9. PICK new : new = seen'.store
    OBVIOUS
  <2>10. /\ Stored' /\ new = store /\ answer' = [call |-> call, result |-> FALSE]
         /\ seen'.handles = seen.handles
    BY <2>4, <2>5, <2>9 DEF Stays
  <2>11. new = [n \in DOMAIN store \ {name} |-> store[n]]
    BY <2>8, <2>10
  <2>12. PICK removed \in BOOLEAN : removed = FALSE
    OBVIOUS
  <2>13. answer' = [call |-> call, result |-> removed]
    BY <2>10, <2>12
  <2>14. (name \in DOMAIN store) = FALSE
    BY <2>6
  <2>15. removed = (name \in DOMAIN store)
    BY <2>12, <2>14
  <2> QED
    BY <2>5, <2>9, <2>10, <2>11, <2>13, <2>15 DEF FS!RemoveFile, FS!Answers
<1>6. ASSUME NEW s \in Sectors, NEW k \in CellIndex, place = Place(s, k, now.disk.sector[s][k]),
             Named(now.disk.sector, s, k, name), name \in DOMAIN st.store
      PROVE  Stored' /\ FS!RemoveFile(name)
  <2>1. place.found /\ place.sector = s /\ place.slot = k
    BY <1>6 DEF Place
  <2>2. IsFile(now.disk.sector[s][k]) /\ IsEntry(now.disk.sector[s][k]) /\ now.disk.sector[s][k].name = name
    BY <1>6 DEF Named, IsFile
  <2>3. at = dir_delete_at(now, s, k)
    BY <1>2, <2>1 DEF RemovedFile
  <2>4. \A g \in Slots : IsOpen(of, g) => At(of[g]) # <<s, k>>
    <3>1. \A g \in Slots : open_files[g].in_use =>
              ~(open_files[g].dir_sector = place.sector /\ open_files[g].dir_slot = place.slot)
      BY MayRemoveIs DEF Plain
    <3> QED
      BY <1>2, <2>1, <3>1 DEF IsOpen, At
  <2>5. <<s, k>> \notin Opened(of)
    BY <2>4 DEF Opened, IsOpen
  <2>6. PICK io, M, P, og, h : /\ io = at.io /\ M = Removed(L, <<s, k>>) /\ P = {<<s, k>>}
                               /\ og = open_files /\ h = -1
    OBVIOUS
  <2>7. at.ok = TRUE /\ GoneIn(now, of, L, io, M, s, k)
    <3>1. GoneIn(now, of, L, dir_delete_at(now, s, k).io, Removed(L, <<s, k>>), s, k)
      BY <1>3, <2>2, <2>5, RemovesOne DEF Plain
    <3>2. dir_delete_at(now, s, k).ok = TRUE
      BY <2>2, DeletesEntry
    <3> QED
      BY <2>3, <2>6, <3>1, <3>2
  <2>8. /\ Faithful(io, og, M) /\ ~IsFile(io.disk.sector[s][k])
        /\ Keeps(Now.disk.sector, open_files, L, io.disk.sector, og, M, P)
    BY <1>2, <2>6, <2>7 DEF GoneIn
  <2>9. Finish(io, call, TRUE) /\ open_files' = og
    BY <2>6, <2>7
  <2>10. Arrived(io, og, M, call, TRUE)
    BY <2>8, <2>9, Arrives
  <2>11. /\ Takes(open_files, og, h) /\ h \notin Slots
         /\ \A g \in Slots : g # h /\ IsOpen(open_files, g) => At(open_files[g]) \notin P
    BY <1>2, <2>4, <2>6 DEF Takes, Slots
  <2>12. Bridged(Now, open_files, L, seen, io, og, M, seen', h, P)
    BY <1>1, <2>8, <2>10, <2>11, Crosses
  <2>13. PICK sec, store, to, new : /\ sec = now.disk.sector /\ store = seen.store
                                    /\ to = io.disk.sector /\ new = seen'.store
    OBVIOUS
  <2>14. Leads(sec, of, L, store, to, og, M, new, {<<s, k>>})
    BY <1>2, <2>6, <2>12, <2>13 DEF Bridged
  <2>15. IsFile(sec[s][k]) /\ ~IsFile(to[s][k]) /\ sec[s][k].name = name
    BY <2>2, <2>8, <2>13
  <2>16. new = [n \in DOMAIN store \ {sec[s][k].name} |-> store[n]]
    BY <2>14, <2>15, StoreLoses
  <2>17. new = [n \in DOMAIN store \ {name} |-> store[n]] /\ name \in DOMAIN store
    BY <1>2, <1>6, <2>13, <2>15, <2>16
  <2>18. seen'.handles = seen.handles /\ Stored' /\ answer' = [call |-> call, result |-> TRUE]
    BY <2>10, <2>11, <2>12 DEF Arrived, Bridged
  <2> QED
    BY <2>13, <2>17, <2>18 DEF FS!RemoveFile, FS!Answers
<1> QED
  BY <1>4, <1>5, <1>6

(* rm is RemoveFile.                                                       *)
LEMMA RmIs ==
  ASSUME Plain, Stored, Shown, Shown', seen' = Seen', NEW path \in Paths, Rm(path)
  PROVE  Stored' /\ \E name \in Names : FS!RemoveFile(name)
<1>1. PICK name \in Names : path = <<name>>
  BY DEF Plain
<1>2. PICK L : Faithful(Now, open_files, L) /\ Represents(Now.disk.sector, open_files, L, seen)
  BY StandsFor
<1>3. PICK place : /\ place = resolve_path(Now, path) /\ MayRemove(place)
                   /\ Done(dir_delete_at(Now, place.sector, place.slot), "rm")
  BY DEF Rm
<1>4. PICK at : /\ at = dir_delete_at(Now, place.sector, place.slot)
                /\ Finish(at.io, "rm", at.ok) /\ open_files' = open_files
  BY <1>3 DEF Done
<1>5. place = dir_find_in(Now, root_start, name) /\ (place = NotFound \/ place.found)
  <2>1. PICK now, of, st : now = Now /\ of = open_files /\ st = seen
    OBVIOUS
  <2>2. Faithful(now, of, L) /\ Sane(now, of, L) /\ Represents(now.disk.sector, of, L, st)
    BY <1>2, <2>1 DEF Faithful
  <2>3. resolve_path(now, <<name>>) = dir_find_in(now, root_start, name)
    BY <2>2, RootPaths
  <2>4. \/ dir_find_in(now, root_start, name) = NotFound /\ name \notin DOMAIN st.store
        \/ \E s \in Sectors, k \in CellIndex :
              /\ dir_find_in(now, root_start, name) = Place(s, k, now.disk.sector[s][k])
              /\ Named(now.disk.sector, s, k, name) /\ name \in DOMAIN st.store
    BY <2>2, LooksInStore
  <2>5. place = dir_find_in(now, root_start, name)
    BY <1>1, <1>3, <2>1, <2>3
  <2>6. place = NotFound \/ \E s \in Sectors, k \in CellIndex : place = Place(s, k, now.disk.sector[s][k])
    BY <2>4, <2>5
  <2>7. place = NotFound \/ place.found
    BY <2>6 DEF Place
  <2> QED
    BY <2>1, <2>5, <2>7
<1>6. at = RemovedFile(place)
  <2>1. CASE place = NotFound
    <3>1. PICK now : now = Now
      OBVIOUS
    <3>2. dir_delete_at(now, NotFound.sector, NotFound.slot) = [io |-> now, ok |-> FALSE]
      BY DeletesNothing
    <3>3. ~place.found
      BY <2>1 DEF NotFound
    <3> QED
      BY <1>4, <2>1, <3>1, <3>2, <3>3 DEF RemovedFile
  <2>2. CASE place.found
    BY <1>4, <2>2 DEF RemovedFile
  <2> QED
    BY <1>5, <2>1, <2>2
<1>7. PICK call \in {"DESTROY", "rm"} : call = "rm"
  OBVIOUS
<1>8. Finish(at.io, call, at.ok)
  BY <1>4, <1>7
<1>9. Stored' /\ FS!RemoveFile(name)
  BY <1>3, <1>4, <1>5, <1>6, <1>8, RemoveIs
<1> QED
  BY <1>9

(* So is DESTROY, in a root directory of one sector.                       *)
LEMMA DestroyIs ==
  ASSUME Plain, Stored, Shown, Shown', seen' = Seen', NEW name \in Names, Destroy(name)
  PROVE  Stored' /\ FS!RemoveFile(name)
<1>1. PICK L : Faithful(Now, open_files, L) /\ Represents(Now.disk.sector, open_files, L, seen)
  BY StandsFor
<1>2. PICK place : /\ place = dir_find_in(Now, root_start, name) /\ MayRemove(place)
                   /\ Minds("destroy beyond") => place.sector \in {root_start, NO_SECTOR}
                   /\ Done(IF place.found THEN dir_delete_at(Now, root_start, place.slot)
                           ELSE [io |-> Now, ok |-> FALSE], "DESTROY")
  BY DEF Destroy
<1>3. PICK at : /\ at = IF place.found THEN dir_delete_at(Now, root_start, place.slot)
                        ELSE [io |-> Now, ok |-> FALSE]
                /\ Finish(at.io, "DESTROY", at.ok) /\ open_files' = open_files
  BY <1>2 DEF Done
<1>4. place.found => place.sector = root_start
  <2>1. PICK now, of, st : now = Now /\ of = open_files /\ st = seen
    OBVIOUS
  <2>2. Faithful(now, of, L) /\ Represents(now.disk.sector, of, L, st)
    BY <1>1, <2>1
  <2>3. \/ dir_find_in(now, root_start, name) = NotFound /\ name \notin DOMAIN st.store
        \/ \E s \in Sectors, k \in CellIndex :
              /\ dir_find_in(now, root_start, name) = Place(s, k, now.disk.sector[s][k])
              /\ Named(now.disk.sector, s, k, name) /\ name \in DOMAIN st.store
    BY <2>2, LooksInStore
  <2>4. place.found => place.sector \in Sectors
    <3>1. place = dir_find_in(now, root_start, name)
      BY <1>2, <2>1
    <3>2. place = NotFound \/ \E s \in Sectors, k \in CellIndex : place = Place(s, k, now.disk.sector[s][k])
      BY <2>3, <3>1
    <3> QED
      BY <3>2 DEF NotFound, Place
  <2>5. place.sector \in {root_start, NO_SECTOR}
    BY <1>2 DEF Plain, Mindful, Minds
  <2>6. NO_SECTOR \notin Sectors
    BY SectorsAre DEF EndsChain
  <2> QED
    BY <2>4, <2>5, <2>6
<1>5. at = RemovedFile(place)
  BY <1>3, <1>4 DEF RemovedFile
<1>6. PICK call \in {"DESTROY", "rm"} : call = "DESTROY"
  OBVIOUS
<1>7. Finish(at.io, call, at.ok)
  BY <1>3, <1>6
<1> QED
  BY <1>2, <1>3, <1>5, <1>7, RemoveIs

(* The slot g is taken for the file at cell k of sector s.                 *)
TakenFor(io, og, M, L, P, g, mode, s, k) ==
    /\ Arrived(io, og, M, "open", g) /\ Bridged(Now, open_files, L, seen, io, og, M, seen', g, P)
    /\ OpenIn(io, open_files, M, og, g, mode, s, k) /\ g \in Slots /\ ~seen.handles[g].open

(* It is, for a file that was there before or has just been made.          *)
LEMMA TakesFor ==
  ASSUME Plain, Shown', seen' = Seen',
         NEW L, Faithful(Now, open_files, L), Represents(Now.disk.sector, open_files, L, seen),
         NEW io, NEW M, Faithful(io, open_files, M),
         NEW P, Keeps(Now.disk.sector, open_files, L, io.disk.sector, open_files, M, P),
         \A h \in Slots : IsOpen(open_files, h) => At(open_files[h]) \notin P,
         NEW s \in Sectors, NEW k \in CellIndex, IsFile(io.disk.sector[s][k]),
         NEW at, HasPlace(at, s, k, io.disk.sector[s][k]), NEW mode \in Modes, MayOpen(at.place, mode),
         NEW g \in Free, Finish(io, "open", g),
         NEW og, og = [open_files EXCEPT ![g] = NewFile(io, at.place, mode)], open_files' = og
  PROVE  TakenFor(io, og, M, L, P, g, mode, s, k)
<1>1. g \in Slots /\ ~open_files[g].in_use
  BY DEF Free
<1>2. \A h \in Slots : IsOpen(open_files, h) /\ At(open_files[h]) = <<s, k>> =>
         mode = MODE_READ /\ open_files[h].mode = MODE_READ
  <2>1. Minds("share")
    BY DEF Plain, Mindful, Minds
  <2>2. \A h \in OpenAt(at.place) : mode = MODE_READ /\ open_files[h].mode = MODE_READ
    BY <2>1 DEF MayOpen
  <2>3. \A h \in Slots : IsOpen(open_files, h) /\ At(open_files[h]) = <<s, k>> => h \in OpenAt(at.place)
    BY DEF HasPlace, IsOpen, At, OpenAt, Open
  <2> QED
    BY <2>2, <2>3
<1>3. OpenIn(io, open_files, M, og, g, mode, s, k)
  <2>1. PICK of : of = open_files
    OBVIOUS
  <2>2. /\ Faithful(io, of, M) /\ ~of[g].in_use /\ Minds("mix")
        /\ \A h \in Slots : IsOpen(of, h) /\ At(of[h]) = <<s, k>> => mode = MODE_READ /\ of[h].mode = MODE_READ
    BY <1>1, <1>2, <2>1 DEF Plain
  <2>3. OpenIn(io, of, M, [of EXCEPT ![g] = NewFile(io, at.place, mode)], g, mode, s, k)
    BY <1>1, <2>2, Opens
  <2> QED
    BY <2>1, <2>3
<1>4. /\ Faithful(io, og, M) /\ Takes(open_files, og, g)
      /\ Keeps(io.disk.sector, open_files, M, io.disk.sector, og, M, {})
  BY <1>3 DEF OpenIn
<1>5. Keeps(Now.disk.sector, open_files, L, io.disk.sector, og, M, P)
  <2>1. PICK sec, of, mid : sec = Now.disk.sector /\ of = open_files /\ mid = io.disk.sector
    OBVIOUS
  <2>2. Keeps(sec, of, L, mid, of, M, P) /\ Keeps(mid, of, M, mid, og, M, {})
    BY <1>4, <2>1
  <2>3. Keeps(sec, of, L, mid, og, M, P)
    BY <2>2, KeepsOn
  <2> QED
    BY <2>1, <2>3
<1>6. Arrived(io, og, M, "open", g)
  BY <1>4, Arrives
<1>7. Bridged(Now, open_files, L, seen, io, og, M, seen', g, P)
  BY <1>4, <1>5, <1>6, Crosses
<1>8. ~seen.handles[g].open
  <2>1. seen.handles[g] = HandleIs(Now.disk.sector, open_files[g])
    BY <1>1, <1>7 DEF Bridged
  <2> QED
    BY <1>1, <2>1 DEF HandleIs
<1> QED
  BY <1>1, <1>3, <1>6, <1>7, <1>8 DEF TakenFor

(* The handle of a file that was opened.                                   *)
NewHandle(name, mode, size) ==
    [open |-> TRUE, name |-> name, mode |-> mode, position |-> IF mode = "append" THEN size ELSE 0]

LEMMA TakenHandle ==
  ASSUME NEW io, NEW og, NEW M, NEW L, NEW P, NEW g, NEW mode, NEW s, NEW k,
         TakenFor(io, og, M, L, P, g, mode, s, k), NEW name, name = io.disk.sector[s][k].name,
         NEW size, size = io.disk.sector[s][k].size
  PROVE  /\ seen'.handles = [seen.handles EXCEPT ![g] = NewHandle(name, mode, size)]
         /\ Stored' /\ answer' = [call |-> "open", result |-> g] /\ g \in Slots /\ ~seen.handles[g].open
<1>1. /\ seen'.handles = [seen.handles EXCEPT ![g] = HandleIs(io.disk.sector, og[g])]
      /\ Stored' /\ answer' = [call |-> "open", result |-> g] /\ g \in Slots /\ ~seen.handles[g].open
  BY DEF TakenFor, Bridged, Arrived
<1>2. HandleIs(io.disk.sector, og[g]) = NewHandle(name, mode, size)
  BY DEF TakenFor, OpenIn, NewHandle, MODE_APPEND
<1> QED
  BY <1>1, <1>2

(* A store with what it has.                                               *)
LEMMA StoreSame ==
  ASSUME NEW store, store = [n \in DOMAIN store |-> store[n]], NEW n \in DOMAIN store
  PROVE  StoreWith(store, n, store[n]) = store
<1>1. DOMAIN store \cup {n} = DOMAIN store
  OBVIOUS
<1>2. StoreWith(store, n, store[n]) = [m \in DOMAIN store |-> store[m]]
  BY <1>1 DEF StoreWith
<1> QED
  BY <1>2, Zenon

(* What file_open finds in the root directory, or makes there.             *)
FoundOrMade(name, mode) ==
    IF dir_find_in(Now, root_start, name).found \/ mode = MODE_READ
    THEN [io |-> Now, place |-> dir_find_in(Now, root_start, name)]
    ELSE dir_create_in(Now, root_start, EmptyFile(name))

LEMMA FindsOrMakes ==
  ASSUME NEW L, Faithful(Now, open_files, L), NEW name \in Names, NEW mode
  PROVE  FindOrCreate(Now, <<name>>, mode) = FoundOrMade(name, mode)
<1>1. PICK path : path = <<name>>
  OBVIOUS
<1>2. resolve_parent(Now, path) = root_start /\ Last(path) = name
  <2>1. PICK now, of : now = Now /\ of = open_files
    OBVIOUS
  <2>2. Sane(now, of, L)
    BY <2>1 DEF Faithful
  <2>3. resolve_parent(now, <<name>>) = root_start /\ Last(<<name>>) = name
    BY <2>2, RootPaths
  <2> QED
    BY <1>1, <2>1, <2>3
<1>3. root_start # NO_SECTOR
  BY SectorsAre DEF EndsChain
<1>4. FindOrCreate(Now, path, mode) = FoundOrMade(name, mode)
  BY <1>2, <1>3 DEF FindOrCreate, FoundOrMade, EmptyFile
<1> QED
  BY <1>1, <1>4

(* A file that was there is opened.                                        *)
LEMMA FoundOpens ==
  ASSUME Plain, Stored, Shown, Shown', seen' = Seen',
         NEW L, Faithful(Now, open_files, L), Represents(Now.disk.sector, open_files, L, seen),
         NEW name \in Names, NEW s \in Sectors, NEW k \in CellIndex, Named(Now.disk.sector, s, k, name),
         NEW at, at.io = Now, HasPlace(at, s, k, Now.disk.sector[s][k]), NEW mode \in Modes, MayOpen(at.place, mode),
         NEW g \in Free, Finish(at.io, "open", g),
         open_files' = [open_files EXCEPT ![g] = NewFile(at.io, at.place, mode)]
  PROVE  Stored' /\ FS!OpenFile(g, name, mode)
<1>1. PICK io, og, P : /\ io = Now /\ P = {} /\ og = [open_files EXCEPT ![g] = NewFile(io, at.place, mode)]
  OBVIOUS
<1>2. Keeps(Now.disk.sector, open_files, L, io.disk.sector, open_files, L, P)
  <2>1. PICK sec, of : sec = Now.disk.sector /\ of = open_files
    OBVIOUS
  <2>2. Keeps(sec, of, L, sec, of, L, {})
    BY KeepsSelf
  <2> QED
    BY <1>1, <2>1, <2>2
<1>3. /\ Faithful(io, open_files, L) /\ IsFile(io.disk.sector[s][k]) /\ io.disk.sector[s][k].name = name
      /\ HasPlace(at, s, k, io.disk.sector[s][k]) /\ Finish(io, "open", g) /\ open_files' = og
      /\ \A h \in Slots : IsOpen(open_files, h) => At(open_files[h]) \notin P
  BY <1>1 DEF Named
<1>4. TakenFor(io, og, L, L, P, g, mode, s, k)
  BY <1>1, <1>2, <1>3, TakesFor
<1>5. PICK size : size = io.disk.sector[s][k].size
  OBVIOUS
<1>6. /\ seen'.handles = [seen.handles EXCEPT ![g] = NewHandle(name, mode, size)]
      /\ Stored' /\ answer' = [call |-> "open", result |-> g] /\ g \in Slots /\ ~seen.handles[g].open
  BY <1>3, <1>4, <1>5, TakenHandle
<1>7. seen'.store = seen.store
  BY <1>1, <1>4 DEF TakenFor, Bridged
<1>8. PICK sec, of, store : sec = Now.disk.sector /\ of = open_files /\ store = seen.store
  OBVIOUS
<1>9. Stores(sec, of, L, store) /\ store = [n \in DOMAIN store |-> store[n]]
  BY <1>8 DEF Represents, Stores
<1>10. name \in DOMAIN store /\ Holds(sec, of, L, <<s, k>>, store[name])
  <2>1. NamesDiffer(sec) /\ IsFile(sec[s][k]) /\ sec[s][k].name = name
    <3>1. PICK now : now = Now
      OBVIOUS
    <3>2. Faithful(now, of, L)
      BY <1>8, <3>1
    <3>3. NamesDiffer(now.disk.sector)
      BY <3>2, FaithfulNames
    <3> QED
      BY <1>1, <1>3, <1>8, <3>1, <3>3
  <2>2. sec[s][k].name \in DOMAIN store /\ Holds(sec, of, L, <<s, k>>, store[sec[s][k].name])
    BY <1>9, <2>1, StoreNames
  <2> QED
    BY <2>1, <2>2
<1>11. Len(store[name]) = size
  BY <1>1, <1>4, <1>5, <1>8, <1>10 DEF TakenFor, OpenIn
<1>12. StoreWith(store, name, store[name]) = store
  BY <1>9, <1>10, StoreSame
<1>13. PICK new, b : new = seen'.store /\ b = store[name]
  OBVIOUS
<1>14. new = StoreWith(store, name, b) /\ name \in DOMAIN store /\ size = Len(b)
  BY <1>7, <1>8, <1>10, <1>11, <1>12, <1>13
<1> QED
  BY <1>6, <1>8, <1>13, <1>14 DEF FS!OpenFile, FS!Answers, FS!With, NewHandle, StoreWith

(* So is a file that was not, if there is room for it.                     *)
LEMMA MadeOpens ==
  ASSUME Plain, Stored, Shown, Shown', seen' = Seen',
         NEW L, Faithful(Now, open_files, L), Represents(Now.disk.sector, open_files, L, seen),
         NEW name \in Names, name \notin DOMAIN seen.store,
         NEW at, NEW M, NEW s, NEW k, NewIn(Now, open_files, L, name, at.io, M, s, k),
         HasPlace(at, s, k, EmptyFile(name)), NEW mode \in Modes, mode # MODE_READ, MayOpen(at.place, mode),
         NEW g \in Free, Finish(at.io, "open", g),
         open_files' = [open_files EXCEPT ![g] = NewFile(at.io, at.place, mode)]
  PROVE  Stored' /\ FS!OpenFile(g, name, mode)
<1>1. PICK io, og, P : /\ io = at.io /\ P = {<<s, k>>} /\ og = [open_files EXCEPT ![g] = NewFile(io, at.place, mode)]
  OBVIOUS
<1>2. /\ Faithful(io, open_files, M) /\ s \in Sectors /\ k \in CellIndex
      /\ io.disk.sector[s][k] = EmptyFile(name) /\ ~IsFile(Now.disk.sector[s][k])
      /\ \A h \in Slots : IsOpen(open_files, h) => At(open_files[h]) \notin P
      /\ Keeps(Now.disk.sector, open_files, L, io.disk.sector, open_files, M, P)
      /\ Holds(io.disk.sector, open_files, M, <<s, k>>, <<>>)
  BY <1>1 DEF NewIn
<1>3. IsFile(io.disk.sector[s][k]) /\ io.disk.sector[s][k].name = name /\ io.disk.sector[s][k].size = 0
  BY <1>2 DEF EmptyFile, IsFile, IsEntry, Dirent
<1>4. HasPlace(at, s, k, io.disk.sector[s][k]) /\ Finish(io, "open", g) /\ open_files' = og
  BY <1>1, <1>2
<1>5. TakenFor(io, og, M, L, P, g, mode, s, k)
  BY <1>1, <1>2, <1>3, <1>4, TakesFor
<1>6. PICK size : size = io.disk.sector[s][k].size
  OBVIOUS
<1>7. /\ seen'.handles = [seen.handles EXCEPT ![g] = NewHandle(name, mode, size)]
      /\ Stored' /\ answer' = [call |-> "open", result |-> g] /\ g \in Slots /\ ~seen.handles[g].open
  BY <1>3, <1>5, <1>6, TakenHandle
<1>8. PICK sec, of, store, to, new, b : /\ sec = Now.disk.sector /\ of = open_files /\ store = seen.store
                                        /\ to = io.disk.sector /\ new = seen'.store /\ b = <<>>
  OBVIOUS
<1>9. Leads(sec, of, L, store, to, og, M, new, {<<s, k>>})
  BY <1>1, <1>5, <1>8 DEF TakenFor, Bridged
<1>10. Holds(to, og, M, <<s, k>>, b)
  <2>1. Keeps(to, of, M, to, og, M, {})
    BY <1>5, <1>8 DEF TakenFor, OpenIn
  <2>2. Carries(to, of, M, to, og, M, <<s, k>>)
    BY <1>2, <1>3, <1>8, <2>1 DEF Keeps
  <2>3. Holds(to, of, M, <<s, k>>, b)
    BY <1>2, <1>8
  <2> QED
    BY <2>2, <2>3 DEF Carries
<1>11. s \in Sectors /\ k \in CellIndex /\ IsFile(to[s][k]) /\ to[s][k].name = name /\ ~IsFile(sec[s][k])
  BY <1>2, <1>3, <1>8
<1>12. new = StoreWith(store, name, b)
  BY <1>9, <1>10, <1>11, StoreWrites
<1>13. name \notin DOMAIN store /\ size = Len(b) /\ b = <<>>
  BY <1>3, <1>6, <1>8
<1>14. mode # "read"
  BY DEF MODE_READ
<1> QED
  BY <1>7, <1>8, <1>12, <1>13, <1>14 DEF FS!OpenFile, FS!Answers, FS!With, NewHandle, StoreWith

(* A failing call to open says so and changes nothing.                     *)
LEMMA FailsToOpen ==
  ASSUME Plain, Stored, Shown, Shown', seen' = Seen', Finish(Now, "open", -1), open_files' = open_files
  PROVE  Stored' /\ FS!OpenFails
<1>1. Stays("open", -1)
  BY NothingDone
<1> QED
  BY <1>1 DEF Stays, FS!OpenFails, FS!Answers

(* file_open is OpenFile, or fails.                                        *)
LEMMA OpenIs ==
  ASSUME Plain, Stored, Shown, Shown', seen' = Seen', NEW path \in Paths, NEW mode \in Modes, FileOpen(path, mode)
  PROVE  Stored' /\ (FS!OpenFails \/ \E h \in Slots, name \in Names : FS!OpenFile(h, name, mode))
<1>1. PICK name \in Names : path = <<name>>
  BY DEF Plain
<1>2. PICK L : Faithful(Now, open_files, L) /\ Represents(Now.disk.sector, open_files, L, seen)
  BY StandsFor
<1>3. PICK at : /\ at = FindOrCreate(Now, path, mode)
                /\ MayOpen(at.place, mode)
                /\ IF Free # {} /\ at.place.found
                   THEN /\ open_files' = [open_files EXCEPT ![Min(Free)] = NewFile(at.io, at.place, mode)]
                        /\ Finish(at.io, "open", Min(Free))
                   ELSE /\ Finish(IF Free = {} THEN Now ELSE at.io, "open", -1)
                        /\ UNCHANGED open_files
  BY DEF FileOpen
<1>4. at = FoundOrMade(name, mode)
  BY <1>1, <1>2, <1>3, FindsOrMakes
<1>5. ASSUME Free # {} /\ at.place.found
      PROVE  \E g \in Free : /\ open_files' = [open_files EXCEPT ![g] = NewFile(at.io, at.place, mode)]
                             /\ Finish(at.io, "open", g)
  <2>1. Free \subseteq Nat
    BY QfsAssumption DEF Free, Slots
  <2>2. Min(Free) \in Free
    BY <1>5, <2>1, MinIsIn
  <2> QED
    BY <1>3, <1>5, <2>2
<1>6. ASSUME ~(Free # {} /\ at.place.found), Free = {} \/ at.io = Now
      PROVE  Stored' /\ FS!OpenFails
  <2>1. Finish(Now, "open", -1) /\ open_files' = open_files
    BY <1>3, <1>6
  <2> QED
    BY <2>1, FailsToOpen
<1>7. PICK found : found = dir_find_in(Now, root_start, name)
  OBVIOUS
<1>8. \/ found = NotFound /\ name \notin DOMAIN seen.store
      \/ \E s \in Sectors, k \in CellIndex :
            /\ found = Place(s, k, Now.disk.sector[s][k])
            /\ Named(Now.disk.sector, s, k, name) /\ name \in DOMAIN seen.store
  <2>1. PICK now, of, st : now = Now /\ of = open_files /\ st = seen
    OBVIOUS
  <2>2. Faithful(now, of, L) /\ Represents(now.disk.sector, of, L, st) /\ found = dir_find_in(now, root_start, name)
    BY <1>2, <1>7, <2>1
  <2>3. \/ dir_find_in(now, root_start, name) = NotFound /\ name \notin DOMAIN st.store
        \/ \E s \in Sectors, k \in CellIndex :
              /\ dir_find_in(now, root_start, name) = Place(s, k, now.disk.sector[s][k])
              /\ Named(now.disk.sector, s, k, name) /\ name \in DOMAIN st.store
    BY <2>2, LooksInStore
  <2> QED
    BY <2>1, <2>2, <2>3
<1>9. ASSUME NEW s \in Sectors, NEW k \in CellIndex, found = Place(s, k, Now.disk.sector[s][k]),
             Named(Now.disk.sector, s, k, name)
      PROVE  Stored' /\ (FS!OpenFails \/ \E h \in Slots : FS!OpenFile(h, name, mode))
  <2>1. at = [io |-> Now, place |-> found]
    <3>1. found.found
      BY <1>9 DEF Place
    <3> QED
      BY <1>4, <1>7, <3>1 DEF FoundOrMade
  <2>2. at.io = Now /\ at.place = found
    BY <2>1
  <2>3. HasPlace(at, s, k, Now.disk.sector[s][k])
    BY <1>9, <2>2 DEF HasPlace, Place
  <2>4. CASE Free # {} /\ at.place.found
    <3>1. PICK g \in Free : /\ open_files' = [open_files EXCEPT ![g] = NewFile(at.io, at.place, mode)]
                            /\ Finish(at.io, "open", g)
      BY <1>5, <2>4
    <3>2. Stored' /\ FS!OpenFile(g, name, mode)
      BY <1>2, <1>3, <1>9, <2>2, <2>3, <3>1, FoundOpens
    <3> QED
      BY <3>2 DEF Free
  <2>5. CASE ~(Free # {} /\ at.place.found)
    BY <1>6, <2>2, <2>5
  <2> QED
    BY <2>4, <2>5
<1>10. ASSUME found = NotFound, name \notin DOMAIN seen.store
       PROVE  Stored' /\ (FS!OpenFails \/ \E h \in Slots : FS!OpenFile(h, name, mode))
  <2>1. ~found.found
    BY <1>10 DEF NotFound
  <2>2. CASE mode = MODE_READ
    <3>1. at = [io |-> Now, place |-> found]
      BY <1>4, <1>7, <2>2 DEF FoundOrMade
    <3>2. at.io = Now /\ ~at.place.found
      BY <2>1, <3>1
    <3> QED
      BY <1>6, <3>2
  <2>3. CASE mode # MODE_READ
    <3>1. at = dir_create_in(Now, root_start, EmptyFile(name))
      BY <1>4, <1>7, <2>1, <2>3 DEF FoundOrMade
    <3>2. \/ at = [io |-> Now, place |-> NotFound]
          \/ \E M, s, k : NewIn(Now, open_files, L, name, at.io, M, s, k) /\ HasPlace(at, s, k, EmptyFile(name))
      <4>1. PICK now, of : now = Now /\ of = open_files
        OBVIOUS
      <4>2. Faithful(now, of, L) /\ Minds("mix") /\ ~dir_find_in(now, root_start, name).found
        BY <1>2, <1>7, <2>1, <4>1 DEF Plain
      <4>3. \/ dir_create_in(now, root_start, EmptyFile(name)) = [io |-> now, place |-> NotFound]
            \/ \E M, s, k :
                 /\ NewIn(now, of, L, name, dir_create_in(now, root_start, EmptyFile(name)).io, M, s, k)
                 /\ HasPlace(dir_create_in(now, root_start, EmptyFile(name)), s, k, EmptyFile(name))
        BY <4>2, MakesNew
      <4> QED
        BY <3>1, <4>1, <4>3
    <3>3. CASE at = [io |-> Now, place |-> NotFound]
      <4>1. at.io = Now /\ ~at.place.found
        BY <3>3 DEF NotFound
      <4> QED
        BY <1>6, <4>1
    <3>4. ASSUME NEW M, NEW s, NEW k, NewIn(Now, open_files, L, name, at.io, M, s, k),
                 HasPlace(at, s, k, EmptyFile(name))
          PROVE  Stored' /\ (FS!OpenFails \/ \E h \in Slots : FS!OpenFile(h, name, mode))
      <4>1. CASE Free # {} /\ at.place.found
        <5>1. PICK g \in Free : /\ open_files' = [open_files EXCEPT ![g] = NewFile(at.io, at.place, mode)]
                                /\ Finish(at.io, "open", g)
          BY <1>5, <4>1
        <5>2. Stored' /\ FS!OpenFile(g, name, mode)
          BY <1>2, <1>3, <1>10, <2>3, <3>4, <5>1, MadeOpens
        <5> QED
          BY <5>2 DEF Free
      <4>2. CASE ~(Free # {} /\ at.place.found)
        <5>1. Free = {}
          BY <3>4, <4>2 DEF HasPlace
        <5> QED
          BY <1>6, <4>2, <5>1
      <4> QED
        BY <4>1, <4>2
    <3> QED
      BY <3>2, <3>3, <3>4
  <2> QED
    BY <2>2, <2>3
<1> QED
  BY <1>8, <1>9, <1>10

(* A state represents one store.                                           *)
LEMMA RepresentsOne ==
  ASSUME NEW sec, NEW of, NEW L, NEW one, NEW two, NamesDiffer(sec),
         Represents(sec, of, L, one), Represents(sec, of, L, two)
  PROVE  one.store = two.store /\ one.handles = two.handles
<1>1. PICK store, new : store = one.store /\ new = two.store
  OBVIOUS
<1>2. Stores(sec, of, L, store) /\ Stores(sec, of, L, new)
  BY <1>1 DEF Represents
<1>3. Keeps(sec, of, L, sec, of, L, {})
  BY KeepsSelf
<1>4. Leads(sec, of, L, store, sec, of, L, new, {})
  BY <1>2, <1>3 DEF Leads
<1>5. new = store
  BY <1>4, StoreStays
<1> QED
  BY <1>1, <1>5 DEF Represents

(* A new disk is an empty store.                                           *)
LEMMA StoreStarts ==
  ASSUME Plain, SInit, Shown
  PROVE  Stored /\ FS!FInit
<1>1. /\ Init /\ seen = Seen /\ writes = <<>> /\ disk = NewDisk
      /\ open_files = [h \in Slots |-> Closed] /\ answer = [call |-> "boot", result |-> 0]
  BY DEF SInit, Init
<1>2. PICK L : Sane(Now, open_files, L)
  BY <1>1, StartsConsistent DEF Consistent
<1>3. PICK sec : sec = Now.disk.sector
  OBVIOUS
<1>4. \A s \in Sectors, k \in CellIndex : ~IsEntry(sec[s][k])
  <2>1. sec = NewDisk.sector
    BY <1>1, <1>3, NowIs
  <2>2. \A s \in Sectors, k \in CellIndex : sec[s][k] = Zero
    <3>1. sec = [s \in Sectors |-> Blank]
      BY <2>1 DEF NewDisk
    <3>2. \A k \in CellIndex : Blank[k] = Zero
      BY DEF Blank, CellIndex
    <3> QED
      BY <3>1, <3>2
  <2> QED
    BY <2>2 DEF IsEntry, Zero
<1>5. Faithful(Now, open_files, L)
  <2>1. Flat(sec)
    BY <1>4 DEF Flat, IsDirectory
  <2>2. Cleans(open_files, sec)
    BY <1>1 DEF Cleans, IsOpen, Closed
  <2> QED
    BY <1>2, <1>3, <2>1, <2>2 DEF Faithful
<1>6. Represents(sec, open_files, L, seen)
  BY <1>1, <1>3, <1>5, NowIs DEF Shown, Plain
<1>7. PICK store, handles : store = seen.store /\ handles = seen.handles
  OBVIOUS
<1>8. store = [n \in {} |-> <<>>]
  <2>1. \A n \in DOMAIN store : FALSE
    BY <1>4, <1>6, <1>7 DEF Represents, Stores, Named, IsFile
  <2>2. DOMAIN store = {} /\ store = [n \in DOMAIN store |-> store[n]]
    BY <1>6, <1>7, <2>1 DEF Represents, Stores
  <2> QED
    BY <2>2
<1>9. handles = [h \in Slots |-> [open |-> FALSE]]
  <2>1. handles = [h \in Slots |-> HandleIs(sec, open_files[h])]
    BY <1>6, <1>7 DEF Represents
  <2>2. \A h \in Slots : HandleIs(sec, open_files[h]) = [open |-> FALSE]
    BY <1>1 DEF HandleIs, Closed
  <2> QED
    BY <2>1, <2>2
<1> QED
  BY <1>1, <1>5, <1>7, <1>8, <1>9 DEF Stored, FS!FInit, FS!Slots, FS!Shut, Slots

(* Each step of the driver is one of the store, or shows nothing.          *)
LEMMA StoreSteps ==
  ASSUME Plain, Stored, Shown, Shown', [SNext]_<<vars, seen>>
  PROVE  Stored' /\ [FS!FNext]_(FS!fsVars)
<1>1. CASE UNCHANGED <<vars, seen>>
  <2>1. /\ seen' = seen /\ answer' = answer /\ writes' = writes /\ Now' = Now /\ open_files' = open_files
        /\ disk' = disk
    BY <1>1 DEF vars, Now
  <2>2. PICK L : Faithful(Now, open_files, L)
    BY DEF Stored
  <2>3. Represents(disk.sector, open_files, L, Seen) /\ Represents(disk.sector, open_files, L, Seen')
    <3>1. Represents(disk.sector, open_files, L, Seen)
      BY <2>2 DEF Shown, Plain
    <3>2. Represents(disk'.sector, open_files', L, Seen')
      BY <2>1, <2>2 DEF Shown, Plain
    <3> QED
      BY <2>1, <3>1, <3>2
  <2>4. Seen = Seen'
    <3>1. PICK sec, of, one, two : sec = disk.sector /\ of = open_files /\ one = Seen /\ two = Seen'
      OBVIOUS
    <3>2. Represents(sec, of, L, one) /\ Represents(sec, of, L, two) /\ NamesDiffer(sec)
      <4>1. PICK now : now = Now
        OBVIOUS
      <4>2. NamesDiffer(now.disk.sector)
        BY <2>2, <4>1, FaithfulNames
      <4> QED
        BY <2>3, <3>1, <4>1, <4>2, NowIs
    <3>3. one.store = two.store /\ one.handles = two.handles
      BY <3>2, RepresentsOne
    <3>4. Seen = [store |-> Seen.store, handles |-> Seen.handles]
      BY DEF Seen
    <3>5. Seen' = [store |-> Seen'.store, handles |-> Seen'.handles]
      BY DEF Seen
    <3> QED
      BY <3>1, <3>3, <3>4, <3>5
  <2> QED
    BY <2>1, <2>2, <2>4 DEF Stored, FS!fsVars
<1>2. ASSUME Next, seen' = Seen'
      PROVE  Stored' /\ FS!FNext
  <2>1. ASSUME NEW path \in Paths, NEW mode \in Modes, FileOpen(path, mode) PROVE Stored' /\ FS!FNext
    <3>1. Stored' /\ (FS!OpenFails \/ \E h \in Slots, name \in Names : FS!OpenFile(h, name, mode))
      BY <1>2, <2>1, OpenIs
    <3>2. mode \in FS!Modes
      BY DEF Modes, MODE_READ, MODE_WRITE, MODE_APPEND, FS!Modes
    <3> QED
      BY <3>1, <3>2 DEF FS!FNext, FS!Slots, Slots
  <2>2. ASSUME NEW h \in Slots, FileClose(h) PROVE Stored' /\ FS!FNext
    BY <1>2, <2>2, CloseIs DEF FS!FNext, FS!Slots, Slots
  <2>3. ASSUME NEW h \in Slots, NEW count \in Counts, FileRead(h, count) PROVE Stored' /\ FS!FNext
    BY <1>2, <2>3, ReadIs DEF FS!FNext, FS!Slots, Slots
  <2>4. ASSUME NEW h \in Slots, NEW count \in Counts, NEW value \in Values, FileWrite(h, count, value)
        PROVE  Stored' /\ FS!FNext
    <3>1. Stored' /\ \E done \in 0 .. count : FS!WriteFile(h, done, ByteCell(value))
      BY <1>2, <2>4, WriteIs
    <3>2. ByteCell(value) \in Bytes
      BY DEF Bytes
    <3> QED
      BY <3>1, <3>2 DEF FS!FNext, FS!Slots, Slots
  <2>5. ASSUME NEW path \in DirPaths, Mkdir(path) PROVE FALSE
    BY <2>5 DEF Mkdir, Calling, Plain
  <2>6. ASSUME NEW path \in Paths, Touch(path) PROVE Stored' /\ FS!FNext
    BY <1>2, <2>6, TouchIs DEF FS!FNext
  <2>7. ASSUME NEW path \in Paths, Rm(path) PROVE Stored' /\ FS!FNext
    BY <1>2, <2>7, RmIs DEF FS!FNext
  <2>8. ASSUME NEW name \in Names, Create(name) PROVE Stored' /\ FS!FNext
    BY <1>2, <2>8, CreateIs DEF FS!FNext
  <2>9. ASSUME NEW name \in Names, Destroy(name) PROVE Stored' /\ FS!FNext
    BY <1>2, <2>9, DestroyIs DEF FS!FNext
  <2>10. ~WriteSector
    BY DEF WriteSector, Stored
  <2>11. ~Crash
    BY DEF Crash, Plain, Mindful
  <2> QED
    BY <1>2, <2>1, <2>2, <2>3, <2>4, <2>5, <2>6, <2>7, <2>8, <2>9, <2>10, <2>11 DEF Next
<1> QED
  BY <1>1, <1>2 DEF SNext

(* The driver implements the file store (file_open, file_read, file_write, *)
(* file_close, touch, rm and the calls CREATE and DESTROY), on a disk of   *)
(* any size, with any number of names and of open files: to programs that  *)
(* mind their habits and make no directories, chains, buffers and entries  *)
(* written late never show; a file is its bytes.                           *)
THEOREM FileStoreIsImplemented ==
  ASSUME Plain
  PROVE  SSpec => ImplementsFileStore
<1>1. Shown
  BY SeenIsShown
<1>2. Shown /\ SInit => Stored /\ FS!FInit
  BY StoreStarts
<1>3. Shown /\ Shown' /\ Stored /\ [SNext]_<<vars, seen>> => Stored' /\ [FS!FNext]_(FS!fsVars)
  BY StoreSteps
<1> QED
  BY <1>1, <1>2, <1>3, PTL DEF SSpec, ImplementsFileStore, FS!FSpec
=============================================================================

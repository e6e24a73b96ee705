---------------------------- MODULE HostToolProofs ---------------------------
(***************************************************************************)
(* That the host's disk tool loses no sector and gives none out twice, for *)
(* every size of disk, every set of files and whatever commands in         *)
(* whatever order.                                                         *)
(*                                                                         *)
(* The invariant is that of QfsDiskProofs, with the names in a directory   *)
(* left free to repeat: create --from puts what it finds into the last     *)
(* directory it could look up and does not look for the name.  What is     *)
(* proved of writeFile is which chains and sectors it lets be while the    *)
(* file has no entry yet (Spares), also when the disk is full half way.    *)
(***************************************************************************)
EXTENDS HostTool, QfsDiskProofs

(* The bytes of files, with values in V.                                   *)
Bytes(V) == {ByteCell(value) : value \in V}

(* A file is a sequence of bytes.                                          *)
LEMMA DataIs ==
  ASSUME NEW V, NEW data, IsData(data), \A i \in DOMAIN data : data[i].value \in V
  PROVE  data \in Seq(Bytes(V))
<1>1. {ByteCell(data[i].value) : i \in DOMAIN data} \subseteq Bytes(V)
  BY DEF Bytes
<1>2. data \in Seq({ByteCell(data[i].value) : i \in DOMAIN data})
  BY DEF IsData
<1> QED
  BY <1>1, <1>2

(* What is written to a sector has no entries.                             *)
LEMMA SectorDataIs ==
  ASSUME NEW V, NEW data \in Seq(Bytes(V)), NEW n \in Nat \ {0}
  PROVE  /\ SectorData(data, n) \in Contents(V)
         /\ \A k \in CellIndex : ~IsEntry(SectorData(data, n)[k])
<1>1. Cells \in Nat \ {0}
  BY DiskAssumption
<1>2. ASSUME NEW c \in CellIndex, NEW cell,
             cell = IF (n - 1) * Cells + c < Len(data) THEN data[(n - 1) * Cells + c + 1] ELSE Zero
      PROVE  cell \in CellSet(V) /\ ~IsEntry(cell)
  <2>1. CASE (n - 1) * Cells + c < Len(data)
    <3>1. (n - 1) * Cells \in Nat
      <4>1. n - 1 \in Nat
        OBVIOUS
      <4> QED
        BY <1>1, <4>1
    <3>2. (n - 1) * Cells + c + 1 \in 1 .. Len(data)
      BY <1>1, <2>1, <3>1 DEF CellIndex
    <3>3. data[(n - 1) * Cells + c + 1] \in Bytes(V)
      BY <3>2
    <3>4. cell \in Bytes(V)
      BY <1>2, <2>1, <3>3
    <3> QED
      BY <3>4 DEF Bytes, ByteCell, CellSet, IsEntry
  <2>2. CASE ~((n - 1) * Cells + c < Len(data))
    <3>1. cell = Zero
      BY <1>2, <2>2
    <3> QED
      BY <3>1 DEF CellSet, Zero, IsEntry
  <2> QED
    BY <2>1, <2>2
<1>3. \A c \in CellIndex : SectorData(data, n)[c] \in CellSet(V) /\ ~IsEntry(SectorData(data, n)[c])
  <2> SUFFICES ASSUME NEW c \in CellIndex
               PROVE  SectorData(data, n)[c] \in CellSet(V) /\ ~IsEntry(SectorData(data, n)[c])
    OBVIOUS
  <2>1. SectorData(data, n)[c] = IF (n - 1) * Cells + c < Len(data) THEN data[(n - 1) * Cells + c + 1] ELSE Zero
    BY DEF SectorData, CellIndex
  <2> QED
    BY <1>2, <2>1
<1>4. SectorData(data, n) = [c \in CellIndex |-> SectorData(data, n)[c]]
  BY DEF SectorData, CellIndex
<1> QED
  BY <1>3, <1>4 DEF Contents

(* A chain in the making leaves the other chains, their sectors and the    *)
(* entries alone.                                                          *)
Spares(io, L, to, M) ==
    /\ \A p \in Places : p # TakenAt =>
          M[p] = L[p] /\ \A t \in On(L, p) : to.disk.sector[t] = io.disk.sector[t]
    /\ SameEntries(io.disk.sector, to.disk.sector)

(* writeFile between two sectors: what is written is a chain without an    *)
(* entry.                                                                  *)
Writing(V, W, io, L, w, M) ==
    /\ Fine(V, w.io, M, W) /\ Spares(io, L, w.io, M)
    /\ w.first = FirstOf(M, TakenAt)
    /\ w.first # NO_SECTOR => w.prev = M[TakenAt][Len(M[TakenAt])]

Writings(V, W, io, L) ==
    {w \in [io : IOs(Contents(V)), first : Sectors \cup {NO_SECTOR},
            prev : Sectors \cup {NO_SECTOR}, failed : BOOLEAN] :
       \E M : Writing(V, W, io, L, w, M)}

(* A first sector is NO_SECTOR when there is none.                         *)
LEMMA FirstIs ==
  ASSUME NEW L \in [Places -> Seq(Sectors)], NEW p \in Places
  PROVE  /\ FirstOf(L, p) = NO_SECTOR <=> L[p] = <<>>
         /\ FirstOf(L, p) \in Sectors \cup {NO_SECTOR}
<1>1. CASE L[p] = <<>>
  BY <1>1 DEF FirstOf
<1>2. CASE L[p] # <<>>
  <2>1. L[p] \in Seq(Sectors)
    OBVIOUS
  <2>2. L[p][1] \in Sectors
    BY <1>2, <2>1
  <2>3. L[p][1] # NO_SECTOR
    BY <2>2, SectorsAre DEF EndsChain
  <2> QED
    BY <1>2, <2>2, <2>3 DEF FirstOf
<1> QED
  BY <1>1, <1>2

(* The chain with one more sector.                                         *)
LongerLay(M, n) == IF M[TakenAt] = <<>> THEN Taking(M, n) ELSE Grown(M, TakenAt, n)

LongerBy(M, N, n) ==
    /\ N[TakenAt] # <<>> /\ n \in On(N, TakenAt)
    /\ FirstOf(N, TakenAt) = IF M[TakenAt] = <<>> THEN n ELSE FirstOf(M, TakenAt)
    /\ N[TakenAt][Len(N[TakenAt])] = n
    /\ \A p \in Places : p # TakenAt => N[p] = M[p]

(* It begins as before and ends with that sector.                          *)
LEMMA LongerIs ==
  ASSUME NEW M \in [Places -> Seq(Sectors)], NEW n \in Sectors
  PROVE  LongerBy(M, LongerLay(M, n), n)
<1>1. TakenAt \in Places
  BY PlacesAre
<1>2. PICK N : N = LongerLay(M, n)
  OBVIOUS
<1>3. PICK q, r : q = M[TakenAt] /\ r = N[TakenAt]
  OBVIOUS
<1>4. q \in Seq(Sectors)
  BY <1>1, <1>3
<1>5. \A p \in Places : p # TakenAt => N[p] = M[p]
  BY <1>1, <1>2 DEF LongerLay, Taking, Grown
<1>6. CASE q = <<>>
  <2>1. r = <<n>>
    BY <1>1, <1>2, <1>3, <1>6 DEF LongerLay, Taking
  <2>2. r # <<>> /\ n \in Items(r) /\ r[1] = n /\ r[Len(r)] = n
    BY <2>1, ItemsAre
  <2> QED
    BY <1>2, <1>3, <1>5, <1>6, <2>2 DEF LongerBy, On, FirstOf
<1>7. CASE q # <<>>
  <2>1. r = Append(q, n)
    BY <1>1, <1>2, <1>3, <1>7 DEF LongerLay, Grown
  <2>2. r # <<>> /\ r[1] = q[1] /\ r[Len(r)] = n
    BY <1>4, <1>7, <2>1
  <2>3. n \in Items(r)
    BY <1>4, <2>1, ItemsAre
  <2> QED
    BY <1>2, <1>3, <1>5, <1>7, <2>2, <2>3 DEF LongerBy, On, FirstOf
<1> QED
  BY <1>6, <1>7

(* A sector is taken and linked to what has been written.                  *)
LinkedTo(V, W, io, N, n, mid) ==
    /\ n \in DataSectors /\ Fine(V, mid, N, W) /\ mid.disk.sector = io.disk.sector

(* For the first sector there is nothing to link it to.                    *)
LEMMA LinksOn ==
  ASSUME NEW V, NEW W, NEW io, NEW M, Fine(V, io, M, W), FreeIn(io.disk.fat) # {},
         NEW w, w.first = FirstOf(M, TakenAt),
         w.first # NO_SECTOR => w.prev = M[TakenAt][Len(M[TakenAt])]
  PROVE  LinkedTo(V, W, io, LongerLay(M, fat_alloc(io).sector), fat_alloc(io).sector,
                  LinkedAfter(fat_alloc(io).io, w, fat_alloc(io).sector))
<1> DEFINE new == fat_alloc(io)
           n == new.sector
           mid == LinkedAfter(new.io, w, n)
<1>1. M \in [Places -> Seq(Sectors)] /\ TakenAt \in Places
  BY PlacesAre DEF Fine, Laid
<1>2. w.first = NO_SECTOR <=> M[TakenAt] = <<>>
  BY <1>1, FirstIs
<1>3. CASE M[TakenAt] = <<>>
  <2>1. mid = new.io
    <3> HIDE DEF new, n
    <3> QED
      BY <1>2, <1>3 DEF LinkedAfter
  <2>2. n \in DataSectors /\ new.io.disk.sector = io.disk.sector /\ Fine(V, new.io, Taking(M, n), W)
    BY <1>3, SectorTaken
  <2>3. LongerLay(M, n) = Taking(M, n)
    BY <1>3 DEF LongerLay
  <2> HIDE DEF mid, n, new
  <2>4. LinkedTo(V, W, io, LongerLay(M, n), n, mid)
    BY <2>1, <2>2, <2>3 DEF LinkedTo
  <2> QED
    BY <2>4 DEF mid, n, new
<1>4. CASE M[TakenAt] # <<>>
  <2> DEFINE last == M[TakenAt][Len(M[TakenAt])]
  <2>1. mid = Linked(new, last)
    <3>1. w.prev = last /\ w.first # NO_SECTOR
      BY <1>2, <1>4
    <3> HIDE DEF new, last
    <3> QED
      BY <3>1 DEF LinkedAfter, Linked
  <2>2. n \in DataSectors /\ Linked(new, last).disk.sector = io.disk.sector
        /\ Fine(V, Linked(new, last), Grown(M, TakenAt, n), W)
    <3>1. PICK p : p = TakenAt
      OBVIOUS
    <3>2. p \in Places /\ M[p] # <<>>
      BY <1>1, <1>4, <3>1
    <3>3. /\ fat_alloc(io).sector \in DataSectors /\ \A q \in Places : fat_alloc(io).sector \notin On(M, q)
          /\ Linked(fat_alloc(io), M[p][Len(M[p])]).disk.sector = io.disk.sector
          /\ Fine(V, Linked(fat_alloc(io), M[p][Len(M[p])]), Grown(M, p, fat_alloc(io).sector), W)
      BY <3>2, SectorGrown, Zenon
    <3> QED
      BY <3>1, <3>3, Zenon
  <2>3. LongerLay(M, n) = Grown(M, TakenAt, n)
    BY <1>4 DEF LongerLay
  <2> HIDE DEF mid, n, new, last
  <2>4. LinkedTo(V, W, io, LongerLay(M, n), n, mid)
    BY <2>1, <2>2, <2>3 DEF LinkedTo
  <2> QED
    BY <2>4 DEF mid, n, new
<1> QED
  BY <1>3, <1>4

(* The sector is written: it is in no other chain and has no entries.      *)
LEMMA WritesLinked ==
  ASSUME NEW V, NEW W, NEW io, NEW M, Fine(V, io, M, W), NEW n, NEW N, LongerBy(M, N, n),
         NEW mid, LinkedTo(V, W, io, N, n, mid),
         NEW cells \in Contents(V), \A k \in CellIndex : ~IsEntry(cells[k])
  PROVE  /\ Fine(V, write_sector(mid, n, cells), N, W)
         /\ Spares(io, M, write_sector(mid, n, cells), N)
<1> DEFINE done == write_sector(mid, n, cells)
<1>1. /\ n \in Sectors /\ Fine(V, mid, N, W) /\ mid.disk.sector = io.disk.sector
      /\ TakenAt \in Places /\ N \in [Places -> Seq(Sectors)]
  BY SectorsAre, PlacesAre DEF LinkedTo, Fine, Laid
<1>2. n \in On(N, TakenAt) /\ \A p \in Places : p # TakenAt => N[p] = M[p]
  BY DEF LongerBy
<1>3. \A p \in Places : p # TakenAt => n \notin On(N, p)
  BY <1>1, <1>2, OnDisjoint DEF Fine
<1>4. \A k \in CellIndex : ~IsEntry(mid.disk.sector[n][k])
  <2>1. \A d \in Dirs(mid.disk.sector) : n \notin On(N, d)
    BY <1>3, DirsAre
  <2> QED
    BY <1>1, <2>1, NoEntryElsewhere DEF Fine
<1>5. /\ Fine(V, done, N, W)
      /\ done.disk.sector = [io.disk.sector EXCEPT ![n] = cells]
  BY <1>1, <1>4, FineData
<1>6. io.disk.sector \in [Sectors -> Contents(V)]
  BY IOsAre DEF Fine
<1> HIDE DEF done
<1>7. done.disk.sector[n] = cells /\ \A s \in Sectors : s # n => done.disk.sector[s] = io.disk.sector[s]
  BY <1>1, <1>5, <1>6
<1>8. SameEntries(io.disk.sector, done.disk.sector)
  BY <1>1, <1>4, <1>7 DEF SameEntries
<1>9. ASSUME NEW p \in Places, p # TakenAt, NEW t \in On(M, p)
      PROVE  done.disk.sector[t] = io.disk.sector[t]
  <2>1. t \in On(N, p) /\ t # n
    BY <1>2, <1>3, <1>9 DEF On
  <2>2. t \in Sectors
    BY <1>1, <2>1, OnSectors
  <2> QED
    BY <1>7, <2>1, <2>2
<1>10. Spares(io, M, done, N)
  BY <1>2, <1>8, <1>9 DEF Spares
<1> QED
  BY <1>5, <1>10 DEF done

(* What is spared twice is spared.                                         *)
LEMMA SparesOn ==
  ASSUME NEW io, NEW L, NEW to, NEW M, NEW on, NEW N, Spares(io, L, to, M), Spares(to, M, on, N)
  PROVE  Spares(io, L, on, N)
<1>1. \A p \in Places : p # TakenAt => On(M, p) = On(L, p)
  BY DEF Spares, On
<1>2. SameEntries(io.disk.sector, on.disk.sector)
  BY DEF Spares, SameEntries
<1> QED
  BY <1>1, <1>2 DEF Spares

(* One turn of the loop of writeFile.                                      *)
Turned(w, cells) == IF w.failed THEN w ELSE PutSector(w, fat_alloc(w.io), cells)

(* The file is longer by a sector, or the disk is full.                    *)
LEMMA WriteTurn ==
  ASSUME NEW V, NEW W, NEW io, NEW L, NEW w \in Writings(V, W, io, L),
         NEW cells \in Contents(V), \A k \in CellIndex : ~IsEntry(cells[k])
  PROVE  Turned(w, cells) \in Writings(V, W, io, L)
<1>1. /\ w \in [io : IOs(Contents(V)), first : Sectors \cup {NO_SECTOR},
                prev : Sectors \cup {NO_SECTOR}, failed : BOOLEAN]
      /\ \E M : Writing(V, W, io, L, w, M)
  BY DEF Writings
<1>2. PICK M : Writing(V, W, io, L, w, M)
  BY <1>1
<1>3. CASE w.failed
  BY <1>3 DEF Turned
<1>4. CASE ~w.failed /\ FreeIn(w.io.disk.fat) = {}
  <2>1. fat_alloc(w.io).sector = NO_SECTOR
    <3>1. fat_alloc(w.io) = [io |-> w.io, sector |-> NO_SECTOR]
      BY <1>4, AllocatesNone, Zenon
    <3> QED
      BY <3>1
  <2>2. PICK yes : yes = TRUE
    OBVIOUS
  <2>3. Turned(w, cells) = [w EXCEPT !.failed = yes]
    BY <1>4, <2>1, <2>2 DEF Turned, PutSector
  <2>4. PICK to : to = [w EXCEPT !.failed = yes]
    OBVIOUS
  <2>5. to \in [io : IOs(Contents(V)), first : Sectors \cup {NO_SECTOR},
                prev : Sectors \cup {NO_SECTOR}, failed : BOOLEAN]
    BY <1>1, <2>2, <2>4
  <2>6. to.io = w.io /\ to.first = w.first /\ to.prev = w.prev
    BY <1>1, <2>4
  <2>7. Writing(V, W, io, L, to, M)
    BY <1>2, <2>6 DEF Writing
  <2> QED
    BY <2>3, <2>4, <2>5, <2>7 DEF Writings
<1>5. CASE ~w.failed /\ FreeIn(w.io.disk.fat) # {}
  <2> DEFINE new == fat_alloc(w.io)
             n == new.sector
             mid == LinkedAfter(new.io, w, n)
             N == LongerLay(M, n)
             done == write_sector(mid, n, cells)
             first == IF w.first = NO_SECTOR THEN n ELSE w.first
  <2>1. Fine(V, w.io, M, W) /\ M \in [Places -> Seq(Sectors)] /\ TakenAt \in Places
    BY <1>2, PlacesAre DEF Writing, Fine, Laid
  <2>2. LinkedTo(V, W, w.io, N, n, mid)
    BY <1>2, <1>5, <2>1, LinksOn DEF Writing
  <2> HIDE DEF mid, new
  <2>3. n \in Sectors /\ n # NO_SECTOR
    BY <2>2, SectorsAre DEF LinkedTo, EndsChain
  <2> HIDE DEF n
  <2>4. LongerBy(M, N, n)
    BY <2>1, <2>3, LongerIs
  <2> HIDE DEF N
  <2>5. Fine(V, done, N, W) /\ Spares(w.io, M, done, N)
    BY <2>1, <2>2, <2>4, WritesLinked
  <2>6. Spares(io, L, done, N)
    BY <1>2, <2>5, SparesOn DEF Writing
  <2> HIDE DEF done
  <2>7. first = FirstOf(N, TakenAt)
    <3>1. w.first = NO_SECTOR <=> M[TakenAt] = <<>>
      BY <1>2, <2>1, FirstIs DEF Writing
    <3> QED
      BY <1>2, <2>4, <3>1 DEF Writing, LongerBy
  <2> HIDE DEF first
  <2>8. first \in Sectors \cup {NO_SECTOR} /\ done \in IOs(Contents(V))
    BY <1>1, <2>3, <2>5 DEF first, Fine
  <2>9. Turned(w, cells) = [w EXCEPT !.io = done, !.first = first, !.prev = n]
    BY <1>5, <2>3 DEF Turned, PutSector, done, mid, n, new, first
  <2>10. PICK to : to = [w EXCEPT !.io = done, !.first = first, !.prev = n]
    OBVIOUS
  <2>11. to \in [io : IOs(Contents(V)), first : Sectors \cup {NO_SECTOR},
                 prev : Sectors \cup {NO_SECTOR}, failed : BOOLEAN]
    BY <1>1, <2>3, <2>8, <2>10
  <2>12. to.io = done /\ to.first = first /\ to.prev = n
    BY <1>1, <2>10
  <2>13. Writing(V, W, io, L, to, N)
    BY <2>4, <2>5, <2>6, <2>7, <2>12 DEF Writing, LongerBy
  <2> QED
    BY <2>9, <2>10, <2>11, <2>13 DEF Writings
<1> QED
  BY <1>3, <1>4, <1>5

(* The loop of writeFile.                                                  *)
Begun(io) == [io |-> io, first |-> NO_SECTOR, prev |-> NO_SECTOR, failed |-> FALSE]

Turns(data) == (Len(data) + Cells - 1) \div Cells

(* What each turn preserves, the loop preserves.                           *)
LEMMA WriteLoops ==
  ASSUME NEW S, NEW io, NEW data, Begun(io) \in S, Turns(data) \in Nat,
         \A w \in S : \A n \in 1 .. Turns(data) : Turned(w, SectorData(data, n)) \in S
  PROVE  \E w \in S : writeFile(io, data) = GiveBack(w)
<1> DEFINE N == Turns(data)
           from == Begun(io)
           Step(w, n) == IF w.failed THEN w
                         ELSE Bind(fat_alloc(w.io), LAMBDA new : PutSector(w, new, SectorData(data, n)))
           One(at, n) == Bind(at, LAMBDA w : Step(w, n))
           IsRun(f) == f = [n \in 0 .. N |-> IF n = 0 THEN from ELSE One(f[n - 1], n)]
           R == CHOOSE f : IsRun(f)
           g == [n \in 1 .. N |-> [w \in S |-> Turned(w, SectorData(data, n))]]
<1>1. \A w : \A n \in 1 .. N : Step(w, n) = Turned(w, SectorData(data, n))
  <2> SUFFICES ASSUME NEW w, NEW n \in 1 .. N PROVE Step(w, n) = Turned(w, SectorData(data, n))
    OBVIOUS
  <2> DEFINE G(new) == PutSector(w, new, SectorData(data, n))
             arg == fat_alloc(w.io)
  <2>1. Bind(fat_alloc(w.io), LAMBDA new : PutSector(w, new, SectorData(data, n)))
          = CHOOSE result \in {G(v) : v \in {arg}} : TRUE
    BY Zenon DEF Bind
  <2>2. (CHOOSE result \in {G(v) : v \in {arg}} : TRUE) = G(arg)
    <3> HIDE DEF G, arg
    <3> QED
      OBVIOUS
  <2>3. Bind(fat_alloc(w.io), LAMBDA new : PutSector(w, new, SectorData(data, n)))
          = PutSector(w, fat_alloc(w.io), SectorData(data, n))
    BY <2>1, <2>2, Zenon
  <2> QED
    BY <2>3, Zenon DEF Turned
<1>2. \A w : \A n \in 1 .. N : One(w, n) = Turned(w, SectorData(data, n))
  <2> SUFFICES ASSUME NEW w, NEW n \in 1 .. N PROVE One(w, n) = Turned(w, SectorData(data, n))
    OBVIOUS
  <2> DEFINE G(v) == Step(v, n)
  <2>1. One(w, n) = CHOOSE result \in {G(v) : v \in {w}} : TRUE
    BY Zenon DEF Bind
  <2>2. (CHOOSE result \in {G(v) : v \in {w}} : TRUE) = G(w)
    <3> HIDE DEF G, One, Step
    <3> QED
      OBVIOUS
  <2>3. One(w, n) = Step(w, n)
    BY <2>1, <2>2, Zenon
  <2> HIDE DEF One, Step
  <2> QED
    BY <2>3, <1>1, Zenon
<1>3. \E w \in {R[N]} : writeFile(io, data) = GiveBack(w)
  <2> DEFINE G(v) == GiveBack(v)
             arg == R[N]
  <2>1. writeFile(io, data) = CHOOSE result \in {G(v) : v \in {arg}} : TRUE
    BY Zenon DEF writeFile, Bind, Repeat, Begun, Turns
  <2>2. (CHOOSE result \in {G(v) : v \in {arg}} : TRUE) = G(arg)
    <3> HIDE DEF G, arg
    <3> QED
      OBVIOUS
  <2>3. writeFile(io, data) = GiveBack(arg) /\ arg \in {arg}
    <3> HIDE DEF arg
    <3>1. writeFile(io, data) = GiveBack(arg)
      BY <2>1, <2>2, Zenon
    <3>2. arg \in {arg}
      OBVIOUS
    <3> QED
      BY <3>1, <3>2
  <2> HIDE DEF G, arg
  <2>4. \E w \in {arg} : writeFile(io, data) = GiveBack(w)
    BY <2>3, Zenon
  <2> QED
    BY <2>4, Zenon DEF arg
<1>4. \A n \in 1 .. N : \A w \in S : g[n][w] \in S /\ g[n][w] = Turned(w, SectorData(data, n))
  OBVIOUS
<1>5. g \in [1 .. N -> [S -> S]]
  BY <1>4
<1> HIDE DEF g, One, Step
<1>6. \E f : IsRun(f)
  <2>1. PICK f : Run(f, S, N, from, g)
    BY <1>5, Iterates
  <2>2. f \in [0 .. N -> S] /\ f[0] = from /\ \A n \in 1 .. N : f[n] = g[n][f[n - 1]]
    BY <2>1 DEF Run
  <2>3. \A n \in 1 .. N : f[n] = One(f[n - 1], n)
    <3> SUFFICES ASSUME NEW n \in 1 .. N PROVE f[n] = One(f[n - 1], n)
      OBVIOUS
    <3>0. n - 1 \in 0 .. N
      OBVIOUS
    <3>1. f[n - 1] \in S
      BY <2>2, <3>0, Zenon
    <3>2. One(f[n - 1], n) = Turned(f[n - 1], SectorData(data, n))
      BY <1>2, Zenon
    <3>3. g[n][f[n - 1]] = Turned(f[n - 1], SectorData(data, n))
      BY <3>1, <1>4, Zenon
    <3>4. f[n] = g[n][f[n - 1]]
      BY <2>2, Zenon
    <3> QED
      BY <3>2, <3>3, <3>4, Zenon
  <2>4. IsRun(f)
    BY <2>2, <2>3
  <2> QED
    BY <2>4, Zenon
<1>7. IsRun(R)
  <2> HIDE DEF IsRun
  <2> QED
    BY <1>6, Zenon
<1> HIDE DEF R
<1>8. R[0] = from /\ \A n \in 1 .. N : R[n] = Turned(R[n - 1], SectorData(data, n))
  BY <1>2, <1>7
<1> HIDE DEF IsRun
<1>9. 0 .. N \subseteq {n \in 0 .. N : R[n] \in S}
  <2> DEFINE T == {n \in 0 .. N : R[n] \in S}
  <2>1. 0 \in T
    BY <1>8
  <2>2. \A n \in 1 .. N : n - 1 \in T => n \in T
    BY <1>8
  <2> HIDE DEF T
  <2> QED
    BY <2>1, <2>2, Induct DEF T
<1>10. R[N] \in S
  BY <1>9
<1> QED
  BY <1>3, <1>10

(* A file that writeFile has written: its chain has no entry yet.  When    *)
(* the disk was full the sectors are free again.                           *)
WroteFile(V, W, io, L, file, M) ==
    /\ Fine(V, file.io, M, W) /\ Spares(io, L, file.io, M)
    /\ file.failed \in BOOLEAN
    /\ file.failed => M[TakenAt] = <<>>
    /\ ~file.failed => file.first = FirstOf(M, TakenAt)

(* Nothing is written at first.                                            *)
LEMMA BeginsWriting ==
  ASSUME NEW V, NEW W, NEW io, NEW L, Fine(V, io, L, W), L[TakenAt] = <<>>
  PROVE  Begun(io) \in Writings(V, W, io, L)
<1>1. io \in IOs(Contents(V))
  BY DEF Fine
<1>2. PICK w : w = Begun(io)
  OBVIOUS
<1>3. /\ w.io = io /\ w.first = NO_SECTOR
      /\ w \in [io : IOs(Contents(V)), first : Sectors \cup {NO_SECTOR},
                prev : Sectors \cup {NO_SECTOR}, failed : BOOLEAN]
  BY <1>1, <1>2 DEF Begun
<1>4. Spares(io, L, io, L)
  BY DEF Spares, SameEntries
<1>5. FirstOf(L, TakenAt) = NO_SECTOR
  BY DEF FirstOf
<1>6. Writing(V, W, io, L, w, L)
  BY <1>3, <1>4, <1>5 DEF Writing
<1> QED
  BY <1>2, <1>3, <1>6 DEF Writings

(* What was written is kept, or given back.                                *)
LEMMA GivesBack ==
  ASSUME NEW V, NEW W, NEW io, NEW L, NEW w \in Writings(V, W, io, L)
  PROVE  \E M : WroteFile(V, W, io, L, GiveBack(w), M)
<1>1. PICK M : Writing(V, W, io, L, w, M)
  BY DEF Writings
<1>2. w \in [io : IOs(Contents(V)), first : Sectors \cup {NO_SECTOR},
             prev : Sectors \cup {NO_SECTOR}, failed : BOOLEAN]
  BY DEF Writings
<1>3. Fine(V, w.io, M, W) /\ Spares(io, L, w.io, M) /\ w.first = FirstOf(M, TakenAt)
  BY <1>1 DEF Writing
<1>4. M \in [Places -> Seq(Sectors)] /\ TakenAt \in Places
  BY <1>3, PlacesAre DEF Fine, Laid
<1>5. w.first = NO_SECTOR <=> M[TakenAt] = <<>>
  BY <1>3, <1>4, FirstIs
<1>6. CASE w.failed /\ w.first # NO_SECTOR
  <2> DEFINE done == fat_free(w.io, w.first)
  <2>1. Fine(V, done, GivenBack(M), W) /\ done.disk.sector = w.io.disk.sector
    <3>1. M[TakenAt] # <<>>
      BY <1>5, <1>6
    <3>2. /\ Fine(V, fat_free(w.io, FirstOf(M, TakenAt)), GivenBack(M), W)
          /\ fat_free(w.io, FirstOf(M, TakenAt)).disk.sector = w.io.disk.sector
      BY <1>3, <3>1, SectorGivenBack, Zenon
    <3> QED
      BY <1>3, <3>2, Zenon
  <2>2. /\ GivenBack(M)[TakenAt] = <<>>
        /\ \A p \in Places : p # TakenAt => GivenBack(M)[p] = M[p]
    BY <1>4 DEF GivenBack
  <2> HIDE DEF done
  <2>3. PICK to : to = [w EXCEPT !.io = done]
    OBVIOUS
  <2>4. to.io = done /\ to.failed = w.failed /\ to.failed \in BOOLEAN
    BY <1>2, <2>3
  <2>5. GiveBack(w) = to
    BY <1>6, <2>3, Zenon DEF GiveBack, done
  <2>6. Spares(w.io, M, done, GivenBack(M))
    BY <2>1, <2>2 DEF Spares, SameEntries
  <2>7. Spares(io, L, done, GivenBack(M))
    BY <1>3, <2>6, SparesOn
  <2>8. WroteFile(V, W, io, L, to, GivenBack(M))
    BY <1>6, <2>1, <2>2, <2>4, <2>7 DEF WroteFile
  <2> QED
    BY <2>5, <2>8, Zenon
<1>7. CASE ~(w.failed /\ w.first # NO_SECTOR)
  <2>1. GiveBack(w) = w
    BY <1>7, Zenon DEF GiveBack
  <2>2. w.failed \in BOOLEAN
    BY <1>2
  <2>3. WroteFile(V, W, io, L, w, M)
    BY <1>3, <1>5, <1>7, <2>2 DEF WroteFile
  <2> QED
    BY <2>1, <2>3, Zenon
<1> QED
  BY <1>6, <1>7

(* writeFile writes a file or gives back what it took, and spares the rest.*)
LEMMA WritesFile ==
  ASSUME NEW V, NEW W, NEW io, NEW L, Fine(V, io, L, W), L[TakenAt] = <<>>,
         NEW data \in Seq(Bytes(V))
  PROVE  \E M : WroteFile(V, W, io, L, writeFile(io, data), M)
<1>1. Begun(io) \in Writings(V, W, io, L)
  BY BeginsWriting
<1>2. Turns(data) \in Nat
  <2>1. Cells \in Nat \ {0} /\ Len(data) \in Nat
    BY DiskAssumption
  <2>2. Len(data) + Cells - 1 \in Nat
    BY <2>1
  <2> QED
    BY <2>1, <2>2, Division DEF Turns
<1>3. ASSUME NEW w \in Writings(V, W, io, L), NEW n \in 1 .. Turns(data)
      PROVE  Turned(w, SectorData(data, n)) \in Writings(V, W, io, L)
  <2>1. n \in Nat \ {0}
    BY <1>2
  <2>2. /\ SectorData(data, n) \in Contents(V)
        /\ \A k \in CellIndex : ~IsEntry(SectorData(data, n)[k])
    BY <2>1, SectorDataIs
  <2>3. PICK cells : cells = SectorData(data, n)
    OBVIOUS
  <2>4. cells \in Contents(V) /\ \A k \in CellIndex : ~IsEntry(cells[k])
    BY <2>2, <2>3
  <2>5. Turned(w, cells) \in Writings(V, W, io, L)
    BY <2>4, WriteTurn
  <2> QED
    BY <2>3, <2>5
<1>4. PICK S : S = Writings(V, W, io, L)
  OBVIOUS
<1>5. PICK w \in S : writeFile(io, data) = GiveBack(w)
  BY <1>1, <1>2, <1>3, <1>4, WriteLoops
<1>6. \E M : WroteFile(V, W, io, L, GiveBack(w), M)
  BY <1>4, <1>5, GivesBack
<1> QED
  BY <1>5, <1>6, Zenon

(* Between commands, and between the entries of a scan: counts, chains and *)
(* directories agree, and no file is half written.                         *)
Sound(V, io) == \E L : Fine(V, io, L, {Repeats}) /\ L[TakenAt] = <<>>

(* The entry that a written file gets.                                     *)
FileEntry(name, file, data) == Dirent(name, FALSE, file.first, Len(data))

(* A file is written and its entry put where there was room, or neither.   *)
LEMMA PutsFileAt ==
  ASSUME NEW V, NEW io, NEW L, L[TakenAt] = <<>>, Fine(V, io, L, {Repeats}),
         NEW d \in Dirs(io.disk.sector), NEW at, NEW M, NEW s, NEW k, Room(V, {Repeats}, io, L, d, at, M, s, k),
         NEW name \in Names, NEW data \in Seq(Bytes(V))
  PROVE  IF writeFile(at.io, data).failed THEN Sound(V, writeFile(at.io, data).io)
         ELSE Sound(V, write_dirent_at(writeFile(at.io, data).io, s, k,
                                       FileEntry(name, writeFile(at.io, data), data)))
<1>1. PICK W : W = {Repeats}
  OBVIOUS
<1>2. d \in Places /\ d # TakenAt /\ TakenAt \in Places
  BY DirsAre, PlacesAre
<1>3. Fine(V, at.io, M, W) /\ M[TakenAt] = <<>>
  BY <1>1, <1>2 DEF Room
<1>4. PICK file : file = writeFile(at.io, data)
  OBVIOUS
<1>5. PICK N : WroteFile(V, W, at.io, M, file, N)
  BY <1>3, <1>4, WritesFile
<1>6. Fine(V, file.io, N, W) /\ Spares(at.io, M, file.io, N) /\ file.failed \in BOOLEAN
  BY <1>5 DEF WroteFile
<1>7. CASE file.failed
  <2>1. N[TakenAt] = <<>>
    BY <1>5, <1>7 DEF WroteFile
  <2>2. Sound(V, file.io)
    BY <1>1, <1>6, <2>1 DEF Sound
  <2> QED
    BY <1>4, <1>7, <2>2
<1>8. CASE ~file.failed
  <2>1. file.first = FirstOf(N, TakenAt)
    BY <1>5, <1>8 DEF WroteFile
  <2>2. N \in [Places -> Seq(Sectors)]
    BY <1>6 DEF Fine, Laid
  <2>3. file.first \in Sectors \cup {NO_SECTOR} /\ Len(data) \in Nat
    <3>1. FirstOf(N, TakenAt) \in Sectors \cup {NO_SECTOR}
      BY <1>2, <2>2, FirstIs
    <3> QED
      BY <2>1, <3>1
  <2>4. PICK entry : entry = FileEntry(name, file, data)
    OBVIOUS
  <2>5. entry \in CellSet(V) /\ IsEntry(entry) /\ entry.first_sector = file.first /\ ~entry.dir
    BY <2>3, <2>4 DEF FileEntry, Dirent, CellSet, IsEntry
  <2>6. d \in Dirs(file.io.disk.sector)
    BY <1>6, SameEntriesKeep DEF Room, Spares
  <2>7. s \in On(N, d) /\ k \in CellIndex /\ file.io.disk.sector[s][k] = Zero
    <3>1. s \in On(M, d) /\ k \in CellIndex /\ at.io.disk.sector[s][k] = Zero
      BY DEF Room
    <3>2. N[d] = M[d] /\ \A t \in On(M, d) : file.io.disk.sector[t] = at.io.disk.sector[t]
      BY <1>2, <1>6 DEF Spares
    <3> QED
      BY <3>1, <3>2 DEF On
  <2>8. Fine(V, write_dirent_at(file.io, s, k, entry), Moved(N, <<s, k>>), W)
    <3>1. entry.first_sector = FirstOf(N, TakenAt)
      BY <2>1, <2>5
    <3> QED
      BY <1>1, <1>6, <2>5, <2>6, <2>7, <3>1, Placed
  <2>9. Moved(N, <<s, k>>)[TakenAt] = <<>>
    BY <1>2, <2>2 DEF Moved
  <2>10. Sound(V, write_dirent_at(file.io, s, k, entry))
    BY <1>1, <2>8, <2>9 DEF Sound
  <2> QED
    BY <1>4, <1>8, <2>4, <2>10
<1> QED
  BY <1>6, <1>7, <1>8

(* The states of create --from between two entries of the scan.            *)
Works(V, R) ==
    {w \in [io : IOs(Contents(V)), reports : SUBSET R, thrown : BOOLEAN] : Sound(V, w.io)}

(* The parts of such a state.                                              *)
LEMMA WorkIs ==
  ASSUME NEW V, NEW R, NEW io, Sound(V, io), NEW reports \in SUBSET R, NEW thrown \in BOOLEAN
  PROVE  Work(io, reports, thrown) \in Works(V, R)
<1>1. io \in IOs(Contents(V))
  BY DEF Sound, Fine
<1>2. PICK w : w = Work(io, reports, thrown)
  OBVIOUS
<1>3. w \in [io : IOs(Contents(V)), reports : SUBSET R, thrown : BOOLEAN] /\ w.io = io
  BY <1>1, <1>2 DEF Work
<1> QED
  BY <1>2, <1>3 DEF Works

(* The parts of PutFile, one after the other.                              *)
PutFileAt(work, at, entry) ==
    IF ~at.place.found THEN work
    ELSE LET file == writeFile(at.io, entry.data)
         IN  IF file.failed THEN Work(file.io, work.reports, TRUE)
             ELSE Work(write_dirent_at(file.io, at.place.sector, at.place.slot,
                                       FileEntry(Last(entry.path), file, entry.data)),
                       work.reports \cup {entry}, FALSE)

(* PutFile is these parts.                                                 *)
LEMMA PutFileIs ==
  ASSUME NEW work, NEW parent, NEW entry
  PROVE  PutFile(work, parent, entry) = PutFileAt(work, dir_find_free_in(work.io, parent), entry)
<1> DEFINE H(at, file) ==
             IF file.failed THEN Work(file.io, work.reports, TRUE)
             ELSE Work(write_dirent_at(file.io, at.place.sector, at.place.slot,
                                       Dirent(Last(entry.path), FALSE, file.first, Len(entry.data))),
                       work.reports \cup {entry}, FALSE)
           G(at) == IF ~at.place.found THEN work
                    ELSE CHOOSE result \in {H(at, file) : file \in {writeFile(at.io, entry.data)}} : TRUE
           arg == dir_find_free_in(work.io, parent)
<1>1. PutFile(work, parent, entry) = CHOOSE result \in {G(v) : v \in {arg}} : TRUE
  BY Zenon DEF PutFile, Bind
<1>2. (CHOOSE result \in {G(v) : v \in {arg}} : TRUE) = G(arg)
  <2> HIDE DEF G, arg
  <2> QED
    OBVIOUS
<1>3. \A at : (CHOOSE result \in {H(at, file) : file \in {writeFile(at.io, entry.data)}} : TRUE)
                = H(at, writeFile(at.io, entry.data))
  <2> HIDE DEF H
  <2> QED
    OBVIOUS
<1>4. \A at : G(at) = PutFileAt(work, at, entry)
  <2> SUFFICES ASSUME NEW at PROVE G(at) = PutFileAt(work, at, entry)
    OBVIOUS
  <2>1. G(at) = IF ~at.place.found THEN work ELSE H(at, writeFile(at.io, entry.data))
    <3> HIDE DEF H
    <3> QED
      BY <1>3, Zenon
  <2> HIDE DEF G
  <2> QED
    BY <2>1, Zenon DEF PutFileAt, FileEntry
<1>5. PutFile(work, parent, entry) = G(arg)
  <2> HIDE DEF G, arg
  <2> QED
    BY <1>1, <1>2, Zenon
<1> HIDE DEF G
<1> QED
  BY <1>4, <1>5, Zenon

(* An entry of a scan of a tree: a path, and for a file its bytes.         *)
Scanned(V, R, entry) ==
    entry \in R /\ entry.path \in Seq(Names) \ {<<>>} /\ entry.data \in Seq(Bytes(V))

(* The last name of a path is a name.                                      *)
LEMMA LastName ==
  ASSUME NEW path \in Seq(Names) \ {<<>>}
  PROVE  Last(path) \in Names
BY DEF Last

(* A file of the scan is put into its directory.                           *)
LEMMA PutsFile ==
  ASSUME NEW V, NEW R, NEW work \in Works(V, R), NEW L, Fine(V, work.io, L, {Repeats}), L[TakenAt] = <<>>,
         NEW d \in Dirs(work.io.disk.sector), NEW entry, Scanned(V, R, entry)
  PROVE  PutFile(work, FirstOf(L, d), entry) \in Works(V, R)
<1>1. PICK at : at = dir_find_free_in(work.io, FirstOf(L, d))
  OBVIOUS
<1>2. PutFile(work, FirstOf(L, d), entry) = PutFileAt(work, at, entry)
  BY <1>1, PutFileIs
<1>3. PICK io : io = work.io
  OBVIOUS
<1>4. work.reports \in SUBSET R /\ work.reports \cup {entry} \in SUBSET R
  BY DEF Works, Scanned
<1>5. at = [io |-> io, place |-> NotFound] \/ \E M, s, k : Room(V, {Repeats}, io, L, d, at, M, s, k)
  BY <1>1, <1>3, FindsRoom
<1>6. CASE at = [io |-> io, place |-> NotFound]
  <2>1. ~at.place.found
    BY <1>6 DEF NotFound
  <2> QED
    BY <1>2, <2>1 DEF PutFileAt
<1>7. ASSUME NEW M, NEW s, NEW k, Room(V, {Repeats}, io, L, d, at, M, s, k)
      PROVE  PutFileAt(work, at, entry) \in Works(V, R)
  <2>1. at.place.found = TRUE /\ at.place.sector = s /\ at.place.slot = k
    <3>1. at.place = Place(s, k, Zero)
      BY <1>7 DEF Room
    <3>2. PICK place : place = Place(s, k, Zero)
      OBVIOUS
    <3>3. place.found = TRUE /\ place.sector = s /\ place.slot = k
      BY <3>2 DEF Place
    <3> QED
      BY <3>1, <3>2, <3>3, Zenon
  <2>2. PICK name, data, file : name = Last(entry.path) /\ data = entry.data /\ file = writeFile(at.io, data)
    OBVIOUS
  <2>3. name \in Names /\ data \in Seq(Bytes(V))
    BY <2>2, LastName DEF Scanned
  <2>4. IF file.failed THEN Sound(V, file.io)
        ELSE Sound(V, write_dirent_at(file.io, s, k, FileEntry(name, file, data)))
    BY <1>3, <1>7, <2>2, <2>3, PutsFileAt
  <2>5. PutFileAt(work, at, entry) =
          IF file.failed THEN Work(file.io, work.reports, TRUE)
          ELSE Work(write_dirent_at(file.io, s, k, FileEntry(name, file, data)), work.reports \cup {entry}, FALSE)
    BY <2>1, <2>2 DEF PutFileAt
  <2> QED
    BY <1>4, <2>4, <2>5, WorkIs
<1> QED
  BY <1>2, <1>5, <1>6, <1>7

(* createDirectory, once its directory is made or was not.                 *)
MadeDirectory(work, made, entry) ==
    Work(made.io, IF made.ok THEN work.reports \cup {entry} ELSE work.reports, FALSE)

(* What createDirectory does when there is a sector for it.                *)
LEMMA CreateDirectoryIs ==
  ASSUME NEW work, NEW parent, NEW entry
  PROVE  CreateDirectory(work, parent, entry) =
           IF fat_alloc(work.io).sector = NO_SECTOR THEN work
           ELSE MadeDirectory(work, PutDirectory(work.io, parent, Last(entry.path), fat_alloc(work.io)), entry)
<1> DEFINE H(made) == Work(made.io, IF made.ok THEN work.reports \cup {entry} ELSE work.reports, FALSE)
           G(new) == IF new.sector = NO_SECTOR THEN work
                     ELSE CHOOSE result \in
                            {H(made) : made \in {PutDirectory(work.io, parent, Last(entry.path), new)}} : TRUE
           arg == fat_alloc(work.io)
<1>1. CreateDirectory(work, parent, entry) = CHOOSE result \in {G(v) : v \in {arg}} : TRUE
  BY Zenon DEF CreateDirectory, Bind
<1>2. (CHOOSE result \in {G(v) : v \in {arg}} : TRUE) = G(arg)
  <2> HIDE DEF G, arg
  <2> QED
    OBVIOUS
<1>3. \A x : (CHOOSE result \in {H(made) : made \in {x}} : TRUE) = H(x)
  <2> HIDE DEF H
  <2> QED
    OBVIOUS
<1>4. G(arg) = IF fat_alloc(work.io).sector = NO_SECTOR THEN work
               ELSE H(PutDirectory(work.io, parent, Last(entry.path), fat_alloc(work.io)))
  <2> HIDE DEF H
  <2> QED
    BY <1>3, Zenon
<1>5. CreateDirectory(work, parent, entry) = G(arg)
  <2> HIDE DEF G, arg
  <2> QED
    BY <1>1, <1>2, Zenon
<1> HIDE DEF G
<1> QED
  BY <1>4, <1>5, Zenon DEF MadeDirectory

(* It keeps the image in order, with or without the directory.             *)
LEMMA CreatesDirectory ==
  ASSUME NEW V, NEW R, NEW work \in Works(V, R), NEW L, Fine(V, work.io, L, {Repeats}), L[TakenAt] = <<>>,
         NEW d \in Dirs(work.io.disk.sector), NEW entry, Scanned(V, R, entry)
  PROVE  CreateDirectory(work, FirstOf(L, d), entry) \in Works(V, R)
<1>1. PICK io : io = work.io
  OBVIOUS
<1>2. PICK name : name = Last(entry.path)
  OBVIOUS
<1>3. name \in Names
  BY <1>2, LastName DEF Scanned
<1>4. work.reports \in SUBSET R /\ work.reports \cup {entry} \in SUBSET R
  BY DEF Works, Scanned
<1>5. CASE FreeIn(io.disk.fat) = {}
  <2>1. fat_alloc(work.io) = [io |-> io, sector |-> NO_SECTOR]
    BY <1>1, <1>5, AllocatesNone
  <2>2. fat_alloc(work.io).sector = NO_SECTOR
    BY <2>1
  <2>3. CreateDirectory(work, FirstOf(L, d), entry) = work
    BY <2>2, CreateDirectoryIs, Zenon
  <2> QED
    BY <2>3, Zenon
<1>6. CASE FreeIn(io.disk.fat) # {}
  <2>1. fat_alloc(io).sector \in DataSectors
    BY <1>1, <1>6, SectorTaken
  <2>2. fat_alloc(io).sector # NO_SECTOR
    BY <2>1, SectorsAre DEF EndsChain
  <2>3. PICK made : made = PutDirectory(io, FirstOf(L, d), name, fat_alloc(io))
    OBVIOUS
  <2>4. CreateDirectory(work, FirstOf(L, d), entry) = MadeDirectory(work, made, entry)
    BY <1>1, <1>2, <2>2, <2>3, CreateDirectoryIs, Zenon
  <2>5. PICK W : W = {Repeats}
    OBVIOUS
  <2>6. Fine(V, io, L, W) /\ Repeats \in W /\ d \in Dirs(io.disk.sector)
    BY <1>1, <2>5
  <2>7. PICK M : Kept(V, W, io, L, made.io, M)
    BY <1>3, <1>6, <2>3, <2>6, PutsDirectory
  <2>8. Sound(V, made.io)
    BY <2>5, <2>7 DEF Kept, Sound
  <2> QED
    BY <1>4, <2>4, <2>8, WorkIs DEF MadeDirectory
<1> QED
  BY <1>5, <1>6

(* The search for the parent, a name at a time: it is always at the first  *)
(* sector of a directory.                                                  *)
SearchStates(io, L) == [first : Heads(io, L), broken : BOOLEAN]

Descends(io, at, name) ==
    LET found == dir_find_in(io, at.first, name).entry
    IN  IF at.broken \/ ~IsDirectory(found) THEN [at EXCEPT !.broken = TRUE]
        ELSE [at EXCEPT !.first = found.first_sector]

(* One name further the search is at a directory's first sector again.     *)
LEMMA DescendsTo ==
  ASSUME NEW V, NEW io, NEW L, NEW W, Fine(V, io, L, W), NEW at \in SearchStates(io, L), NEW name
  PROVE  Descends(io, at, name) \in SearchStates(io, L)
<1>1. PICK place : place = dir_find_in(io, at.first, name)
  OBVIOUS
<1>2. CASE at.broken \/ ~IsDirectory(place.entry)
  <2>1. PICK yes : yes = TRUE
    OBVIOUS
  <2>2. [at EXCEPT !.broken = yes] \in SearchStates(io, L)
    BY <2>1 DEF SearchStates
  <2> QED
    BY <1>1, <1>2, <2>1, <2>2 DEF Descends
<1>3. CASE ~at.broken /\ IsDirectory(place.entry)
  <2>1. PICK d \in Dirs(io.disk.sector) : at.first = FirstOf(L, d)
    BY DEF SearchStates, Heads
  <2>2. place = NotFound \/ place \in EntryPlaces(io)
    BY <1>1, <2>1, Finds
  <2>3. place # NotFound
    BY <1>3 DEF NotFound, IsDirectory, IsEntry, Zero
  <2>4. place \in Resolved(io)
    BY <2>2, <2>3 DEF Resolved
  <2>5. PICK e \in Dirs(io.disk.sector) : place.entry.first_sector = FirstOf(L, e)
    BY <1>3, <2>4, ResolvedDirectory
  <2>6. PICK first : first = place.entry.first_sector
    OBVIOUS
  <2>7. first \in Heads(io, L)
    BY <2>5, <2>6 DEF Heads
  <2>8. [at EXCEPT !.first = first] \in SearchStates(io, L)
    BY <2>7 DEF SearchStates
  <2>9. Descends(io, at, name) = [at EXCEPT !.first = first]
    BY <1>1, <1>3, <2>6 DEF Descends
  <2> QED
    BY <2>8, <2>9
<1> QED
  BY <1>2, <1>3

(* Where the search begins.                                                *)
Search == [first |-> root_start, broken |-> FALSE]

(* What each name preserves, the search preserves.                         *)
LEMMA SearchLoops ==
  ASSUME NEW S, NEW io, NEW path, Search \in S, Len(path) - 1 \in Nat,
         \A at \in S : \A n \in 1 .. Len(path) - 1 : Descends(io, at, path[n]) \in S
  PROVE  \E at \in S : ParentSector(io, path) = at.first
<1> DEFINE N == Len(path) - 1
           Step(at, n) == LET found == dir_find_in(io, at.first, path[n]).entry
                          IN  IF at.broken \/ ~IsDirectory(found) THEN [at EXCEPT !.broken = TRUE]
                              ELSE [at EXCEPT !.first = found.first_sector]
           One(at, n) == Bind(at, LAMBDA v : Step(v, n))
           IsRun(f) == f = [n \in 0 .. N |-> IF n = 0 THEN Search ELSE One(f[n - 1], n)]
           R == CHOOSE f : IsRun(f)
           g == [n \in 1 .. N |-> [at \in S |-> Descends(io, at, path[n])]]
<1>1. \A at : \A n \in 1 .. N : One(at, n) = Descends(io, at, path[n])
  <2> SUFFICES ASSUME NEW at, NEW n \in 1 .. N PROVE One(at, n) = Descends(io, at, path[n])
    OBVIOUS
  <2> DEFINE G(v) == Step(v, n)
  <2>1. One(at, n) = CHOOSE result \in {G(v) : v \in {at}} : TRUE
    BY Zenon DEF Bind
  <2>2. (CHOOSE result \in {G(v) : v \in {at}} : TRUE) = G(at)
    <3> HIDE DEF G, One, Step
    <3> QED
      OBVIOUS
  <2>3. One(at, n) = Step(at, n)
    BY <2>1, <2>2, Zenon
  <2>4. Step(at, n) = Descends(io, at, path[n])
    BY Zenon DEF Descends
  <2> HIDE DEF One, Step
  <2> QED
    BY <2>3, <2>4, Zenon
<1>2. ParentSector(io, path) = R[N].first
  BY Zenon DEF ParentSector, Repeat, Bind, Search
<1>3. \A n \in 1 .. N : \A at \in S : g[n][at] \in S /\ g[n][at] = Descends(io, at, path[n])
  OBVIOUS
<1>4. g \in [1 .. N -> [S -> S]]
  BY <1>3
<1> HIDE DEF g, One, Step
<1>5. \E f : IsRun(f)
  <2>1. PICK f : Run(f, S, N, Search, g)
    BY <1>4, Iterates
  <2>2. f \in [0 .. N -> S] /\ f[0] = Search /\ \A n \in 1 .. N : f[n] = g[n][f[n - 1]]
    BY <2>1 DEF Run
  <2>3. \A n \in 1 .. N : f[n] = One(f[n - 1], n)
    <3> SUFFICES ASSUME NEW n \in 1 .. N PROVE f[n] = One(f[n - 1], n)
      OBVIOUS
    <3>0. n - 1 \in 0 .. N
      OBVIOUS
    <3>1. f[n - 1] \in S
      BY <2>2, <3>0, Zenon
    <3>2. One(f[n - 1], n) = Descends(io, f[n - 1], path[n])
      BY <1>1, Zenon
    <3>3. g[n][f[n - 1]] = Descends(io, f[n - 1], path[n])
      BY <3>1, <1>3, Zenon
    <3>4. f[n] = g[n][f[n - 1]]
      BY <2>2, Zenon
    <3> QED
      BY <3>2, <3>3, <3>4, Zenon
  <2>4. IsRun(f)
    BY <2>2, <2>3
  <2> QED
    BY <2>4, Zenon
<1>6. IsRun(R)
  <2> HIDE DEF IsRun
  <2> QED
    BY <1>5, Zenon
<1> HIDE DEF R
<1>7. R[0] = Search /\ \A n \in 1 .. N : R[n] = Descends(io, R[n - 1], path[n])
  BY <1>1, <1>6
<1> HIDE DEF IsRun
<1>8. 0 .. N \subseteq {n \in 0 .. N : R[n] \in S}
  <2> DEFINE T == {n \in 0 .. N : R[n] \in S}
  <2>1. 0 \in T
    BY <1>7
  <2>2. \A n \in 1 .. N : n - 1 \in T => n \in T
    BY <1>7
  <2> HIDE DEF T
  <2> QED
    BY <2>1, <2>2, Induct DEF T
<1>9. R[N] \in S
  BY <1>8
<1> QED
  BY <1>2, <1>9

(* So that what create --from takes for the parent is a directory.         *)
LEMMA FindsParent ==
  ASSUME NEW V, NEW io, NEW L, NEW W, Fine(V, io, L, W), NEW path \in Seq(Names) \ {<<>>}
  PROVE  \E d \in Dirs(io.disk.sector) : ParentSector(io, path) = FirstOf(L, d)
<1>1. root_start \in Heads(io, L)
  <2>1. FirstOf(L, RootAt) = root_start
    BY DEF Fine, Laid, FirstOf
  <2> QED
    BY <2>1, DirsAre DEF Heads
<1>2. Search \in SearchStates(io, L)
  <2>1. PICK at : at = Search
    OBVIOUS
  <2>2. at \in SearchStates(io, L)
    BY <1>1, <2>1 DEF Search, SearchStates
  <2> QED
    BY <2>1, <2>2
<1>3. Len(path) - 1 \in Nat
  OBVIOUS
<1>4. \A at \in SearchStates(io, L) : \A n \in 1 .. Len(path) - 1 : Descends(io, at, path[n]) \in SearchStates(io, L)
  BY DescendsTo
<1>5. PICK at \in SearchStates(io, L) : ParentSector(io, path) = at.first
  BY <1>2, <1>3, <1>4, SearchLoops
<1>6. at.first \in Heads(io, L)
  BY DEF SearchStates
<1> QED
  BY <1>5, <1>6 DEF Heads

(* One entry of a scan.                                                    *)
LEMMA PutsEntry ==
  ASSUME NEW V, NEW R, NEW work \in Works(V, R), NEW entry, Scanned(V, R, entry)
  PROVE  PutEntry(work, entry) \in Works(V, R)
<1>1. PICK L : Fine(V, work.io, L, {Repeats}) /\ L[TakenAt] = <<>>
  BY DEF Works, Sound
<1>2. entry.path \in Seq(Names) \ {<<>>}
  BY DEF Scanned
<1>3. PICK parent : parent = ParentSector(work.io, entry.path)
  OBVIOUS
<1>4. PICK d \in Dirs(work.io.disk.sector) : parent = FirstOf(L, d)
  BY <1>1, <1>2, <1>3, FindsParent
<1>5. CreateDirectory(work, parent, entry) \in Works(V, R)
  BY <1>1, <1>4, CreatesDirectory
<1>6. PutFile(work, parent, entry) \in Works(V, R)
  BY <1>1, <1>4, PutsFile
<1> DEFINE G(p) == IF entry.dir THEN CreateDirectory(work, p, entry) ELSE PutFile(work, p, entry)
<1>7. PutEntry(work, entry) = IF work.thrown \/ Last(entry.path) \in LongNames THEN work
                              ELSE CHOOSE result \in {G(p) : p \in {parent}} : TRUE
  <2>1. PutEntry(work, entry) = IF work.thrown \/ Last(entry.path) \in LongNames THEN work
                                ELSE CHOOSE result \in {G(p) : p \in {ParentSector(work.io, entry.path)}} : TRUE
    BY Zenon DEF PutEntry, Bind
  <2> HIDE DEF G
  <2> QED
    BY <1>3, <2>1, Zenon
<1>8. (CHOOSE result \in {G(p) : p \in {parent}} : TRUE) = G(parent)
  <2> HIDE DEF G
  <2> QED
    OBVIOUS
<1>9. G(parent) \in Works(V, R)
  BY <1>5, <1>6
<1> HIDE DEF G
<1> QED
  BY <1>7, <1>8, <1>9

(* The loop of create --from over a scan.                                  *)
Fresh(io) == Work(io, {}, FALSE)

Built(io, tree) == Repeat(LAMBDA at, n : PutEntry(at, tree[n]), Fresh(io), Len(tree))

(* What each entry preserves, the loop preserves.                          *)
LEMMA TreeLoops ==
  ASSUME NEW S, NEW io, NEW tree, Fresh(io) \in S, Len(tree) \in Nat,
         \A w \in S : \A n \in 1 .. Len(tree) : PutEntry(w, tree[n]) \in S
  PROVE  Built(io, tree) \in S
<1> DEFINE N == Len(tree)
           from == Fresh(io)
           One(at, n) == Bind(at, LAMBDA v : PutEntry(v, tree[n]))
           IsRun(f) == f = [n \in 0 .. N |-> IF n = 0 THEN from ELSE One(f[n - 1], n)]
           R == CHOOSE f : IsRun(f)
           g == [n \in 1 .. N |-> [w \in S |-> PutEntry(w, tree[n])]]
<1>1. \A w : \A n \in 1 .. N : One(w, n) = PutEntry(w, tree[n])
  <2> SUFFICES ASSUME NEW w, NEW n \in 1 .. N PROVE One(w, n) = PutEntry(w, tree[n])
    OBVIOUS
  <2> DEFINE G(v) == PutEntry(v, tree[n])
  <2>1. One(w, n) = CHOOSE result \in {G(v) : v \in {w}} : TRUE
    BY Zenon DEF Bind
  <2>2. (CHOOSE result \in {G(v) : v \in {w}} : TRUE) = G(w)
    <3> HIDE DEF G, One
    <3> QED
      OBVIOUS
  <2> HIDE DEF One
  <2> QED
    BY <2>1, <2>2, Zenon
<1>2. Built(io, tree) = R[N]
  BY Zenon DEF Built, Repeat, Bind
<1>3. \A n \in 1 .. N : \A w \in S : g[n][w] \in S /\ g[n][w] = PutEntry(w, tree[n])
  OBVIOUS
<1>4. g \in [1 .. N -> [S -> S]]
  BY <1>3
<1> HIDE DEF g, One
<1>5. \E f : IsRun(f)
  <2>1. PICK f : Run(f, S, N, from, g)
    BY <1>4, Iterates
  <2>2. f \in [0 .. N -> S] /\ f[0] = from /\ \A n \in 1 .. N : f[n] = g[n][f[n - 1]]
    BY <2>1 DEF Run
  <2>3. \A n \in 1 .. N : f[n] = One(f[n - 1], n)
    <3> SUFFICES ASSUME NEW n \in 1 .. N PROVE f[n] = One(f[n - 1], n)
      OBVIOUS
    <3>0. n - 1 \in 0 .. N
      OBVIOUS
    <3>1. f[n - 1] \in S
      BY <2>2, <3>0, Zenon
    <3>2. One(f[n - 1], n) = PutEntry(f[n - 1], tree[n])
      BY <1>1, Zenon
    <3>3. g[n][f[n - 1]] = PutEntry(f[n - 1], tree[n])
      BY <3>1, <1>3, Zenon
    <3>4. f[n] = g[n][f[n - 1]]
      BY <2>2, Zenon
    <3> QED
      BY <3>2, <3>3, <3>4, Zenon
  <2>4. IsRun(f)
    BY <2>2, <2>3
  <2> QED
    BY <2>4, Zenon
<1>6. IsRun(R)
  <2> HIDE DEF IsRun
  <2> QED
    BY <1>5, Zenon
<1> HIDE DEF R
<1>7. R[0] = from /\ \A n \in 1 .. N : R[n] = PutEntry(R[n - 1], tree[n])
  BY <1>1, <1>6
<1> HIDE DEF IsRun
<1>8. 0 .. N \subseteq {n \in 0 .. N : R[n] \in S}
  <2> DEFINE T == {n \in 0 .. N : R[n] \in S}
  <2>1. 0 \in T
    BY <1>7
  <2>2. \A n \in 1 .. N : n - 1 \in T => n \in T
    BY <1>7
  <2> HIDE DEF T
  <2> QED
    BY <2>1, <2>2, Induct DEF T
<1>9. R[N] \in S
  BY <1>8
<1> QED
  BY <1>2, <1>9

(* The values of the bytes that the commands can write.                    *)
ValuesOf(data) == {data[i].value : i \in DOMAIN data}

DataOf(tree) == {tree[n].data : n \in DOMAIN tree}

AllData == Files \cup UNION {DataOf(tree) : tree \in Trees}

Values == UNION {ValuesOf(data) : data \in AllData}

(* The data of commands are sequences of bytes with such values.           *)
LEMMA ValuesAre ==
  ASSUME NEW data \in AllData, IsData(data)
  PROVE  data \in Seq(Bytes(Values))
<1>1. \A v \in ValuesOf(data) : v \in Values
  BY DEF Values
<1>2. \A i \in DOMAIN data : data[i].value \in Values
  BY <1>1 DEF ValuesOf
<1> QED
  BY <1>2, DataIs

(* So are the entries of a scan,                                           *)
LEMMA ScansAre ==
  ASSUME NEW tree \in Trees
  PROVE  Len(tree) \in Nat /\ \A n \in 1 .. Len(tree) : Scanned(Values, Range(tree), tree[n])
<1>1. PICK R : R = Range(tree)
  OBVIOUS
<1>2. tree \in Seq(R) /\ \A n \in DOMAIN tree : IsScanned(tree[n])
  BY <1>1, HostAssumption
<1>3. ASSUME NEW n \in 1 .. Len(tree)
      PROVE  Scanned(Values, R, tree[n])
  <2>1. n \in DOMAIN tree /\ tree[n] \in R
    BY <1>2
  <2>2. IsScanned(tree[n])
    BY <1>2, <2>1
  <2>3. PICK data : data = tree[n].data
    OBVIOUS
  <2>4. data \in DataOf(tree)
    BY <2>1, <2>3 DEF DataOf
  <2>5. data \in AllData
    BY <2>4 DEF AllData
  <2>6. data \in Seq(Bytes(Values))
    BY <2>2, <2>3, <2>5, ValuesAre DEF IsScanned
  <2> QED
    BY <2>1, <2>2, <2>3, <2>6 DEF Scanned, IsScanned
<1> QED
  BY <1>1, <1>2, <1>3

(* and the files that add is given.                                        *)
LEMMA FilesAre ==
  ASSUME NEW data \in Files
  PROVE  data \in Seq(Bytes(Values))
BY HostAssumption, ValuesAre DEF AllData

(* A command opens the image again, and reads the count of free sectors    *)
(* from it.                                                                *)
LEMMA Reopened ==
  ASSUME NEW V, NEW io, Sound(V, io)
  PROVE  Sound(V, Start(io.disk, io.disk.super.free_sectors))
<1>1. PICK L : Fine(V, io, L, {Repeats}) /\ L[TakenAt] = <<>>
  BY DEF Sound
<1>2. /\ io.disk \in Disks(Contents(V)) /\ Counted(io)
      /\ Laid(io.disk.fat, L) /\ Tidy(io.disk.sector, L, {Repeats})
  BY <1>1, IOsAre DEF Fine
<1>3. io.free_sectors \in Int /\ io.disk.super.free_sectors = io.free_sectors
  BY <1>1, <1>2, IOsAre DEF Counted, Fine
<1>4. PICK to : to = Start(io.disk, io.disk.super.free_sectors)
  OBVIOUS
<1>5. to.disk = io.disk /\ to.free_sectors = io.free_sectors
  BY <1>3, <1>4 DEF Start
<1>6. to \in IOs(Contents(V))
  <2>1. <<>> \in Seq(SectorWrites(Contents(V)))
    OBVIOUS
  <2> QED
    BY <1>2, <1>3, <1>4, <2>1 DEF Start, IOs
<1>7. Fine(V, to, L, {Repeats})
  BY <1>2, <1>5, <1>6 DEF Fine, Counted
<1> QED
  BY <1>1, <1>4, <1>7 DEF Sound

(* The invariant between commands.                                         *)
Consistent == Sound(Values, Image)

(* A new image is in order.                                                *)
LEMMA NewImage ==
  ASSUME Init
  PROVE  Consistent
<1>1. PICK io : io = Image
  OBVIOUS
<1>2. io = Start(NewDisk, total_sectors - root_start - 1)
  BY <1>1 DEF Init, Image, NewDisk
<1>3. io.disk = NewDisk /\ io.free_sectors = total_sectors - root_start - 1
  BY <1>2 DEF Start
<1>4. io \in IOs(Contents(Values))
  <2>1. Blank \in Contents(Values)
    BY BlankIs
  <2>2. total_sectors - root_start - 1 \in Int /\ FAT_FREE \in Marks
    BY DiskAssumption DEF Marks
  <2>3. NewDisk \in Disks(Contents(Values))
    BY <2>1, <2>2 DEF NewDisk, Disks
  <2>4. <<>> \in Seq(SectorWrites(Contents(Values)))
    OBVIOUS
  <2> QED
    BY <1>2, <2>2, <2>3, <2>4 DEF Start, IOs
<1>5. Counted(io)
  <2>1. NewDisk.super.free_sectors = total_sectors - root_start - 1
    BY DEF NewDisk
  <2> QED
    BY <1>3, <2>1, NewDiskCounted DEF Counted
<1>6. Fine(Values, io, NewLay, {Repeats})
  BY <1>3, <1>4, <1>5, NewDiskLaid, NewDiskTidy DEF Fine
<1>7. NewLay[TakenAt] = <<>>
  BY NewLayIs, PlacesAre
<1> QED
  BY <1>1, <1>6, <1>7 DEF Consistent, Sound

(* What a command leaves is what the next one finds.                       *)
LEMMA Leaves ==
  ASSUME NEW io, Sound(Values, io), NEW reports, Leave(io, reports)
  PROVE  Consistent'
<1>1. Sound(Values, Start(io.disk, io.disk.super.free_sectors))
  BY Reopened
<1>2. disk' = io.disk
  BY DEF Leave
<1>3. Image' = Start(io.disk, io.disk.super.free_sectors)
  BY <1>2 DEF Image
<1> QED
  BY <1>1, <1>3 DEF Consistent

(* mkdir keeps the image in order.                                         *)
LEMMA MkdirStep ==
  ASSUME Consistent, NEW path \in MkdirPaths, Mkdir(path)
  PROVE  Consistent'
<1>1. PICK io : io = Image
  OBVIOUS
<1>2. PICK L : Fine(Values, io, L, {Repeats}) /\ L[TakenAt] = <<>>
  BY <1>1 DEF Consistent, Sound
<1>3. path \in Seq(Names) \ {<<>>}
  BY HostAssumption
<1>4. PICK made : made = mkdir(io, path)
  OBVIOUS
<1>5. PICK M : Kept(Values, {Repeats}, io, L, made.io, M)
  BY <1>2, <1>3, <1>4, MkdirKeeps
<1>6. Sound(Values, made.io)
  BY <1>5 DEF Kept, Sound
<1>7. \E reports : Leave(made.io, reports)
  BY <1>1, <1>4, Zenon DEF Mkdir
<1> QED
  BY <1>6, <1>7, Leaves

(* create --from does, whatever it finds on the host and however much of   *)
(* it fits.                                                                *)
LEMMA FromHostStep ==
  ASSUME Consistent, NEW tree \in Trees, FromHost(tree)
  PROVE  Consistent'
<1>1. PICK io : io = Image
  OBVIOUS
<1>2. PICK S : S = Works(Values, Range(tree))
  OBVIOUS
<1>3. Fresh(io) \in S
  <2>1. Sound(Values, io)
    BY <1>1 DEF Consistent
  <2>2. PICK no : no = FALSE
    OBVIOUS
  <2>3. no \in BOOLEAN /\ {} \in SUBSET Range(tree)
    BY <2>2
  <2>4. Work(io, {}, no) \in Works(Values, Range(tree))
    BY <2>1, <2>3, WorkIs
  <2> QED
    BY <1>2, <2>2, <2>4 DEF Fresh
<1>4. Len(tree) \in Nat /\ \A n \in 1 .. Len(tree) : Scanned(Values, Range(tree), tree[n])
  BY ScansAre
<1>5. \A w \in S : \A n \in 1 .. Len(tree) : PutEntry(w, tree[n]) \in S
  BY <1>2, <1>4, PutsEntry
<1>6. Built(io, tree) \in S
  BY <1>3, <1>4, <1>5, TreeLoops
<1>7. PICK work : work = Built(io, tree) /\ Leave(work.io, work.reports)
  <2>1. \E work \in {Built(Image, tree)} : Leave(work.io, work.reports)
    BY Zenon DEF FromHost, Built, Fresh
  <2> QED
    BY <1>1, <2>1
<1>8. Sound(Values, work.io)
  BY <1>2, <1>6, <1>7 DEF Works
<1> QED
  BY <1>7, <1>8, Leaves

(* add finds a slot in the whole root directory but writes the entry to    *)
(* that slot of its first sector (setDirEntry).  It does what it should as *)
(* long as that is where the slot is.                                      *)
AddFits(name, data) ==
    Add(name, data) => dir_find_free_in(Image, root_start).place.sector = root_start

AddsFit == \A name \in AddNames, data \in Files : AddFits(name, data)

(* So that add keeps the image in order then.                              *)
LEMMA AddStep ==
  ASSUME Consistent, NEW name \in AddNames, NEW data \in Files, Add(name, data), AddFits(name, data)
  PROVE  Consistent'
<1>1. PICK io : io = Image
  OBVIOUS
<1>2. PICK L : Fine(Values, io, L, {Repeats}) /\ L[TakenAt] = <<>>
  BY <1>1 DEF Consistent, Sound
<1>3. RootAt \in Dirs(io.disk.sector) /\ FirstOf(L, RootAt) = root_start
  BY <1>2, DirsAre DEF Fine, Laid, FirstOf
<1>4. name \in Names /\ data \in Seq(Bytes(Values))
  BY HostAssumption, FilesAre
<1>5. PICK at : at = dir_find_free_in(io, root_start)
  OBVIOUS
<1>6. PICK file : file = writeFile(at.io, data)
  OBVIOUS
<1>7. /\ at.place.found /\ at.place.sector = root_start
      /\ IF file.failed THEN Leave(file.io, {})
         ELSE Leave(write_dirent_at(file.io, root_start, at.place.slot, FileEntry(name, file, data)),
                    {Report(<<name>>, FALSE, data)})
  <2>1. \E a \in {dir_find_free_in(Image, root_start)} :
          /\ a.place.found
          /\ \E f \in {writeFile(a.io, data)} :
               IF f.failed THEN Leave(f.io, {})
               ELSE Leave(write_dirent_at(f.io, root_start, a.place.slot, FileEntry(name, f, data)),
                          {Report(<<name>>, FALSE, data)})
    BY Zenon DEF Add, FileEntry
  <2>2. \E f \in {writeFile(at.io, data)} :
          /\ at.place.found
          /\ IF f.failed THEN Leave(f.io, {})
             ELSE Leave(write_dirent_at(f.io, root_start, at.place.slot, FileEntry(name, f, data)),
                        {Report(<<name>>, FALSE, data)})
    BY <1>1, <1>5, <2>1, Zenon
  <2>3. at.place.sector = root_start
    BY <1>1, <1>5 DEF AddFits
  <2> QED
    BY <1>6, <2>2, <2>3
<1>8. at # [io |-> io, place |-> NotFound]
  BY <1>7 DEF NotFound
<1>9. PICK W : W = {Repeats}
  OBVIOUS
<1>10. \E M, s, k : Room(Values, W, io, L, RootAt, at, M, s, k)
  BY <1>2, <1>3, <1>5, <1>8, <1>9, FindsRoom
<1>11. PICK M, s, k : Room(Values, {Repeats}, io, L, RootAt, at, M, s, k)
  BY <1>9, <1>10
<1>12. s = root_start /\ at.place.slot = k
  <2>1. at.place = Place(s, k, Zero)
    BY <1>11 DEF Room
  <2>2. PICK place : place = Place(s, k, Zero)
    OBVIOUS
  <2>3. place.sector = s /\ place.slot = k
    BY <2>2 DEF Place
  <2> QED
    BY <1>7, <2>1, <2>2, <2>3, Zenon
<1>13. IF file.failed THEN Sound(Values, file.io)
       ELSE Sound(Values, write_dirent_at(file.io, s, k, FileEntry(name, file, data)))
  BY <1>2, <1>3, <1>4, <1>6, <1>11, PutsFileAt
<1>14. CASE file.failed
  BY <1>7, <1>13, <1>14, Leaves
<1>15. CASE ~file.failed
  BY <1>7, <1>12, <1>13, <1>15, Leaves
<1> QED
  BY <1>14, <1>15

(* Each command, and doing nothing.                                        *)
LEMMA StepsStayConsistent ==
  ASSUME Consistent, [Next]_toolVars, [AddsFit]_toolVars
  PROVE  Consistent'
<1>1. CASE UNCHANGED toolVars
  BY <1>1 DEF toolVars, Consistent, Image
<1>2. ASSUME NEW name \in AddNames, NEW data \in Files, Add(name, data), AddsFit
      PROVE  Consistent'
  BY <1>2, AddStep DEF AddsFit
<1>3. ASSUME NEW path \in MkdirPaths, Mkdir(path)
      PROVE  Consistent'
  BY <1>3, MkdirStep
<1>4. ASSUME NEW tree \in Trees, FromHost(tree)
      PROVE  Consistent'
  BY <1>4, FromHostStep
<1> QED
  BY <1>1, <1>2, <1>3, <1>4 DEF Next

(* The entries that SectorsAccounted speaks of are those of the disk.      *)
LEMMA PlacedAre ==
  ASSUME NEW V, NEW L, NEW W, Fine(V, Image, L, W)
  PROVE  /\ \A place \in PlacedEntries : \E s \in Sectors, k \in CellIndex :
              place = Cell(Image, s, k) /\ IsEntry(Image.disk.sector[s][k])
         /\ \A s \in Sectors, k \in CellIndex :
              IsEntry(Image.disk.sector[s][k]) => Cell(Image, s, k) \in PlacedEntries
<1>1. PICK io : io = Image
  OBVIOUS
<1>2. Fine(V, io, L, W)
  BY <1>1
<1>3. {x.first : x \in DirectoryTree(io)} = Heads(io, L)
  BY <1>2, TreeIs
<1>4. PlacedEntries = UNION {Entries(io, x.first) : x \in DirectoryTree(io)}
  BY <1>1, Zenon DEF PlacedEntries
<1>5. ASSUME NEW place \in PlacedEntries
      PROVE  \E s \in Sectors, k \in CellIndex : place = Cell(io, s, k) /\ IsEntry(io.disk.sector[s][k])
  <2>1. PICK x \in DirectoryTree(io) : place \in Entries(io, x.first)
    BY <1>4
  <2>2. x.first \in Heads(io, L)
    BY <1>3
  <2>3. PICK d \in Dirs(io.disk.sector) : x.first = FirstOf(L, d)
    BY <2>2 DEF Heads
  <2>4. PICK s \in On(L, d), k \in CellIndex :
           s \in Sectors /\ place = Cell(io, s, k) /\ IsEntry(io.disk.sector[s][k])
    BY <1>2, <2>1, <2>3, EntriesAre
  <2> QED
    BY <2>4
<1>6. ASSUME NEW s \in Sectors, NEW k \in CellIndex, IsEntry(io.disk.sector[s][k])
      PROVE  Cell(io, s, k) \in PlacedEntries
  <2>1. PICK d \in Dirs(io.disk.sector) : s \in On(L, d)
    BY <1>2, <1>6 DEF Fine, Tidy
  <2>2. Cell(io, s, k) \in Entries(io, FirstOf(L, d))
    BY <1>2, <1>6, <2>1, EntriesAre
  <2>3. FirstOf(L, d) \in Heads(io, L)
    BY DEF Heads
  <2>4. PICK x \in DirectoryTree(io) : x.first = FirstOf(L, d)
    BY <1>3, <2>3
  <2> QED
    BY <1>4, <2>2, <2>4
<1> QED
  BY <1>1, <1>5, <1>6

(* An entry, its place, and the sectors it uses.                           *)
UsesOf(place, L, s, k) ==
    /\ s \in Sectors /\ k \in CellIndex /\ <<s, k>> \in Places
    /\ place = Cell(Image, s, k) /\ IsEntry(Image.disk.sector[s][k])
    /\ UsedSectors(place.entry.first_sector) = On(L, <<s, k>>)

(* Each entry has the sectors of its place, as the FAT links them.         *)
LEMMA UsedAre ==
  ASSUME NEW V, NEW L, Fine(V, Image, L, {Repeats})
  PROVE  /\ \A p \in Places : UsedSectors(FirstOf(L, p)) = On(L, p)
         /\ \A place \in PlacedEntries : \E s, k : UsesOf(place, L, s, k)
<1>1. PICK io : io = Image
  OBVIOUS
<1>2. Fine(V, io, L, {Repeats}) /\ Laid(io.disk.fat, L) /\ L \in [Places -> Seq(Sectors)]
  BY <1>1 DEF Fine, Laid
<1>3. ASSUME NEW p \in Places
      PROVE  UsedSectors(FirstOf(L, p)) = On(L, p)
  <2>1. Chain(io, FirstOf(L, p)) = L[p]
    BY <1>2, LaidIsChain
  <2>2. DOMAIN L[p] = 1 .. Len(L[p])
    BY <1>2
  <2> QED
    BY <1>1, <2>1, <2>2 DEF UsedSectors, ToSet, On, Items
<1>4. ASSUME NEW place \in PlacedEntries
      PROVE  \E s, k : UsesOf(place, L, s, k)
  <2>1. PICK s \in Sectors, k \in CellIndex : place = Cell(Image, s, k) /\ IsEntry(Image.disk.sector[s][k])
    BY PlacedAre
  <2>2. <<s, k>> \in Places /\ <<s, k>> # Repeats
    <3>1. s # NO_SECTOR
      BY SectorsAre DEF EndsChain
    <3> QED
      BY <3>1, PlacesAre DEF Repeats, CellIndex
  <2>3. io.disk.sector[s][k].first_sector = FirstOf(L, <<s, k>>)
    BY <1>1, <1>2, <2>1, <2>2 DEF Fine, Tidy
  <2>4. place.entry = io.disk.sector[s][k]
    BY <1>1, <2>1 DEF Cell, Place
  <2>5. UsedSectors(place.entry.first_sector) = On(L, <<s, k>>)
    BY <1>3, <2>2, <2>3, <2>4
  <2>6. UsesOf(place, L, s, k)
    BY <2>1, <2>2, <2>5 DEF UsesOf
  <2> QED
    BY <2>6
<1> QED
  BY <1>3, <1>4

(* So that the invariant says where every sector is.                       *)
LEMMA ConsistentAccounts ==
  ASSUME Consistent
  PROVE  SectorsAccounted
<1> DEFINE used == [place \in PlacedEntries |-> UsedSectors(place.entry.first_sector)]
           taken == UsedSectors(root_start) \cup UNION Range(used)
           free == {s \in DataSectors : fat_read(Image, s) = FAT_FREE}
<1>1. PICK L : Fine(Values, Image, L, {Repeats}) /\ L[TakenAt] = <<>>
  BY DEF Consistent, Sound
<1>2. Laid(Image.disk.fat, L) /\ L \in [Places -> Seq(Sectors)] /\ Counted(Image)
  BY <1>1 DEF Fine, Laid
<1>3. RootAt \in Places /\ UsedSectors(root_start) = On(L, RootAt)
  <2>1. FirstOf(L, RootAt) = root_start
    BY <1>2 DEF Laid, FirstOf
  <2> QED
    BY <1>1, <2>1, UsedAre, PlacesAre
<1>4. \A p \in PlacedEntries : used[p] = UsedSectors(p.entry.first_sector)
  OBVIOUS
<1>5. \A t : t \in UNION Range(used) <=> \E p \in PlacedEntries : t \in used[p]
  BY DEF Range
<1>6. free = FreeIn(Image.disk.fat)
  BY SectorsAre DEF fat_read, FreeIn
<1> HIDE DEF used, free
<1>7. ASSUME NEW p \in PlacedEntries
      PROVE  used[p] \cap UsedSectors(root_start) = {}
  <2>1. PICK s, k : UsesOf(p, L, s, k)
    BY <1>1, UsedAre
  <2>2. used[p] = On(L, <<s, k>>) /\ <<s, k>> \in Places /\ <<s, k>> # RootAt
    BY <1>4, <2>1, PlacesAre DEF UsesOf, CellIndex
  <2> QED
    BY <1>2, <1>3, <2>2, OnDisjoint
<1>8. ASSUME NEW p \in PlacedEntries, NEW q \in PlacedEntries, p # q
      PROVE  used[p] \cap used[q] = {}
  <2>1. PICK s, k : UsesOf(p, L, s, k)
    BY <1>1, UsedAre
  <2>2. PICK t, j : UsesOf(q, L, t, j)
    BY <1>1, UsedAre
  <2>3. <<s, k>> # <<t, j>>
    BY <1>8, <2>1, <2>2 DEF UsesOf
  <2>4. used[p] = On(L, <<s, k>>) /\ used[q] = On(L, <<t, j>>) /\ <<s, k>> \in Places /\ <<t, j>> \in Places
    BY <1>4, <2>1, <2>2 DEF UsesOf
  <2> QED
    BY <1>2, <2>3, <2>4, OnDisjoint
<1>9. ASSUME NEW x \in free
      PROVE  x \in DataSectors \ taken
  <2>1. x \in DataSectors /\ x \in FreeIn(Image.disk.fat)
    BY <1>6 DEF FreeIn
  <2>2. \A p \in Places : x \notin On(L, p)
    BY <1>2, <2>1, FreeIsUnused DEF On, Items
  <2>3. ASSUME NEW p \in PlacedEntries
        PROVE  x \notin used[p]
    <3>1. PICK s, k : UsesOf(p, L, s, k)
      BY <1>1, UsedAre
    <3> QED
      BY <1>4, <2>2, <3>1 DEF UsesOf
  <2> QED
    BY <1>3, <1>5, <2>1, <2>2, <2>3
<1>10. ASSUME NEW x \in DataSectors, x \notin taken
       PROVE  x \in free
  <2> SUFFICES ASSUME Image.disk.fat[x] # FAT_FREE PROVE FALSE
    BY <1>6 DEF FreeIn
  <2>1. PICK p \in Places : \E i \in 1 .. Len(L[p]) : L[p][i] = x
    BY <1>2 DEF Laid
  <2>2. x \in On(L, p) /\ L[p] # <<>>
    BY <1>2, <2>1 DEF On, Items
  <2>3. p # RootAt
    BY <1>3, <1>10, <2>2
  <2>4. p # TakenAt
    BY <1>1, <2>2
  <2>5. PICK s \in Sectors, k \in CellIndex : p = <<s, k>>
    BY <2>3, <2>4, PlacesAre DEF CellIndex
  <2>6. IsEntry(Image.disk.sector[s][k])
    BY <1>1, <2>2, <2>5 DEF Fine, Tidy
  <2>7. PICK place \in PlacedEntries : place = Cell(Image, s, k)
    BY <1>1, <2>6, PlacedAre
  <2>8. PICK t, j : UsesOf(place, L, t, j)
    BY <1>1, UsedAre
  <2>9. t = s /\ j = k
    BY <2>7, <2>8 DEF UsesOf, Cell, Place
  <2>10. used[place] = On(L, p)
    BY <1>4, <2>5, <2>8, <2>9 DEF UsesOf
  <2> QED
    BY <1>5, <1>10, <2>2, <2>10
<1>11. free = DataSectors \ taken
  <2>1. free \subseteq DataSectors
    BY <1>6 DEF FreeIn
  <2> QED
    BY <1>9, <1>10, <2>1
<1>12. disk.super.free_sectors = Cardinality(free)
  <2>1. Image.disk = disk
    BY DEF Image, Start
  <2> QED
    BY <1>2, <1>6, <2>1 DEF Counted
<1> HIDE DEF taken
<1> QED
  BY <1>7, <1>8, <1>11, <1>12 DEF SectorsAccounted, used, taken, free

(* Every sector of an image belongs to one file or directory or is free,   *)
(* and the superblock says how many are: after any commands in any order,  *)
(* also those that failed half way, for every size of disk and of sector   *)
(* and whatever is copied from the host, as long as add finds its slot in  *)
(* the first sector of the root directory.                                 *)
THEOREM AccountsForSectors == Spec /\ [][AddsFit]_toolVars => []SectorsAccounted
<1>1. Init => Consistent
  BY NewImage
<1>2. Consistent /\ [Next]_toolVars /\ [AddsFit]_toolVars => Consistent'
  BY StepsStayConsistent
<1>3. Consistent => SectorsAccounted
  BY ConsistentAccounts
<1> QED
  BY <1>1, <1>2, <1>3, PTL DEF Spec
=============================================================================

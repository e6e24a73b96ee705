---------------------------- MODULE QfsDiskProofs ---------------------------
(***************************************************************************)
(* What the operations on a QFS disk do, for every size of disk: which     *)
(* sectors a chain has, what allocating, linking and freeing do to the     *)
(* chains and to the count of free sectors, and that finding, making and   *)
(* deleting entries keeps counts, chains and the directory tree agreed.    *)
(***************************************************************************)
EXTENDS QfsDisk, TLAPS, FiniteSetTheorems, WellFoundedInduction

(* What an entry of the FAT can hold, and where a walk along the FAT can   *)
(* be.                                                                     *)
Marks == DataSectors \cup {FAT_END, FAT_FREE}
Cursors == Sectors \cup {FAT_END, FAT_FREE}

(* One step of the recursion that Chain is defined by.                     *)
Longer(io, from, steps) ==
    [s \in Cursors |->
        IF EndsChain(s) \/ steps = 0 THEN <<>>
        ELSE <<s>> \o from[steps - 1][fat_read(io, s)]]

(* A set of numbers has a least one.                                       *)
LEMMA Least ==
  ASSUME NEW S, S \subseteq Nat, S # {}
  PROVE  \E m \in S : \A k \in S : m <= k
<1> DEFINE R == OpToRel(<, Nat)
<1>1. PICK m \in S : \A k \in S : ~ (<<k, m>> \in R)
  <2>1. IsWellFoundedOn(R, Nat)
    BY NatLessThanWellFounded DEF OpToRel
  <2> HIDE DEF R
  <2> QED
    BY <2>1, WFMin
<1>2. \A k \in S : ~ (k < m)
  BY <1>1 DEF OpToRel
<1> QED
  BY <1>2

(* What holds of 0 and is passed on to the next number holds of every      *)
(* number up to N.                                                         *)
LEMMA Induct ==
  ASSUME NEW N \in Nat, NEW T, 0 \in T, \A n \in 1 .. N : n - 1 \in T => n \in T
  PROVE  0 .. N \subseteq T
<1> SUFFICES ASSUME (0 .. N) \ T # {} PROVE FALSE
  OBVIOUS
<1>1. PICK m \in (0 .. N) \ T : \A k \in (0 .. N) \ T : m <= k
  <2> DEFINE S == (0 .. N) \ T
  <2>1. S \subseteq Nat /\ S # {}
    OBVIOUS
  <2> HIDE DEF S
  <2>2. \E m \in S : \A k \in S : m <= k
    BY <2>1, Least
  <2> QED
    BY <2>2 DEF S
<1>2. m \in 1 .. N /\ m - 1 \in 0 .. N
  BY <1>1
<1> QED
  BY <1>1, <1>2

(* The function that the recursion of Chain describes exists: TLA+ chooses *)
(* one by its equation, and the choice is only known to satisfy the        *)
(* equation when some function does.                                       *)
LEMMA WalkExists ==
  ASSUME NEW io, NEW N \in Nat
  PROVE  \E from : from = [steps \in 0 .. N |-> Longer(io, from, steps)]
<1> DEFINE Walk(from, n) == from = [steps \in 0 .. n |-> Longer(io, from, steps)]
           T == {n \in 0 .. N : \E from : Walk(from, n)}
<1>1. 0 \in T
  <2> DEFINE f == [steps \in 0 .. 0 |-> [s \in Cursors |-> <<>>]]
  <2>1. Walk(f, 0)
    BY DEF Longer
  <2> QED
    BY <2>1
<1>2. ASSUME NEW n \in 1 .. N, n - 1 \in T
      PROVE  n \in T
  <2>1. PICK f : Walk(f, n - 1)
    BY <1>2
  <2> DEFINE g == [steps \in 0 .. n |-> IF steps = n THEN Longer(io, f, n) ELSE f[steps]]
  <2>2. ASSUME NEW steps \in 0 .. n
        PROVE  g[steps] = Longer(io, g, steps)
    <3>1. CASE steps = 0
      BY <3>1, <2>1, <1>2 DEF Longer
    <3>2. CASE steps \in 1 .. n
      <4>1. g[steps] = Longer(io, f, steps)
        BY SMTT(60), <3>2, <2>1, <1>2
      <4>2. g[steps - 1] = f[steps - 1]
        BY <3>2, <1>2
      <4> QED
        BY <4>1, <4>2 DEF Longer
    <3> QED
      BY <3>1, <3>2
  <2>3. Walk(g, n)
    BY <2>2
  <2> HIDE DEF g
  <2>4. \E from : Walk(from, n)
    BY <2>3, Zenon
  <2> HIDE DEF Walk
  <2> QED
    BY <1>2, <2>4
<1> HIDE DEF T
<1>3. 0 .. N \subseteq T
  BY <1>1, <1>2, Induct
<1> QED
  BY <1>3 DEF T

(* So that a chain is what walking the FAT one link at a time gives (the   *)
(* loops of fat_free, file_open and load_buffer over fat_read).            *)
LEMMA ChainWalk ==
  ASSUME NEW io, NEW first
  PROVE  \E from : /\ \A steps \in 0 .. total_sectors : from[steps] = Longer(io, from, steps)
                   /\ Chain(io, first) = from[total_sectors][first]
<1> DEFINE F == CHOOSE from : from = [steps \in 0 .. total_sectors |-> Longer(io, from, steps)]
<1>1. F = [steps \in 0 .. total_sectors |-> Longer(io, F, steps)]
  BY WalkExists, DiskAssumption, Zenon
<1>2. Chain(io, first) = F[total_sectors][first]
  BY Zenon DEF Chain, Longer, Cursors
<1> HIDE DEF F
<1>3. \A steps \in 0 .. total_sectors : F[steps] = Longer(io, F, steps)
  BY <1>1
<1> QED BY <1>3, <1>2

(* The sectors q are linked from `first' on, each to the next, up to one   *)
(* that is the end of a chain; no sector occurs twice.                     *)
IsPath(fat, first, q) ==
    /\ q \in Seq(Sectors) /\ q # <<>> /\ q[1] = first
    /\ \A i \in 1 .. Len(q) - 1 : q[i + 1] = fat[q[i]]
    /\ EndsChain(fat[q[Len(q)]])
    /\ \A i, j \in 1 .. Len(q) : q[i] = q[j] => i = j

(* The sectors that the model keeps are those from the root directory on.  *)
LEMMA SectorsAre ==
  /\ IsFiniteSet(Sectors) /\ Cardinality(Sectors) = total_sectors - root_start
  /\ Cardinality(Sectors) \in Nat
  /\ Sectors \subseteq Nat /\ DataSectors \subseteq Sectors /\ root_start \in Sectors
  /\ \A s \in Sectors : ~EndsChain(s)
  /\ total_sectors \in Nat /\ root_start \in Nat /\ root_start >= 2
<1>1. root_start \in Nat /\ total_sectors \in Nat /\ root_start >= 2 /\ total_sectors > root_start + 1
  BY DiskAssumption
<1>2. IsFiniteSet(Sectors) /\ Cardinality(Sectors) = total_sectors - root_start
  BY <1>1, FS_Interval DEF Sectors
<1> QED
  BY <1>1, <1>2 DEF Sectors, DataSectors, EndsChain, FAT_END, FAT_FREE, NO_SECTOR

(* A sequence of sectors without repetitions is no longer than the disk: a *)
(* walk of total_sectors steps sees all of it.                             *)
LEMMA DistinctIsShort ==
  ASSUME NEW k \in Nat, NEW q \in [1 .. k -> Sectors], \A i, j \in 1 .. k : q[i] = q[j] => i = j
  PROVE  k <= total_sectors - root_start
<1> SUFFICES ASSUME k > total_sectors - root_start PROVE FALSE
  BY SectorsAre
<1>1. IsFiniteSet(1 .. k) /\ Cardinality(1 .. k) = k
  BY FS_Interval
<1>2. \E x, y \in 1 .. k : x # y /\ q[x] = q[y]
  BY <1>1, SectorsAre, FS_PigeonHole
<1> QED
  BY <1>2

(* A sequence with one sector put before it.                               *)
LEMMA Prepended ==
  ASSUME NEW S, NEW s \in S, NEW t \in Seq(S), NEW u \in Seq(S), Len(u) = Len(t) + 1, u[1] = s,
         \A i \in 1 .. Len(t) : u[i + 1] = t[i]
  PROVE  <<s>> \o t = u
<1>1. <<s>> \o t \in Seq(S) /\ Len(<<s>> \o t) = Len(t) + 1
  OBVIOUS
<1>2. ASSUME NEW i \in 1 .. Len(t) + 1
      PROVE  (<<s>> \o t)[i] = u[i]
  <2>1. CASE i = 1
    BY <2>1
  <2>2. CASE i \in 2 .. Len(t) + 1
    <3>1. (<<s>> \o t)[i] = t[i - 1] /\ i - 1 \in 1 .. Len(t)
      BY <2>2
    <3>2. u[i - 1 + 1] = t[i - 1]
      BY <3>1
    <3> QED
      BY <3>1, <3>2, <2>2
  <2> QED
    BY <2>1, <2>2
<1> QED
  BY <1>1, <1>2

(* A walk ends at a mark, and else takes the sector and goes on from its   *)
(* link.                                                                   *)
LEMMA WalkStep ==
  ASSUME NEW io, NEW from,
         \A steps \in 0 .. total_sectors : from[steps] = Longer(io, from, steps)
  PROVE  /\ \A steps \in 0 .. total_sectors : \A s \in Cursors : EndsChain(s) => from[steps][s] = <<>>
         /\ \A steps \in 1 .. total_sectors : \A s \in Sectors :
              from[steps][s] = <<s>> \o from[steps - 1][fat_read(io, s)]
<1>1. ASSUME NEW steps \in 0 .. total_sectors, NEW s \in Cursors
      PROVE  from[steps][s] = IF EndsChain(s) \/ steps = 0 THEN <<>>
                              ELSE <<s>> \o from[steps - 1][fat_read(io, s)]
  BY DEF Longer
<1>2. \A s \in Sectors : s \in Cursors /\ ~EndsChain(s)
  BY SectorsAre DEF Cursors
<1>3. \A steps \in 1 .. total_sectors : steps \in 0 .. total_sectors /\ steps # 0
  OBVIOUS
<1> QED
  BY <1>1, <1>2, <1>3

(* The chain of a sector is the path that starts there, if one does.       *)
LEMMA PathIsChain ==
  ASSUME NEW io, NEW fat, fat = io.disk.fat, fat \in [Sectors -> Marks],
         NEW first, NEW q, IsPath(fat, first, q)
  PROVE  Chain(io, first) = q
<1> DEFINE k == Len(q)
           Rest(i) == [m \in 1 .. k - i + 1 |-> q[i + m - 1]]
<1>1. /\ k \in Nat /\ k >= 1 /\ q \in [1 .. k -> Sectors] /\ k <= total_sectors
      /\ \A i \in 1 .. k - 1 : q[i + 1] = fat[q[i]]
      /\ EndsChain(fat[q[k]]) /\ q[1] = first
  BY DistinctIsShort, SectorsAre DEF IsPath
<1>2. PICK from : /\ \A steps \in 0 .. total_sectors : from[steps] = Longer(io, from, steps)
                  /\ Chain(io, first) = from[total_sectors][first]
  BY ChainWalk
<1> HIDE DEF k
<1>3. /\ \A steps \in 0 .. total_sectors : \A s \in Cursors : EndsChain(s) => from[steps][s] = <<>>
      /\ \A steps \in 1 .. total_sectors : \A s \in Sectors :
           from[steps][s] = <<s>> \o from[steps - 1][fat_read(io, s)]
  BY <1>2, WalkStep
<1>4. \A i \in 1 .. k : q[i] \in Sectors /\ fat_read(io, q[i]) = fat[q[i]] /\ fat[q[i]] \in Cursors
  BY <1>1, SectorsAre DEF fat_read, Marks, Cursors
<1> DEFINE Known(n) == \A steps \in n + 1 .. total_sectors : from[steps][q[k - n]] = Rest(k - n)
           T == {n \in 0 .. k - 1 : Known(n)}
<1>5. 0 \in T
  <2> SUFFICES ASSUME NEW steps \in 1 .. total_sectors
               PROVE  from[steps][q[k]] = Rest(k)
    BY <1>1
  <2>1. from[steps - 1][fat[q[k]]] = <<>>
    <3>1. steps - 1 \in 0 .. total_sectors /\ fat[q[k]] \in Cursors /\ EndsChain(fat[q[k]])
      BY <1>1, <1>4, SectorsAre
    <3> QED
      BY <3>1, <1>3
  <2>2. from[steps][q[k]] = <<q[k]>>
    <3>1. q[k] \in Sectors /\ fat_read(io, q[k]) = fat[q[k]]
      BY <1>1, <1>4
    <3>2. from[steps][q[k]] = <<q[k]>> \o from[steps - 1][fat[q[k]]]
      BY <1>3, <3>1
    <3> QED
      BY <3>2, <2>1
  <2>3. Rest(k) = <<q[k]>>
    BY <1>1
  <2> QED
    BY <2>2, <2>3
<1>6. ASSUME NEW n \in 1 .. k - 1, n - 1 \in T
      PROVE  n \in T
  <2> SUFFICES ASSUME NEW steps \in n + 1 .. total_sectors
               PROVE  from[steps][q[k - n]] = Rest(k - n)
    <3>1. n \in 0 .. k - 1
      BY <1>1
    <3> HIDE DEF Rest
    <3> QED
      BY <3>1
  <2>1. k - n \in 1 .. k - 1 /\ k - n + 1 \in 1 .. k /\ steps - 1 \in n .. total_sectors
    BY <1>1, SectorsAre
  <2>2. from[steps - 1][q[k - n + 1]] = Rest(k - n + 1)
    BY <1>1, <1>6, <2>1
  <2>3. from[steps][q[k - n]] = <<q[k - n]>> \o Rest(k - n + 1)
    <3>1. q[k - n] \in Sectors /\ fat_read(io, q[k - n]) = q[k - n + 1] /\ steps \in 1 .. total_sectors
      BY <1>1, <1>4, <2>1, SectorsAre
    <3>2. from[steps][q[k - n]] = <<q[k - n]>> \o from[steps - 1][q[k - n + 1]]
      BY <1>3, <3>1
    <3> QED
      BY <3>2, <2>2
  <2>4. <<q[k - n]>> \o Rest(k - n + 1) = Rest(k - n)
    <3>1. Rest(k - n + 1) \in Seq(Sectors) /\ Len(Rest(k - n + 1)) = n
      BY <1>1, <2>1
    <3>2. Rest(k - n) \in Seq(Sectors) /\ Len(Rest(k - n)) = n + 1
      <4>1. k - (k - n) + 1 = n + 1 /\ \A m \in 1 .. n + 1 : k - n + m - 1 \in 1 .. k
        BY <1>1, <2>1
      <4>2. Rest(k - n) = [m \in 1 .. n + 1 |-> q[k - n + m - 1]]
        BY <4>1
      <4> QED
        BY <1>1, <4>1, <4>2
    <3>3. Rest(k - n)[1] = q[k - n]
      BY <1>1, <2>1
    <3>4. \A i \in 1 .. n : Rest(k - n)[i + 1] = Rest(k - n + 1)[i]
      BY <1>1, <2>1
    <3>5. q[k - n] \in Sectors
      BY <1>1, <2>1
    <3> HIDE DEF Rest
    <3> QED
      BY <3>1, <3>2, <3>3, <3>4, <3>5, Prepended
  <2> QED
    BY <2>3, <2>4
<1> HIDE DEF T
<1>7. k - 1 \in T
  <2>1. 0 .. k - 1 \subseteq T
    <3>1. k - 1 \in Nat
      BY <1>1
    <3> QED
      BY <3>1, <1>5, <1>6, Induct
  <2> QED
    BY <2>1, <1>1
<1>8. from[total_sectors][q[1]] = Rest(1)
  BY <1>1, <1>7, SectorsAre DEF T
<1>9. Rest(1) = q
  BY <1>1
<1> QED
  BY <1>1, <1>2, <1>8, <1>9

(* No sectors hang on an end mark, on a free mark or on sector 0.          *)
LEMMA EmptyChain ==
  ASSUME NEW io, NEW first \in {FAT_END, FAT_FREE, NO_SECTOR}
  PROVE  Chain(io, first) = <<>>
<1>1. PICK from : /\ \A steps \in 0 .. total_sectors : from[steps] = Longer(io, from, steps)
                  /\ Chain(io, first) = from[total_sectors][first]
  BY ChainWalk
<1>2. first \in Cursors /\ EndsChain(first)
  BY DEF Cursors, EndsChain, NO_SECTOR, FAT_FREE
<1>3. total_sectors \in 0 .. total_sectors
  BY SectorsAre
<1>4. from[total_sectors][first] = <<>>
  <2>1. \A steps \in 0 .. total_sectors : from[steps] = Longer(io, from, steps)
    BY <1>1
  <2>2. \A steps \in 0 .. total_sectors : \A s \in Cursors : EndsChain(s) => from[steps][s] = <<>>
    <3>1. /\ \A steps \in 0 .. total_sectors : \A s \in Cursors : EndsChain(s) => from[steps][s] = <<>>
          /\ \A steps \in 1 .. total_sectors : \A s \in Sectors :
              from[steps][s] = <<s>> \o from[steps - 1][fat_read(io, s)]
      BY <2>1, WalkStep
    <3> QED BY <3>1
  <2> QED
    BY <2>2, <1>2, <1>3
<1> QED
  BY <1>1, <1>4

(* f is the run of the steps g from v0.                                    *)
Run(f, V, N, v0, g) == f \in [0 .. N -> V] /\ f[0] = v0 /\ \A n \in 1 .. N : f[n] = g[n][f[n - 1]]

(* Steps that stay within V have a run, within V: this is the loop whose   *)
(* every turn is known, and which no other definition bounds.              *)
LEMMA Iterates ==
  ASSUME NEW V, NEW N \in Nat, NEW v0 \in V,
         NEW g \in [1 .. N -> [V -> V]]
  PROVE  \E f : Run(f, V, N, v0, g)
<1> DEFINE Runs(f, k) == f \in [0 .. k -> V] /\ f[0] = v0 /\ \A n \in 1 .. k : f[n] = g[n][f[n - 1]]
           T == {k \in 0 .. N : \E f : Runs(f, k)}
<1>1. 0 \in T
  <2> DEFINE f == [n \in 0 .. 0 |-> v0]
  <2>1. Runs(f, 0)
    OBVIOUS
  <2> HIDE DEF f
  <2>2. \E h : Runs(h, 0)
    BY <2>1, Zenon
  <2> HIDE DEF Runs
  <2> QED
    BY <2>2
<1>2. ASSUME NEW k \in 1 .. N, k - 1 \in T
      PROVE  k \in T
  <2>1. PICK f : Runs(f, k - 1)
    BY <1>2
  <2> DEFINE h == [n \in 0 .. k |-> IF n = k THEN g[k][f[k - 1]] ELSE f[n]]
  <2>2. f[k - 1] \in V /\ \A n \in 0 .. k - 1 : h[n] = f[n]
    BY <1>2, <2>1
  <2>3. h[k] = g[k][h[k - 1]]
    BY <2>2
  <2>4. Runs(h, k)
    <3>1. h \in [0 .. k -> V]
      BY <1>2, <2>1, <2>2
    <3>2. h[0] = v0
      BY <2>1, <2>2
    <3>3. ASSUME NEW n \in 1 .. k PROVE h[n] = g[n][h[n - 1]]
      <4>1. CASE n = k
        BY <4>1, <2>3
      <4>2. CASE n \in 1 .. k - 1
        BY <4>2, <2>1, <2>2
      <4> QED
        BY <4>1, <4>2
    <3> QED
      BY <3>1, <3>2, <3>3
  <2> HIDE DEF h
  <2>5. \E f_1 : Runs(f_1, k)
    BY <2>4, Zenon
  <2> HIDE DEF Runs
  <2> QED
    BY <1>2, <2>5
<1> HIDE DEF T
<1>3. 0 .. N \subseteq T
  BY <1>1, <1>2, Induct
<1>4. \E f : Runs(f, N)
  <2> HIDE DEF Runs
  <2> QED
  BY <1>3 DEF T
<1> QED
  BY <1>4 DEF Run

(* The disks whose sectors have contents in C, and the writes to them.     *)
Disks(C) == [fat : [Sectors -> Marks], super : [free_sectors : Int], sector : [Sectors -> C]]

SectorWrites(C) ==
    [part : {"fat"}, at : Sectors, to : Marks]
      \cup [part : {"super"}, at : {"free_sectors"}, to : Int]
      \cup [part : {"sector"}, at : Sectors, to : C]

IOs(C) == [disk : Disks(C), writes : Seq(SectorWrites(C)), free_sectors : Int]

(* A write changes the disk as Apply says and keeps the driver's own       *)
(* count.                                                                  *)
LEMMA DoDoes ==
  ASSUME NEW C, NEW io \in IOs(C), NEW w \in SectorWrites(C), Apply(io.disk, w) \in Disks(C)
  PROVE  /\ Do(io, w) \in IOs(C)
         /\ Do(io, w).disk = Apply(io.disk, w)
         /\ Do(io, w).free_sectors = io.free_sectors
<1> DEFINE d == Apply(io.disk, w)
<1>1. d \in Disks(C)
  OBVIOUS
<1>2. Do(io, w) = [io EXCEPT !.disk = d, !.writes = Append(io.writes, w)]
  BY DEF Do
<1> HIDE DEF d
<1>3. Append(io.writes, w) \in Seq(SectorWrites(C))
  BY DEF IOs
<1>4. /\ Do(io, w) \in IOs(C) /\ Do(io, w).disk = d /\ Do(io, w).free_sectors = io.free_sectors
  BY <1>1, <1>2, <1>3 DEF IOs
<1> QED
  BY <1>4 DEF d

(* fat_write changes one entry of the FAT, and nothing else.               *)
LEMMA FatWritten ==
  ASSUME NEW C, NEW io \in IOs(C), NEW s \in Sectors, NEW v \in Marks
  PROVE  /\ fat_write(io, s, v) \in IOs(C)
         /\ fat_write(io, s, v).disk.fat = [io.disk.fat EXCEPT ![s] = v]
         /\ fat_write(io, s, v).disk.super = io.disk.super
         /\ fat_write(io, s, v).disk.sector = io.disk.sector
         /\ fat_write(io, s, v).free_sectors = io.free_sectors
<1> DEFINE w == SectorWrite("fat", s, v)
<1>1. w \in SectorWrites(C)
  BY DEF SectorWrite, SectorWrites
<1>2. Apply(io.disk, w) = [io.disk EXCEPT !.fat = [io.disk.fat EXCEPT ![s] = v]]
  BY DEF Apply, SectorWrite, IOs, Disks
<1>3. /\ Apply(io.disk, w) \in Disks(C)
      /\ Apply(io.disk, w).fat = [io.disk.fat EXCEPT ![s] = v]
      /\ Apply(io.disk, w).super = io.disk.super
      /\ Apply(io.disk, w).sector = io.disk.sector
  BY SMTT(60), <1>2 DEF IOs, Disks
<1> HIDE DEF w
<1> QED
  BY <1>1, <1>3, DoDoes DEF fat_write, w

(* write_superblock writes the count of free sectors to the disk.          *)
LEMMA SuperWritten ==
  ASSUME NEW C, NEW io \in IOs(C)
  PROVE  /\ write_superblock(io) \in IOs(C)
         /\ write_superblock(io).disk.fat = io.disk.fat
         /\ write_superblock(io).disk.super.free_sectors = io.free_sectors
         /\ write_superblock(io).disk.sector = io.disk.sector
         /\ write_superblock(io).free_sectors = io.free_sectors
<1> DEFINE w == SectorWrite("super", "free_sectors", io.free_sectors)
<1>1. w \in SectorWrites(C)
  BY DEF SectorWrite, SectorWrites, IOs
<1>2. Apply(io.disk, w) = [io.disk EXCEPT !.super = [io.disk.super EXCEPT !.free_sectors = io.free_sectors]]
  BY DEF Apply, SectorWrite, IOs, Disks
<1>3. /\ Apply(io.disk, w) \in Disks(C)
      /\ Apply(io.disk, w).super.free_sectors = io.free_sectors
      /\ Apply(io.disk, w).fat = io.disk.fat
      /\ Apply(io.disk, w).sector = io.disk.sector
  BY <1>2 DEF IOs, Disks
<1> HIDE DEF w
<1> QED
  BY <1>1, <1>3, DoDoes DEF write_superblock, w

(* write_sector changes one sector.                                        *)
LEMMA SectorWritten ==
  ASSUME NEW C, NEW io \in IOs(C), NEW s \in Sectors, NEW cells \in C
  PROVE  /\ write_sector(io, s, cells) \in IOs(C)
         /\ write_sector(io, s, cells).disk.fat = io.disk.fat
         /\ write_sector(io, s, cells).disk.super = io.disk.super
         /\ write_sector(io, s, cells).disk.sector = [io.disk.sector EXCEPT ![s] = cells]
         /\ write_sector(io, s, cells).free_sectors = io.free_sectors
<1> DEFINE w == SectorWrite("sector", s, cells)
<1>1. w \in SectorWrites(C)
  BY DEF SectorWrite, SectorWrites
<1>2. Apply(io.disk, w) = [io.disk EXCEPT !.sector = [io.disk.sector EXCEPT ![s] = cells]]
  BY DEF Apply, SectorWrite, IOs, Disks
<1>3. /\ Apply(io.disk, w) \in Disks(C)
      /\ Apply(io.disk, w).sector = [io.disk.sector EXCEPT ![s] = cells]
      /\ Apply(io.disk, w).super = io.disk.super
      /\ Apply(io.disk, w).fat = io.disk.fat
  BY <1>2 DEF IOs, Disks
<1> HIDE DEF w
<1> QED
  BY <1>1, <1>3, DoDoes DEF write_sector, w

(* The free data sectors; and that the driver's count and the disk's agree *)
(* with them.                                                              *)
FreeIn(fat) == {s \in DataSectors : fat[s] = FAT_FREE}

Counted(io) ==
    /\ io.free_sectors = Cardinality(FreeIn(io.disk.fat))
    /\ io.disk.super.free_sectors = io.free_sectors

(* There are finitely many free sectors.                                   *)
LEMMA FreeIsFinite ==
  ASSUME NEW fat
  PROVE  IsFiniteSet(FreeIn(fat)) /\ Cardinality(FreeIn(fat)) \in Nat
<1>1. FreeIn(fat) \subseteq Sectors
  BY SectorsAre DEF FreeIn
<1>2. IsFiniteSet(FreeIn(fat))
  BY <1>1, SectorsAre, FS_Subset
<1> QED
  BY <1>2, FS_CardinalityType

(* Taking a free sector leaves one less.                                   *)
LEMMA OneTaken ==
  ASSUME NEW fat \in [Sectors -> Marks], NEW s \in FreeIn(fat), NEW v, v # FAT_FREE
  PROVE  Cardinality(FreeIn([fat EXCEPT ![s] = v])) = Cardinality(FreeIn(fat)) - 1
<1>1. FreeIn([fat EXCEPT ![s] = v]) = FreeIn(fat) \ {s}
  BY SectorsAre DEF FreeIn
<1> QED
  BY <1>1, FreeIsFinite, FS_RemoveElement

(* Freeing one that is not free leaves one more: freeing one twice would   *)
(* not, which is what a chain without repetitions is needed for.           *)
LEMMA OneFreed ==
  ASSUME NEW fat \in [Sectors -> Marks], NEW s \in DataSectors, fat[s] # FAT_FREE
  PROVE  Cardinality(FreeIn([fat EXCEPT ![s] = FAT_FREE])) = Cardinality(FreeIn(fat)) + 1
<1>1. FreeIn([fat EXCEPT ![s] = FAT_FREE]) = FreeIn(fat) \cup {s} /\ s \notin FreeIn(fat)
  BY SectorsAre DEF FreeIn
<1> QED
  BY <1>1, FreeIsFinite, FS_AddElement

(* Linking a sector that is taken leaves the free ones.                    *)
LEMMA OneLinked ==
  ASSUME NEW fat \in [Sectors -> Marks], NEW s \in Sectors, s \in DataSectors => fat[s] # FAT_FREE,
         NEW v, v # FAT_FREE
  PROVE  FreeIn([fat EXCEPT ![s] = v]) = FreeIn(fat)
BY SectorsAre DEF FreeIn

(* The least of a set of numbers is one of them.                           *)
LEMMA MinIsIn ==
  ASSUME NEW S, S \subseteq Nat, S # {}
  PROVE  Min(S) \in S
<1>1. \E m \in S : \A k \in S : m <= k
  BY Least
<1> QED
  BY <1>1 DEF Min

(* fat_alloc takes a free sector, marks it the end of a chain and keeps    *)
(* the counts.                                                             *)
LEMMA Allocates ==
  ASSUME NEW C, NEW io \in IOs(C), Counted(io), FreeIn(io.disk.fat) # {}
  PROVE  /\ fat_alloc(io).sector \in FreeIn(io.disk.fat)
         /\ fat_alloc(io).io \in IOs(C)
         /\ fat_alloc(io).io.disk.fat = [io.disk.fat EXCEPT ![fat_alloc(io).sector] = FAT_END]
         /\ fat_alloc(io).io.disk.sector = io.disk.sector
         /\ Counted(fat_alloc(io).io)
<1> DEFINE n == Min(FreeIn(io.disk.fat))
           marked == fat_write(io, n, FAT_END)
           taken == [marked EXCEPT !.free_sectors = @ - 1]
<1>0. io.disk.fat \in [Sectors -> Marks]
  BY DEF IOs, Disks
<1>1. n \in FreeIn(io.disk.fat)
  <2>1. FreeIn(io.disk.fat) \subseteq Nat
    BY SectorsAre DEF FreeIn
  <2> QED
    BY <2>1, MinIsIn
<1>2. n \in Sectors /\ FAT_END \in Marks
  BY <1>1, SectorsAre DEF FreeIn, Marks
<1>3. FreeIn(io.disk.fat) = {s \in DataSectors : fat_read(io, s) = FAT_FREE}
  BY SectorsAre DEF FreeIn, fat_read
<1>4. fat_alloc(io) = [io |-> write_superblock(taken), sector |-> n]
  BY <1>3, Zenon DEF fat_alloc
<1> HIDE DEF n
<1>5. /\ marked \in IOs(C)
      /\ marked.disk.fat = [io.disk.fat EXCEPT ![n] = FAT_END]
      /\ marked.disk.sector = io.disk.sector
      /\ marked.free_sectors = io.free_sectors
  BY <1>2, FatWritten
<1> HIDE DEF marked
<1>6. /\ taken \in IOs(C) /\ taken.disk = marked.disk
      /\ taken.free_sectors = io.free_sectors - 1
  BY <1>5 DEF IOs
<1> HIDE DEF taken
<1>7. /\ write_superblock(taken) \in IOs(C)
      /\ write_superblock(taken).disk.fat = taken.disk.fat
      /\ write_superblock(taken).disk.super.free_sectors = taken.free_sectors
      /\ write_superblock(taken).disk.sector = taken.disk.sector
      /\ write_superblock(taken).free_sectors = taken.free_sectors
  BY <1>6, SuperWritten
<1>8. Cardinality(FreeIn([io.disk.fat EXCEPT ![n] = FAT_END])) = Cardinality(FreeIn(io.disk.fat)) - 1
  BY <1>0, <1>1, OneTaken DEF FAT_END, FAT_FREE
<1> DEFINE done == write_superblock(taken)
<1>9. fat_alloc(io).sector = n /\ fat_alloc(io).io = done
  BY <1>4
<1>10. done \in IOs(C) /\ done.disk.fat = [io.disk.fat EXCEPT ![n] = FAT_END]
       /\ done.disk.sector = io.disk.sector
  BY <1>5, <1>6, <1>7
<1>11. Counted(done)
  BY <1>5, <1>6, <1>7, <1>8 DEF Counted
<1> HIDE DEF done
<1> QED
  BY <1>1, <1>9, <1>10, <1>11

(* With no sector free, fat_alloc changes nothing.                         *)
LEMMA AllocatesNone ==
  ASSUME NEW io, FreeIn(io.disk.fat) = {}
  PROVE  fat_alloc(io) = [io |-> io, sector |-> NO_SECTOR]
<1>1. FreeIn(io.disk.fat) = {s \in DataSectors : fat_read(io, s) = FAT_FREE}
  BY SectorsAre DEF FreeIn, fat_read
<1> QED
  BY <1>1, Zenon DEF fat_alloc

(* One turn of the loop of fat_free.                                       *)
LEMMA Releases ==
  ASSUME NEW C, NEW io \in IOs(C), NEW s \in Sectors
  PROVE  /\ release(io, s) \in IOs(C)
         /\ release(io, s).disk.fat = [io.disk.fat EXCEPT ![s] = FAT_FREE]
         /\ release(io, s).disk.sector = io.disk.sector
         /\ release(io, s).free_sectors = io.free_sectors + 1
<1> DEFINE marked == fat_write(io, s, FAT_FREE)
<1>1. release(io, s) = [marked EXCEPT !.free_sectors = marked.free_sectors + 1]
  BY DEF release
<1>2. /\ marked \in IOs(C)
      /\ marked.disk.fat = [io.disk.fat EXCEPT ![s] = FAT_FREE]
      /\ marked.disk.sector = io.disk.sector
      /\ marked.free_sectors = io.free_sectors
  BY FatWritten DEF Marks
<1> HIDE DEF marked
<1> QED
  BY <1>1, <1>2 DEF IOs

(* fat_free is that loop over the chain and a write of the superblock.     *)
LEMMA FreeingRuns ==
  ASSUME NEW C, NEW io \in IOs(C), NEW first, NEW q \in Seq(Sectors), Chain(io, first) = q
  PROVE  \E run \in [0 .. Len(q) -> IOs(C)] :
            /\ run[0] = io
            /\ \A n \in 1 .. Len(q) : run[n] = release(run[n - 1], q[n])
            /\ fat_free(io, first) = write_superblock(run[Len(q)])
<1> DEFINE N == Len(q)
           One(at, n) == Bind(at, LAMBDA v : release(v, q[n]))
<1>1. \A at : \A n \in 1 .. N : One(at, n) = release(at, q[n])
  BY DEF Bind
<1>0. N \in Nat
  OBVIOUS
<1> DEFINE IsRun(f) == f = [n \in 0 .. N |-> IF n = 0 THEN io ELSE One(f[n - 1], n)]
           R == CHOOSE f : IsRun(f)
           g == [n \in 1 .. N |-> [at \in IOs(C) |-> release(at, q[n])]]
<1>2. \A n \in 1 .. N : \A v \in IOs(C) : g[n][v] \in IOs(C) /\ g[n][v] = release(v, q[n])
  <2>1. \A n \in 1 .. N : q[n] \in Sectors
    OBVIOUS
  <2> QED
    BY <2>1, Releases
<1>3. g \in [1 .. N -> [IOs(C) -> IOs(C)]]
  BY <1>2
<1> HIDE DEF g, One
<1>4. \E f : IsRun(f)
  <2>1. PICK f : Run(f, IOs(C), N, io, g)
    <3> HIDE DEF N
    <3> QED BY <1>0, <1>3, Iterates
  <2>2. f \in [0 .. N -> IOs(C)] /\ f[0] = io /\ \A n \in 1 .. N : f[n] = g[n][f[n - 1]]
    BY <2>1 DEF Run
  <2> HIDE DEF N
  <2>3. \A n \in 1 .. N : f[n] = One(f[n - 1], n)
    <3> SUFFICES ASSUME NEW n \in 1 .. N PROVE f[n] = One(f[n - 1], n)
      OBVIOUS
    <3>1. f[n - 1] \in IOs(C)
      BY <1>0, <2>2
    <3> QED
      BY <3>1, <1>1, <1>2, <2>2
  <2>4. IsRun(f)
    BY <2>2, <2>3
  <2> QED
    BY <2>4, Zenon
<1>5. IsRun(R)
  <2> HIDE DEF IsRun
  <2> QED
    BY <1>4, Zenon
<1>6. fat_free(io, first) = write_superblock(R[N])
  <2> DEFINE G(chain) ==
        write_superblock(
          LET after[n \in 0 .. Len(chain)] ==
                IF n = 0 THEN io ELSE Bind(after[n - 1], LAMBDA at : release(at, chain[n]))
          IN  after[Len(chain)])
  <2>1. fat_free(io, first) = CHOOSE result \in {G(v) : v \in {q}} : TRUE
    BY Zenon DEF fat_free, Bind, Repeat
  <2>2. G(q) = write_superblock(R[N])
    BY Zenon DEF One
  <2> HIDE DEF G
  <2>3. (CHOOSE result \in {G(v) : v \in {q}} : TRUE) = G(q)
    OBVIOUS
  <2> QED
    BY <2>1, <2>2, <2>3
<1> HIDE DEF R
<1>7. /\ R[0] = io
      /\ \A n \in 1 .. N : R[n] = release(R[n - 1], q[n])
  BY <1>0, <1>1, <1>5
<1>8. DOMAIN R = 0 .. N
  BY <1>5
<1>9. R = [n \in 0 .. N |-> R[n]]
  BY <1>5
<1> HIDE DEF IsRun
<1> DEFINE T == {n \in 0 .. N : R[n] \in IOs(C)}
<1>10. 0 \in T
  BY <1>7, <1>0
<1>11. ASSUME NEW n \in 1 .. N, n - 1 \in T PROVE n \in T
  <2>1. R[n - 1] \in IOs(C) /\ q[n] \in Sectors /\ R[n] = release(R[n - 1], q[n])
    BY <1>0, <1>11, <1>7 DEF T
  <2>2. \A s \in Sectors : \A v \in IOs(C) : release(v, s) \in IOs(C)
    BY Releases
  <2>3. R[n] \in IOs(C)
    BY <2>1, <2>2
  <2> QED
    BY <2>3, <1>0
<1> HIDE DEF T
<1>12. 0 .. N \subseteq T
  <2> HIDE DEF N
  <2> QED
    BY <1>0, <1>10, <1>11, Induct
<1>13. R \in [0 .. N -> IOs(C)]
  BY <1>9, <1>12 DEF T
<1> QED
  BY <1>6, <1>7, <1>13

(* fat_free of a path frees its sectors, those and no others, and keeps    *)
(* the counts.                                                             *)
LEMMA ChainFreed ==
  ASSUME NEW C, NEW io \in IOs(C), Counted(io), NEW first, NEW q, IsPath(io.disk.fat, first, q),
         \A i \in 1 .. Len(q) : q[i] \in DataSectors /\ io.disk.fat[q[i]] # FAT_FREE
  PROVE  /\ fat_free(io, first) \in IOs(C)
         /\ fat_free(io, first).disk.fat =
              [s \in Sectors |-> IF \E i \in 1 .. Len(q) : q[i] = s THEN FAT_FREE ELSE io.disk.fat[s]]
         /\ fat_free(io, first).disk.sector = io.disk.sector
         /\ Counted(fat_free(io, first))
<1> DEFINE N == Len(q)
           Upto(n) == [s \in Sectors |->
                          IF \E i \in 1 .. n : q[i] = s THEN FAT_FREE ELSE io.disk.fat[s]]
<1>1. io.disk.fat \in [Sectors -> Marks]
  BY DEF IOs, Disks
<1>2. q \in Seq(Sectors) /\ N \in Nat /\ Chain(io, first) = q
  <2>1. Chain(io, first) = q
    BY <1>1, PathIsChain
  <2> QED
    BY <2>1 DEF IsPath
<1>3. \A i, j \in 1 .. N : q[i] = q[j] => i = j
  BY DEF IsPath
<1>4. PICK run \in [0 .. N -> IOs(C)] :
         /\ run[0] = io
         /\ \A n \in 1 .. N : run[n] = release(run[n - 1], q[n])
         /\ fat_free(io, first) = write_superblock(run[N])
  BY <1>2, FreeingRuns
<1> DEFINE Half(at, n) == /\ at.disk.fat = Upto(n)
                          /\ at.disk.sector = io.disk.sector
                          /\ at.free_sectors = Cardinality(FreeIn(at.disk.fat))
           T == {n \in 0 .. N : Half(run[n], n)}
<1>5. 0 \in T
  <2>1. Upto(0) = io.disk.fat
    BY <1>1
  <2> QED
    BY <2>1, <1>2, <1>4 DEF Counted
<1>6. ASSUME NEW n \in 1 .. N, n - 1 \in T PROVE n \in T
  <2>1. /\ run[n - 1] \in IOs(C) /\ Half(run[n - 1], n - 1) /\ run[n] = release(run[n - 1], q[n])
        /\ q[n] \in DataSectors /\ q[n] \in Sectors
    BY <1>2, <1>4, <1>6, SectorsAre
  <2> DEFINE at == run[n - 1]
  <2>2. /\ release(at, q[n]).disk.fat = [at.disk.fat EXCEPT ![q[n]] = FAT_FREE]
        /\ release(at, q[n]).disk.sector = at.disk.sector
        /\ release(at, q[n]).free_sectors = at.free_sectors + 1
    <3> HIDE DEF at, Half
    <3> QED
      BY ZenonT(60), <2>1, Releases DEF at
  <2>3. at.disk.fat \in [Sectors -> Marks] /\ at.disk.fat = Upto(n - 1)
    BY <2>1 DEF IOs, Disks
  <2> HIDE DEF at
  <2>4. at.disk.fat[q[n]] = io.disk.fat[q[n]]
    BY <2>1, <2>3, <1>3
  <2>5. Cardinality(FreeIn([at.disk.fat EXCEPT ![q[n]] = FAT_FREE]))
          = Cardinality(FreeIn(at.disk.fat)) + 1
    BY <2>1, <2>3, <2>4, OneFreed
  <2>6. [at.disk.fat EXCEPT ![q[n]] = FAT_FREE] = Upto(n)
    <3>1. ASSUME NEW s \in Sectors PROVE [at.disk.fat EXCEPT ![q[n]] = FAT_FREE][s] = Upto(n)[s]
      BY <2>1, <2>3
    <3>2. [at.disk.fat EXCEPT ![q[n]] = FAT_FREE] = [s \in Sectors |-> [at.disk.fat EXCEPT ![q[n]] = FAT_FREE][s]]
      BY <2>3
    <3> QED
      BY <3>1, <3>2
  <2>7. Half(run[n], n)
    <3> HIDE DEF Upto
    <3> QED
      BY <2>1, <2>2, <2>5, <2>6 DEF at
  <2> QED
    BY <2>7
<1> HIDE DEF T
<1>7. N \in T
  <2>1. 0 .. N \subseteq T
    <3> HIDE DEF N
    <3> QED
      BY <1>2, <1>5, <1>6, Induct
  <2> QED
    BY <1>2, <2>1
<1>8. Half(run[N], N) /\ run[N] \in IOs(C)
  BY <1>4, <1>2, <1>7 DEF T
<1> QED
  BY <1>4, <1>8, SuperWritten DEF Counted

(* Where the first sector of a chain is noted: in an entry (a cell of a    *)
(* sector), nowhere as the root directory's is fixed, or so far only in a  *)
(* variable of mkdir, which takes a sector before there is an entry for    *)
(* it.                                                                     *)
RootAt == <<NO_SECTOR, 0>>
TakenAt == <<NO_SECTOR, 1>>
Places == (Sectors \X (0 .. Cells - 1)) \cup {RootAt, TakenAt}

(* How chains lie on the disk. L gives the chain of every place: linked by *)
(* the FAT in order, ended by the end mark (the root directory's first     *)
(* sector is never marked as taken), no sector in two chains or twice in   *)
(* one, and no sector taken that is in none.                               *)
Laid(fat, L) ==
    /\ fat \in [Sectors -> Marks]
    /\ L \in [Places -> Seq(Sectors)]
    /\ L[RootAt] # <<>> /\ L[RootAt][1] = root_start
    /\ \A p \in Places : \A i \in 1 .. Len(L[p]) - 1 : fat[L[p][i]] = L[p][i + 1]
    /\ \A p \in Places : L[p] # <<>> =>
          \/ fat[L[p][Len(L[p])]] = FAT_END
          \/ fat[L[p][Len(L[p])]] = FAT_FREE /\ L[p][Len(L[p])] = root_start
    /\ \A p, q \in Places : \A i \in 1 .. Len(L[p]), j \in 1 .. Len(L[q]) :
          L[p][i] = L[q][j] => p = q /\ i = j
    /\ \A s \in DataSectors : fat[s] # FAT_FREE =>
          \E p \in Places : \E i \in 1 .. Len(L[p]) : L[p][i] = s

(* The first sector of a chain, or none; and the set of its sectors.       *)
FirstOf(L, p) == IF L[p] = <<>> THEN NO_SECTOR ELSE L[p][1]

Items(t) == {t[i] : i \in 1 .. Len(t)}

On(L, p) == Items(L[p])

(* The places differ.                                                      *)
LEMMA PlacesAre ==
  /\ RootAt \in Places /\ TakenAt \in Places /\ RootAt # TakenAt
  /\ \A s \in Sectors, k \in 0 .. Cells - 1 :
        <<s, k>> \in Places /\ <<s, k>> # RootAt /\ <<s, k>> # TakenAt
  /\ \A p \in Places : p # RootAt /\ p # TakenAt => p \in Sectors \X (0 .. Cells - 1)
BY SectorsAre DEF Places, RootAt, TakenAt, EndsChain, NO_SECTOR

(* The sectors of chains are taken; only the root directory's first is not *)
(* a data sector.                                                          *)
LEMMA InUse ==
  ASSUME NEW fat, NEW L, Laid(fat, L), NEW p \in Places, NEW i \in 1 .. Len(L[p])
  PROVE  /\ L[p][i] \in Sectors
         /\ L[p][i] = root_start => p = RootAt /\ i = 1
         /\ L[p][i] # root_start => L[p][i] \in DataSectors /\ fat[L[p][i]] # FAT_FREE
<1>1. L[p] \in Seq(Sectors) /\ L[p][i] \in Sectors
  BY DEF Laid
<1>2. L[p][i] = root_start => p = RootAt /\ i = 1
  <2>1. L[RootAt] \in Seq(Sectors) /\ L[RootAt] # <<>> /\ L[RootAt][1] = root_start
    BY PlacesAre DEF Laid
  <2>2. 1 \in 1 .. Len(L[RootAt])
    BY <2>1
  <2> QED
    BY <2>1, <2>2, PlacesAre DEF Laid
<1>3. L[p][i] # root_start => L[p][i] \in DataSectors
  BY <1>1, SectorsAre DEF Sectors, DataSectors
<1>4. L[p][i] # root_start => fat[L[p][i]] # FAT_FREE
  <2>1. CASE i = Len(L[p])
    <3>1. L[p] # <<>>
      BY <2>1, <1>1
    <3> QED
      BY <2>1, <3>1 DEF Laid, FAT_END, FAT_FREE
  <2>2. CASE i \in 1 .. Len(L[p]) - 1
    <3>1. fat[L[p][i]] = L[p][i + 1] /\ i + 1 \in 1 .. Len(L[p])
      BY <2>2, <1>1 DEF Laid
    <3>2. L[p][i + 1] \in Sectors
      BY <3>1, <1>1
    <3> QED
      BY <3>1, <3>2, SectorsAre DEF EndsChain
  <2> QED
    BY <2>1, <2>2, <1>1
<1> QED
  BY <1>1, <1>2, <1>3, <1>4

(* Each chain is a path of the FAT.                                        *)
LEMMA LaidIsPath ==
  ASSUME NEW fat, NEW L, Laid(fat, L), NEW p \in Places, L[p] # <<>>
  PROVE  IsPath(fat, FirstOf(L, p), L[p])
<1>1. L[p] \in Seq(Sectors) /\ FirstOf(L, p) = L[p][1]
  BY DEF Laid, FirstOf
<1>2. \A i \in 1 .. Len(L[p]) - 1 : L[p][i + 1] = fat[L[p][i]]
  BY DEF Laid
<1>3. EndsChain(fat[L[p][Len(L[p])]])
  BY DEF Laid, EndsChain
<1>4. \A i, j \in 1 .. Len(L[p]) : L[p][i] = L[p][j] => i = j
  BY DEF Laid
<1> QED
  BY <1>1, <1>2, <1>3, <1>4 DEF IsPath

(* So that what Chain reads from the FAT is the chain in L.                *)
LEMMA LaidIsChain ==
  ASSUME NEW io, NEW L, Laid(io.disk.fat, L), NEW p \in Places
  PROVE  Chain(io, FirstOf(L, p)) = L[p]
<1>1. CASE L[p] = <<>>
  BY <1>1, EmptyChain DEF FirstOf
<1>2. CASE L[p] # <<>>
  <2>1. io.disk.fat \in [Sectors -> Marks]
    BY DEF Laid
  <2>2. IsPath(io.disk.fat, FirstOf(L, p), L[p])
    BY <1>2, LaidIsPath
  <2> QED
    BY <2>1, <2>2, PathIsChain
<1> QED
  BY <1>1, <1>2

(* A free sector is in no chain.                                           *)
LEMMA FreeIsUnused ==
  ASSUME NEW fat, NEW L, Laid(fat, L), NEW n \in FreeIn(fat), NEW p \in Places,
         NEW i \in 1 .. Len(L[p])
  PROVE  L[p][i] # n
<1>1. n # root_start /\ fat[n] = FAT_FREE
  BY SectorsAre DEF FreeIn, DataSectors
<1> QED
  BY <1>1, InUse

(* fat_alloc begins a chain where there was none,                          *)
LEMMA LayTaken ==
  ASSUME NEW fat, NEW L, Laid(fat, L), NEW n \in FreeIn(fat), NEW p \in Places, L[p] = <<>>
  PROVE  Laid([fat EXCEPT ![n] = FAT_END], [L EXCEPT ![p] = <<n>>])
<1> DEFINE F == [fat EXCEPT ![n] = FAT_END]
           M == [L EXCEPT ![p] = <<n>>]
<1>1. /\ fat \in [Sectors -> Marks] /\ L \in [Places -> Seq(Sectors)]
      /\ n \in Sectors /\ n \in DataSectors /\ FAT_END \in Marks /\ p # RootAt
  BY SectorsAre DEF Laid, FreeIn, Marks
<1>2. /\ F \in [Sectors -> Marks] /\ F[n] = FAT_END
      /\ \A s \in Sectors : s # n => F[s] = fat[s]
  BY <1>1
<1>3. /\ M \in [Places -> Seq(Sectors)] /\ M[p] = <<n>> /\ Len(M[p]) = 1 /\ M[p][1] = n
      /\ \A q \in Places : q # p => M[q] = L[q]
  BY <1>1
<1>4. \A q \in Places : \A i \in 1 .. Len(L[q]) : L[q][i] # n /\ L[q][i] \in Sectors
  BY FreeIsUnused, InUse
<1> HIDE DEF F, M
<1>5. M[RootAt] # <<>> /\ M[RootAt][1] = root_start
  BY <1>1, <1>3, PlacesAre DEF Laid
<1>6. ASSUME NEW q \in Places, NEW i \in 1 .. Len(M[q]) - 1
      PROVE  F[M[q][i]] = M[q][i + 1]
  <2>1. q # p
    <3>1. ~ \E m \in 1 .. 1 - 1 : TRUE
      OBVIOUS
    <3> QED
      BY <3>1, <1>3
  <2>2. M[q] = L[q] /\ i \in 1 .. Len(L[q]) /\ L[q] \in Seq(Sectors)
    BY <2>1, <1>1, <1>3
  <2> QED
    BY <2>2, <1>2, <1>4, <1>6 DEF Laid
<1>7. ASSUME NEW q \in Places, M[q] # <<>>
      PROVE  \/ F[M[q][Len(M[q])]] = FAT_END
             \/ F[M[q][Len(M[q])]] = FAT_FREE /\ M[q][Len(M[q])] = root_start
  <2>1. CASE q = p
    BY <2>1, <1>2, <1>3
  <2>2. CASE q # p
    <3>1. M[q] = L[q] /\ Len(L[q]) \in 1 .. Len(L[q])
      BY <2>2, <1>1, <1>3, <1>7
    <3> QED
      BY <3>1, <1>2, <1>4, <1>7 DEF Laid
  <2> QED
    BY <2>1, <2>2
<1>8. ASSUME NEW q \in Places, NEW r \in Places, NEW i \in 1 .. Len(M[q]), NEW j \in 1 .. Len(M[r]),
             M[q][i] = M[r][j]
      PROVE  q = r /\ i = j
  <2>1. CASE q = p /\ r = p
    BY <2>1, <1>3
  <2>2. CASE q = p /\ r # p
    BY <2>2, <1>3, <1>4, <1>8
  <2>3. CASE q # p /\ r = p
    BY <2>3, <1>3, <1>4, <1>8
  <2>4. CASE q # p /\ r # p
    BY <2>4, <1>3, <1>8 DEF Laid
  <2> QED
    BY <2>1, <2>2, <2>3, <2>4
<1>9. ASSUME NEW s \in DataSectors, F[s] # FAT_FREE
      PROVE  \E q \in Places : \E i \in 1 .. Len(M[q]) : M[q][i] = s
  <2>1. CASE s = n
    BY <2>1, <1>3
  <2>2. CASE s # n
    <3>1. PICK q \in Places : \E i \in 1 .. Len(L[q]) : L[q][i] = s
      BY <2>2, <1>2, <1>9, SectorsAre DEF Laid
    <3>2. q # p
      <4>1. Len(L[p]) = 0
        OBVIOUS
      <4>2. PICK i \in 1 .. Len(L[q]) : L[q][i] = s
        BY <3>1
      <4>3. L[q] \in Seq(Sectors)
        BY <1>1
      <4> QED
        BY <4>1, <4>2, <4>3
    <3> QED
      BY <3>1, <3>2, <1>3
  <2> QED
    BY <2>1, <2>2
<1>10. Laid(F, M)
  BY <1>2, <1>3, <1>5, <1>6, <1>7, <1>8, <1>9 DEF Laid
<1> QED
  BY <1>10 DEF F, M

(* or, its sector linked to the last of a chain, lengthens that one;       *)
LEMMA LayGrown ==
  ASSUME NEW fat, NEW L, Laid(fat, L), NEW n \in FreeIn(fat), NEW p \in Places, L[p] # <<>>
  PROVE  Laid([[fat EXCEPT ![n] = FAT_END] EXCEPT ![L[p][Len(L[p])]] = n],
              [L EXCEPT ![p] = Append(@, n)])
<1> DEFINE k == Len(L[p])
           F == [[fat EXCEPT ![n] = FAT_END] EXCEPT ![L[p][k]] = n]
           M == [L EXCEPT ![p] = Append(@, n)]
<1>1. /\ fat \in [Sectors -> Marks] /\ L \in [Places -> Seq(Sectors)]
      /\ n \in Sectors /\ n \in DataSectors /\ n \in Marks /\ FAT_END \in Marks
      /\ k \in Nat /\ k >= 1
  BY SectorsAre DEF Laid, FreeIn, Marks
<1>2. \A q \in Places : \A i \in 1 .. Len(L[q]) : L[q][i] # n /\ L[q][i] \in Sectors
  BY FreeIsUnused, InUse
<1>3. /\ F \in [Sectors -> Marks] /\ F[n] = FAT_END /\ F[L[p][k]] = n /\ L[p][k] \in Sectors
      /\ \A s \in Sectors : s # n /\ s # L[p][k] => F[s] = fat[s]
  BY <1>1, <1>2
<1>4. /\ M \in [Places -> Seq(Sectors)] /\ Len(M[p]) = k + 1 /\ M[p][k + 1] = n
      /\ \A i \in 1 .. k : M[p][i] = L[p][i]
      /\ \A q \in Places : q # p => M[q] = L[q]
  BY <1>1
<1>5. \A q, r \in Places : \A i \in 1 .. Len(L[q]), j \in 1 .. Len(L[r]) :
        L[q][i] = L[r][j] => q = r /\ i = j
  BY DEF Laid
<1> HIDE DEF F, M, k
<1>6. M[RootAt] # <<>> /\ M[RootAt][1] = root_start
  <2>1. CASE p = RootAt
    BY <2>1, <1>1, <1>4 DEF Laid
  <2>2. CASE p # RootAt
    BY <2>2, <1>4, PlacesAre DEF Laid
  <2> QED
    BY <2>1, <2>2
<1>7. ASSUME NEW q \in Places, NEW i \in 1 .. Len(M[q]) - 1
      PROVE  F[M[q][i]] = M[q][i + 1]
  <2>1. CASE q = p /\ i = k
    BY <2>1, <1>1, <1>3, <1>4
  <2>2. CASE q = p /\ i # k
    <3>1. i \in 1 .. k - 1 /\ i \in 1 .. k /\ i + 1 \in 1 .. k /\ k \in 1 .. k
      BY <2>2, <1>1, <1>4, <1>7
    <3>2. L[p][i] # L[p][k] /\ L[p][i] # n /\ L[p][i] \in Sectors
      BY <3>1, <2>2, <1>2, <1>5 DEF k
    <3>3. fat[L[p][i]] = L[p][i + 1]
      BY <3>1 DEF Laid, k
    <3> QED
      BY <2>2, <3>1, <3>2, <3>3, <1>3, <1>4
  <2>3. CASE q # p
    <3>1. M[q] = L[q] /\ i \in 1 .. Len(L[q]) /\ L[q] \in Seq(Sectors)
      BY <2>3, <1>1, <1>4
    <3>2. L[q][i] # L[p][k]
      BY <2>3, <3>1, <1>1, <1>5 DEF k
    <3> QED
      BY <3>1, <3>2, <1>2, <1>3, <1>7 DEF Laid
  <2> QED
    BY <2>1, <2>2, <2>3
<1>8. ASSUME NEW q \in Places, M[q] # <<>>
      PROVE  \/ F[M[q][Len(M[q])]] = FAT_END
             \/ F[M[q][Len(M[q])]] = FAT_FREE /\ M[q][Len(M[q])] = root_start
  <2>1. CASE q = p
    BY <2>1, <1>3, <1>4
  <2>2. CASE q # p
    <3>1. M[q] = L[q] /\ Len(L[q]) \in 1 .. Len(L[q]) /\ k \in 1 .. k
      BY <2>2, <1>1, <1>4, <1>8
    <3>2. L[q][Len(L[q])] # L[p][k]
      BY <2>2, <3>1, <1>1, <1>5 DEF k
    <3> QED
      BY <3>1, <3>2, <1>2, <1>3, <1>8 DEF Laid
  <2> QED
    BY <2>1, <2>2
<1>9. ASSUME NEW q \in Places, NEW r \in Places, NEW i \in 1 .. Len(M[q]), NEW j \in 1 .. Len(M[r]),
             M[q][i] = M[r][j]
      PROVE  q = r /\ i = j
  <2>1. \A x \in Places : \A m \in 1 .. Len(M[x]) :
          \/ x = p /\ m = k + 1 /\ M[x][m] = n
          \/ m \in 1 .. Len(L[x]) /\ M[x][m] = L[x][m] /\ M[x][m] # n
    <3> SUFFICES ASSUME NEW x \in Places, NEW m \in 1 .. Len(M[x])
                 PROVE  \/ x = p /\ m = k + 1 /\ M[x][m] = n
                        \/ m \in 1 .. Len(L[x]) /\ M[x][m] = L[x][m] /\ M[x][m] # n
      OBVIOUS
    <3>1. CASE x # p
      BY <3>1, <1>2, <1>4
    <3>2. CASE x = p /\ m = k + 1
      BY <3>2, <1>4
    <3>3. CASE x = p /\ m # k + 1
      <4>1. m \in 1 .. k
        BY <3>3, <1>1, <1>4
      <4> QED
        BY <4>1, <3>3, <1>2, <1>4 DEF k
    <3> QED
      BY <3>1, <3>2, <3>3
  <2>2. \/ q = p /\ i = k + 1 /\ M[q][i] = n
        \/ i \in 1 .. Len(L[q]) /\ M[q][i] = L[q][i] /\ M[q][i] # n
    BY <2>1
  <2>3. \/ r = p /\ j = k + 1 /\ M[r][j] = n
        \/ j \in 1 .. Len(L[r]) /\ M[r][j] = L[r][j] /\ M[r][j] # n
    BY <2>1
  <2>4. CASE M[q][i] = n
    BY <2>2, <2>3, <2>4, <1>9
  <2>5. CASE M[q][i] # n
    <3>1. L[q][i] = L[r][j] /\ i \in 1 .. Len(L[q]) /\ j \in 1 .. Len(L[r])
      BY <2>2, <2>3, <2>5, <1>9
    <3> QED
      BY <3>1, <1>5
  <2> QED
    BY <2>4, <2>5
<1>10. ASSUME NEW s \in DataSectors, F[s] # FAT_FREE
       PROVE  \E q \in Places : \E i \in 1 .. Len(M[q]) : M[q][i] = s
  <2>1. CASE s = n
    <3>1. k + 1 \in 1 .. Len(M[p])
      BY <1>1, <1>4
    <3> QED
      BY <2>1, <3>1, <1>4
  <2>2. CASE s # n
    <3>1. \E q \in Places : \E i \in 1 .. Len(L[q]) : L[q][i] = s
      <4>1. CASE s = L[p][k]
        <5>1. k \in 1 .. Len(L[p])
          BY <1>1 DEF k
        <5> QED
          BY <4>1, <5>1
      <4>2. CASE s # L[p][k]
        BY <4>2, <2>2, <1>3, <1>10, SectorsAre DEF Laid
      <4> QED
        BY <4>1, <4>2
    <3>0. PICK q \in Places : \E i \in 1 .. Len(L[q]) : L[q][i] = s
      BY <3>1
    <3>2. PICK i \in 1 .. Len(L[q]) : L[q][i] = s
      BY <3>0
    <3>3. M[q][i] = s /\ i \in 1 .. Len(M[q])
      <4>1. CASE q = p
        BY <4>1, <3>2, <1>1, <1>4 DEF k
      <4>2. CASE q # p
        BY <4>2, <3>2, <1>4
      <4> QED
        BY <4>1, <4>2
    <3> QED
      BY <3>3
  <2> QED
    BY <2>1, <2>2
<1>11. Laid(F, M)
  BY <1>3, <1>4, <1>6, <1>7, <1>8, <1>9, <1>10 DEF Laid
<1> QED
  BY <1>11 DEF F, M, k

(* fat_free leaves a place without a chain;                                *)
LEMMA LayFreed ==
  ASSUME NEW fat, NEW L, Laid(fat, L), NEW p \in Places, p # RootAt
  PROVE  Laid([s \in Sectors |-> IF \E i \in 1 .. Len(L[p]) : L[p][i] = s THEN FAT_FREE ELSE fat[s]],
              [L EXCEPT ![p] = <<>>])
<1> DEFINE F == [s \in Sectors |-> IF \E i \in 1 .. Len(L[p]) : L[p][i] = s THEN FAT_FREE ELSE fat[s]]
           M == [L EXCEPT ![p] = <<>>]
<1>1. /\ fat \in [Sectors -> Marks] /\ L \in [Places -> Seq(Sectors)]
      /\ M \in [Places -> Seq(Sectors)] /\ M[p] = <<>> /\ Len(M[p]) = 0
      /\ \A q \in Places : q # p => M[q] = L[q]
      /\ FAT_FREE \in Marks
  BY DEF Laid, Marks
<1>2. F \in [Sectors -> Marks]
  BY <1>1
<1>3. \A q \in Places : \A i \in 1 .. Len(L[q]) : q # p => F[L[q][i]] = fat[L[q][i]]
  BY InUse DEF Laid
<1>4. \A s \in DataSectors : F[s] # FAT_FREE =>
        fat[s] # FAT_FREE /\ ~ \E i \in 1 .. Len(L[p]) : L[p][i] = s
  BY SectorsAre
<1> HIDE DEF F, M
<1>5. ASSUME NEW q \in Places, NEW i \in 1 .. Len(M[q]) - 1
      PROVE  F[M[q][i]] = M[q][i + 1]
  <2>1. q # p /\ M[q] = L[q] /\ L[q] \in Seq(Sectors) /\ i \in 1 .. Len(L[q])
    BY <1>1
  <2> QED
    BY <2>1, <1>3, <1>5 DEF Laid
<1>6. ASSUME NEW q \in Places, M[q] # <<>>
      PROVE  \/ F[M[q][Len(M[q])]] = FAT_END
             \/ F[M[q][Len(M[q])]] = FAT_FREE /\ M[q][Len(M[q])] = root_start
  <2>1. q # p /\ M[q] = L[q] /\ L[q] \in Seq(Sectors) /\ Len(L[q]) \in 1 .. Len(L[q])
    BY <1>1, <1>6
  <2> QED
    BY <2>1, <1>3, <1>6 DEF Laid
<1>7. M[RootAt] # <<>> /\ M[RootAt][1] = root_start
  BY <1>1, PlacesAre DEF Laid
<1>8. ASSUME NEW q \in Places, NEW r \in Places, NEW i \in 1 .. Len(M[q]), NEW j \in 1 .. Len(M[r]),
             M[q][i] = M[r][j]
      PROVE  q = r /\ i = j
  <2>1. q # p /\ r # p
    BY <1>1
  <2>2. M[q] = L[q] /\ M[r] = L[r]
    BY <2>1, <1>1
  <2> QED
    BY <2>2, <1>8 DEF Laid
<1>9. ASSUME NEW s \in DataSectors, F[s] # FAT_FREE
      PROVE  \E q \in Places : \E i \in 1 .. Len(M[q]) : M[q][i] = s
  <2>1. PICK q \in Places : \E i \in 1 .. Len(L[q]) : L[q][i] = s
    BY <1>4, <1>9 DEF Laid
  <2>2. q # p
    BY <2>1, <1>4, <1>9
  <2> QED
    BY <2>1, <2>2, <1>1
<1>10. Laid(F, M)
  BY <1>1, <1>2, <1>5, <1>6, <1>7, <1>8, <1>9 DEF Laid
<1> QED
  BY <1>10 DEF F, M

(* and an entry, once written, has the chain that was taken for it.        *)
LEMMA LayMoved ==
  ASSUME NEW fat, NEW L, Laid(fat, L), NEW p \in Places, p # RootAt,
         NEW q \in Places, q # p, L[q] = <<>>
  PROVE  Laid(fat, [L EXCEPT ![q] = L[p], ![p] = <<>>])
<1> DEFINE M == [L EXCEPT ![q] = L[p], ![p] = <<>>]
           From(r) == IF r = q THEN p ELSE r
<1>0. L \in [Places -> Seq(Sectors)] /\ L[RootAt] # <<>> /\ q # RootAt
  BY DEF Laid
<1>1. /\ M \in [Places -> Seq(Sectors)]
      /\ \A r \in Places : r # p => M[r] = L[From(r)] /\ From(r) \in Places
      /\ Len(M[p]) = 0 /\ M[p] = <<>>
  <2>1. <<>> \in Seq(Sectors) /\ L[p] \in Seq(Sectors) /\ L[q] \in Seq(Sectors)
    BY <1>0
  <2>2. M \in [Places -> Seq(Sectors)] /\ M[p] = <<>> /\ M[q] = L[p]
    BY <1>0, <2>1
  <2>3. \A r \in Places : r # p /\ r # q => M[r] = L[r]
    BY <1>0
  <2> HIDE DEF M
  <2> QED
    BY <2>2, <2>3
<1>2. \A r \in Places : r # q /\ r # p => M[r] = L[r]
  BY <1>1
<1> HIDE DEF M
<1>3. \A r \in Places : r # p /\ r # q => From(r) # p
  OBVIOUS
<1>4. M[RootAt] # <<>> /\ M[RootAt][1] = root_start
  BY <1>0, <1>2, PlacesAre DEF Laid
<1>5. \A r \in Places : \A i \in 1 .. Len(M[r]) - 1 : fat[M[r][i]] = M[r][i + 1]
  <2> SUFFICES ASSUME NEW r \in Places, NEW i \in 1 .. Len(M[r]) - 1
               PROVE  fat[M[r][i]] = M[r][i + 1]
    OBVIOUS
  <2>1. r # p /\ M[r] = L[From(r)] /\ From(r) \in Places
    BY <1>1
  <2> HIDE DEF From
  <2> QED
    BY <2>1 DEF Laid
<1>6. ASSUME NEW r \in Places, M[r] # <<>>
      PROVE  \/ fat[M[r][Len(M[r])]] = FAT_END
             \/ fat[M[r][Len(M[r])]] = FAT_FREE /\ M[r][Len(M[r])] = root_start
  <2>1. r # p /\ M[r] = L[From(r)] /\ From(r) \in Places
    BY <1>1, <1>6
  <2> HIDE DEF From
  <2> QED
    BY <2>1, <1>6 DEF Laid
<1>7. ASSUME NEW r \in Places, NEW t \in Places, NEW i \in 1 .. Len(M[r]), NEW j \in 1 .. Len(M[t]),
             M[r][i] = M[t][j]
      PROVE  r = t /\ i = j
  <2>1. r # p /\ t # p
    BY <1>1
  <2>2. From(r) = From(t) /\ i = j
    BY SMTT(60), <2>1, <1>1, <1>7 DEF Laid
  <2> QED
    BY <2>1, <2>2
<1>8. ASSUME NEW s \in DataSectors, fat[s] # FAT_FREE
      PROVE  \E r \in Places : \E i \in 1 .. Len(M[r]) : M[r][i] = s
  <2>0. PICK r \in Places : \E i \in 1 .. Len(L[r]) : L[r][i] = s
    BY <1>8 DEF Laid
  <2>1. PICK i \in 1 .. Len(L[r]) : L[r][i] = s
    BY <2>0
  <2>2. r # q
    <3>1. Len(L[q]) = 0
      OBVIOUS
    <3> QED
      BY <2>1, <3>1
  <2>3. CASE r = p
    <3>1. M[q] = L[p]
      BY <1>1
    <3> QED
      BY <2>1, <2>3, <3>1
  <2>4. CASE r # p
    BY <2>1, <2>2, <2>4, <1>2
  <2> QED
    BY <2>3, <2>4
<1>9. Laid(fat, M)
  BY <1>1, <1>4, <1>5, <1>6, <1>7, <1>8 DEF Laid
<1> QED
  BY <1>9 DEF M

-----------------------------------------------------------------------------

(* Positions of cells: cell q of a listing is cell q % Cells of sector q   *)
(* \div Cells + 1.                                                         *)
CellIndex == 0 .. Cells - 1

(* Division with remainder.                                                *)
LEMMA Division ==
  ASSUME NEW C \in Nat \ {0}, NEW q \in Nat
  PROVE  q \div C \in Nat /\ q % C \in 0 .. C - 1 /\ q = C * (q \div C) + (q % C)
OBVIOUS

(* The sector and the cell of a position,                                  *)
LEMMA Below ==
  ASSUME NEW C \in Nat \ {0}, NEW N \in Nat, NEW q \in 0 .. N * C - 1
  PROVE  q \div C + 1 \in 1 .. N /\ q % C \in 0 .. C - 1
<1>1. q \in Nat /\ q < N * C
  OBVIOUS
<1>2. q \div C \in Nat /\ q % C \in 0 .. C - 1 /\ q = C * (q \div C) + (q % C)
  BY <1>1, Division
<1>3. q \div C < N
  <2> DEFINE a == q \div C
  <2>1. a \in Nat /\ C * a < N * C
    BY <1>1, <1>2
  <2> HIDE DEF a
  <2>2. a >= N => C * a >= N * C
    BY <2>1
  <2>3. a < N
    BY <2>1, <2>2
  <2> QED
    BY <2>3 DEF a
<1> QED
  BY <1>2, <1>3

(* and the position of a cell of a sector.                                 *)
LEMMA Position ==
  ASSUME NEW C \in Nat \ {0}, NEW N \in Nat, NEW i \in 1 .. N, NEW k \in 0 .. C - 1
  PROVE  /\ (i - 1) * C + k \in 0 .. N * C - 1
         /\ ((i - 1) * C + k) \div C = i - 1
         /\ ((i - 1) * C + k) % C = k
<1> DEFINE q == (i - 1) * C + k
<1>1. q \in Nat /\ q < N * C
  <2>1. (i - 1) * C \in Nat /\ N * C \in Nat
    OBVIOUS
  <2>2. (i - 1) * C + C = i * C
    OBVIOUS
  <2>3. i * C <= N * C
    OBVIOUS
  <2> QED
    BY <2>1, <2>2, <2>3
<1>2. q \div C \in Nat /\ q % C \in 0 .. C - 1 /\ q = C * (q \div C) + (q % C)
  BY <1>1, Division
<1> DEFINE a == q \div C
           r == q % C
<1>3. a \in Nat /\ r \in 0 .. C - 1 /\ C * a + r = C * (i - 1) + k
  BY <1>2
<1> HIDE DEF a, r, q
<1>4. a = i - 1
  <2>1. CASE a >= i
    <3>1. C * a >= C * i
      BY <1>3, <2>1
    <3>2. C * (i - 1) = C * i - C
      OBVIOUS
    <3> QED
      BY <1>3, <3>1, <3>2
  <2>2. CASE a <= i - 2
    <3>1. C * a <= C * (i - 2)
      BY <1>3, <2>2
    <3>2. C * (i - 1) = C * (i - 2) + C
      OBVIOUS
    <3> QED
      BY <1>3, <3>1, <3>2
  <2> QED
    BY <1>3, <2>1, <2>2
<1>5. r = k
  BY <1>3, <1>4
<1> QED
  BY <1>1, <1>4, <1>5 DEF a, r, q

(* What a sector holds: bytes of files, directory entries, or nothing.     *)
CellSet(V) ==
    {Zero} \cup [kind : {"byte"}, value : V]
           \cup [kind : {"dirent"}, name : Names, dir : BOOLEAN,
                 first_sector : Sectors \cup {NO_SECTOR}, size : Nat]

Contents(V) == [CellIndex -> CellSet(V)]

(* A listing lists the cells of the sectors of a chain.                    *)
Cell(io, s, k) == Place(s, k, io.disk.sector[s][k])

CellsOf(io, chain) ==
    [q \in 0 .. Len(chain) * Cells - 1 |-> Cell(io, chain[q \div Cells + 1], q % Cells)]

(* The listing of a directory is that of the cells of its chain,           *)
LEMMA ListingIs ==
  ASSUME NEW io, NEW L, Laid(io.disk.fat, L), NEW p \in Places
  PROVE  Listing(io, FirstOf(L, p)) = CellsOf(io, L[p])
<1> DEFINE G(chain) == [q \in 0 .. Len(chain) * Cells - 1 |->
              Place(chain[q \div Cells + 1], q % Cells,
                    io.disk.sector[chain[q \div Cells + 1]][q % Cells])]
<1>1. Listing(io, FirstOf(L, p)) = CHOOSE result \in {G(v) : v \in {Chain(io, FirstOf(L, p))}} : TRUE
  BY Zenon DEF Listing, Bind
<1>2. Chain(io, FirstOf(L, p)) = L[p]
  BY LaidIsChain
<1> HIDE DEF G
<1>3. (CHOOSE result \in {G(v) : v \in {L[p]}} : TRUE) = G(L[p])
  OBVIOUS
<1>4. Listing(io, FirstOf(L, p)) = G(L[p])
  BY <1>1, <1>2, <1>3
<1> QED
  BY <1>4, Zenon DEF G, CellsOf, Cell

(* so that it has every cell of every sector of the chain and no other.    *)
LEMMA Listed ==
  ASSUME NEW io, NEW L, Laid(io.disk.fat, L), NEW p \in Places
  PROVE  /\ \A q \in DOMAIN Listing(io, FirstOf(L, p)) :
              \E s \in On(L, p), k \in CellIndex : Listing(io, FirstOf(L, p))[q] = Cell(io, s, k)
         /\ \A s \in On(L, p), k \in CellIndex :
              \E q \in DOMAIN Listing(io, FirstOf(L, p)) : Listing(io, FirstOf(L, p))[q] = Cell(io, s, k)
         /\ DOMAIN Listing(io, FirstOf(L, p)) \subseteq Nat
<1> DEFINE dir == Listing(io, FirstOf(L, p))
           N == Len(L[p])
<1>1. dir = [q \in 0 .. N * Cells - 1 |-> Cell(io, L[p][q \div Cells + 1], q % Cells)]
  BY ListingIs DEF CellsOf
<1>2. N \in Nat /\ Cells \in Nat \ {0}
  BY DiskAssumption DEF Laid
<1> HIDE DEF dir
<1>3. ASSUME NEW q \in DOMAIN dir
      PROVE  \E s \in On(L, p), k \in CellIndex : dir[q] = Cell(io, s, k)
  <2>1. q \in 0 .. N * Cells - 1 /\ dir[q] = Cell(io, L[p][q \div Cells + 1], q % Cells)
    BY <1>1
  <2>2. q \div Cells + 1 \in 1 .. N /\ q % Cells \in CellIndex
    <3> HIDE DEF N
    <3> QED
      BY <1>2, <2>1, Below DEF CellIndex
  <2>3. L[p][q \div Cells + 1] \in On(L, p)
    BY <2>2 DEF On, Items
  <2> QED
    BY <2>1, <2>2, <2>3
<1>4. ASSUME NEW s \in On(L, p), NEW k \in CellIndex
      PROVE  \E q \in DOMAIN dir : dir[q] = Cell(io, s, k)
  <2>1. PICK i \in 1 .. N : L[p][i] = s
    BY DEF On, Items
  <2> DEFINE q == (i - 1) * Cells + k
  <2>2. q \in 0 .. N * Cells - 1 /\ q \div Cells = i - 1 /\ q % Cells = k
    <3> HIDE DEF N
    <3> QED
      BY <1>2, Position DEF CellIndex
  <2> HIDE DEF q
  <2>3. q \div Cells + 1 = i
    BY <2>2
  <2> QED
    BY <1>1, <2>1, <2>2, <2>3
<1>5. DOMAIN dir \subseteq Nat
  BY <1>1
<1> QED
  BY <1>3, <1>4, <1>5 DEF dir

(* What a search of a directory for a name finds.                          *)
LEMMA FindsIn ==
  ASSUME NEW io, NEW L, Laid(io.disk.fat, L), NEW p \in Places, NEW name
  PROVE  \/ /\ dir_find_in(io, FirstOf(L, p), name) = NotFound
            /\ \A s \in On(L, p), k \in CellIndex :
                 IsEntry(io.disk.sector[s][k]) => io.disk.sector[s][k].name # name
         \/ \E s \in On(L, p), k \in CellIndex :
              /\ dir_find_in(io, FirstOf(L, p), name) = Cell(io, s, k)
              /\ IsEntry(io.disk.sector[s][k]) /\ io.disk.sector[s][k].name = name
<1> DEFINE dir == Listing(io, FirstOf(L, p))
           Named(cell) == IsEntry(cell) /\ cell.name = name
           matches(d) == {q \in DOMAIN d : Named(d[q].entry)}
           G(d) == IF matches(d) = {} THEN NotFound ELSE d[Min(matches(d))]
<1>1. dir_find_in(io, FirstOf(L, p), name) = CHOOSE result \in {G(d) : d \in {dir}} : TRUE
  BY Zenon DEF dir_find_in, FirstPlace, Bind
<1>2. (CHOOSE result \in {G(d) : d \in {dir}} : TRUE) = G(dir)
  <2> HIDE DEF G, dir
  <2> QED
    OBVIOUS
<1>3. dir_find_in(io, FirstOf(L, p), name) = G(dir)
  BY <1>1, <1>2
<1>4. /\ \A q \in DOMAIN dir : \E s \in On(L, p), k \in CellIndex : dir[q] = Cell(io, s, k)
      /\ \A s \in On(L, p), k \in CellIndex : \E q \in DOMAIN dir : dir[q] = Cell(io, s, k)
      /\ DOMAIN dir \subseteq Nat
  BY Listed
<1> HIDE DEF dir
<1>5. \A s, k : Cell(io, s, k).entry = io.disk.sector[s][k]
  BY DEF Cell, Place
<1>6. CASE matches(dir) = {}
  <2>1. dir_find_in(io, FirstOf(L, p), name) = NotFound
    BY <1>3, <1>6
  <2>2. ASSUME NEW s \in On(L, p), NEW k \in CellIndex, IsEntry(io.disk.sector[s][k])
        PROVE  io.disk.sector[s][k].name # name
    <3>1. PICK q \in DOMAIN dir : dir[q] = Cell(io, s, k)
      BY <1>4
    <3>2. ~Named(dir[q].entry)
      BY <1>6
    <3> QED
      BY <3>1, <3>2, <1>5, <2>2
  <2> QED
    BY <2>1, <2>2
<1>7. CASE matches(dir) # {}
  <2> DEFINE q == Min(matches(dir))
  <2>1. q \in matches(dir)
    <3> HIDE DEF matches
    <3>1. matches(dir) \subseteq Nat
      BY <1>4 DEF matches
    <3> QED
      BY <1>7, <3>1, MinIsIn
  <2>2. dir_find_in(io, FirstOf(L, p), name) = dir[q]
    BY <1>3, <1>7
  <2> HIDE DEF q
  <2>3. q \in DOMAIN dir /\ Named(dir[q].entry)
    BY <2>1
  <2>4. PICK s \in On(L, p), k \in CellIndex : dir[q] = Cell(io, s, k)
    BY <1>4, <2>3
  <2> QED
    BY <1>5, <2>2, <2>3, <2>4
<1> QED
  BY <1>6, <1>7

(* What a search for a free slot finds.                                    *)
FreeSlot(io, first) == FirstPlace(io, first, LAMBDA cell : cell = Zero)

(* It finds a cell that holds nothing, if the directory has one.           *)
LEMMA FindsFree ==
  ASSUME NEW io, NEW L, Laid(io.disk.fat, L), NEW p \in Places
  PROVE  \/ FreeSlot(io, FirstOf(L, p)) = NotFound
         \/ \E s \in On(L, p), k \in CellIndex :
              /\ FreeSlot(io, FirstOf(L, p)) = Cell(io, s, k)
              /\ io.disk.sector[s][k] = Zero
<1> DEFINE dir == Listing(io, FirstOf(L, p))
           matches(d) == {q \in DOMAIN d : d[q].entry = Zero}
           G(d) == IF matches(d) = {} THEN NotFound ELSE d[Min(matches(d))]
<1>1. FreeSlot(io, FirstOf(L, p)) = CHOOSE result \in {G(d) : d \in {dir}} : TRUE
  BY Zenon DEF FreeSlot, FirstPlace, Bind
<1>2. (CHOOSE result \in {G(d) : d \in {dir}} : TRUE) = G(dir)
  <2> HIDE DEF G, dir
  <2> QED
    OBVIOUS
<1>3. FreeSlot(io, FirstOf(L, p)) = G(dir)
  BY <1>1, <1>2
<1>4. /\ \A q \in DOMAIN dir : \E s \in On(L, p), k \in CellIndex : dir[q] = Cell(io, s, k)
      /\ DOMAIN dir \subseteq Nat
  BY Listed
<1> HIDE DEF dir
<1>5. \A s, k : Cell(io, s, k).entry = io.disk.sector[s][k]
  BY DEF Cell, Place
<1>6. CASE matches(dir) = {}
  BY <1>3, <1>6
<1>7. CASE matches(dir) # {}
  <2> DEFINE q == Min(matches(dir))
  <2>1. q \in matches(dir)
    <3> HIDE DEF matches
    <3>1. matches(dir) \subseteq Nat
      BY <1>4 DEF matches
    <3> QED
      BY <1>7, <3>1, MinIsIn
  <2>2. FreeSlot(io, FirstOf(L, p)) = dir[q]
    BY <1>3, <1>7
  <2> HIDE DEF q
  <2>3. q \in DOMAIN dir /\ dir[q].entry = Zero
    BY <2>1
  <2>4. PICK s \in On(L, p), k \in CellIndex : dir[q] = Cell(io, s, k)
    BY <1>4, <2>3
  <2> QED
    BY <1>5, <2>2, <2>3, <2>4
<1> QED
  BY <1>6, <1>7

(* The directories: the root and the entries that are directories.         *)
Dirs(sec) == {RootAt} \cup {p \in Sectors \X CellIndex : IsDirectory(sec[p[1]][p[2]])}

(* A set of directories with the root and all that is listed in its        *)
(* members.                                                                *)
Follows(sec, L, S) ==
    /\ RootAt \in S
    /\ \A d \in Dirs(sec) \cap S : \A s \in On(L, d), k \in CellIndex :
          <<s, k>> \in Dirs(sec) => <<s, k>> \in S

(* Every directory is reached from the root.                               *)
Rooted(sec, L) == \A S \in SUBSET Places : Follows(sec, L, S) => Dirs(sec) \subseteq S

(* The directory tree agrees with the chains: an entry is in the sectors   *)
(* of a directory and knows its first sector (unless it is one of W, the   *)
(* files that are open for writing, which are told when they are closed);  *)
(* only entries have chains; names differ within a directory (unless W     *)
(* says that they may repeat: create --from does not look); every          *)
(* directory is reached from the root.                                     *)
Repeats == <<NO_SECTOR, 2>>

Tidy(sec, L, W) ==
    /\ L \in [Places -> Seq(Sectors)]
    /\ \A s \in Sectors, k \in CellIndex : IsEntry(sec[s][k]) =>
          /\ \E d \in Dirs(sec) : s \in On(L, d)
          /\ sec[s][k].first_sector \in {NO_SECTOR, FirstOf(L, <<s, k>>)}
          /\ sec[s][k].first_sector = FirstOf(L, <<s, k>>) \/ <<s, k>> \in W
          /\ sec[s][k].dir => L[<<s, k>>] # <<>> /\ sec[s][k].first_sector = FirstOf(L, <<s, k>>)
    /\ \A s \in Sectors, k \in CellIndex : L[<<s, k>>] # <<>> => IsEntry(sec[s][k])
    /\ Repeats \notin W => \A d \in Dirs(sec) : \A s, t \in On(L, d) : \A k, j \in CellIndex :
          IsEntry(sec[s][k]) /\ IsEntry(sec[t][j]) /\ sec[s][k].name = sec[t][j].name => s = t /\ k = j
    /\ Rooted(sec, L)

(* A directory put into one of the tree is in the tree,                    *)
LEMMA RootedAdded ==
  ASSUME NEW sec, NEW L, Rooted(sec, L), NEW to, NEW M, Dirs(sec) \subseteq Dirs(to),
         \A d \in Dirs(sec) : On(L, d) \subseteq On(M, d),
         \A p \in Dirs(to) \ Dirs(sec) :
           \E d \in Dirs(sec) : \E s \in On(M, d), k \in CellIndex : p = <<s, k>>
  PROVE  Rooted(to, M)
<1> SUFFICES ASSUME NEW S \in SUBSET Places, Follows(to, M, S)
             PROVE  Dirs(to) \subseteq S
  BY DEF Rooted
<1>1. Follows(sec, L, S)
  <2> SUFFICES ASSUME NEW d \in Dirs(sec) \cap S, NEW s \in On(L, d), NEW k \in CellIndex,
                      <<s, k>> \in Dirs(sec)
               PROVE  <<s, k>> \in S
    BY DEF Follows
  <2>1. d \in Dirs(to) \cap S /\ s \in On(M, d) /\ <<s, k>> \in Dirs(to)
    OBVIOUS
  <2> QED
    BY <2>1 DEF Follows
<1>2. Dirs(sec) \subseteq S
  BY <1>1 DEF Rooted
<1>3. ASSUME NEW p \in Dirs(to), p \notin Dirs(sec) PROVE p \in S
  <2>1. PICK d \in Dirs(sec) : \E s \in On(M, d), k \in CellIndex : p = <<s, k>>
    BY <1>3
  <2>2. PICK s \in On(M, d), k \in CellIndex : p = <<s, k>>
    BY <2>1
  <2>3. d \in Dirs(to) \cap S /\ <<s, k>> \in Dirs(to)
    BY <1>2, <1>3, <2>2
  <2> QED
    BY <2>2, <2>3 DEF Follows
<1> QED
  BY <1>2, <1>3

(* and removing one that lists no directory leaves the others there.       *)
LEMMA RootedRemoved ==
  ASSUME NEW sec, NEW L, Rooted(sec, L), NEW to, NEW M, NEW p \in Places, p # RootAt,
         Dirs(to) = Dirs(sec) \ {p},
         \A d \in Dirs(to) : On(L, d) \subseteq On(M, d),
         p \in Dirs(sec) => \A s \in On(L, p), k \in CellIndex : <<s, k>> \notin Dirs(sec)
  PROVE  Rooted(to, M)
<1> SUFFICES ASSUME NEW S \in SUBSET Places, Follows(to, M, S)
             PROVE  Dirs(to) \subseteq S
  BY DEF Rooted
<1>1. Follows(sec, L, S \cup {p})
  <2> SUFFICES ASSUME NEW d \in Dirs(sec) \cap (S \cup {p}), NEW s \in On(L, d), NEW k \in CellIndex,
                      <<s, k>> \in Dirs(sec)
               PROVE  <<s, k>> \in S \cup {p}
    BY DEF Follows
  <2>1. d # p
    OBVIOUS
  <2>2. CASE <<s, k>> # p
    <3>1. d \in Dirs(to) \cap S /\ s \in On(M, d) /\ <<s, k>> \in Dirs(to)
      BY <2>1, <2>2
    <3> QED
      BY <3>1 DEF Follows
  <2> QED
    BY <2>2
<1>2. Dirs(sec) \subseteq S \cup {p}
  BY <1>1 DEF Rooted
<1> QED
  BY <1>2

(* Directories and their entries.                                          *)
LEMMA DirsAre ==
  ASSUME NEW sec
  PROVE  /\ Dirs(sec) \subseteq Places /\ RootAt \in Dirs(sec) /\ TakenAt \notin Dirs(sec)
         /\ \A s \in Sectors, k \in CellIndex : <<s, k>> \in Dirs(sec) <=> IsDirectory(sec[s][k])
         /\ \A s \in Sectors, k \in CellIndex : IsDirectory(sec[s][k]) => IsEntry(sec[s][k]) /\ sec[s][k].dir
<1>1. /\ RootAt \in Places /\ TakenAt \in Places /\ RootAt # TakenAt
      /\ \A s \in Sectors, k \in CellIndex : <<s, k>> \in Places /\ <<s, k>> # RootAt /\ <<s, k>> # TakenAt
  BY PlacesAre DEF CellIndex
<1> QED
  BY <1>1 DEF Dirs, Places, CellIndex, IsDirectory

(* The sectors of a chain that is begun or lengthened.                     *)
LEMMA ItemsAre ==
  /\ Items(<<>>) = {}
  /\ \A n \in Sectors : Items(<<n>>) = {n}
  /\ \A t \in Seq(Sectors) : Items(t) \subseteq Sectors
  /\ \A t \in Seq(Sectors), n \in Sectors : Items(Append(t, n)) = Items(t) \cup {n}
<1>1. ASSUME NEW t \in Seq(Sectors), NEW n \in Sectors
      PROVE  Items(Append(t, n)) = Items(t) \cup {n}
  <2> DEFINE M == Append(t, n)
             N == Len(t)
  <2>1. N \in Nat /\ Len(M) = N + 1 /\ M[N + 1] = n /\ \A i \in 1 .. N : M[i] = t[i]
    OBVIOUS
  <2>2. Items(Append(t, n)) = {M[i] : i \in 1 .. N + 1}
    BY <2>1 DEF Items
  <2> HIDE DEF M
  <2>3. {M[i] : i \in 1 .. N + 1} = {t[i] : i \in 1 .. N} \cup {n}
    <3>1. \A i \in 1 .. N + 1 : i = N + 1 \/ i \in 1 .. N
      BY <2>1
    <3>2. \A i \in 1 .. N : i \in 1 .. N + 1
      BY <2>1
    <3>3. N + 1 \in 1 .. N + 1
      BY <2>1
    <3> HIDE DEF N
    <3> QED
      BY <2>1, <3>1, <3>2, <3>3
  <2> QED
    BY <2>2, <2>3 DEF Items
<1>2. Items(<<>>) = {} /\ \A n \in Sectors : Items(<<n>>) = {n}
  BY DEF Items
<1>3. \A t \in Seq(Sectors) : Items(t) \subseteq Sectors
  BY DEF Items
<1> QED
  BY <1>1, <1>2, <1>3

(* Chains are of sectors.                                                  *)
LEMMA OnSectors ==
  ASSUME NEW L \in [Places -> Seq(Sectors)], NEW p \in Places
  PROVE  On(L, p) \subseteq Sectors
BY ItemsAre DEF On

(* No entry is kept in a sector that no directory has.                     *)
LEMMA NoEntryElsewhere ==
  ASSUME NEW sec, NEW L, NEW W, Tidy(sec, L, W), NEW n \in Sectors,
         \A d \in Dirs(sec) : n \notin On(L, d), NEW k \in CellIndex
  PROVE  ~IsEntry(sec[n][k])
BY DEF Tidy

(* Writing data to a sector that has no entries keeps the tree,            *)
LEMMA TidyData ==
  ASSUME NEW V, NEW sec \in [Sectors -> Contents(V)], NEW L, NEW W, Tidy(sec, L, W), NEW n \in Sectors,
         \A k \in CellIndex : ~IsEntry(sec[n][k]),
         NEW cells \in Contents(V), \A k \in CellIndex : ~IsEntry(cells[k])
  PROVE  Tidy([sec EXCEPT ![n] = cells], L, W)
<1> DEFINE to == [sec EXCEPT ![n] = cells]
<1>1. \A s \in Sectors, k \in CellIndex : s # n => to[s][k] = sec[s][k]
  OBVIOUS
<1>2. \A k \in CellIndex : ~IsEntry(sec[n][k]) /\ ~IsEntry(to[n][k])
  OBVIOUS
<1> HIDE DEF to
<1>3. Dirs(to) = Dirs(sec)
  BY <1>1, <1>2 DEF Dirs, IsDirectory
<1>4. \A s \in Sectors, k \in CellIndex : /\ IsEntry(to[s][k]) <=> IsEntry(sec[s][k])
                                          /\ IsEntry(to[s][k]) => to[s][k] = sec[s][k]
  BY <1>1, <1>2
<1>5. \A d \in Dirs(sec) : On(L, d) \subseteq Sectors
  <2>1. L \in [Places -> Seq(Sectors)]
    BY DEF Tidy
  <2> QED
    BY <2>1, OnSectors, DirsAre
<1>6. Rooted(to, L)
  BY <1>3, RootedAdded DEF Tidy
<1>7. Tidy(to, L, W)
  BY SMTT(60), <1>3, <1>4, <1>5, <1>6 DEF Tidy
<1> QED
  BY <1>7 DEF to

(* as does taking a first sector, for a new directory or for a file that   *)
(* is open,                                                                *)
LEMMA TidyTaken ==
  ASSUME NEW sec, NEW L, NEW W, Tidy(sec, L, W), NEW n \in Sectors,
         NEW p \in Places, L[p] = <<>>,
         \/ p = TakenAt
         \/ \E s \in Sectors, k \in CellIndex : p = <<s, k>> /\ p \in W /\ IsEntry(sec[s][k])
  PROVE  Tidy(sec, [L EXCEPT ![p] = <<n>>], W)
<1> DEFINE M == [L EXCEPT ![p] = <<n>>]
<1>1. L \in [Places -> Seq(Sectors)]
  BY DEF Tidy
<1>2. /\ M \in [Places -> Seq(Sectors)] /\ M[p] # <<>>
      /\ \A q \in Places : q # p => M[q] = L[q] /\ FirstOf(M, q) = FirstOf(L, q)
  BY <1>1 DEF FirstOf
<1>3. p # RootAt => p \notin Dirs(sec)
  BY DirsAre DEF Tidy
<1>4. ASSUME NEW d \in Dirs(sec)
      PROVE  On(L, d) \subseteq On(M, d) /\ (d # p => On(M, d) = On(L, d)) /\ d \in Places
  <2>1. d \in Places
    BY DirsAre
  <2>2. d # p => On(M, d) = On(L, d)
    BY <1>1, <2>1 DEF On
  <2>3. On(L, p) = {}
    BY ItemsAre DEF On
  <2> HIDE DEF M
  <2> QED
    BY <2>1, <2>2, <2>3
<1>5. p # RootAt
  BY PlacesAre DEF CellIndex
<1> HIDE DEF M
<1>6. \A s \in Sectors, k \in CellIndex : <<s, k>> \in Places
  BY PlacesAre DEF CellIndex
<1>7. \A s \in Sectors, k \in CellIndex : M[<<s, k>>] # <<>> => IsEntry(sec[s][k])
  <2>1. TakenAt \notin Sectors \X CellIndex
    BY PlacesAre DEF CellIndex
  <2> QED
    BY <2>1, <1>2, <1>6 DEF Tidy
<1>8. ASSUME NEW s \in Sectors, NEW k \in CellIndex, IsEntry(sec[s][k])
      PROVE  /\ \E d \in Dirs(sec) : s \in On(M, d)
             /\ sec[s][k].first_sector \in {NO_SECTOR, FirstOf(M, <<s, k>>)}
             /\ sec[s][k].first_sector = FirstOf(M, <<s, k>>) \/ <<s, k>> \in W
             /\ sec[s][k].dir => M[<<s, k>>] # <<>> /\ sec[s][k].first_sector = FirstOf(M, <<s, k>>)
  <2>1. \E d \in Dirs(sec) : s \in On(M, d)
    BY <1>4, <1>8 DEF Tidy
  <2>2. CASE <<s, k>> = p
    <3>1. sec[s][k].first_sector = NO_SECTOR /\ ~sec[s][k].dir /\ p \in W
      BY <2>2, <1>6, <1>8, PlacesAre DEF Tidy, FirstOf, CellIndex
    <3> QED
      BY <2>1, <2>2, <3>1
  <2>3. CASE <<s, k>> # p
    BY <2>1, <2>3, <1>2, <1>6, <1>8 DEF Tidy
  <2> QED
    BY <2>2, <2>3
<1>9. Repeats \notin W => \A d \in Dirs(sec) : \A s, t \in On(M, d) : \A k, j \in CellIndex :
        IsEntry(sec[s][k]) /\ IsEntry(sec[t][j]) /\ sec[s][k].name = sec[t][j].name => s = t /\ k = j
  <2>1. \A d \in Dirs(sec) : On(M, d) = On(L, d)
    BY <1>3, <1>4, <1>5
  <2>2. Repeats \notin W => \A d \in Dirs(sec) : \A s, t \in On(L, d) : \A k, j \in CellIndex :
          IsEntry(sec[s][k]) /\ IsEntry(sec[t][j]) /\ sec[s][k].name = sec[t][j].name => s = t /\ k = j
    BY DEF Tidy
  <2> QED
    BY <2>1, <2>2
<1>10. Rooted(sec, M)
  BY <1>4, RootedAdded DEF Tidy
<1>11. Tidy(sec, M, W)
  BY <1>2, <1>7, <1>8, <1>9, <1>10 DEF Tidy
<1> QED
  BY <1>11 DEF M

(* linking another sector to a chain,                                      *)
LEMMA TidyGrown ==
  ASSUME NEW sec, NEW L, NEW W, Tidy(sec, L, W), NEW n \in Sectors,
         NEW p \in Places, L[p] # <<>>, \A d \in Dirs(sec) : n \notin On(L, d)
  PROVE  Tidy(sec, [L EXCEPT ![p] = Append(@, n)], W)
<1> DEFINE M == [L EXCEPT ![p] = Append(@, n)]
<1>1. L \in [Places -> Seq(Sectors)]
  BY DEF Tidy
<1>2. /\ M \in [Places -> Seq(Sectors)] /\ M[p] # <<>> /\ FirstOf(M, p) = FirstOf(L, p)
      /\ \A q \in Places : q # p => M[q] = L[q] /\ FirstOf(M, q) = FirstOf(L, q)
  <2>1. L[p] \in Seq(Sectors) /\ Append(L[p], n) \in Seq(Sectors) /\ M[p] = Append(L[p], n)
    BY <1>1
  <2>2. Append(L[p], n) # <<>> /\ Append(L[p], n)[1] = L[p][1]
    BY <2>1
  <2>3. FirstOf(M, p) = FirstOf(L, p)
    BY <2>1, <2>2 DEF FirstOf
  <2>4. M \in [Places -> Seq(Sectors)] /\ \A q \in Places : q # p => M[q] = L[q]
    BY <1>1, <2>1
  <2> HIDE DEF M
  <2> QED
    BY <2>1, <2>2, <2>3, <2>4 DEF FirstOf
<1>3. ASSUME NEW d \in Dirs(sec)
      PROVE  On(L, d) \subseteq On(M, d) /\ On(M, d) \subseteq On(L, d) \cup {n} /\ On(L, d) \subseteq Sectors
  <2>1. d \in Places
    BY DirsAre
  <2>2. On(M, d) = IF d = p THEN On(L, d) \cup {n} ELSE On(L, d)
    <3>1. L[d] \in Seq(Sectors) /\ M[d] = IF d = p THEN Append(L[d], n) ELSE L[d]
      BY <1>1, <2>1
    <3> HIDE DEF M
    <3> QED
      BY <3>1, ItemsAre DEF On
  <2>3. On(L, d) \subseteq Sectors
    BY <1>1, <2>1, OnSectors
  <2> HIDE DEF M
  <2> QED
    BY <2>2, <2>3
<1>4. \A k \in CellIndex : ~IsEntry(sec[n][k])
  BY NoEntryElsewhere
<1>5. \A s \in Sectors, k \in CellIndex : <<s, k>> \in Places
  BY PlacesAre DEF CellIndex
<1> HIDE DEF M
<1>6. \A q \in Places : (M[q] = <<>> <=> L[q] = <<>>) /\ FirstOf(M, q) = FirstOf(L, q)
  BY <1>2
<1>7. \A d \in Dirs(sec) : \A s \in On(M, d) : \A k \in CellIndex : IsEntry(sec[s][k]) => s \in On(L, d)
  BY <1>3, <1>4
<1>8. Tidy(sec, M, W)
  <2>1. \A s \in Sectors, k \in CellIndex : IsEntry(sec[s][k]) =>
          /\ \E d \in Dirs(sec) : s \in On(M, d)
          /\ sec[s][k].first_sector \in {NO_SECTOR, FirstOf(M, <<s, k>>)}
          /\ sec[s][k].first_sector = FirstOf(M, <<s, k>>) \/ <<s, k>> \in W
          /\ sec[s][k].dir => M[<<s, k>>] # <<>> /\ sec[s][k].first_sector = FirstOf(M, <<s, k>>)
    BY <1>3, <1>5, <1>6 DEF Tidy
  <2>2. Repeats \notin W => \A d \in Dirs(sec) : \A s, t \in On(M, d) : \A k, j \in CellIndex :
          IsEntry(sec[s][k]) /\ IsEntry(sec[t][j]) /\ sec[s][k].name = sec[t][j].name => s = t /\ k = j
    BY <1>7 DEF Tidy
  <2>3. \A s \in Sectors, k \in CellIndex : M[<<s, k>>] # <<>> => IsEntry(sec[s][k])
    BY <1>5, <1>6 DEF Tidy
  <2>4. Rooted(sec, M)
    BY <1>3, RootedAdded DEF Tidy
  <2> QED
    BY <1>2, <2>1, <2>2, <2>3, <2>4 DEF Tidy
<1> QED
  BY <1>8 DEF M

(* or giving back the sector taken for a directory that was not made.      *)
LEMMA TidyGivenBack ==
  ASSUME NEW sec, NEW L, NEW W, Tidy(sec, L, W)
  PROVE  Tidy(sec, [L EXCEPT ![TakenAt] = <<>>], W)
<1> DEFINE M == [L EXCEPT ![TakenAt] = <<>>]
<1>1. L \in [Places -> Seq(Sectors)]
  BY DEF Tidy
<1>2. /\ M \in [Places -> Seq(Sectors)]
      /\ \A q \in Places : q # TakenAt => M[q] = L[q] /\ FirstOf(M, q) = FirstOf(L, q) /\ On(M, q) = On(L, q)
  <2>0. <<>> \in Seq(Sectors)
    OBVIOUS
  <2>1. M \in [Places -> Seq(Sectors)] /\ \A q \in Places : q # TakenAt => M[q] = L[q]
    BY <1>1, <2>0
  <2> HIDE DEF M
  <2> QED
    BY <2>1 DEF FirstOf, On
<1>3. \A d \in Dirs(sec) : d \in Places /\ d # TakenAt
  BY DirsAre
<1>4. \A s \in Sectors, k \in CellIndex : <<s, k>> \in Places /\ <<s, k>> # TakenAt
  BY PlacesAre DEF CellIndex
<1> HIDE DEF M
<1>5. Tidy(sec, M, W)
  <2>1. Rooted(sec, M)
    BY <1>2, <1>3, RootedAdded DEF Tidy
  <2> QED
    BY <1>2, <1>3, <1>4, <2>1 DEF Tidy
<1> QED
  BY <1>5 DEF M

(* An entry is removed: one of no directory, or of one without entries.    *)
LEMMA TidyRemoved ==
  ASSUME NEW V, NEW sec \in [Sectors -> Contents(V)], NEW L, NEW W, Tidy(sec, L, W),
         NEW s \in Sectors, NEW k \in CellIndex, IsEntry(sec[s][k]),
         sec[s][k].dir => \A t \in On(L, <<s, k>>), j \in CellIndex : ~IsEntry(sec[t][j])
  PROVE  Tidy([sec EXCEPT ![s] = [@ EXCEPT ![k] = Zero]], [L EXCEPT ![<<s, k>>] = <<>>], W)
<1> DEFINE to == [sec EXCEPT ![s] = [@ EXCEPT ![k] = Zero]]
           M == [L EXCEPT ![<<s, k>>] = <<>>]
<1>1. L \in [Places -> Seq(Sectors)]
  BY DEF Tidy
<1>2. <<s, k>> \in Places /\ <<s, k>> # RootAt /\ \A t \in Sectors, j \in CellIndex : <<t, j>> \in Places
  BY PlacesAre DEF CellIndex
<1>3. to[s][k] = Zero /\ \A t \in Sectors, j \in CellIndex : <<t, j>> # <<s, k>> => to[t][j] = sec[t][j]
  BY DEF Contents
<1>4. /\ M \in [Places -> Seq(Sectors)] /\ M[<<s, k>>] = <<>>
      /\ \A q \in Places : q # <<s, k>> => M[q] = L[q] /\ FirstOf(M, q) = FirstOf(L, q) /\ On(M, q) = On(L, q)
  BY <1>1, <1>2 DEF FirstOf, On
<1> HIDE DEF to, M
<1>5. ~IsEntry(to[s][k])
  BY <1>3 DEF IsEntry, Zero
<1>6. Dirs(to) = Dirs(sec) \ {<<s, k>>}
  BY <1>2, <1>3, <1>5 DEF Dirs, IsDirectory
<1>7. \A d \in Dirs(to) : d \in Dirs(sec) /\ d # <<s, k>> /\ d \in Places /\ On(M, d) = On(L, d)
                          /\ On(L, d) \subseteq Sectors
  BY <1>1, <1>4, <1>6, DirsAre, OnSectors
<1>8. ASSUME NEW t \in Sectors, NEW j \in CellIndex, IsEntry(to[t][j])
      PROVE  /\ \E d \in Dirs(to) : t \in On(M, d)
             /\ to[t][j].first_sector \in {NO_SECTOR, FirstOf(M, <<t, j>>)}
             /\ to[t][j].first_sector = FirstOf(M, <<t, j>>) \/ <<t, j>> \in W
             /\ to[t][j].dir => M[<<t, j>>] # <<>> /\ to[t][j].first_sector = FirstOf(M, <<t, j>>)
  <2>1. <<t, j>> # <<s, k>> /\ to[t][j] = sec[t][j] /\ IsEntry(sec[t][j]) /\ <<t, j>> \in Places
    BY <1>2, <1>3, <1>5, <1>8
  <2>2. PICK d \in Dirs(sec) : t \in On(L, d)
    BY <2>1 DEF Tidy
  <2>3. d # <<s, k>>
    BY <2>1, <2>2, DirsAre
  <2>4. \E e \in Dirs(to) : t \in On(M, e)
    BY <2>2, <2>3, <1>6, <1>7
  <2> QED
    BY <2>1, <2>4, <1>4 DEF Tidy
<1>9. ASSUME NEW t \in Sectors, NEW j \in CellIndex, M[<<t, j>>] # <<>>
      PROVE  IsEntry(to[t][j])
  <2>1. <<t, j>> # <<s, k>> /\ <<t, j>> \in Places
    BY <1>2, <1>4, <1>9
  <2>2. L[<<t, j>>] # <<>> /\ to[t][j] = sec[t][j]
    BY <2>1, <1>3, <1>4, <1>9
  <2> QED
    BY <2>2 DEF Tidy
<1>10. ASSUME Repeats \notin W, NEW d \in Dirs(to), NEW t \in On(M, d), NEW u \in On(M, d), NEW i \in CellIndex, NEW j \in CellIndex,
              IsEntry(to[t][i]), IsEntry(to[u][j]), to[t][i].name = to[u][j].name
       PROVE  t = u /\ i = j
  <2>1. t \in Sectors /\ u \in Sectors /\ t \in On(L, d) /\ u \in On(L, d) /\ d \in Dirs(sec)
    BY <1>7
  <2>2. to[t][i] = sec[t][i] /\ to[u][j] = sec[u][j]
    BY <2>1, <1>3, <1>5, <1>10
  <2> QED
    BY <2>1, <2>2, <1>10 DEF Tidy
<1>11. Rooted(to, M)
  <2>1. <<s, k>> \in Dirs(sec) => \A t \in On(L, <<s, k>>), j \in CellIndex : <<t, j>> \notin Dirs(sec)
    BY <1>1, <1>2, OnSectors, DirsAre
  <2> QED
    <3> DEFINE p == <<s, k>>
    <3>1. p \in Places /\ p # RootAt /\ Dirs(to) = Dirs(sec) \ {p}
          /\ (p \in Dirs(sec) => \A t \in On(L, p), j \in CellIndex : <<t, j>> \notin Dirs(sec))
      BY <1>2, <1>6, <2>1
    <3>2. \A d \in Dirs(to) : On(L, d) \subseteq On(M, d)
      BY <1>7
    <3>3. Rooted(sec, L)
      BY DEF Tidy
    <3> HIDE DEF p
    <3> QED
      BY <3>1, <3>2, <3>3, RootedRemoved
<1>12. Tidy(to, M, W)
  BY <1>4, <1>8, <1>9, <1>10, <1>11 DEF Tidy
<1> QED
  BY <1>12 DEF to, M

(* Two places have no sector in common.                                    *)
LEMMA OnDisjoint ==
  ASSUME NEW fat, NEW L, Laid(fat, L), NEW p \in Places, NEW q \in Places, p # q
  PROVE  On(L, p) \cap On(L, q) = {}
BY DEF Laid, On, Items

(* An entry is written to a free cell of a directory without that name,    *)
(* with the chain that was taken for it.                                   *)
LEMMA TidyPut ==
  ASSUME NEW V, NEW sec \in [Sectors -> Contents(V)], NEW fat, NEW L, Laid(fat, L),
         NEW W, Tidy(sec, L, W),
         NEW d \in Dirs(sec), NEW s \in On(L, d), NEW k \in CellIndex, sec[s][k] = Zero,
         NEW entry, IsEntry(entry), entry.first_sector = FirstOf(L, TakenAt),
         entry.dir => L[TakenAt] # <<>>,
         Repeats \in W \/ \A t \in On(L, d), j \in CellIndex : IsEntry(sec[t][j]) => sec[t][j].name # entry.name
  PROVE  Tidy([sec EXCEPT ![s] = [@ EXCEPT ![k] = entry]],
              [L EXCEPT ![<<s, k>>] = L[TakenAt], ![TakenAt] = <<>>], W)
<1> DEFINE to == [sec EXCEPT ![s] = [@ EXCEPT ![k] = entry]]
           M == [L EXCEPT ![<<s, k>>] = L[TakenAt], ![TakenAt] = <<>>]
           p == <<s, k>>
<1>1. L \in [Places -> Seq(Sectors)] /\ d \in Places /\ d # TakenAt /\ TakenAt \in Places
  BY DirsAre, PlacesAre DEF Tidy
<1>2. s \in Sectors
  BY <1>1, OnSectors
<1>3. /\ p \in Places /\ p # RootAt /\ p # TakenAt
      /\ \A t \in Sectors, j \in CellIndex : <<t, j>> \in Places /\ <<t, j>> # TakenAt
  BY <1>2, PlacesAre DEF CellIndex
<1>4. to[s][k] = entry /\ \A t \in Sectors, j \in CellIndex : <<t, j>> # p => to[t][j] = sec[t][j]
  BY <1>2 DEF Contents
<1>5. /\ M \in [Places -> Seq(Sectors)] /\ M[p] = L[TakenAt]
      /\ \A q \in Places : q # p /\ q # TakenAt => M[q] = L[q]
  <2>1. <<>> \in Seq(Sectors)
    OBVIOUS
  <2> QED
    BY <1>1, <1>3, <2>1
<1> HIDE DEF to, M, p
<1>6. /\ FirstOf(M, p) = FirstOf(L, TakenAt) /\ On(M, p) = On(L, TakenAt)
      /\ \A q \in Places : q # p /\ q # TakenAt => FirstOf(M, q) = FirstOf(L, q) /\ On(M, q) = On(L, q)
  BY <1>5 DEF FirstOf, On
<1>7. ~IsEntry(sec[s][k]) /\ p \notin Dirs(sec)
  BY <1>2, DirsAre DEF IsEntry, Zero, p
<1>8. Dirs(to) \subseteq Dirs(sec) \cup {p} /\ Dirs(sec) \subseteq Dirs(to) /\ (p \in Dirs(to) => entry.dir)
  <2>1. ASSUME NEW q \in Dirs(to)
        PROVE  q \in Dirs(sec) \cup {p} /\ (q = p => entry.dir)
    <3>1. CASE q = RootAt
      BY <3>1, <1>3, DirsAre
    <3>2. CASE q # RootAt
      <4>1. q \in Sectors \X CellIndex /\ IsDirectory(to[q[1]][q[2]])
        BY <3>2 DEF Dirs
      <4>2. PICK t \in Sectors, j \in CellIndex : q = <<t, j>>
        BY <4>1
      <4>3. IsDirectory(to[t][j])
        BY <4>1, <4>2
      <4>4. CASE q = p
        <5>1. t = s /\ j = k
          BY <4>2, <4>4 DEF p
        <5> QED
          BY <4>3, <4>4, <5>1, <1>4 DEF IsDirectory
      <4>5. CASE q # p
        BY <4>2, <4>3, <4>5, <1>4, DirsAre
      <4> QED
        BY <4>4, <4>5
    <3> QED
      BY <3>1, <3>2
  <2>2. ASSUME NEW q \in Dirs(sec)
        PROVE  q \in Dirs(to)
    <3>1. CASE q = RootAt
      BY <3>1, DirsAre
    <3>2. CASE q # RootAt
      <4>1. q \in Sectors \X CellIndex /\ IsDirectory(sec[q[1]][q[2]])
        BY <3>2 DEF Dirs
      <4>2. PICK t \in Sectors, j \in CellIndex : q = <<t, j>>
        BY <4>1
      <4>3. q # p /\ IsDirectory(sec[t][j])
        BY <4>1, <4>2, <1>7
      <4> QED
        BY <4>2, <4>3, <1>4, DirsAre
    <3> QED
      BY <3>1, <3>2
  <2> QED
    BY <2>1, <2>2
<1>9. \A q \in Dirs(sec) : q \in Places /\ q # p /\ q # TakenAt /\ On(M, q) = On(L, q) /\ On(L, q) \subseteq Sectors
  BY <1>1, <1>6, <1>7, DirsAre, OnSectors
<1>10. \A t \in On(L, TakenAt), j \in CellIndex : t \in Sectors /\ ~IsEntry(to[t][j])
  <2> SUFFICES ASSUME NEW t \in On(L, TakenAt), NEW j \in CellIndex
               PROVE  t \in Sectors /\ ~IsEntry(to[t][j])
    OBVIOUS
  <2>1. t \in Sectors
    BY <1>1, OnSectors
  <2>2. \A q \in Dirs(sec) : t \notin On(L, q)
    BY <1>1, <1>9, OnDisjoint
  <2>3. ~IsEntry(sec[t][j])
    BY <2>1, <2>2, NoEntryElsewhere
  <2>4. t # s
    BY <2>2
  <2>5. <<t, j>> # p
    BY <2>4 DEF p
  <2> QED
    BY <2>1, <2>3, <2>5, <1>4
<1>11. ASSUME NEW t \in Sectors, NEW j \in CellIndex, IsEntry(to[t][j])
       PROVE  /\ \E q \in Dirs(to) : t \in On(M, q)
              /\ to[t][j].first_sector \in {NO_SECTOR, FirstOf(M, <<t, j>>)}
              /\ to[t][j].first_sector = FirstOf(M, <<t, j>>) \/ <<t, j>> \in W
              /\ to[t][j].dir => M[<<t, j>>] # <<>> /\ to[t][j].first_sector = FirstOf(M, <<t, j>>)
  <2>1. CASE <<t, j>> = p
    <3>1. t = s /\ j = k
      BY <2>1 DEF p
    <3>2. \E q \in Dirs(to) : t \in On(M, q)
      BY <3>1, <1>8, <1>9
    <3>3. to[t][j] = entry
      BY <3>1, <1>4
    <3> QED
      BY <2>1, <3>2, <3>3, <1>5, <1>6
  <2>2. CASE <<t, j>> # p
    <3>1. to[t][j] = sec[t][j] /\ IsEntry(sec[t][j])
      BY <2>2, <1>4, <1>11
    <3>2. M[<<t, j>>] = L[<<t, j>>] /\ FirstOf(M, <<t, j>>) = FirstOf(L, <<t, j>>)
      BY <2>2, <1>3, <1>5, <1>6
    <3>3. PICK q \in Dirs(sec) : t \in On(L, q)
      BY <3>1 DEF Tidy
    <3>4. \E x \in Dirs(to) : t \in On(M, x)
      BY <3>3, <1>8, <1>9
    <3> QED
      BY <3>1, <3>2, <3>4 DEF Tidy
  <2> QED
    BY <2>1, <2>2
<1>12. ASSUME NEW t \in Sectors, NEW j \in CellIndex, M[<<t, j>>] # <<>>
       PROVE  IsEntry(to[t][j])
  <2>1. CASE <<t, j>> = p
    <3>1. t = s /\ j = k
      BY <2>1 DEF p
    <3> QED
      BY <3>1, <1>4
  <2>2. CASE <<t, j>> # p
    <3>1. to[t][j] = sec[t][j]
      BY <2>2, <1>4
    <3>2. L[<<t, j>>] # <<>>
      BY <2>2, <1>3, <1>5, <1>12
    <3> QED
      BY <3>1, <3>2 DEF Tidy
  <2> QED
    BY <2>1, <2>2
<1>13. ASSUME Repeats \notin W, NEW q \in Dirs(to), NEW t \in On(M, q), NEW u \in On(M, q), NEW i \in CellIndex, NEW j \in CellIndex,
              IsEntry(to[t][i]), IsEntry(to[u][j]), to[t][i].name = to[u][j].name
       PROVE  t = u /\ i = j
  <2>1. q # p
    BY <1>6, <1>10, <1>13
  <2>2. q \in Dirs(sec) /\ t \in On(L, q) /\ u \in On(L, q) /\ t \in Sectors /\ u \in Sectors
    BY <2>1, <1>8, <1>9
  <2>3. CASE <<t, i>> # p /\ <<u, j>> # p
    <3>1. to[t][i] = sec[t][i] /\ to[u][j] = sec[u][j]
      BY <2>2, <2>3, <1>4
    <3> QED
      BY <2>2, <3>1, <1>13 DEF Tidy
  <2>4. CASE <<t, i>> = p /\ <<u, j>> = p
    BY <2>4 DEF p
  <2>5. CASE <<t, i>> = p /\ <<u, j>> # p
    <3>1. t = s /\ i = k /\ to[u][j] = sec[u][j]
      BY <2>2, <2>5, <1>4 DEF p
    <3>2. q = d
      BY <2>2, <3>1, <1>1, <1>9, OnDisjoint
    <3> QED
      BY <2>2, <3>1, <3>2, <1>4, <1>13
  <2>6. CASE <<t, i>> # p /\ <<u, j>> = p
    <3>1. u = s /\ j = k /\ to[t][i] = sec[t][i]
      BY <2>2, <2>6, <1>4 DEF p
    <3>2. q = d
      BY <2>2, <3>1, <1>1, <1>9, OnDisjoint
    <3> QED
      BY <2>2, <3>1, <3>2, <1>4, <1>13
  <2> QED
    BY <2>3, <2>4, <2>5, <2>6
<1>14. Rooted(to, M)
  <2>1. \A q \in Dirs(to) \ Dirs(sec) : q = p
    BY <1>8
  <2>2. s \in On(M, d)
    BY <1>9
  <2> QED
    BY <1>8, <1>9, <2>1, <2>2, RootedAdded DEF Tidy, p
<1>15. Tidy(to, M, W)
  BY <1>5, <1>11, <1>12, <1>13, <1>14 DEF Tidy
<1> QED
  BY <1>15 DEF to, M, p

(* The entry of a file is told of the file's first sector (file_close).    *)
LEMMA TidySaved ==
  ASSUME NEW V, NEW sec \in [Sectors -> Contents(V)], NEW L, NEW W, Tidy(sec, L, W),
         NEW s \in Sectors, NEW k \in CellIndex, IsEntry(sec[s][k]), ~sec[s][k].dir,
         NEW entry, IsEntry(entry), ~entry.dir, entry.name = sec[s][k].name,
         entry.first_sector = FirstOf(L, <<s, k>>)
  PROVE  Tidy([sec EXCEPT ![s] = [@ EXCEPT ![k] = entry]], L, W)
<1> DEFINE to == [sec EXCEPT ![s] = [@ EXCEPT ![k] = entry]]
<1>1. to[s][k] = entry /\ \A t \in Sectors, j \in CellIndex : <<t, j>> # <<s, k>> => to[t][j] = sec[t][j]
  BY DEF Contents
<1> HIDE DEF to
<1>2. \A t \in Sectors, j \in CellIndex :
        /\ IsEntry(to[t][j]) <=> IsEntry(sec[t][j])
        /\ IsEntry(to[t][j]) => to[t][j].name = sec[t][j].name /\ (to[t][j].dir <=> sec[t][j].dir)
        /\ to[t][j] = sec[t][j] \/ (to[t][j].first_sector = FirstOf(L, <<t, j>>) /\ ~to[t][j].dir)
  <2> SUFFICES ASSUME NEW t \in Sectors, NEW j \in CellIndex
               PROVE  /\ IsEntry(to[t][j]) <=> IsEntry(sec[t][j])
                      /\ IsEntry(to[t][j]) => to[t][j].name = sec[t][j].name /\ (to[t][j].dir <=> sec[t][j].dir)
                      /\ to[t][j] = sec[t][j] \/ (to[t][j].first_sector = FirstOf(L, <<t, j>>) /\ ~to[t][j].dir)
    OBVIOUS
  <2>1. CASE t = s /\ j = k
    <3>1. to[s][k] = entry
      BY <1>1
    <3>2. IsEntry(to[s][k]) <=> IsEntry(sec[s][k])
      BY <3>1
    <3>3. to[s][k].name = sec[s][k].name /\ (to[s][k].dir <=> sec[s][k].dir)
      BY <3>1, Zenon
    <3>4. to[s][k].first_sector = FirstOf(L, <<s, k>>) /\ ~to[s][k].dir
      BY <3>1, Zenon
    <3>5. t = s /\ j = k
      BY <2>1
    <3> QED
      BY <3>2, <3>3, <3>4, <3>5, Zenon
  <2>2. CASE ~(t = s /\ j = k)
    <3>1. to[t][j] = sec[t][j]
      BY <2>2, <1>1
    <3> QED
      BY <3>1
  <2> QED
    BY <2>1, <2>2
<1>3. Dirs(to) = Dirs(sec)
  BY <1>2 DEF Dirs, IsDirectory
<1>4. \A d \in Dirs(sec) : On(L, d) \subseteq Sectors
  BY OnSectors, DirsAre DEF Tidy
<1>5. Tidy(to, L, W)
  <2>1. \A t \in Sectors, j \in CellIndex : IsEntry(to[t][j]) =>
          /\ \E d \in Dirs(to) : t \in On(L, d)
          /\ to[t][j].first_sector \in {NO_SECTOR, FirstOf(L, <<t, j>>)}
          /\ to[t][j].first_sector = FirstOf(L, <<t, j>>) \/ <<t, j>> \in W
          /\ to[t][j].dir => L[<<t, j>>] # <<>> /\ to[t][j].first_sector = FirstOf(L, <<t, j>>)
    BY <1>2, <1>3 DEF Tidy
  <2>2. ASSUME Repeats \notin W, NEW d \in Dirs(to), NEW t \in On(L, d), NEW u \in On(L, d), NEW i \in CellIndex, NEW j \in CellIndex,
               IsEntry(to[t][i]), IsEntry(to[u][j]), to[t][i].name = to[u][j].name
        PROVE  t = u /\ i = j
    <3>1. d \in Dirs(sec) /\ t \in Sectors /\ u \in Sectors
      BY <1>3, <1>4
    <3>2. IsEntry(sec[t][i]) /\ IsEntry(sec[u][j]) /\ sec[t][i].name = sec[u][j].name
      BY <3>1, <2>2, <1>2
    <3> QED
      BY <2>2, <3>1, <3>2 DEF Tidy
  <2>3. L \in [Places -> Seq(Sectors)] /\ \A t \in Sectors, j \in CellIndex : L[<<t, j>>] # <<>> => IsEntry(to[t][j])
    BY <1>2 DEF Tidy
  <2>4. Rooted(to, L)
    BY <1>3, RootedAdded DEF Tidy
  <2> QED
    BY <2>1, <2>2, <2>3, <2>4 DEF Tidy
<1> QED
  BY <1>5 DEF to

(* Files that know their first sector need not be in W.                    *)
LEMMA TidyKnown ==
  ASSUME NEW sec, NEW L, NEW W, Tidy(sec, L, W), NEW X,
         \A s \in Sectors, k \in CellIndex :
            IsEntry(sec[s][k]) /\ <<s, k>> \in W \ X => sec[s][k].first_sector = FirstOf(L, <<s, k>>),
         Repeats \in W => Repeats \in X
  PROVE  Tidy(sec, L, X)
<1>1. \A s \in Sectors, k \in CellIndex : IsEntry(sec[s][k]) =>
        sec[s][k].first_sector = FirstOf(L, <<s, k>>) \/ <<s, k>> \in X
  BY DEF Tidy
<1> QED
  BY <1>1 DEF Tidy

(* The disk is as it should be: counts, chains and tree agree.             *)
Fine(V, io, L, W) ==
    /\ io \in IOs(Contents(V)) /\ Counted(io)
    /\ Laid(io.disk.fat, L) /\ Tidy(io.disk.sector, L, W)

(* The parts of a disk in use.                                             *)
LEMMA IOsAre ==
  ASSUME NEW C, NEW io \in IOs(C)
  PROVE  /\ io.disk.fat \in [Sectors -> Marks] /\ io.disk.sector \in [Sectors -> C]
         /\ io.disk \in Disks(C) /\ io.free_sectors \in Int
BY DEF IOs, Disks

(* The operations of the driver on a disk that is as it should be. Data is *)
(* written to a sector without entries (flush_buffer).                     *)
LEMMA FineData ==
  ASSUME NEW V, NEW io, NEW L, NEW W, Fine(V, io, L, W), NEW n \in Sectors,
         \A k \in CellIndex : ~IsEntry(io.disk.sector[n][k]),
         NEW cells \in Contents(V), \A k \in CellIndex : ~IsEntry(cells[k])
  PROVE  /\ Fine(V, write_sector(io, n, cells), L, W)
         /\ write_sector(io, n, cells).disk.sector = [io.disk.sector EXCEPT ![n] = cells]
         /\ write_sector(io, n, cells).disk.fat = io.disk.fat
<1> DEFINE new == write_sector(io, n, cells)
<1>1. io \in IOs(Contents(V)) /\ Counted(io) /\ io.disk.sector \in [Sectors -> Contents(V)]
  BY IOsAre DEF Fine
<1>2. /\ new \in IOs(Contents(V)) /\ new.disk.fat = io.disk.fat /\ new.disk.super = io.disk.super
      /\ new.disk.sector = [io.disk.sector EXCEPT ![n] = cells] /\ new.free_sectors = io.free_sectors
  BY <1>1, SectorWritten
<1>3. Tidy([io.disk.sector EXCEPT ![n] = cells], L, W)
  BY <1>1, TidyData DEF Fine
<1> HIDE DEF new
<1>4. Fine(V, new, L, W)
  BY <1>1, <1>2, <1>3 DEF Fine, Counted
<1> QED
  BY <1>2, <1>4 DEF new

(* A first sector is taken (mkdir, the first write to a file).             *)
LEMMA FineTaken ==
  ASSUME NEW V, NEW io, NEW L, NEW W, Fine(V, io, L, W), FreeIn(io.disk.fat) # {},
         NEW p \in Places, L[p] = <<>>,
         \/ p = TakenAt
         \/ \E s \in Sectors, k \in CellIndex : p = <<s, k>> /\ p \in W /\ IsEntry(io.disk.sector[s][k])
  PROVE  /\ fat_alloc(io).sector \in DataSectors
         /\ fat_alloc(io).io.disk.sector = io.disk.sector
         /\ Fine(V, fat_alloc(io).io, [L EXCEPT ![p] = <<fat_alloc(io).sector>>], W)
<1> DEFINE n == fat_alloc(io).sector
           new == fat_alloc(io).io
<1>1. io \in IOs(Contents(V)) /\ Counted(io)
  BY DEF Fine
<1>2. /\ n \in FreeIn(io.disk.fat) /\ new \in IOs(Contents(V))
      /\ new.disk.fat = [io.disk.fat EXCEPT ![n] = FAT_END]
      /\ new.disk.sector = io.disk.sector /\ Counted(new)
  BY <1>1, Allocates
<1> HIDE DEF n, new
<1>3. n \in DataSectors /\ n \in Sectors
  BY <1>2, SectorsAre DEF FreeIn
<1>4. Laid([io.disk.fat EXCEPT ![n] = FAT_END], [L EXCEPT ![p] = <<n>>])
  BY <1>2, LayTaken DEF Fine
<1>5. Tidy(io.disk.sector, [L EXCEPT ![p] = <<n>>], W)
  BY <1>3, TidyTaken DEF Fine
<1>6. Fine(V, new, [L EXCEPT ![p] = <<n>>], W)
  BY <1>2, <1>4, <1>5 DEF Fine
<1> QED
  BY <1>2, <1>3, <1>6 DEF n, new

(* A chain is lengthened: the sector taken is linked to the last one.      *)
Grown(L, p, n) == [L EXCEPT ![p] = Append(@, n)]

Linked(new, s) == fat_write(new.io, s, new.sector)

(* A directory or a file grows by a sector (dir_find_free_in,              *)
(* file_write_byte).                                                       *)
LEMMA SectorGrown ==
  ASSUME NEW V, NEW io, NEW L, NEW W, Fine(V, io, L, W), FreeIn(io.disk.fat) # {},
         NEW p \in Places, L[p] # <<>>
  PROVE  /\ fat_alloc(io).sector \in DataSectors /\ \A q \in Places : fat_alloc(io).sector \notin On(L, q)
         /\ Linked(fat_alloc(io), L[p][Len(L[p])]).disk.sector = io.disk.sector
         /\ Fine(V, Linked(fat_alloc(io), L[p][Len(L[p])]), Grown(L, p, fat_alloc(io).sector), W)
<1> DEFINE n == fat_alloc(io).sector
           taken == fat_alloc(io).io
           last == L[p][Len(L[p])]
           new == fat_write(taken, last, n)
<1>1. io \in IOs(Contents(V)) /\ Counted(io) /\ io.disk.fat \in [Sectors -> Marks]
  BY IOsAre DEF Fine
<1>2. /\ n \in FreeIn(io.disk.fat) /\ taken \in IOs(Contents(V))
      /\ taken.disk.fat = [io.disk.fat EXCEPT ![n] = FAT_END]
      /\ taken.disk.sector = io.disk.sector /\ Counted(taken)
  BY <1>1, Allocates
<1> HIDE DEF n, taken
<1>3. n \in DataSectors /\ n \in Sectors /\ n \in Marks /\ n # FAT_FREE
  BY <1>2, SectorsAre DEF FreeIn, Marks, EndsChain
<1>4. Len(L[p]) \in 1 .. Len(L[p])
  BY DEF Fine, Laid
<1>5. last \in Sectors /\ last # n /\ (last \in DataSectors => io.disk.fat[last] # FAT_FREE)
  <2>1. Laid(io.disk.fat, L)
    BY DEF Fine
  <2>2. root_start \notin DataSectors
    BY SectorsAre DEF DataSectors
  <2> QED
    BY <1>2, <1>4, <2>1, <2>2, InUse, FreeIsUnused
<1> HIDE DEF last
<1>6. /\ new \in IOs(Contents(V)) /\ new.disk.fat = [taken.disk.fat EXCEPT ![last] = n]
      /\ new.disk.super = taken.disk.super /\ new.disk.sector = taken.disk.sector
      /\ new.free_sectors = taken.free_sectors
  BY <1>2, <1>3, <1>5, FatWritten
<1> HIDE DEF new
<1>7. taken.disk.fat \in [Sectors -> Marks] /\ taken.disk.fat[last] = io.disk.fat[last]
  BY <1>1, <1>2, <1>5, IOsAre
<1>8. FreeIn(new.disk.fat) = FreeIn(taken.disk.fat)
  <2> DEFINE fat == taken.disk.fat
  <2>1. fat \in [Sectors -> Marks] /\ (last \in DataSectors => fat[last] # FAT_FREE)
    BY <1>5, <1>7
  <2> HIDE DEF fat
  <2>2. FreeIn([fat EXCEPT ![last] = n]) = FreeIn(fat)
    BY <1>3, <1>5, <2>1, OneLinked
  <2> QED
    BY <1>6, <2>2 DEF fat
<1>9. Counted(new)
  BY <1>2, <1>6, <1>8 DEF Counted
<1>10. Laid(new.disk.fat, [L EXCEPT ![p] = Append(@, n)])
  <2>1. Laid([[io.disk.fat EXCEPT ![n] = FAT_END] EXCEPT ![L[p][Len(L[p])]] = n], [L EXCEPT ![p] = Append(@, n)])
    BY <1>2, LayGrown DEF Fine
  <2> QED
    BY <2>1, <1>2, <1>6 DEF last
<1>11. \A q \in Places : n \notin On(L, q)
  BY <1>2, FreeIsUnused DEF On, Items, Fine
<1>12. Tidy(io.disk.sector, [L EXCEPT ![p] = Append(@, n)], W)
  BY <1>3, <1>11, TidyGrown, DirsAre DEF Fine
<1>13. Fine(V, new, [L EXCEPT ![p] = Append(@, n)], W)
  BY <1>2, <1>6, <1>9, <1>10, <1>12 DEF Fine
<1>14. Linked(fat_alloc(io), last) = new /\ Grown(L, p, n) = [L EXCEPT ![p] = Append(@, n)]
  BY DEF Linked, Grown, new, taken, n
<1> QED
  BY <1>2, <1>3, <1>6, <1>11, <1>13, <1>14 DEF n, last

(* The same, spelled out.                                                  *)
LEMMA FineGrown ==
  ASSUME NEW V, NEW io, NEW L, NEW W, Fine(V, io, L, W), FreeIn(io.disk.fat) # {},
         NEW p \in Places, L[p] # <<>>
  PROVE  LET n == fat_alloc(io).sector
             new == fat_write(fat_alloc(io).io, L[p][Len(L[p])], n)
         IN  /\ n \in DataSectors /\ \A q \in Places : n \notin On(L, q)
             /\ new.disk.sector = io.disk.sector
             /\ Fine(V, new, [L EXCEPT ![p] = Append(@, n)], W)
BY SectorGrown DEF Linked, Grown

(* The chain of a place is freed.                                          *)
LEMMA FineFreed ==
  ASSUME NEW C, NEW io \in IOs(C), Counted(io), NEW L, Laid(io.disk.fat, L),
         NEW p \in Places, p # RootAt, L[p] # <<>>
  PROVE  /\ fat_free(io, FirstOf(L, p)) \in IOs(C)
         /\ Counted(fat_free(io, FirstOf(L, p)))
         /\ fat_free(io, FirstOf(L, p)).disk.sector = io.disk.sector
         /\ Laid(fat_free(io, FirstOf(L, p)).disk.fat, [L EXCEPT ![p] = <<>>])
<1>1. IsPath(io.disk.fat, FirstOf(L, p), L[p])
  BY LaidIsPath
<1>2. \A i \in 1 .. Len(L[p]) : L[p][i] \in DataSectors /\ io.disk.fat[L[p][i]] # FAT_FREE
  BY InUse
<1> DEFINE new == fat_free(io, FirstOf(L, p))
<1>3. /\ new \in IOs(C)
      /\ new.disk.fat = [s \in Sectors |-> IF \E i \in 1 .. Len(L[p]) : L[p][i] = s THEN FAT_FREE ELSE io.disk.fat[s]]
      /\ new.disk.sector = io.disk.sector
      /\ Counted(new)
  BY <1>1, <1>2, ChainFreed
<1>4. Laid(new.disk.fat, [L EXCEPT ![p] = <<>>])
  <2>1. Laid([s \in Sectors |-> IF \E i \in 1 .. Len(L[p]) : L[p][i] = s THEN FAT_FREE ELSE io.disk.fat[s]],
             [L EXCEPT ![p] = <<>>])
    BY LayFreed
  <2> HIDE DEF new
  <2> QED
    BY <1>3, <2>1
<1> QED
  BY <1>3, <1>4

(* mkdir gives back the sector that it took, when there is no room for the *)
(* entry.                                                                  *)
LEMMA FineGivenBack ==
  ASSUME NEW V, NEW io, NEW L, NEW W, Fine(V, io, L, W), L[TakenAt] # <<>>
  PROVE  /\ Fine(V, fat_free(io, FirstOf(L, TakenAt)), [L EXCEPT ![TakenAt] = <<>>], W)
         /\ fat_free(io, FirstOf(L, TakenAt)).disk.sector = io.disk.sector
<1>1. TakenAt \in Places /\ TakenAt # RootAt
  BY PlacesAre
<1>2. Tidy(io.disk.sector, [L EXCEPT ![TakenAt] = <<>>], W)
  BY TidyGivenBack DEF Fine
<1>3. /\ fat_free(io, FirstOf(L, TakenAt)) \in IOs(Contents(V))
      /\ Counted(fat_free(io, FirstOf(L, TakenAt)))
      /\ fat_free(io, FirstOf(L, TakenAt)).disk.sector = io.disk.sector
      /\ Laid(fat_free(io, FirstOf(L, TakenAt)).disk.fat, [L EXCEPT ![TakenAt] = <<>>])
  BY <1>1, FineFreed DEF Fine
<1> QED
  BY <1>2, <1>3 DEF Fine

(* write_dirent_at writes one cell of one sector.                          *)
LEMMA DirentWritten ==
  ASSUME NEW V, NEW io \in IOs(Contents(V)), NEW s \in Sectors, NEW k \in CellIndex, NEW cell \in CellSet(V)
  PROVE  /\ write_dirent_at(io, s, k, cell) \in IOs(Contents(V))
         /\ write_dirent_at(io, s, k, cell).disk.fat = io.disk.fat
         /\ write_dirent_at(io, s, k, cell).disk.sector =
              [io.disk.sector EXCEPT ![s] = [@ EXCEPT ![k] = cell]]
         /\ Counted(io) => Counted(write_dirent_at(io, s, k, cell))
<1> DEFINE cells == [io.disk.sector[s] EXCEPT ![k] = cell]
           new == write_sector(io, s, cells)
<1>1. io.disk.sector \in [Sectors -> Contents(V)]
  BY IOsAre
<1>2. cells \in Contents(V)
  BY <1>1 DEF Contents
<1>3. write_dirent_at(io, s, k, cell) = new
  BY DEF write_dirent_at
<1> HIDE DEF cells
<1>4. /\ new \in IOs(Contents(V)) /\ new.disk.fat = io.disk.fat /\ new.disk.super = io.disk.super
      /\ new.disk.sector = [io.disk.sector EXCEPT ![s] = cells] /\ new.free_sectors = io.free_sectors
  BY <1>2, SectorWritten
<1> HIDE DEF new
<1>5. Counted(io) => Counted(new)
  BY <1>4 DEF Counted
<1> QED
  BY <1>3, <1>4, <1>5 DEF cells

(* dir_delete_at frees the chain of an entry and clears its cell: that of  *)
(* a file, or of a directory without entries.                              *)
LEMMA FineRemoved ==
  ASSUME NEW V, NEW io, NEW L, NEW W, Fine(V, io, L, W),
         NEW s \in Sectors, NEW k \in CellIndex, IsEntry(io.disk.sector[s][k]), <<s, k>> \notin W,
         io.disk.sector[s][k].dir =>
            \A t \in On(L, <<s, k>>), j \in CellIndex : ~IsEntry(io.disk.sector[t][j])
  PROVE  /\ dir_delete_at(io, s, k).ok
         /\ dir_delete_at(io, s, k).io.disk.sector = [io.disk.sector EXCEPT ![s] = [@ EXCEPT ![k] = Zero]]
         /\ Fine(V, dir_delete_at(io, s, k).io, [L EXCEPT ![<<s, k>>] = <<>>], W)
<1> DEFINE p == <<s, k>>
           entry == read_dirent_at(io, s, k)
           freed == IF entry.first_sector = NO_SECTOR THEN io ELSE fat_free(io, entry.first_sector)
<1>1. entry = io.disk.sector[s][k]
  BY DEF read_dirent_at
<1>2. dir_delete_at(io, s, k) = [io |-> write_dirent_at(freed, s, k, Zero), ok |-> TRUE]
  BY <1>1, Zenon DEF dir_delete_at, IsEntry
<1>3. /\ io \in IOs(Contents(V)) /\ Counted(io) /\ io.disk.sector \in [Sectors -> Contents(V)]
      /\ Laid(io.disk.fat, L) /\ Tidy(io.disk.sector, L, W)
  BY IOsAre DEF Fine
<1>4. p \in Places /\ p # RootAt
  BY PlacesAre DEF CellIndex
<1>5. entry.first_sector = FirstOf(L, p)
  BY <1>1, <1>3 DEF Tidy
<1> HIDE DEF entry, p
<1>6. /\ freed \in IOs(Contents(V)) /\ Counted(freed) /\ freed.disk.sector = io.disk.sector
      /\ Laid(freed.disk.fat, [L EXCEPT ![p] = <<>>])
  <2>1. CASE entry.first_sector = NO_SECTOR
    <3>1. L \in [Places -> Seq(Sectors)]
      BY <1>3 DEF Laid
    <3>2. L[p] = <<>>
      <4>1. L[p] # <<>> => L[p][1] \in Sectors
        BY <1>4, <3>1
      <4> QED
        BY <2>1, <4>1, <1>5, SectorsAre DEF FirstOf, EndsChain
    <3>3. [L EXCEPT ![p] = <<>>] = L
      BY <3>1, <3>2
    <3> QED
      BY <2>1, <3>3, <1>3
  <2>2. CASE entry.first_sector # NO_SECTOR
    <3>1. L[p] # <<>> /\ freed = fat_free(io, FirstOf(L, p))
      BY <2>2, <1>5 DEF FirstOf
    <3> QED
      BY <3>1, <1>3, <1>4, FineFreed
  <2> QED
    BY <2>1, <2>2
<1> HIDE DEF freed
<1> DEFINE new == write_dirent_at(freed, s, k, Zero)
<1>7. /\ new \in IOs(Contents(V)) /\ new.disk.fat = freed.disk.fat
      /\ new.disk.sector = [freed.disk.sector EXCEPT ![s] = [@ EXCEPT ![k] = Zero]]
      /\ Counted(new)
  BY <1>6, DirentWritten DEF CellSet
<1> HIDE DEF new
<1>8. Tidy([io.disk.sector EXCEPT ![s] = [@ EXCEPT ![k] = Zero]], [L EXCEPT ![p] = <<>>], W)
  BY <1>3, TidyRemoved DEF p
<1>9. Fine(V, new, [L EXCEPT ![p] = <<>>], W)
  BY <1>6, <1>7, <1>8 DEF Fine
<1>10. dir_delete_at(io, s, k).ok /\ dir_delete_at(io, s, k).io = new
  BY <1>2 DEF new
<1> QED
  BY <1>6, <1>7, <1>9, <1>10 DEF p

(* A cell that has no entry is left as it is.                              *)
LEMMA NothingRemoved ==
  ASSUME NEW io, NEW s, NEW k, ~IsEntry(read_dirent_at(io, s, k))
  PROVE  dir_delete_at(io, s, k) = [io |-> io, ok |-> FALSE]
BY Zenon DEF dir_delete_at, IsEntry

(* An open file's entry is written again, with its first sector.           *)
LEMMA FineSaved ==
  ASSUME NEW V, NEW io, NEW L, NEW W, Fine(V, io, L, W),
         NEW s \in Sectors, NEW k \in CellIndex,
         IsEntry(io.disk.sector[s][k]), ~io.disk.sector[s][k].dir,
         NEW entry \in CellSet(V), IsEntry(entry), ~entry.dir, entry.name = io.disk.sector[s][k].name,
         entry.first_sector = FirstOf(L, <<s, k>>)
  PROVE  /\ Fine(V, write_dirent_at(io, s, k, entry), L, W)
         /\ write_dirent_at(io, s, k, entry).disk.sector =
              [io.disk.sector EXCEPT ![s] = [@ EXCEPT ![k] = entry]]
<1> DEFINE new == write_dirent_at(io, s, k, entry)
<1>1. /\ io \in IOs(Contents(V)) /\ Counted(io) /\ io.disk.sector \in [Sectors -> Contents(V)]
      /\ Laid(io.disk.fat, L) /\ Tidy(io.disk.sector, L, W)
  BY IOsAre DEF Fine
<1>2. /\ new \in IOs(Contents(V)) /\ new.disk.fat = io.disk.fat
      /\ new.disk.sector = [io.disk.sector EXCEPT ![s] = [@ EXCEPT ![k] = entry]]
      /\ Counted(new)
  BY <1>1, DirentWritten
<1>3. Tidy([io.disk.sector EXCEPT ![s] = [@ EXCEPT ![k] = entry]], L, W)
  BY <1>1, TidySaved
<1> HIDE DEF new
<1>4. Fine(V, new, L, W)
  BY <1>1, <1>2, <1>3 DEF Fine
<1> QED
  BY <1>2, <1>4 DEF new

(* A new entry is written to a free cell.                                  *)
LEMMA FinePut ==
  ASSUME NEW V, NEW io, NEW L, NEW W, Fine(V, io, L, W),
         NEW d \in Dirs(io.disk.sector), NEW s \in On(L, d), NEW k \in CellIndex,
         io.disk.sector[s][k] = Zero,
         NEW entry \in CellSet(V), IsEntry(entry), entry.first_sector = FirstOf(L, TakenAt),
         entry.dir => L[TakenAt] # <<>>,
         Repeats \in W \/ \A t \in On(L, d), j \in CellIndex :
            IsEntry(io.disk.sector[t][j]) => io.disk.sector[t][j].name # entry.name
  PROVE  /\ Fine(V, write_dirent_at(io, s, k, entry),
                 [L EXCEPT ![<<s, k>>] = L[TakenAt], ![TakenAt] = <<>>], W)
         /\ write_dirent_at(io, s, k, entry).disk.sector =
              [io.disk.sector EXCEPT ![s] = [@ EXCEPT ![k] = entry]]
<1> DEFINE new == write_dirent_at(io, s, k, entry)
           p == <<s, k>>
<1>1. /\ io \in IOs(Contents(V)) /\ Counted(io) /\ io.disk.sector \in [Sectors -> Contents(V)]
      /\ Laid(io.disk.fat, L) /\ Tidy(io.disk.sector, L, W) /\ L \in [Places -> Seq(Sectors)]
  BY IOsAre DEF Fine, Laid
<1>2. s \in Sectors
  BY <1>1, DirsAre, OnSectors
<1>3. /\ p \in Places /\ p # TakenAt /\ TakenAt \in Places /\ TakenAt # RootAt
  BY <1>2, PlacesAre DEF CellIndex
<1>4. L[p] = <<>>
  <2>1. ~IsEntry(io.disk.sector[s][k])
    BY DEF IsEntry, Zero
  <2> QED
    BY <1>1, <1>2, <2>1 DEF Tidy
<1>5. /\ new \in IOs(Contents(V)) /\ new.disk.fat = io.disk.fat
      /\ new.disk.sector = [io.disk.sector EXCEPT ![s] = [@ EXCEPT ![k] = entry]]
      /\ Counted(new)
  BY <1>1, <1>2, DirentWritten
<1>6. Tidy([io.disk.sector EXCEPT ![s] = [@ EXCEPT ![k] = entry]],
           [L EXCEPT ![p] = L[TakenAt], ![TakenAt] = <<>>], W)
  BY <1>1, TidyPut
<1> HIDE DEF new, p
<1>7. Laid(io.disk.fat, [L EXCEPT ![p] = L[TakenAt], ![TakenAt] = <<>>])
  BY <1>1, <1>3, <1>4, LayMoved
<1>8. Fine(V, new, [L EXCEPT ![p] = L[TakenAt], ![TakenAt] = <<>>], W)
  BY <1>1, <1>5, <1>6, <1>7 DEF Fine
<1> QED
  BY <1>5, <1>8 DEF new, p

(* Entries are left as they are.                                           *)
SameEntries(sec, to) ==
    \A s \in Sectors, k \in CellIndex :
        /\ IsEntry(to[s][k]) <=> IsEntry(sec[s][k])
        /\ IsEntry(sec[s][k]) => to[s][k] = sec[s][k]

(* The directories are the same then.                                      *)
LEMMA SameEntriesKeep ==
  ASSUME NEW sec, NEW to, SameEntries(sec, to)
  PROVE  Dirs(to) = Dirs(sec)
BY DEF SameEntries, Dirs, IsDirectory

(* A cell for an entry was found or made in directory d: its chain may     *)
(* have grown by a cleared sector.                                         *)
Room(V, W, io, L, d, r, M, s, k) ==
    /\ Fine(V, r.io, M, W) /\ r.place = Place(s, k, Zero) /\ r = [io |-> r.io, place |-> r.place]
    /\ s \in On(M, d) /\ k \in CellIndex /\ r.io.disk.sector[s][k] = Zero
    /\ \A q \in Places : q # d => M[q] = L[q]
    /\ FirstOf(M, d) = FirstOf(L, d) /\ On(L, d) \subseteq On(M, d)
    /\ SameEntries(io.disk.sector, r.io.disk.sector)
    /\ \A t \in On(M, d), j \in CellIndex : IsEntry(io.disk.sector[t][j]) => t \in On(L, d)
    /\ \A t \in Sectors : t \notin On(M, d) => r.io.disk.sector[t] = io.disk.sector[t]

(* dir_find_free_in finds a free cell, makes one, or leaves the disk as it *)
(* was.                                                                    *)
LEMMA FindsRoom ==
  ASSUME NEW V, NEW io, NEW L, NEW W, Fine(V, io, L, W), NEW d \in Dirs(io.disk.sector)
  PROVE  \/ dir_find_free_in(io, FirstOf(L, d)) = [io |-> io, place |-> NotFound]
         \/ \E M, s, k : Room(V, W, io, L, d, dir_find_free_in(io, FirstOf(L, d)), M, s, k)
<1> DEFINE first == FirstOf(L, d)
           new == fat_alloc(io)
           r == dir_find_free_in(io, first)
<1>1. /\ io \in IOs(Contents(V)) /\ Counted(io) /\ io.disk.sector \in [Sectors -> Contents(V)]
      /\ Laid(io.disk.fat, L) /\ Tidy(io.disk.sector, L, W) /\ L \in [Places -> Seq(Sectors)]
      /\ d \in Places
  BY IOsAre, DirsAre DEF Fine, Laid
<1>2. r = IF FreeSlot(io, first).found THEN [io |-> io, place |-> FreeSlot(io, first)]
          ELSE Extended(io, first, new)
  <2> DEFINE H(n) == Extended(io, first, n)
             G(free) == IF free.found THEN [io |-> io, place |-> free]
                        ELSE CHOOSE result \in {H(n) : n \in {new}} : TRUE
  <2>1. r = CHOOSE result \in {G(free) : free \in {FreeSlot(io, first)}} : TRUE
    BY Zenon DEF dir_find_free_in, Bind, FreeSlot
  <2>2. (CHOOSE result \in {H(n) : n \in {new}} : TRUE) = H(new)
    <3> HIDE DEF H, new
    <3> QED
      OBVIOUS
  <2>3. (CHOOSE result \in {G(free) : free \in {FreeSlot(io, first)}} : TRUE) = G(FreeSlot(io, first))
    <3> HIDE DEF G, first
    <3> QED
      OBVIOUS
  <2>4. r = G(FreeSlot(io, first))
    BY <2>1, <2>3
  <2> HIDE DEF H, r, new, first
  <2> QED
    BY <2>2, <2>4 DEF H
<1>3. CASE FreeSlot(io, first) # NotFound
  <2>1. PICK s \in On(L, d), k \in CellIndex :
           FreeSlot(io, first) = Cell(io, s, k) /\ io.disk.sector[s][k] = Zero
    BY <1>1, <1>3, FindsFree
  <2>2. FreeSlot(io, first) = Place(s, k, Zero)
    BY <2>1 DEF Cell
  <2>3. FreeSlot(io, first).found
    BY <2>2 DEF Place
  <2>4. r = [io |-> io, place |-> Place(s, k, Zero)]
    BY <1>2, <2>2, <2>3
  <2> HIDE DEF r
  <2>5. r.io = io /\ r.place = Place(s, k, Zero)
    BY <2>4
  <2>6. Room(V, W, io, L, d, r, L, s, k)
    BY <1>1, <2>1, <2>4, <2>5 DEF Room, SameEntries
  <2> QED
    BY <2>6 DEF r, first
<1>4. CASE FreeSlot(io, first) = NotFound
  <2>1. r = Extended(io, first, new)
    <3> HIDE DEF r, first, new
    <3> QED
      BY <1>2, <1>4 DEF NotFound
  <2>2. CASE FreeIn(io.disk.fat) = {}
    <3>1. new.sector = NO_SECTOR
      BY <2>2, AllocatesNone
    <3> HIDE DEF first, new
    <3>2. Extended(io, first, new) = [io |-> io, place |-> NotFound]
      BY <3>1 DEF Extended
    <3> QED
      BY <2>1, <3>2 DEF first
  <2>3. CASE FreeIn(io.disk.fat) # {}
    <3> DEFINE n == new.sector
               last == L[d][Len(L[d])]
               linked == fat_write(new.io, last, n)
               M == [L EXCEPT ![d] = Append(@, n)]
               done == write_sector(linked, n, Blank)
    <3>1. L[d] # <<>>
      <4>1. CASE d = RootAt
        BY SMTT(60), <4>1, <1>1 DEF Laid
      <4>2. CASE d # RootAt
        <5>1. PICK t \in Sectors, j \in CellIndex : d = <<t, j>>
          BY <4>2, DirsAre, PlacesAre DEF CellIndex
        <5>2. IsDirectory(io.disk.sector[t][j])
          BY <5>1, DirsAre
        <5>3. IsEntry(io.disk.sector[t][j]) /\ io.disk.sector[t][j].dir
          BY <5>2, DirsAre
        <5>4. L[<<t, j>>] # <<>>
          BY <5>3, <1>1 DEF Tidy
        <5> QED
          BY <5>1, <5>4
      <4> QED
        BY <4>1, <4>2
    <3>2. /\ n \in DataSectors /\ \A q \in Places : n \notin On(L, q)
          /\ linked.disk.sector = io.disk.sector
          /\ Fine(V, linked, M, W)
      BY <2>3, <3>1, <1>1, FineGrown
    <3>3. Last(Chain(io, first)) = last
      BY <1>1, LaidIsChain DEF Last
    <3>4. r = [io |-> done, place |-> Place(n, 0, Zero)]
      <4>1. n # NO_SECTOR
        BY <3>2, SectorsAre DEF EndsChain
      <4> HIDE DEF r, first, new, last
      <4> QED
        BY <2>1, <3>3, <4>1 DEF Extended
    <3> HIDE DEF n, last, linked, r, new
    <3>5. n \in Sectors
      BY <3>2, SectorsAre
    <3>6. \A k \in CellIndex : ~IsEntry(io.disk.sector[n][k])
      BY <1>1, <3>2, <3>5, NoEntryElsewhere, DirsAre
    <3>7. /\ Blank \in Contents(V) /\ \A k \in CellIndex : Blank[k] = Zero /\ ~IsEntry(Blank[k])
          /\ 0 \in CellIndex
      BY DiskAssumption DEF Blank, Contents, CellSet, CellIndex, IsEntry, Zero
    <3>8. /\ Fine(V, done, M, W)
          /\ done.disk.sector = [linked.disk.sector EXCEPT ![n] = Blank]
      BY <3>2, <3>5, <3>6, <3>7, FineData
    <3> HIDE DEF done
    <3>9. r.io = done /\ r.place = Place(n, 0, Zero) /\ r = [io |-> r.io, place |-> r.place]
      BY <3>4
    <3>10. /\ M[d] = Append(L[d], n) /\ \A q \in Places : q # d => M[q] = L[q]
           /\ L[d] \in Seq(Sectors)
      BY <1>1, <3>5
    <3> HIDE DEF M
    <3>11. On(M, d) = On(L, d) \cup {n} /\ FirstOf(M, d) = FirstOf(L, d)
      BY <3>1, <3>5, <3>10, ItemsAre DEF On, FirstOf
    <3>12. done.disk.sector[n] = Blank /\ \A s \in Sectors : s # n => done.disk.sector[s] = io.disk.sector[s]
      BY <1>1, <3>2, <3>5, <3>8
    <3>13. SameEntries(io.disk.sector, done.disk.sector)
      BY <3>6, <3>7, <3>12 DEF SameEntries
    <3>14. Room(V, W, io, L, d, r, M, n, 0)
      BY <3>6, <3>7, <3>8, <3>9, <3>10, <3>11, <3>12, <3>13 DEF Room
    <3> QED
      BY <3>14 DEF r, first
  <2> QED
    BY <2>2, <2>3
<1> QED
  BY <1>3, <1>4

(* The parts of a place that was found.                                    *)
HasPlace(r, s, k, cell) ==
    r.place.found = TRUE /\ r.place.sector = s /\ r.place.slot = k /\ r.place.entry = cell

(* An entry made in directory d, at cell k of sector s.                    *)
Made(V, W, io, L, d, entry, r, M, s, k) ==
    /\ Fine(V, r.io, M, W)
    /\ HasPlace(r, s, k, entry)
    /\ s \in Sectors /\ k \in CellIndex
    /\ r.io.disk.sector[s][k] = entry /\ ~IsEntry(io.disk.sector[s][k])
    /\ M[TakenAt] = <<>> /\ M[<<s, k>>] = L[TakenAt]
    /\ \A q \in Places : q # d /\ q # TakenAt /\ q # <<s, k>> => M[q] = L[q]
    /\ \A t \in Sectors, j \in CellIndex : <<t, j>> # <<s, k>> =>
          /\ IsEntry(r.io.disk.sector[t][j]) <=> IsEntry(io.disk.sector[t][j])
          /\ IsEntry(io.disk.sector[t][j]) => r.io.disk.sector[t][j] = io.disk.sector[t][j]
    /\ \A t \in Sectors : t \notin On(M, d) => r.io.disk.sector[t] = io.disk.sector[t]

(* The chain that was taken is that of place p now; a cell of a sector is  *)
(* written.                                                                *)
Moved(L, p) == [L EXCEPT ![p] = L[TakenAt], ![TakenAt] = <<>>]

Put(sec, s, k, cell) == [sec EXCEPT ![s] = [@ EXCEPT ![k] = cell]]

(* FinePut, in these words.                                                *)
LEMMA Placed ==
  ASSUME NEW V, NEW io, NEW L, NEW W, Fine(V, io, L, W),
         NEW d \in Dirs(io.disk.sector), NEW s \in On(L, d), NEW k \in CellIndex,
         io.disk.sector[s][k] = Zero,
         NEW entry \in CellSet(V), IsEntry(entry), entry.first_sector = FirstOf(L, TakenAt),
         entry.dir => L[TakenAt] # <<>>,
         Repeats \in W \/ \A t \in On(L, d), j \in CellIndex :
            IsEntry(io.disk.sector[t][j]) => io.disk.sector[t][j].name # entry.name
  PROVE  /\ Fine(V, write_dirent_at(io, s, k, entry), Moved(L, <<s, k>>), W)
         /\ write_dirent_at(io, s, k, entry).disk.sector = Put(io.disk.sector, s, k, entry)
BY FinePut DEF Moved, Put

(* dir_create_in makes the entry, or there is no room and nothing has      *)
(* changed.                                                                *)
LEMMA Creates ==
  ASSUME NEW V, NEW io, NEW L, NEW W, Fine(V, io, L, W), NEW d \in Dirs(io.disk.sector),
         NEW entry \in CellSet(V), IsEntry(entry), entry.first_sector = FirstOf(L, TakenAt),
         entry.dir => L[TakenAt] # <<>>,
         Repeats \in W \/ \A t \in On(L, d), j \in CellIndex :
            IsEntry(io.disk.sector[t][j]) => io.disk.sector[t][j].name # entry.name
  PROVE  \/ dir_create_in(io, FirstOf(L, d), entry) = [io |-> io, place |-> NotFound]
         \/ \E M, s, k : Made(V, W, io, L, d, entry, dir_create_in(io, FirstOf(L, d), entry), M, s, k)
<1> DEFINE at == dir_find_free_in(io, FirstOf(L, d))
           r == dir_create_in(io, FirstOf(L, d), entry)
           G(a) == IF ~a.place.found THEN a
                   ELSE [a EXCEPT !.io = write_dirent_at(@, a.place.sector, a.place.slot, entry),
                                  !.place.entry = entry]
<1>1. r = G(at)
  <2>1. r = CHOOSE result \in {G(a) : a \in {at}} : TRUE
    BY Zenon DEF dir_create_in, Bind
  <2>2. (CHOOSE result \in {G(a) : a \in {at}} : TRUE) = G(at)
    <3> HIDE DEF G, at
    <3> QED
      OBVIOUS
  <2> QED
    BY <2>1, <2>2
<1>2. CASE at = [io |-> io, place |-> NotFound]
  <2>1. ~at.place.found
    <3> HIDE DEF at
    <3> QED
      BY <1>2 DEF NotFound
  <2>2. r = at
    <3> HIDE DEF r, at
    <3> QED
      BY <1>1, <2>1
  <2> QED
    BY <1>2, <2>2
<1>3. CASE \E M, s, k : Room(V, W, io, L, d, at, M, s, k)
  <2>1. PICK M, s, k : Room(V, W, io, L, d, at, M, s, k)
    BY <1>3
  <2> DEFINE new == write_dirent_at(at.io, s, k, entry)
             N == Moved(M, <<s, k>>)
             sec == io.disk.sector
             mid == at.io.disk.sector
  <2> HIDE DEF at
  <2>2. /\ Fine(V, at.io, M, W) /\ at.place = Place(s, k, Zero) /\ at = [io |-> at.io, place |-> at.place]
        /\ s \in On(M, d) /\ k \in CellIndex /\ mid[s][k] = Zero
        /\ \A q \in Places : q # d => M[q] = L[q]
        /\ SameEntries(sec, mid)
        /\ \A t \in On(M, d), j \in CellIndex : IsEntry(sec[t][j]) => t \in On(L, d)
        /\ \A t \in Sectors : t \notin On(M, d) => mid[t] = sec[t]
    BY <2>1 DEF Room
  <2>3. r.io = new /\ HasPlace(r, s, k, entry)
    <3>1. at.place = [found |-> TRUE, sector |-> s, slot |-> k, entry |-> Zero]
      BY <2>2 DEF Place
    <3> HIDE DEF r, new
    <3>2. at.place.found /\ at.place.sector = s /\ at.place.slot = k
      BY <3>1
    <3>3. r = [at EXCEPT !.io = write_dirent_at(@, at.place.sector, at.place.slot, entry),
                         !.place.entry = entry]
      BY <1>1, <3>2
    <3>4. r = [at EXCEPT !.io = new, !.place.entry = entry]
      BY <3>2, <3>3 DEF new
    <3>5. at = [io |-> at.io, place |-> at.place]
      BY <2>2
    <3> QED
      BY <3>1, <3>4, <3>5 DEF HasPlace
  <2>4. d \in Dirs(mid)
    BY <2>2, SameEntriesKeep
  <2>5. TakenAt \in Places /\ d # TakenAt /\ M \in [Places -> Seq(Sectors)] /\ s \in Sectors /\ d \in Places
    <3>1. TakenAt \in Places /\ d # TakenAt /\ M \in [Places -> Seq(Sectors)] /\ d \in Places
      BY <2>2, PlacesAre, DirsAre DEF Fine, Laid
    <3> QED
      BY <3>1, <2>2, OnSectors
  <2>6. M[TakenAt] = L[TakenAt] /\ FirstOf(M, TakenAt) = FirstOf(L, TakenAt)
    BY <2>2, <2>5 DEF FirstOf
  <2>7. Repeats \in W \/ \A t \in On(M, d), j \in CellIndex : IsEntry(mid[t][j]) => mid[t][j].name # entry.name
    <3> SUFFICES ASSUME Repeats \notin W, NEW t \in On(M, d), NEW j \in CellIndex, IsEntry(mid[t][j])
                 PROVE  mid[t][j].name # entry.name
      OBVIOUS
    <3>1. t \in Sectors
      BY <2>5, OnSectors
    <3>2. IsEntry(sec[t][j]) /\ mid[t][j] = sec[t][j]
      BY <2>2, <3>1 DEF SameEntries
    <3> QED
      BY <2>2, <3>2
  <2>8. /\ Fine(V, new, N, W)
        /\ new.disk.sector = Put(mid, s, k, entry)
    BY <2>2, <2>4, <2>6, <2>7, Placed
  <2>9. mid \in [Sectors -> Contents(V)]
    BY <2>2, IOsAre DEF Fine
  <2>10. <<s, k>> \in Places /\ <<s, k>> # TakenAt
    BY <2>2, <2>5, PlacesAre DEF CellIndex
  <2>11. N[TakenAt] = <<>> /\ N[<<s, k>>] = L[TakenAt] /\ \A q \in Places : q # TakenAt /\ q # <<s, k>> => N[q] = M[q]
    BY <2>5, <2>6, <2>10 DEF Moved
  <2> HIDE DEF new, r, N, mid, sec
  <2>12. /\ new.disk.sector[s][k] = entry
         /\ \A t \in Sectors, j \in CellIndex : <<t, j>> # <<s, k>> => new.disk.sector[t][j] = mid[t][j]
    BY <2>2, <2>5, <2>8, <2>9 DEF Contents, Put
  <2>13. ~IsEntry(sec[s][k])
    BY <2>2, <2>5 DEF SameEntries, IsEntry, Zero
  <2>14. On(N, d) = On(M, d)
    <3>1. d # <<s, k>>
      BY <2>2, <2>4, <2>5, DirsAre DEF IsDirectory, IsEntry, Zero
    <3> QED
      BY <3>1, <2>5, <2>11 DEF On
  <2>15. \A t \in Sectors : t \notin On(N, d) => new.disk.sector[t] = sec[t]
    <3> SUFFICES ASSUME NEW t \in Sectors, t \notin On(N, d)
                 PROVE  new.disk.sector[t] = sec[t]
      OBVIOUS
    <3>1. t # s
      BY <2>2, <2>14
    <3>2. new.disk.sector[t] = mid[t]
      BY <3>1, <2>5, <2>8, <2>9 DEF Put
    <3> QED
      BY <3>2, <2>2, <2>14
  <2>16. Made(V, W, io, L, d, entry, r, N, s, k)
    BY <2>2, <2>3, <2>5, <2>8, <2>11, <2>12, <2>13, <2>15 DEF Made, SameEntries, sec
  <2> QED
    BY <2>16 DEF r
<1> QED
  BY <1>2, <1>3, FindsRoom

(* The places that a path can lead to: the root, the entries, nowhere.     *)
EntryPlaces(io) ==
    {Cell(io, p[1], p[2]) : p \in {q \in Sectors \X CellIndex : IsEntry(io.disk.sector[q[1]][q[2]])}}

Resolved(io) == {RootPlace, NotFound} \cup EntryPlaces(io)

Onward(io, place, name) ==
    IF IsDirectory(place.entry) THEN dir_find_in(io, place.entry.first_sector, name) ELSE NotFound

(* The places of entries are those of the entry cells of all sectors.      *)
LEMMA EntryPlacesAre ==
  ASSUME NEW io
  PROVE  /\ \A s \in Sectors, k \in CellIndex : IsEntry(io.disk.sector[s][k]) => Cell(io, s, k) \in EntryPlaces(io)
         /\ \A place \in EntryPlaces(io) : \E s \in Sectors, k \in CellIndex :
              place = Cell(io, s, k) /\ IsEntry(io.disk.sector[s][k])
<1>1. ASSUME NEW s \in Sectors, NEW k \in CellIndex, IsEntry(io.disk.sector[s][k])
      PROVE  Cell(io, s, k) \in EntryPlaces(io)
  <2> DEFINE q == <<s, k>>
  <2>1. q \in Sectors \X CellIndex /\ q[1] = s /\ q[2] = k
    OBVIOUS
  <2> HIDE DEF q
  <2> QED
    BY <1>1, <2>1 DEF EntryPlaces
<1>2. ASSUME NEW place \in EntryPlaces(io)
      PROVE  \E s \in Sectors, k \in CellIndex : place = Cell(io, s, k) /\ IsEntry(io.disk.sector[s][k])
  <2>1. PICK q \in Sectors \X CellIndex : IsEntry(io.disk.sector[q[1]][q[2]]) /\ place = Cell(io, q[1], q[2])
    BY DEF EntryPlaces
  <2>2. q[1] \in Sectors /\ q[2] \in CellIndex
    OBVIOUS
  <2> QED
    BY <2>1, <2>2
<1> QED
  BY <1>1, <1>2

(* A directory that a path leads to is a directory of the tree.            *)
LEMMA ResolvedDirectory ==
  ASSUME NEW V, NEW io, NEW L, NEW W, Fine(V, io, L, W), NEW place \in Resolved(io), IsDirectory(place.entry)
  PROVE  \E d \in Dirs(io.disk.sector) : place.entry.first_sector = FirstOf(L, d)
<1>1. CASE place = RootPlace
  <2>1. place.entry.first_sector = root_start
    BY <1>1 DEF RootPlace, Place, Dirent
  <2>2. FirstOf(L, RootAt) = root_start
    BY DEF Fine, Laid, FirstOf
  <2> QED
    BY <2>1, <2>2, DirsAre
<1>2. CASE place = NotFound
  BY <1>2 DEF NotFound, IsDirectory, IsEntry, Zero
<1>3. CASE place \in EntryPlaces(io)
  <2>1. PICK s \in Sectors, k \in CellIndex : place = Cell(io, s, k) /\ IsEntry(io.disk.sector[s][k])
    BY <1>3, EntryPlacesAre
  <2>2. place.entry = io.disk.sector[s][k]
    BY <2>1 DEF Cell, Place
  <2>3. <<s, k>> \in Dirs(io.disk.sector) /\ io.disk.sector[s][k].dir
    BY <2>2, DirsAre
  <2>4. io.disk.sector[s][k].first_sector = FirstOf(L, <<s, k>>)
    BY <2>1, <2>3 DEF Fine, Tidy
  <2> QED
    BY <2>2, <2>3, <2>4
<1> QED
  BY <1>1, <1>2, <1>3 DEF Resolved

(* What a search for a name can return.                                    *)
Searched(io, L, p, name, found) ==
    \/ /\ found = NotFound
       /\ \A s \in On(L, p), k \in CellIndex :
            IsEntry(io.disk.sector[s][k]) => io.disk.sector[s][k].name # name
    \/ \E s \in On(L, p), k \in CellIndex :
         /\ found = Cell(io, s, k)
         /\ IsEntry(io.disk.sector[s][k]) /\ io.disk.sector[s][k].name = name

(* FindsIn, in these words.                                                *)
LEMMA Searches ==
  ASSUME NEW io, NEW L, Laid(io.disk.fat, L), NEW p \in Places, NEW name
  PROVE  Searched(io, L, p, name, dir_find_in(io, FirstOf(L, p), name))
BY FindsIn DEF Searched

(* A search of a directory returns an entry of it with the name, or there  *)
(* is none.                                                                *)
LEMMA Finds ==
  ASSUME NEW V, NEW io, NEW L, NEW W, Fine(V, io, L, W), NEW d \in Dirs(io.disk.sector), NEW name
  PROVE  \/ /\ dir_find_in(io, FirstOf(L, d), name) = NotFound
            /\ \A s \in On(L, d), k \in CellIndex :
                 IsEntry(io.disk.sector[s][k]) => io.disk.sector[s][k].name # name
         \/ /\ dir_find_in(io, FirstOf(L, d), name) \in EntryPlaces(io)
            /\ \E s \in On(L, d), k \in CellIndex :
              /\ dir_find_in(io, FirstOf(L, d), name) = Cell(io, s, k)
              /\ IsEntry(io.disk.sector[s][k]) /\ io.disk.sector[s][k].name = name
<1>1. d \in Places /\ Laid(io.disk.fat, L) /\ L \in [Places -> Seq(Sectors)]
  BY DirsAre DEF Fine, Laid
<1>2. On(L, d) \subseteq Sectors
  BY <1>1, OnSectors
<1> DEFINE found == dir_find_in(io, FirstOf(L, d), name)
           Absent == /\ found = NotFound
                     /\ \A s \in On(L, d), k \in CellIndex :
                          IsEntry(io.disk.sector[s][k]) => io.disk.sector[s][k].name # name
           Present(s, k) == /\ found = Cell(io, s, k)
                            /\ IsEntry(io.disk.sector[s][k]) /\ io.disk.sector[s][k].name = name
<1>3. Absent \/ \E s \in On(L, d), k \in CellIndex : Present(s, k)
  <2>1. Searched(io, L, d, name, found)
    BY <1>1, Searches
  <2> HIDE DEF found
  <2> QED
    BY <2>1 DEF Searched
<1>4. ASSUME NEW s \in On(L, d), NEW k \in CellIndex, Present(s, k)
      PROVE  found \in EntryPlaces(io)
  <2>1. Cell(io, s, k) \in EntryPlaces(io)
    BY <1>2, <1>4, EntryPlacesAre
  <2> QED
    BY <2>1, <1>4
<1> QED
  BY <1>3, <1>4

(* One step along a path leads to an entry or nowhere.                     *)
LEMMA OnwardResolves ==
  ASSUME NEW V, NEW io, NEW L, NEW W, Fine(V, io, L, W), NEW place \in Resolved(io), NEW name
  PROVE  Onward(io, place, name) \in EntryPlaces(io) \cup {NotFound}
<1>1. CASE IsDirectory(place.entry)
  <2>1. PICK d \in Dirs(io.disk.sector) : place.entry.first_sector = FirstOf(L, d)
    BY <1>1, ResolvedDirectory
  <2>2. Onward(io, place, name) = dir_find_in(io, FirstOf(L, d), name)
    BY <1>1, <2>1 DEF Onward
  <2> QED
    BY <2>2, Finds
<1>2. CASE ~IsDirectory(place.entry)
  BY <1>2 DEF Onward
<1> QED
  BY <1>1, <1>2

(* resolve_path is the walk from the root along the path, a name at a      *)
(* time.                                                                   *)
Walk(io, path, f) ==
    /\ f \in [0 .. Len(path) -> Resolved(io)]
    /\ f[0] = RootPlace
    /\ \A n \in 1 .. Len(path) : f[n] = Onward(io, f[n - 1], path[n])
    /\ resolve_path(io, path) = f[Len(path)]

(* There is such a walk,                                                   *)
LEMMA Walks ==
  ASSUME NEW V, NEW io, NEW L, NEW W, Fine(V, io, L, W), NEW path \in Seq(Names)
  PROVE  \E f : Walk(io, path, f)
<1> DEFINE N == Len(path)
           R == Resolved(io)
           One(place, n) == LET dir == place.entry
                            IN  IF IsDirectory(dir) THEN dir_find_in(io, dir.first_sector, path[n]) ELSE NotFound
           IsRun(f) == f = [n \in 0 .. N |-> IF n = 0 THEN RootPlace ELSE One(f[n - 1], n)]
           at == CHOOSE f : IsRun(f)
           g == [n \in 1 .. N |-> [place \in R |-> Onward(io, place, path[n])]]
<1>1. \A place, n : One(place, n) = Onward(io, place, path[n])
  BY DEF Onward
<1>2. N \in Nat /\ RootPlace \in R
  BY DEF Resolved
<1>3. \A n \in 1 .. N : \A place \in R : g[n][place] \in R /\ g[n][place] = Onward(io, place, path[n])
  <2>1. \A place \in R : \A name : Onward(io, place, name) \in R
    BY OnwardResolves DEF Resolved
  <2> QED
    BY <2>1
<1>4. g \in [1 .. N -> [R -> R]]
  BY <1>3
<1> HIDE DEF g, One, R
<1>5. PICK f : Run(f, R, N, RootPlace, g)
  <2> HIDE DEF N
  <2> QED
    BY <1>2, <1>4, Iterates
<1>6. f \in [0 .. N -> R] /\ f[0] = RootPlace /\ \A n \in 1 .. N : f[n] = g[n][f[n - 1]]
  BY <1>5 DEF Run
<1>7. resolve_path(io, path) = at[N]
  BY Zenon DEF resolve_path, One
<1> HIDE DEF N
<1>8. \A n \in 1 .. N : f[n] = Onward(io, f[n - 1], path[n])
  <2> SUFFICES ASSUME NEW n \in 1 .. N PROVE f[n] = Onward(io, f[n - 1], path[n])
    OBVIOUS
  <2>1. f[n - 1] \in R
    BY <1>2, <1>6
  <2> QED
    BY <2>1, <1>3, <1>6
<1>9. IsRun(f)
  <2>1. \A n \in 1 .. N : f[n] = One(f[n - 1], n)
    BY <1>1, <1>8
  <2> QED
    BY <2>1, <1>6
<1>10. IsRun(at)
  <2> HIDE DEF IsRun
  <2> QED
    BY <1>9, Zenon
<1>11. at = f
  <2> DEFINE T == {n \in 0 .. N : at[n] = f[n]}
  <2> HIDE DEF at
  <2>1. 0 \in T
    BY <1>2, <1>9, <1>10
  <2>2. ASSUME NEW n \in 1 .. N, n - 1 \in T PROVE n \in T
    BY <1>2, <1>9, <1>10, <2>2
  <2> HIDE DEF T
  <2>3. 0 .. N \subseteq T
    BY <1>2, <2>1, <2>2, Induct
  <2>4. \A n \in 0 .. N : at[n] = f[n]
    BY <2>3 DEF T
  <2>5. at = [n \in 0 .. N |-> at[n]] /\ f = [n \in 0 .. N |-> f[n]]
    BY <1>9, <1>10
  <2> HIDE DEF IsRun
  <2> QED
    BY <2>4, <2>5
<1> HIDE DEF at, IsRun
<1>12. Walk(io, path, f)
  BY <1>6, <1>7, <1>8, <1>11 DEF N, R, Walk
<1> QED
  BY <1>12

(* so that a path leads to what its last name leads to from its parent.    *)
LEMMA Resolves ==
  ASSUME NEW V, NEW io, NEW L, NEW W, Fine(V, io, L, W), NEW path \in Seq(Names)
  PROVE  /\ resolve_path(io, path) \in Resolved(io)
         /\ path # <<>> =>
              /\ resolve_path(io, path) = Onward(io, resolve_path(io, Front(path)), Last(path))
              /\ resolve_path(io, path) \in EntryPlaces(io) \cup {NotFound}
<1>0. PICK f : Walk(io, path, f)
  BY Walks
<1>1. /\ f \in [0 .. Len(path) -> Resolved(io)]
      /\ f[0] = RootPlace
      /\ \A n \in 1 .. Len(path) : f[n] = Onward(io, f[n - 1], path[n])
      /\ resolve_path(io, path) = f[Len(path)]
  BY <1>0 DEF Walk
<1>2. resolve_path(io, path) \in Resolved(io)
  BY <1>1
<1>3. ASSUME path # <<>>
      PROVE  /\ resolve_path(io, path) = Onward(io, resolve_path(io, Front(path)), Last(path))
             /\ resolve_path(io, path) \in EntryPlaces(io) \cup {NotFound}
  <2> DEFINE N == Len(path)
             front == Front(path)
  <2>1. N \in Nat \ {0} /\ front \in Seq(Names) /\ Len(front) = N - 1 /\ \A n \in 1 .. N - 1 : front[n] = path[n]
    <3>1. N \in Nat \ {0} /\ path \in Seq(Names) /\ \A i \in 1 .. N - 1 : path[i] \in Names
      BY <1>3
    <3>2. front = SubSeq(path, 1, N - 1)
      BY DEF Front
    <3> HIDE DEF front, N
    <3>3. front = [i \in 1 .. N - 1 |-> path[i]]
      BY <3>1, <3>2
    <3>4. Len(front) = N - 1 /\ \A n \in 1 .. N - 1 : front[n] = path[n]
      BY <3>1, <3>3
    <3>5. front \in Seq(Names)
      BY <3>1, <3>3
    <3> QED
      BY <3>1, <3>4, <3>5
  <2> HIDE DEF front
  <2>0. PICK h : Walk(io, front, h)
    BY <2>1, Walks
  <2>2. /\ h \in [0 .. Len(front) -> Resolved(io)]
        /\ h[0] = RootPlace
        /\ \A n \in 1 .. Len(front) : h[n] = Onward(io, h[n - 1], front[n])
        /\ resolve_path(io, front) = h[Len(front)]
    BY <2>0 DEF Walk
  <2> DEFINE T == {n \in 0 .. N - 1 : h[n] = f[n]}
  <2>3. 0 \in T
    BY <2>1, <2>2, <1>1
  <2>4. ASSUME NEW n \in 1 .. N - 1, n - 1 \in T PROVE n \in T
    <3>1. h[n - 1] = f[n - 1] /\ n \in 1 .. N
      BY <2>1, <2>4
    <3> QED
      BY <3>1, <2>1, <2>2, <1>1
  <2> HIDE DEF T
  <2>5. 0 .. N - 1 \subseteq T
    <3>1. N - 1 \in Nat
      BY <2>1
    <3> HIDE DEF N
    <3> QED
      BY <3>1, <2>3, <2>4, Induct
  <2>6. resolve_path(io, front) = f[N - 1]
    <3>1. N - 1 \in 0 .. N - 1
      BY <2>1
    <3> HIDE DEF N
    <3>2. h[N - 1] = f[N - 1]
      BY <3>1, <2>5 DEF T
    <3> QED
      BY <2>1, <2>2, <3>2
  <2>7. f[N] = Onward(io, f[N - 1], path[N]) /\ f[N - 1] \in Resolved(io)
    <3>1. N \in 1 .. Len(path) /\ N - 1 \in 0 .. Len(path)
      BY <2>1
    <3> HIDE DEF N
    <3> QED
      BY <3>1, <1>1
  <2>8. resolve_path(io, path) = Onward(io, resolve_path(io, front), Last(path))
    BY <1>1, <2>6, <2>7 DEF Last
  <2>9. resolve_path(io, path) \in EntryPlaces(io) \cup {NotFound}
    BY <2>8, <2>6, <2>7, OnwardResolves
  <2> QED
    BY <2>8, <2>9 DEF front
<1> QED
  BY <1>2, <1>3

(* The parent that a path names is a directory, or no sector.              *)
LEMMA ResolvesParent ==
  ASSUME NEW V, NEW io, NEW L, NEW W, Fine(V, io, L, W), NEW path \in Seq(Names) \ {<<>>},
         resolve_parent(io, path) # NO_SECTOR
  PROVE  /\ \E d \in Dirs(io.disk.sector) : resolve_parent(io, path) = FirstOf(L, d)
         /\ resolve_path(io, path) = dir_find_in(io, resolve_parent(io, path), Last(path))
<1> DEFINE parent == resolve_path(io, Front(path))
<1>1. IsDirectory(parent.entry) /\ resolve_parent(io, path) = parent.entry.first_sector
  BY DEF resolve_parent
<1>2. Front(path) \in Seq(Names)
  BY DEF Front
<1>3. parent \in Resolved(io)
  BY <1>2, Resolves
<1>4. resolve_path(io, path) = Onward(io, parent, Last(path))
  BY Resolves
<1> HIDE DEF parent
<1>5. PICK d \in Dirs(io.disk.sector) : parent.entry.first_sector = FirstOf(L, d)
  BY <1>1, <1>3, ResolvedDirectory
<1> QED
  BY <1>1, <1>4, <1>5 DEF Onward

IsFile(cell) == IsEntry(cell) /\ ~cell.dir

(* The entries of files are kept, and their sectors; new files are empty.  *)
FilesKept(sec, L, to, M) ==
    \A s \in Sectors, k \in CellIndex :
        /\ IsFile(sec[s][k]) => to[s][k] = sec[s][k] /\ M[<<s, k>>] = L[<<s, k>>]
        /\ IsFile(to[s][k]) /\ ~IsFile(sec[s][k]) =>
              to[s][k].first_sector = NO_SECTOR /\ to[s][k].size = 0 /\ M[<<s, k>>] = <<>>

Kept(V, W, io, L, to, M) ==
    Fine(V, to, M, W) /\ M[TakenAt] = <<>> /\ FilesKept(io.disk.sector, L, to.disk.sector, M)

(* What changes nothing keeps everything.                                  *)
LEMMA KeptAsIs ==
  ASSUME NEW V, NEW io, NEW L, NEW W, Fine(V, io, L, W), L[TakenAt] = <<>>
  PROVE  Kept(V, W, io, L, io, L)
BY DEF Kept, FilesKept

(* A new entry, if of a file without sectors, keeps everything else.       *)
LEMMA MadeKeeps ==
  ASSUME NEW V, NEW io, NEW L, NEW W, NEW mid, NEW L1, NEW d \in Dirs(mid.disk.sector), NEW entry, NEW r, NEW M, NEW s, NEW k,
         SameEntries(io.disk.sector, mid.disk.sector),
         \A p \in Places : p # TakenAt => L1[p] = L[p],
         IsFile(entry) => entry.first_sector = NO_SECTOR /\ entry.size = 0 /\ L1[TakenAt] = <<>>,
         Made(V, W, mid, L1, d, entry, r, M, s, k)
  PROVE  Kept(V, W, io, L, r.io, M)
<1> DEFINE sec == io.disk.sector
           to == r.io.disk.sector
           p == <<s, k>>
<1>1. /\ Fine(V, r.io, M, W) /\ M[TakenAt] = <<>> /\ s \in Sectors /\ k \in CellIndex
      /\ to[s][k] = entry /\ ~IsEntry(sec[s][k]) /\ M[p] = L1[TakenAt]
      /\ \A q \in Places : q # d /\ q # TakenAt /\ q # p => M[q] = L1[q]
      /\ \A t \in Sectors, j \in CellIndex : <<t, j>> # p =>
            /\ IsEntry(to[t][j]) <=> IsEntry(sec[t][j])
            /\ IsEntry(sec[t][j]) => to[t][j] = sec[t][j]
  BY DEF Made, SameEntries
<1> HIDE DEF to
<1>2. ASSUME NEW t \in Sectors, NEW j \in CellIndex
      PROVE  /\ IsFile(sec[t][j]) => to[t][j] = sec[t][j] /\ M[<<t, j>>] = L[<<t, j>>]
             /\ IsFile(to[t][j]) /\ ~IsFile(sec[t][j]) =>
                   to[t][j].first_sector = NO_SECTOR /\ to[t][j].size = 0 /\ M[<<t, j>>] = <<>>
  <2>1. <<t, j>> \in Places /\ <<t, j>> # TakenAt
    BY PlacesAre DEF CellIndex
  <2>2. CASE <<t, j>> = p
    <3>1. t = s /\ j = k
      BY <2>2
    <3> QED
      BY <3>1, <1>1 DEF IsFile
  <2>3. CASE <<t, j>> # p
    <3>1. ASSUME IsFile(sec[t][j])
          PROVE  to[t][j] = sec[t][j] /\ M[<<t, j>>] = L[<<t, j>>]
      <4>1. <<t, j>> # d
        <5>1. <<t, j>> \notin Dirs(mid.disk.sector)
          <6>1. mid.disk.sector[t][j] = sec[t][j]
            BY <3>1 DEF SameEntries, IsFile
          <6> QED
            BY <6>1, <3>1, DirsAre DEF IsFile
        <5> QED
          BY <5>1
      <4> HIDE DEF p, sec
      <4>2. M[<<t, j>>] = L1[<<t, j>>]
        BY <2>1, <2>3, <4>1, <1>1
      <4> QED
        BY <2>1, <2>3, <3>1, <4>2, <1>1 DEF IsFile
    <3>2. IsFile(to[t][j]) => IsFile(sec[t][j])
      BY <2>3, <1>1 DEF IsFile
    <3> QED
      BY <3>1, <3>2
  <2> QED
    BY <2>2, <2>3
<1> QED
  BY <1>1, <1>2 DEF Kept, FilesKept, to

(* A new and empty file in a directory: touch, CREATE, file_open.          *)
EmptyFile(name) == Dirent(name, FALSE, NO_SECTOR, 0)

(* It is an entry, of a file, without sectors.                             *)
LEMMA EmptyFileIs ==
  ASSUME NEW V, NEW name \in Names
  PROVE  /\ EmptyFile(name) \in CellSet(V) /\ IsFile(EmptyFile(name)) /\ EmptyFile(name).name = name
         /\ EmptyFile(name).first_sector = NO_SECTOR /\ EmptyFile(name).size = 0
BY DEF EmptyFile, Dirent, CellSet, IsFile, IsEntry

(* It is made and all else is kept, or there is no room.                   *)
LEMMA MakesFile ==
  ASSUME NEW V, NEW io, NEW L, NEW W, Fine(V, io, L, W), L[TakenAt] = <<>>,
         NEW d \in Dirs(io.disk.sector), NEW name \in Names,
         \A t \in On(L, d), j \in CellIndex :
            IsEntry(io.disk.sector[t][j]) => io.disk.sector[t][j].name # name
  PROVE  \/ dir_create_in(io, FirstOf(L, d), EmptyFile(name)) = [io |-> io, place |-> NotFound]
         \/ \E M, s, k :
              /\ Made(V, W, io, L, d, EmptyFile(name), dir_create_in(io, FirstOf(L, d), EmptyFile(name)), M, s, k)
              /\ Kept(V, W, io, L, dir_create_in(io, FirstOf(L, d), EmptyFile(name)).io, M)
<1> DEFINE r == dir_create_in(io, FirstOf(L, d), EmptyFile(name))
<1>1. /\ EmptyFile(name) \in CellSet(V) /\ IsFile(EmptyFile(name)) /\ EmptyFile(name).name = name
      /\ EmptyFile(name).first_sector = NO_SECTOR /\ EmptyFile(name).size = 0
  BY EmptyFileIs
<1>2. IsEntry(EmptyFile(name)) /\ ~EmptyFile(name).dir /\ FirstOf(L, TakenAt) = NO_SECTOR
  BY <1>1 DEF IsFile, FirstOf
<1> DEFINE entry == EmptyFile(name)
<1> HIDE DEF entry
<1>3. \/ dir_create_in(io, FirstOf(L, d), entry) = [io |-> io, place |-> NotFound]
      \/ \E M, s, k : Made(V, W, io, L, d, entry, dir_create_in(io, FirstOf(L, d), entry), M, s, k)
  BY <1>1, <1>2, Creates DEF entry
<1>4. ASSUME NEW M, NEW s, NEW k, Made(V, W, io, L, d, entry, r, M, s, k)
      PROVE  Kept(V, W, io, L, r.io, M)
  <2>1. SameEntries(io.disk.sector, io.disk.sector)
    BY DEF SameEntries
  <2> HIDE DEF r
  <2> QED
    BY <2>1, <1>1, <1>4, MadeKeeps DEF entry
<1> QED
  BY <1>3, <1>4 DEF entry

(* Taking and giving back the sector of a directory that is being made.    *)
Taking(L, n) == [L EXCEPT ![TakenAt] = <<n>>]

GivenBack(L) == [L EXCEPT ![TakenAt] = <<>>]

(* FineTaken, in these words.                                              *)
LEMMA SectorTaken ==
  ASSUME NEW V, NEW io, NEW L, NEW W, Fine(V, io, L, W), FreeIn(io.disk.fat) # {}, L[TakenAt] = <<>>
  PROVE  /\ fat_alloc(io).sector \in DataSectors
         /\ fat_alloc(io).io.disk.sector = io.disk.sector
         /\ Fine(V, fat_alloc(io).io, Taking(L, fat_alloc(io).sector), W)
<1> DEFINE p == TakenAt
<1>1. p \in Places /\ L[p] = <<>> /\ p = TakenAt
  BY PlacesAre
<1> HIDE DEF p
<1>2. /\ fat_alloc(io).sector \in DataSectors
      /\ fat_alloc(io).io.disk.sector = io.disk.sector
      /\ Fine(V, fat_alloc(io).io, [L EXCEPT ![p] = <<fat_alloc(io).sector>>], W)
  BY <1>1, FineTaken
<1> QED
  BY <1>1, <1>2 DEF Taking

(* FineGivenBack, in these words.                                          *)
LEMMA SectorGivenBack ==
  ASSUME NEW V, NEW io, NEW L, NEW W, Fine(V, io, L, W), L[TakenAt] # <<>>
  PROVE  /\ Fine(V, fat_free(io, FirstOf(L, TakenAt)), GivenBack(L), W)
         /\ fat_free(io, FirstOf(L, TakenAt)).disk.sector = io.disk.sector
BY FineGivenBack DEF GivenBack

(* The sector is cleared before there is an entry for it.                  *)
Cleared(new) == write_sector(new.io, new.sector, Blank)

TookCleared(V, W, io, L, new) ==
    /\ new.sector \in DataSectors /\ Fine(V, Cleared(new), Taking(L, new.sector), W)
    /\ SameEntries(io.disk.sector, Cleared(new).disk.sector)
    /\ Taking(L, new.sector)[TakenAt] = <<new.sector>>
    /\ \A p \in Places : p # TakenAt => Taking(L, new.sector)[p] = L[p]

(* A sector taken for a new directory, and cleared.                        *)
LEMMA TakesCleared ==
  ASSUME NEW V, NEW io, NEW L, NEW W, Fine(V, io, L, W), L[TakenAt] = <<>>, FreeIn(io.disk.fat) # {}
  PROVE  TookCleared(V, W, io, L, fat_alloc(io))
<1> DEFINE new == fat_alloc(io)
           n == new.sector
           cleared == Cleared(new)
<1> DEFINE taken == new.io
           M == Taking(L, n)
<1>1. TakenAt \in Places /\ L \in [Places -> Seq(Sectors)] /\ io.disk.sector \in [Sectors -> Contents(V)]
  BY PlacesAre, IOsAre DEF Fine, Laid
<1>2. n \in DataSectors /\ taken.disk.sector = io.disk.sector /\ Fine(V, taken, M, W)
  BY SectorTaken
<1> HIDE DEF taken, n, cleared
<1>3. n \in Sectors
  BY <1>2, SectorsAre
<1>4. M[TakenAt] = <<n>> /\ \A p \in Places : p # TakenAt => M[p] = L[p]
  BY <1>1, <1>3 DEF Taking
<1> HIDE DEF M
<1>5. \A k \in CellIndex : ~IsEntry(taken.disk.sector[n][k])
  <2>1. n \in On(M, TakenAt)
    BY <1>3, <1>4, ItemsAre DEF On
  <2>2. \A d \in Dirs(taken.disk.sector) : n \notin On(M, d)
    BY <1>1, <1>2, <2>1, DirsAre, OnDisjoint DEF Fine
  <2> QED
    BY <1>2, <1>3, <2>2, NoEntryElsewhere DEF Fine
<1>6. Blank \in Contents(V) /\ \A k \in CellIndex : ~IsEntry(Blank[k])
  BY DEF Blank, Contents, CellSet, CellIndex, IsEntry, Zero
<1>7. Fine(V, cleared, M, W) /\ cleared.disk.sector = [taken.disk.sector EXCEPT ![n] = Blank]
  <2>1. /\ Fine(V, write_sector(taken, n, Blank), M, W)
        /\ write_sector(taken, n, Blank).disk.sector = [taken.disk.sector EXCEPT ![n] = Blank]
    BY <1>2, <1>3, <1>5, <1>6, FineData
  <2> QED
    BY <2>1 DEF taken, n, cleared, Cleared
<1>8. SameEntries(io.disk.sector, cleared.disk.sector)
  <2>1. cleared.disk.sector[n] = Blank /\ \A s \in Sectors : s # n => cleared.disk.sector[s] = io.disk.sector[s]
    BY <1>1, <1>2, <1>3, <1>7
  <2> QED
    BY <1>2, <1>5, <1>6, <2>1 DEF SameEntries
<1> QED
  BY <1>2, <1>4, <1>7, <1>8 DEF M, n, cleared, TookCleared

(* The second half of mkdir, step by step,                                 *)
LEMMA PutDirectoryIs ==
  ASSUME NEW io, NEW parent, NEW name, NEW new
  PROVE  LET cleared == write_sector(new.io, new.sector, Blank)
             made == dir_create_in(cleared, parent, Dirent(name, TRUE, new.sector, 0))
         IN  PutDirectory(io, parent, name, new) =
               IF made.place.found THEN [io |-> made.io, ok |-> TRUE]
               ELSE [io |-> fat_free(made.io, new.sector), ok |-> FALSE]
<1> DEFINE cleared == write_sector(new.io, new.sector, Blank)
           made == dir_create_in(cleared, parent, Dirent(name, TRUE, new.sector, 0))
           G(m) == IF m.place.found THEN [io |-> m.io, ok |-> TRUE]
                   ELSE [io |-> fat_free(m.io, new.sector), ok |-> FALSE]
<1>1. PutDirectory(io, parent, name, new) = CHOOSE result \in {G(m) : m \in {made}} : TRUE
  BY Zenon DEF PutDirectory, Bind
<1>2. (CHOOSE result \in {G(m) : m \in {made}} : TRUE) = G(made)
  <2> HIDE DEF G, made
  <2> QED
    OBVIOUS
<1>3. PutDirectory(io, parent, name, new) = G(made)
  BY <1>1, <1>2
<1> QED
  BY <1>3, Zenon

(* which makes a directory with a sector taken for it, or gives the sector *)
(* back, and keeps all else (mkdir, createDirectory),                      *)
LEMMA PutsDirectory ==
  ASSUME NEW V, NEW io, NEW L, NEW W, Fine(V, io, L, W), L[TakenAt] = <<>>, FreeIn(io.disk.fat) # {},
         NEW d \in Dirs(io.disk.sector), NEW name \in Names,
         Repeats \in W \/ \A t \in On(L, d), j \in CellIndex :
            IsEntry(io.disk.sector[t][j]) => io.disk.sector[t][j].name # name
  PROVE  \E M : Kept(V, W, io, L, PutDirectory(io, FirstOf(L, d), name, fat_alloc(io)).io, M)
<1> DEFINE parent == FirstOf(L, d)
           new == fat_alloc(io)
           n == new.sector
           cleared == Cleared(new)
           entry == Dirent(name, TRUE, n, 0)
           made == dir_create_in(cleared, parent, entry)
           out == PutDirectory(io, parent, name, new)
           M == Taking(L, n)
<1>1. out = IF made.place.found THEN [io |-> made.io, ok |-> TRUE]
            ELSE [io |-> fat_free(made.io, n), ok |-> FALSE]
  BY PutDirectoryIs DEF Cleared
<1>5. /\ n \in DataSectors /\ Fine(V, cleared, M, W)
      /\ SameEntries(io.disk.sector, cleared.disk.sector)
      /\ M[TakenAt] = <<n>> /\ \A p \in Places : p # TakenAt => M[p] = L[p]
  <2>1. TookCleared(V, W, io, L, new)
    BY TakesCleared
  <2> HIDE DEF new
  <2> QED
    BY <2>1 DEF TookCleared
<1>7. d \in Dirs(cleared.disk.sector) /\ d \in Places /\ d # TakenAt
  BY <1>5, SameEntriesKeep, DirsAre
<1> HIDE DEF cleared, M, n, new, parent
<1>8. On(M, d) = On(L, d) /\ FirstOf(M, d) = FirstOf(L, d) /\ FirstOf(M, TakenAt) = n
  BY <1>5, <1>7 DEF On, FirstOf
<1>9. entry \in CellSet(V) /\ IsEntry(entry) /\ entry.first_sector = n /\ entry.dir /\ entry.name = name
  BY <1>5, SectorsAre DEF Dirent, CellSet, IsEntry
<1> HIDE DEF entry
<1>10. Repeats \in W \/ \A t \in On(M, d), j \in CellIndex :
          IsEntry(cleared.disk.sector[t][j]) => cleared.disk.sector[t][j].name # entry.name
  <2>1. On(L, d) \subseteq Sectors
    BY <1>7, OnSectors DEF Fine, Laid
  <2> QED
    BY <2>1, <1>5, <1>8, <1>9 DEF SameEntries
<1>11. \/ dir_create_in(cleared, FirstOf(M, d), entry) = [io |-> cleared, place |-> NotFound]
       \/ \E N, s, k : Made(V, W, cleared, M, d, entry, dir_create_in(cleared, FirstOf(M, d), entry), N, s, k)
  BY <1>5, <1>7, <1>8, <1>9, <1>10, Creates
<1>12. made = dir_create_in(cleared, FirstOf(M, d), entry)
  BY <1>8 DEF parent
<1> HIDE DEF made, out
<1>13. ASSUME made = [io |-> cleared, place |-> NotFound]
       PROVE  \E N : Kept(V, W, io, L, out.io, N)
  <2>1. ~made.place.found /\ made.io = cleared
    BY <1>13 DEF NotFound
  <2>2. out.io = fat_free(cleared, FirstOf(M, TakenAt))
    BY <1>1, <1>8, <2>1
  <2> DEFINE N == GivenBack(M)
  <2>0. M[TakenAt] # <<>>
    BY <1>5
  <2>3. Fine(V, out.io, N, W) /\ out.io.disk.sector = cleared.disk.sector
    <3>1. Fine(V, cleared, M, W)
      BY <1>5
    <3>2. /\ Fine(V, fat_free(cleared, FirstOf(M, TakenAt)), GivenBack(M), W)
          /\ fat_free(cleared, FirstOf(M, TakenAt)).disk.sector = cleared.disk.sector
      BY <3>1, <2>0, SectorGivenBack
    <3> QED
      BY <3>2, <2>2
  <2>4. N[TakenAt] = <<>> /\ \A p \in Places : p # TakenAt => N[p] = L[p]
    BY <1>5, PlacesAre DEF Fine, Laid, GivenBack
  <2> HIDE DEF N
  <2>5. FilesKept(io.disk.sector, L, out.io.disk.sector, N)
    <3>1. \A s \in Sectors, k \in CellIndex : <<s, k>> \in Places /\ <<s, k>> # TakenAt
      BY PlacesAre DEF CellIndex
    <3>2. \A s \in Sectors, k \in CellIndex :
             /\ IsFile(cleared.disk.sector[s][k]) <=> IsFile(io.disk.sector[s][k])
             /\ IsFile(io.disk.sector[s][k]) => cleared.disk.sector[s][k] = io.disk.sector[s][k]
      BY <1>5 DEF SameEntries, IsFile
    <3> QED
      BY <2>3, <2>4, <3>1, <3>2 DEF FilesKept
  <2> QED
    BY <2>3, <2>4, <2>5 DEF Kept
<1>14. ASSUME \E N, s, k : Made(V, W, cleared, M, d, entry, made, N, s, k)
       PROVE  \E N : Kept(V, W, io, L, out.io, N)
  <2>1. PICK N, s, k : Made(V, W, cleared, M, d, entry, made, N, s, k)
    BY <1>14
  <2>2. ~IsFile(entry)
    BY <1>9 DEF IsFile
  <2>3. Kept(V, W, io, L, made.io, N)
    BY <1>5, <1>7, <2>1, <2>2, MadeKeeps
  <2>4. made.place.found
    BY <2>1 DEF Made, HasPlace
  <2>5. out.io = made.io
    BY <1>1, <2>4
  <2> QED
    BY <2>3, <2>5
<1>15. \E N : Kept(V, W, io, L, out.io, N)
  BY <1>11, <1>12, <1>13, <1>14
<1> QED
  BY <1>15 DEF out, parent, new

(* and all of mkdir.                                                       *)
LEMMA mkdirIs ==
  ASSUME NEW io, NEW path
  PROVE  mkdir(io, path) =
           IF resolve_parent(io, path) = NO_SECTOR \/ dir_find_in(io, resolve_parent(io, path), Last(path)).found
              \/ fat_alloc(io).sector = NO_SECTOR
           THEN [io |-> io, ok |-> FALSE]
           ELSE PutDirectory(io, resolve_parent(io, path), Last(path), fat_alloc(io))
<1> DEFINE parent == resolve_parent(io, path)
           new == fat_alloc(io)
           G(n) == IF n.sector = NO_SECTOR THEN [io |-> io, ok |-> FALSE]
                   ELSE PutDirectory(io, parent, Last(path), n)
           Refused == parent = NO_SECTOR \/ dir_find_in(io, parent, Last(path)).found
<1>1. mkdir(io, path) = IF Refused THEN [io |-> io, ok |-> FALSE]
                        ELSE CHOOSE result \in {G(n) : n \in {new}} : TRUE
  BY Zenon DEF mkdir, Bind
<1>2. (CHOOSE result \in {G(n) : n \in {new}} : TRUE) = G(new)
  <2> HIDE DEF G, new
  <2> QED
    OBVIOUS
<1> HIDE DEF Refused, parent, new
<1>3. mkdir(io, path) = IF Refused THEN [io |-> io, ok |-> FALSE] ELSE G(new)
  BY <1>1, <1>2
<1>4. mkdir(io, path) = IF Refused \/ new.sector = NO_SECTOR THEN [io |-> io, ok |-> FALSE]
                        ELSE PutDirectory(io, parent, Last(path), new)
  BY <1>3
<1> QED
  BY <1>4 DEF Refused, parent, new

(* mkdir keeps what is on the disk, whether it succeeds or not.            *)
LEMMA MkdirKeeps ==
  ASSUME NEW V, NEW io, NEW L, NEW W, Fine(V, io, L, W), L[TakenAt] = <<>>,
         NEW path \in Seq(Names) \ {<<>>}
  PROVE  \E M : Kept(V, W, io, L, mkdir(io, path).io, M)
<1> DEFINE parent == resolve_parent(io, path)
           name == Last(path)
           n == fat_alloc(io).sector
           out == mkdir(io, path)
<1>1. CASE parent = NO_SECTOR \/ dir_find_in(io, parent, name).found \/ n = NO_SECTOR
  <2>1. out = [io |-> io, ok |-> FALSE]
    BY <1>1, mkdirIs
  <2>2. out.io = io
    BY <2>1
  <2> QED
    BY <2>2, KeptAsIs
<1>2. CASE parent # NO_SECTOR /\ ~dir_find_in(io, parent, name).found /\ n # NO_SECTOR
  <2>1. out = PutDirectory(io, parent, name, fat_alloc(io))
    BY <1>2, mkdirIs
  <2>2. PICK d \in Dirs(io.disk.sector) : parent = FirstOf(L, d)
    BY <1>2, ResolvesParent
  <2>3. name \in Names
    BY DEF Last
  <2>4. FreeIn(io.disk.fat) # {}
    BY <1>2, AllocatesNone
  <2>6. \A t \in On(L, d), j \in CellIndex : IsEntry(io.disk.sector[t][j]) => io.disk.sector[t][j].name # name
    <3>1. dir_find_in(io, FirstOf(L, d), name) \notin EntryPlaces(io)
      <4>1. \A place \in EntryPlaces(io) : place.found
        BY EntryPlacesAre DEF Cell, Place
      <4> QED
        BY <1>2, <2>2, <4>1
    <3> QED
      BY <3>1, Finds
  <2>7. \E M : Kept(V, W, io, L, PutDirectory(io, FirstOf(L, d), name, fat_alloc(io)).io, M)
    <3> HIDE DEF name
    <3> QED
      BY <2>3, <2>4, <2>6, PutsDirectory
  <2> QED
    BY <2>1, <2>2, <2>7
<1> QED
  BY <1>1, <1>2

(* A listing has the cells of the sectors of a chain.                      *)
Lists(io, L, p, dir) ==
    /\ \A q \in DOMAIN dir : \E s \in On(L, p), k \in CellIndex : dir[q] = Cell(io, s, k)
    /\ \A s \in On(L, p), k \in CellIndex : \E q \in DOMAIN dir : dir[q] = Cell(io, s, k)

(* The listing of a directory does.                                        *)
LEMMA ListsCells ==
  ASSUME NEW io, NEW L, Laid(io.disk.fat, L), NEW p \in Places
  PROVE  Lists(io, L, p, Listing(io, FirstOf(L, p)))
BY Listed DEF Lists

(* The entries of a directory are the entry cells of its sectors.          *)
LEMMA EntriesAre ==
  ASSUME NEW V, NEW io, NEW L, NEW W, Fine(V, io, L, W), NEW d \in Dirs(io.disk.sector)
  PROVE  /\ \A s \in On(L, d), k \in CellIndex :
              IsEntry(io.disk.sector[s][k]) => Cell(io, s, k) \in Entries(io, FirstOf(L, d))
         /\ \A place \in Entries(io, FirstOf(L, d)) : \E s \in On(L, d), k \in CellIndex :
              s \in Sectors /\ place = Cell(io, s, k) /\ IsEntry(io.disk.sector[s][k])
<1> DEFINE dir == Listing(io, FirstOf(L, d))
<1>1. d \in Places /\ Laid(io.disk.fat, L) /\ L \in [Places -> Seq(Sectors)]
  BY DirsAre DEF Fine, Laid
<1>2. /\ \A q \in DOMAIN dir : \E s \in On(L, d), k \in CellIndex : dir[q] = Cell(io, s, k)
      /\ \A s \in On(L, d), k \in CellIndex : \E q \in DOMAIN dir : dir[q] = Cell(io, s, k)
  <2>1. Lists(io, L, d, dir)
    BY <1>1, ListsCells
  <2> HIDE DEF dir
  <2> QED
    BY <2>1 DEF Lists
<1>3. Entries(io, FirstOf(L, d)) = {place \in {dir[q] : q \in DOMAIN dir} : IsEntry(place.entry)}
  BY DEF Entries, Range
<1>4. \A s, k : Cell(io, s, k).entry = io.disk.sector[s][k]
  BY DEF Cell, Place
<1>5. On(L, d) \subseteq Sectors
  BY <1>1, OnSectors
<1> HIDE DEF dir
<1>6. ASSUME NEW s \in On(L, d), NEW k \in CellIndex, IsEntry(io.disk.sector[s][k])
      PROVE  Cell(io, s, k) \in Entries(io, FirstOf(L, d))
  BY <1>2, <1>3, <1>4, <1>6
<1>7. ASSUME NEW place \in Entries(io, FirstOf(L, d))
      PROVE  \E s \in On(L, d), k \in CellIndex :
               s \in Sectors /\ place = Cell(io, s, k) /\ IsEntry(io.disk.sector[s][k])
  <2>1. PICK q \in DOMAIN dir : place = dir[q] /\ IsEntry(place.entry)
    BY <1>3
  <2>2. PICK s \in On(L, d), k \in CellIndex : dir[q] = Cell(io, s, k)
    BY <1>2
  <2> QED
    BY <1>4, <1>5, <2>1, <2>2
<1> QED
  BY <1>6, <1>7

(* The tree is walked in rounds, each adding the directories listed in     *)
(* those found before.                                                     *)
DirectoriesBelow(io, d) ==
    { [path |-> Append(d.path, place.entry.name), first |-> place.entry.first_sector] :
        place \in {p \in Entries(io, d.first) : IsDirectory(p.entry)} }

Top == [path |-> <<>>, first |-> root_start]

Heads(io, L) == {FirstOf(L, d) : d \in Dirs(io.disk.sector)}

Listeds(io, L) == [path : Seq(Names), first : Heads(io, L)]

TreeWalk(io, f) ==
    /\ f[0] = {Top}
    /\ \A n \in 1 .. total_sectors : f[n] = f[n - 1] \cup UNION {DirectoriesBelow(io, d) : d \in f[n - 1]}

(* What is found is a directory of the disk.                               *)
LEMMA BelowAre ==
  ASSUME NEW V, NEW io, NEW L, NEW W, Fine(V, io, L, W), NEW x \in Listeds(io, L)
  PROVE  DirectoriesBelow(io, x) \subseteq Listeds(io, L)
<1>1. PICK d \in Dirs(io.disk.sector) : x.first = FirstOf(L, d)
  BY DEF Listeds, Heads
<1> SUFFICES ASSUME NEW place \in Entries(io, FirstOf(L, d)), IsDirectory(place.entry)
             PROVE  [path |-> Append(x.path, place.entry.name), first |-> place.entry.first_sector] \in Listeds(io, L)
  BY <1>1 DEF DirectoriesBelow
<1>2. PICK s \in On(L, d), k \in CellIndex :
         s \in Sectors /\ place = Cell(io, s, k) /\ IsEntry(io.disk.sector[s][k])
  BY EntriesAre
<1>3. place.entry = io.disk.sector[s][k]
  BY <1>2 DEF Cell, Place
<1>4. <<s, k>> \in Dirs(io.disk.sector) /\ io.disk.sector[s][k].dir
  BY <1>2, <1>3, DirsAre
<1>5. io.disk.sector[s][k].first_sector = FirstOf(L, <<s, k>>)
  BY <1>2, <1>4 DEF Fine, Tidy
<1>6. io.disk.sector[s][k].name \in Names
  <2>1. io.disk.sector[s][k] \in CellSet(V)
    BY <1>2, IOsAre DEF Fine, Contents
  <2> QED
    BY <1>2, <2>1 DEF CellSet, IsEntry, Zero
<1>7. place.entry.first_sector \in Heads(io, L)
  BY <1>3, <1>4, <1>5 DEF Heads
<1>8. Append(x.path, place.entry.name) \in Seq(Names)
  BY <1>3, <1>6 DEF Listeds
<1> QED
  BY <1>7, <1>8 DEF Listeds

(* The walk that the invariants of Qfs are stated with is these rounds, as *)
(* many as there are sectors.                                              *)
LEMMA TreeWalks ==
  ASSUME NEW V, NEW io, NEW L, NEW W, Fine(V, io, L, W)
  PROVE  \E f \in [0 .. total_sectors -> SUBSET Listeds(io, L)] :
            TreeWalk(io, f) /\ DirectoryTree(io) = f[total_sectors - root_start]
<1> DEFINE N == total_sectors
           R == SUBSET Listeds(io, L)
           below(d) == { [path |-> Append(d.path, place.entry.name), first |-> place.entry.first_sector] :
                           place \in {p \in Entries(io, d.first) : IsDirectory(p.entry)} }
           IsRun(f) == f = [n \in 0 .. N |-> IF n = 0 THEN {[path |-> <<>>, first |-> root_start]}
                                             ELSE f[n - 1] \cup UNION {below(d) : d \in f[n - 1]}]
           reach == CHOOSE f : IsRun(f)
           Grow(S) == S \cup UNION {DirectoriesBelow(io, d) : d \in S}
           g == [n \in 1 .. N |-> [S \in R |-> Grow(S)]]
<1>1. N \in Nat
  BY SectorsAre
<1>2. {Top} \in R
  <2>1. root_start = FirstOf(L, RootAt)
    BY DEF Fine, Laid, FirstOf
  <2>2. root_start \in Heads(io, L)
    BY <2>1, DirsAre DEF Heads
  <2> QED
    BY <2>2 DEF Top, Listeds
<1>3. \A S \in R : Grow(S) \in R
  BY BelowAre
<1>4. g \in [1 .. N -> [R -> R]] /\ \A n \in 1 .. N : \A S \in R : g[n][S] = Grow(S)
  BY <1>3
<1>5. DirectoryTree(io) = reach[total_sectors - root_start]
  BY Zenon DEF DirectoryTree
<1>6. \A d : below(d) = DirectoriesBelow(io, d)
  BY DEF DirectoriesBelow
<1> HIDE DEF g, R, N, below
<1>7. PICK f : Run(f, R, N, {Top}, g)
  BY <1>1, <1>2, <1>4, Iterates
<1>8. f \in [0 .. N -> R] /\ f[0] = {Top} /\ \A n \in 1 .. N : f[n] = Grow(f[n - 1])
  <2>1. f \in [0 .. N -> R] /\ f[0] = {Top} /\ \A n \in 1 .. N : f[n] = g[n][f[n - 1]]
    BY <1>7 DEF Run
  <2> HIDE DEF Grow
  <2>2. \A n \in 1 .. N : f[n - 1] \in R
    BY <1>1, <2>1
  <2> QED
    BY <2>1, <2>2, <1>4
<1>9. \A S : S \cup UNION {below(d) : d \in S} = Grow(S)
  BY <1>6
<1> HIDE DEF Grow
<1>10. IsRun(f)
  <2>1. f = [n \in 0 .. N |-> IF n = 0 THEN {Top} ELSE Grow(f[n - 1])]
    BY <1>1, <1>8
  <2> QED
    BY <2>1, <1>9 DEF Top
<1>11. IsRun(reach)
  <2> HIDE DEF IsRun
  <2> QED
    BY <1>10, Zenon
<1>12. \A h : IsRun(h) => h = [n \in 0 .. N |-> h[n]] /\ h[0] = {Top} /\ \A n \in 1 .. N : h[n] = Grow(h[n - 1])
  <2> SUFFICES ASSUME NEW h, IsRun(h)
               PROVE  h = [n \in 0 .. N |-> h[n]] /\ h[0] = {Top} /\ \A n \in 1 .. N : h[n] = Grow(h[n - 1])
    BY Zenon
  <2>1. h = [n \in 0 .. N |-> IF n = 0 THEN {Top} ELSE Grow(h[n - 1])]
    BY <1>9 DEF Top
  <2> HIDE DEF IsRun
  <2> DEFINE e(n) == IF n = 0 THEN {Top} ELSE Grow(h[n - 1])
  <2>2. \A n \in 0 .. N : h[n] = e(n)
    <3> HIDE DEF e
    <3>1. h = [n \in 0 .. N |-> e(n)]
      BY <2>1 DEF e
    <3> QED
      BY <3>1
  <2>3. h = [n \in 0 .. N |-> h[n]]
    <3> HIDE DEF e
    <3>1. h = [n \in 0 .. N |-> e(n)]
      BY <2>1 DEF e
    <3> QED
      BY <3>1
  <2>4. h[0] = {Top} /\ \A n \in 1 .. N : h[n] = Grow(h[n - 1])
    BY <1>1, <2>2
  <2> QED
    BY <2>3, <2>4
<1> HIDE DEF IsRun, reach
<1>13. reach = f
  <2> DEFINE T == {n \in 0 .. N : reach[n] = f[n]}
  <2>0. /\ reach = [n \in 0 .. N |-> reach[n]] /\ reach[0] = {Top} /\ \A n \in 1 .. N : reach[n] = Grow(reach[n - 1])
        /\ f = [n \in 0 .. N |-> f[n]] /\ f[0] = {Top} /\ \A n \in 1 .. N : f[n] = Grow(f[n - 1])
    BY <1>10, <1>11, <1>12
  <2>01. /\ reach[0] = {Top} /\ \A n \in 1 .. N : reach[n] = Grow(reach[n - 1])
         /\ f[0] = {Top} /\ \A n \in 1 .. N : f[n] = Grow(f[n - 1])
    BY <2>0
  <2>1. 0 \in T
    <3>1. reach[0] = f[0]
      BY <2>01, Zenon
    <3>2. 0 \in 0 .. N
      BY <1>1
    <3> QED
      BY <3>1, <3>2
  <2>2. ASSUME NEW n \in 1 .. N, n - 1 \in T PROVE n \in T
    BY <1>1, <2>01, <2>2
  <2> HIDE DEF T
  <2>3. 0 .. N \subseteq T
    BY <1>1, <2>1, <2>2, Induct
  <2>4. \A n \in 0 .. N : reach[n] = f[n]
    BY <2>3 DEF T
  <2>5. reach = [n \in 0 .. N |-> reach[n]] /\ f = [n \in 0 .. N |-> f[n]]
    BY <2>0
  <2> QED
    BY <2>4, <2>5
<1>14. TreeWalk(io, f)
  BY <1>8 DEF TreeWalk, Grow, N
<1> QED
  BY <1>5, <1>8, <1>13, <1>14 DEF N, R

(* The directories that have been reached, by a set of paths.              *)
Reached(io, L, S) == {d \in Dirs(io.disk.sector) : \E x \in S : x.first = FirstOf(L, d)}

(* Each directory has a sector of its own, so that there are no more than  *)
(* sectors,                                                                *)
LEMMA DirsAreFew ==
  ASSUME NEW V, NEW io, NEW L, NEW W, Fine(V, io, L, W)
  PROVE  /\ IsFiniteSet(Dirs(io.disk.sector))
         /\ Cardinality(Dirs(io.disk.sector)) <= total_sectors - root_start
<1> DEFINE D == Dirs(io.disk.sector)
           f == [d \in D |-> FirstOf(L, d)]
<1>1. \A d \in D : d \in Places /\ L[d] # <<>>
  <2>1. ASSUME NEW d \in D PROVE L[d] # <<>>
    <3>1. CASE d = RootAt
      BY <3>1 DEF Fine, Laid
    <3>2. CASE d # RootAt
      <4>1. Tidy(io.disk.sector, L, W)
        BY DEF Fine
      <4>2. PICK s \in Sectors, k \in CellIndex : d = <<s, k>>
        BY <3>2 DEF Dirs
      <4>3. IsEntry(io.disk.sector[s][k]) /\ io.disk.sector[s][k].dir
        BY <4>2, DirsAre
      <4>4. L[<<s, k>>] # <<>>
        BY <4>1, <4>3 DEF Tidy
      <4> QED
        BY <4>2, <4>4
    <3> QED
      BY <3>1, <3>2
  <2> QED
    BY <2>1, DirsAre
<1> HIDE DEF D
<1>2. \A d \in D : L[d] \in Seq(Sectors) /\ 1 \in 1 .. Len(L[d]) /\ FirstOf(L, d) = L[d][1]
  BY <1>1 DEF Fine, Laid, FirstOf
<1>3. \A a, b \in D : f[a] = f[b] => a = b
  <2> SUFFICES ASSUME NEW a \in D, NEW b \in D, f[a] = f[b] PROVE a = b
    OBVIOUS
  <2>1. L[a][1] = L[b][1] /\ 1 \in 1 .. Len(L[a]) /\ 1 \in 1 .. Len(L[b]) /\ a \in Places /\ b \in Places
    BY <1>1, <1>2
  <2> QED
    BY <2>1 DEF Fine, Laid
<1>4. f \in [D -> Sectors]
  <2>1. \A d \in D : FirstOf(L, d) \in Sectors
    BY <1>2
  <2> QED
    BY <2>1
<1>5. f \in Injection(D, Sectors)
  <2> HIDE DEF f
  <2> QED
    BY <1>3, <1>4 DEF Injection, IsInjective
<1> HIDE DEF f
<1> QED
  BY <1>5, SectorsAre, FS_Injection DEF D

(* and a round that finds no new directory has found them all.             *)
LEMMA ReachedGrows ==
  ASSUME NEW V, NEW io, NEW L, NEW W, Fine(V, io, L, W),
         NEW S, NEW T, T = S \cup UNION {DirectoriesBelow(io, x) : x \in S}, RootAt \in Reached(io, L, S),
         Reached(io, L, T) = Reached(io, L, S)
  PROVE  Dirs(io.disk.sector) \subseteq Reached(io, L, S)
<1> DEFINE sec == io.disk.sector
           P == Reached(io, L, S)
<1>1. P \in SUBSET Places
  BY DirsAre DEF Reached
<1>2. ASSUME NEW d \in Dirs(sec) \cap P, NEW s \in On(L, d), NEW k \in CellIndex, <<s, k>> \in Dirs(sec)
      PROVE  <<s, k>> \in P
  <2>1. PICK x \in S : x.first = FirstOf(L, d)
    BY <1>2 DEF Reached
  <2>2. s \in Sectors
    BY <1>2, DirsAre, OnSectors DEF Fine, Laid
  <2>3. IsDirectory(sec[s][k]) /\ IsEntry(sec[s][k]) /\ sec[s][k].dir
    BY <1>2, <2>2, DirsAre
  <2>4. Cell(io, s, k) \in Entries(io, x.first)
    BY <2>1, <2>3, <1>2, EntriesAre
  <2>5. Cell(io, s, k).entry = sec[s][k]
    BY DEF Cell, Place
  <2>6. sec[s][k].first_sector = FirstOf(L, <<s, k>>)
    BY <2>2, <2>3 DEF Fine, Tidy
  <2> DEFINE y == [path |-> Append(x.path, sec[s][k].name), first |-> FirstOf(L, <<s, k>>)]
  <2>7. y \in DirectoriesBelow(io, x)
    BY <2>3, <2>4, <2>5, <2>6 DEF DirectoriesBelow
  <2>8. y.first = FirstOf(L, <<s, k>>)
    OBVIOUS
  <2> HIDE DEF y
  <2>9. y \in T
    BY <2>7
  <2>10. <<s, k>> \in Reached(io, L, T)
    BY <1>2, <2>8, <2>9 DEF Reached
  <2> QED
    BY <2>10
<1>3. Follows(sec, L, P)
  <2> HIDE DEF P, sec
  <2> QED
    BY <1>2 DEF Follows, P
<1> QED
  BY <1>1, <1>3 DEF Fine, Tidy, Rooted

(* Every directory is in the tree, and every directory of the tree is one. *)
LEMMA TreeIs ==
  ASSUME NEW V, NEW io, NEW L, NEW W, Fine(V, io, L, W)
  PROVE  {x.first : x \in DirectoryTree(io)} = Heads(io, L)
<1> DEFINE N == total_sectors - root_start
           D == Dirs(io.disk.sector)
<1>1. PICK f \in [0 .. total_sectors -> SUBSET Listeds(io, L)] :
         TreeWalk(io, f) /\ DirectoryTree(io) = f[N]
  BY TreeWalks
<1>2. N \in Nat /\ N \in 0 .. total_sectors /\ total_sectors \in Nat
  BY SectorsAre, DiskAssumption
<1>3. /\ f[0] = {Top}
      /\ \A n \in 1 .. total_sectors : f[n] = f[n - 1] \cup UNION {DirectoriesBelow(io, d) : d \in f[n - 1]}
  BY <1>1 DEF TreeWalk
<1>4. IsFiniteSet(D) /\ Cardinality(D) <= N /\ Cardinality(D) \in Nat
  BY DirsAreFew, FS_CardinalityType
<1> DEFINE S(n) == Reached(io, L, f[n])
           G == {n \in 0 .. N : RootAt \in S(n) /\ (D \subseteq S(n) \/ Cardinality(S(n)) >= n + 1)}
<1>5. \A n : IsFiniteSet(S(n)) /\ Cardinality(S(n)) \in Nat /\ S(n) \subseteq D /\ Cardinality(S(n)) <= Cardinality(D)
  <2>1. \A n : S(n) \in SUBSET D
    BY DEF Reached
  <2> HIDE DEF S, D
  <2> QED
    BY <2>1, <1>4, FS_Subset, FS_CardinalityType
<1>6. 0 \in G
  <2>1. RootAt \in S(0)
    <3>1. FirstOf(L, RootAt) = root_start
      BY DEF Fine, Laid, FirstOf
    <3> QED
      BY <3>1, <1>3, DirsAre DEF Reached, Top
  <2>2. Cardinality(S(0)) >= 1
    <3> HIDE DEF S
    <3>1. Cardinality({RootAt}) = 1
      BY FS_Singleton
    <3>2. {RootAt} \in SUBSET S(0)
      BY <2>1
    <3> QED
      BY <1>5, <3>1, <3>2, FS_Subset
  <2> HIDE DEF S
  <2> QED
    BY <1>2, <2>1, <2>2
<1>7. ASSUME NEW n \in 1 .. N, n - 1 \in G PROVE n \in G
  <2>1. n \in 1 .. total_sectors
    BY <1>2
  <2>2. f[n] = f[n - 1] \cup UNION {DirectoriesBelow(io, d) : d \in f[n - 1]}
    BY <1>3, <2>1
  <2>3. S(n - 1) \subseteq S(n)
    BY <2>2 DEF Reached
  <2>4. S(n) = S(n - 1) => D \subseteq S(n - 1)
    <3>1. RootAt \in S(n - 1)
      BY <1>7
    <3> QED
      BY <2>2, <3>1, ReachedGrows
  <2> HIDE DEF S
  <2>5. S(n) # S(n - 1) => Cardinality(S(n)) >= Cardinality(S(n - 1)) + 1
    <3>1. S(n - 1) \in SUBSET S(n)
      BY <2>3
    <3> QED
      BY <3>1, <1>5, FS_Subset
  <2>6. RootAt \in S(n)
    BY <1>7, <2>3
  <2>7. D \subseteq S(n) \/ Cardinality(S(n)) >= n + 1
    <3> HIDE DEF D
    <3>1. D \subseteq S(n - 1) \/ Cardinality(S(n - 1)) >= n
      BY <1>7
    <3> QED
      BY <3>1, <2>3, <2>4, <2>5, <1>5
  <2> QED
    BY <2>6, <2>7
<1> HIDE DEF G, S
<1>8. N \in G
  <2>1. 0 .. N \subseteq G
    <3> HIDE DEF N
    <3> QED
      BY <1>2, <1>6, <1>7, Induct
  <2> QED
    BY <2>1, <1>2
<1>9. D \subseteq S(N)
  <2>1. D \subseteq S(N) \/ Cardinality(S(N)) >= N + 1
    BY <1>8 DEF G
  <2>2. Cardinality(S(N)) <= N /\ Cardinality(S(N)) \in Nat
    <3> HIDE DEF D, N
    <3> QED
      BY <1>2, <1>4, <1>5
  <2> HIDE DEF N, D
  <2> QED
    BY <1>2, <2>1, <2>2
<1>10. \A x \in f[N] : x.first \in Heads(io, L)
  BY <1>1, <1>2 DEF Listeds
<1>11. \A d \in D : \E x \in f[N] : x.first = FirstOf(L, d)
  BY <1>9 DEF S, Reached
<1> HIDE DEF D
<1> QED
  BY <1>1, <1>10, <1>11 DEF Heads, D

(* A cleared sector has no entries.                                        *)
LEMMA BlankIs ==
  ASSUME NEW V
  PROVE  Blank \in Contents(V) /\ \A k \in CellIndex : ~IsEntry(Blank[k])
BY DEF Blank, Contents, CellSet, CellIndex, IsEntry, Zero

(* The layout of a new disk: the root directory has one sector, which is   *)
(* cleared, and nothing else has any.                                      *)
NewLay == [p \in Places |-> IF p = RootAt THEN <<root_start>> ELSE <<>>]

(* Its chains.                                                             *)
LEMMA NewLayIs ==
  /\ NewLay \in [Places -> Seq(Sectors)] /\ NewLay[RootAt] = <<root_start>>
  /\ \A p \in Places : p # RootAt => NewLay[p] = <<>>
BY PlacesAre, SectorsAre DEF NewLay

(* The FAT agrees with it,                                                 *)
LEMMA NewDiskLaid ==
  Laid(NewDisk.fat, NewLay)
<1> DEFINE L == NewLay
           fat == NewDisk.fat
<1>1. /\ L \in [Places -> Seq(Sectors)] /\ L[RootAt] = <<root_start>> /\ RootAt \in Places
      /\ \A p \in Places : p # RootAt => L[p] = <<>>
  BY NewLayIs, PlacesAre
<1>2. fat = [s \in Sectors |-> FAT_FREE]
  BY DEF NewDisk
<1>3. root_start \in Sectors /\ FAT_FREE \in Marks /\ DataSectors \subseteq Sectors
  BY SectorsAre DEF Marks
<1> HIDE DEF L, fat
<1>4. fat \in [Sectors -> Marks] /\ \A s \in Sectors : fat[s] = FAT_FREE
  BY <1>2, <1>3
<1>one. Len(<<root_start>>) = 1 /\ <<root_start>>[1] = root_start
  OBVIOUS
<1>5. \A p \in Places : \A i \in 1 .. Len(L[p]) : p = RootAt /\ i = 1 /\ L[p][i] = root_start
  <2> SUFFICES ASSUME NEW p \in Places, NEW i \in 1 .. Len(L[p])
               PROVE  p = RootAt /\ i = 1 /\ L[p][i] = root_start
    OBVIOUS
  <2>1. L[p] # <<>>
    BY <1>1
  <2>2. p = RootAt
    BY <1>1, <2>1
  <2>3. Len(L[p]) = 1 /\ L[p][1] = root_start
    BY <1>1, <1>one, <2>2, Zenon
  <2>4. i = 1
    BY <2>3
  <2> QED
    BY <2>2, <2>3, <2>4
<1>6. \A p \in Places : L[p] # <<>> => p = RootAt /\ Len(L[p]) = 1 /\ L[p][Len(L[p])] = root_start
  <2> SUFFICES ASSUME NEW p \in Places, L[p] # <<>>
               PROVE  p = RootAt /\ Len(L[p]) = 1 /\ L[p][Len(L[p])] = root_start
    OBVIOUS
  <2>1. p = RootAt
    BY <1>1
  <2>2. Len(L[p]) = 1 /\ L[p][1] = root_start
    BY <1>1, <1>one, <2>1, Zenon
  <2> QED
    BY <2>1, <2>2
<1>7. L[RootAt] # <<>> /\ L[RootAt][1] = root_start
  BY <1>1
<1>8. \A p \in Places : \A i \in 1 .. Len(L[p]) - 1 : fat[L[p][i]] = L[p][i + 1]
  <2> SUFFICES ASSUME NEW p \in Places, NEW i \in 1 .. Len(L[p]) - 1
               PROVE  FALSE
    OBVIOUS
  <2>1. Len(L[p]) \in Nat
    BY <1>1
  <2>2. i \in 1 .. Len(L[p]) /\ i + 1 \in 1 .. Len(L[p])
    BY <2>1
  <2> QED
    BY <1>5, <2>2
<1>9. \A p \in Places : L[p] # <<>> =>
          \/ fat[L[p][Len(L[p])]] = FAT_END
          \/ fat[L[p][Len(L[p])]] = FAT_FREE /\ L[p][Len(L[p])] = root_start
  BY <1>3, <1>4, <1>6
<1>10. \A p, q \in Places : \A i \in 1 .. Len(L[p]), j \in 1 .. Len(L[q]) :
          L[p][i] = L[q][j] => p = q /\ i = j
  BY <1>5
<1>11. \A s \in DataSectors : fat[s] # FAT_FREE =>
          \E p \in Places : \E i \in 1 .. Len(L[p]) : L[p][i] = s
  BY <1>3, <1>4
<1>12. Laid(fat, L)
  BY <1>1, <1>4, <1>7, <1>8, <1>9, <1>10, <1>11 DEF Laid
<1> QED
  BY <1>12 DEF L, fat

(* as do the directories,                                                  *)
LEMMA NewDiskTidy ==
  ASSUME NEW W
  PROVE  Tidy(NewDisk.sector, NewLay, W)
<1> DEFINE sec == NewDisk.sector
           L == NewLay
<1>1. \A s \in Sectors, k \in CellIndex : sec[s][k] = Zero
  BY DEF NewDisk, Blank, CellIndex
<1>2. \A s \in Sectors, k \in CellIndex : ~IsEntry(sec[s][k]) /\ ~IsDirectory(sec[s][k])
  BY <1>1 DEF IsEntry, IsDirectory, Zero
<1> HIDE DEF sec
<1>3. Dirs(sec) = {RootAt}
  BY <1>2 DEF Dirs
<1>4. L \in [Places -> Seq(Sectors)]
  BY NewLayIs
<1>5. \A s \in Sectors, k \in CellIndex : L[<<s, k>>] = <<>>
  BY NewLayIs, PlacesAre DEF CellIndex
<1>6. On(L, RootAt) \subseteq Sectors
  BY <1>4, PlacesAre, OnSectors
<1> HIDE DEF L
<1>7. Rooted(sec, L)
  BY <1>3 DEF Rooted, Follows
<1>8. \A d \in Dirs(sec) : \A s, t \in On(L, d) : \A k, j \in CellIndex :
          IsEntry(sec[s][k]) /\ IsEntry(sec[t][j]) /\ sec[s][k].name = sec[t][j].name => s = t /\ k = j
  BY <1>2, <1>3, <1>6
<1>9. Tidy(sec, L, W)
  BY <1>2, <1>4, <1>5, <1>7, <1>8 DEF Tidy
<1> QED
  BY <1>9 DEF sec, L

(* and the counts.                                                         *)
LEMMA NewDiskCounted ==
  /\ FreeIn(NewDisk.fat) = DataSectors
  /\ Cardinality(DataSectors) = total_sectors - root_start - 1
<1>1. FreeIn(NewDisk.fat) = DataSectors
  BY SectorsAre DEF FreeIn, NewDisk
<1>2. Cardinality(DataSectors) = total_sectors - root_start - 1
  <2>1. root_start + 1 \in Int /\ total_sectors - 1 \in Int /\ root_start \in Nat /\ total_sectors \in Nat
        /\ root_start + 1 <= total_sectors - 1
    BY DiskAssumption
  <2>2. Cardinality((root_start + 1) .. (total_sectors - 1)) = (total_sectors - 1) - (root_start + 1) + 1
    BY <2>1, FS_Interval
  <2> QED
    BY <2>1, <2>2 DEF DataSectors
<1> QED
  BY <1>1, <1>2
=============================================================================

------------------------------ MODULE QfsDisk ------------------------------
(***************************************************************************)
(* A QFS disk and what the drivers do to it: chains of sectors in the FAT, *)
(* directories and the entries in them (src/kernel/fs.qll, and the same    *)
(* algorithms in src/src/platform/server/qfs.ts).  There are no variables  *)
(* here: an operation takes an I/O state, a record of the disk as its      *)
(* writes will leave it, the sector writes it has made, in order, and the  *)
(* count of free sectors cached in memory, and returns the next.           *)
(*                                                                         *)
(* A sector is an array of Cells cells.  A cell is zero, a byte of a file  *)
(* or a directory entry: four entries or 512 bytes make a sector in the    *)
(* code, the same small number of either makes one here.                   *)
(***************************************************************************)
EXTENDS Integers, Sequences, SequencesExt, FiniteSetsExt

CONSTANTS
    root_start,      \* the first sector of the root directory
    total_sectors,
    Cells,           \* the cells of a sector
    Names            \* names of files and directories

ASSUME DiskAssumption ==
    /\ root_start \in Nat /\ root_start >= 2   \* after the superblock and the FAT
    /\ total_sectors \in Nat /\ total_sectors > root_start + 1
    /\ Cells \in Nat \ {0}

(* Op(value), with value evaluated once.                                   *)
Bind(value, Op(_)) == CHOOSE result \in {Op(v) : v \in {value}} : TRUE

Repeat(Step(_, _), from, count) ==
    LET after[n \in 0 .. count] ==
            IF n = 0 THEN from ELSE Bind(after[n - 1], LAMBDA at : Step(at, n))
    IN  after[count]

FAT_FREE == 0
FAT_END == -1           \* 0xFFFFFFFF
NO_SECTOR == 0          \* sector 0 is the superblock's

Sectors == root_start .. total_sectors - 1
DataSectors == root_start + 1 .. total_sectors - 1

(* A deleted entry is a zero cell: no search tells it from a free one.     *)
Zero == [kind |-> "zero"]
ByteCell(value) == [kind |-> "byte", value |-> value]
Dirent(name, dir, first, size) ==
    [kind |-> "dirent", name |-> name, dir |-> dir, first_sector |-> first, size |-> size]

Blank == [c \in 0 .. Cells - 1 |-> Zero]

(* A new image, as "qfs create" makes it: the FAT is all zero, the entry   *)
(* of the root directory included.                                         *)
NewDisk ==
    [fat |-> [s \in Sectors |-> FAT_FREE],
     super |-> [free_sectors |-> total_sectors - root_start - 1],
     sector |-> [s \in Sectors |-> Blank]]

-----------------------------------------------------------------------------
(* A write of one sector changes one FAT entry, the count of free sectors  *)
(* in the superblock, or a whole sector of the rest.                       *)
SectorWrite(part, at, to) == [part |-> part, at |-> at, to |-> to]

Apply(disk, write) == [disk EXCEPT ![write.part][write.at] = write.to]

Start(disk, free) == [disk |-> disk, writes |-> <<>>, free_sectors |-> free]

Do(io, write) ==
    [io EXCEPT !.disk = Apply(@, write), !.writes = Append(@, write)]

fat_read(io, s) == IF s \in Sectors THEN io.disk.fat[s] ELSE FAT_FREE

fat_write(io, s, value) == Do(io, SectorWrite("fat", s, value))

write_superblock(io) == Do(io, SectorWrite("super", "free_sectors", io.free_sectors))

write_sector(io, s, cells) == Do(io, SectorWrite("sector", s, cells))

EndsChain(s) == s \in {FAT_END, FAT_FREE, NO_SECTOR}

(* The sectors a loop over a chain visits.  On a cyclic chain the code     *)
(* goes round for ever; here it stops after as many steps as there are     *)
(* sectors.                                                                *)
Chain(io, first) ==
    LET from[steps \in 0 .. total_sectors] ==
            [s \in Sectors \cup {FAT_END, FAT_FREE} |->
                IF EndsChain(s) \/ steps = 0 THEN <<>>
                ELSE <<s>> \o from[steps - 1][fat_read(io, s)]]
    IN  from[total_sectors][first]

(* Faulty variant: the sector is not marked as taken.                      *)
fat_alloc_NotMarked(io) ==
    LET free == {s \in DataSectors : fat_read(io, s) = FAT_FREE}
    IN  IF free = {} THEN [io |-> io, sector |-> NO_SECTOR]
        ELSE [io |-> write_superblock([io EXCEPT !.free_sectors = @ - 1]), sector |-> Min(free)]

(* The first free sector, or no sector; both are allocated at once, for    *)
(* the FAT entry is written before the superblock.                         *)
fat_alloc(io) ==
    LET free == {s \in DataSectors : fat_read(io, s) = FAT_FREE}
        taken(s) == [fat_write(io, s, FAT_END) EXCEPT !.free_sectors = @ - 1]
    IN  IF free = {} THEN [io |-> io, sector |-> NO_SECTOR]
        ELSE [io |-> write_superblock(taken(Min(free))), sector |-> Min(free)]

(* Faulty variant: a freed sector is not counted.                          *)
release_NotCounted(io, s) == fat_write(io, s, FAT_FREE)

release(io, s) == [fat_write(io, s, FAT_FREE) EXCEPT !.free_sectors = @ + 1]

fat_free(io, first) ==
    Bind(Chain(io, first), LAMBDA chain :
        write_superblock(Repeat(LAMBDA at, n : release(at, chain[n]), io, Len(chain))))

-----------------------------------------------------------------------------
(* Directories: the places of the cells of a chain, by their position.     *)
Place(s, slot, cell) == [found |-> TRUE, sector |-> s, slot |-> slot, entry |-> cell]

NotFound == [found |-> FALSE, sector |-> NO_SECTOR, slot |-> 0, entry |-> Zero]

Listing(io, first) ==
    Bind(Chain(io, first), LAMBDA chain :
        [p \in 0 .. Len(chain) * Cells - 1 |->
            Place(chain[p \div Cells + 1], p % Cells,
                  io.disk.sector[chain[p \div Cells + 1]][p % Cells])])

IsEntry(cell) == cell.kind = "dirent"
IsDirectory(cell) == IsEntry(cell) /\ cell.dir

(* The places of the entries of a directory.                               *)
Entries(io, first) == {place \in Range(Listing(io, first)) : IsEntry(place.entry)}

(* The first position of a directory at which something holds.             *)
FirstPlace(io, first, Test(_)) ==
    Bind(Listing(io, first), LAMBDA dir :
        LET matches == {p \in DOMAIN dir : Test(dir[p].entry)}
        IN  IF matches = {} THEN NotFound ELSE dir[Min(matches)])

dir_find_in(io, first, name) ==
    FirstPlace(io, first, LAMBDA cell : IsEntry(cell) /\ cell.name = name)

read_dirent_at(io, s, slot) == IF s \in Sectors THEN io.disk.sector[s][slot] ELSE Zero

write_dirent_at(io, s, slot, cell) ==
    write_sector(io, s, [io.disk.sector[s] EXCEPT ![slot] = cell])

(* The first free slot of a directory; a full one is extended by a sector, *)
(* which is linked before it is cleared.                                   *)
Extended(io, first, new) ==
    LET linked == fat_write(new.io, Last(Chain(io, first)), new.sector)
    IN  IF new.sector = NO_SECTOR THEN [io |-> io, place |-> NotFound]
        ELSE [io |-> write_sector(linked, new.sector, Blank),
              place |-> Place(new.sector, 0, Zero)]

dir_find_free_in(io, first) ==
    Bind(FirstPlace(io, first, LAMBDA cell : cell = Zero), LAMBDA free :
        IF free.found THEN [io |-> io, place |-> free]
        ELSE Bind(fat_alloc(io), LAMBDA new : Extended(io, first, new)))

dir_create_in(io, first, entry) ==
    Bind(dir_find_free_in(io, first), LAMBDA at :
        IF ~at.place.found THEN at
        ELSE [at EXCEPT !.io = write_dirent_at(@, at.place.sector, at.place.slot, entry),
                        !.place.entry = entry])

(* A chain is freed before its entry is marked deleted.                    *)
dir_delete_at(io, s, slot) ==
    LET entry == read_dirent_at(io, s, slot)
        freed == IF entry.first_sector = NO_SECTOR THEN io ELSE fat_free(io, entry.first_sector)
    IN  IF entry.kind # "dirent" THEN [io |-> io, ok |-> FALSE]
        ELSE [io |-> write_dirent_at(freed, s, slot, Zero), ok |-> TRUE]

-----------------------------------------------------------------------------
(* Paths are sequences of names; the empty one is "/".                     *)
RootPlace == Place(NO_SECTOR, 0, Dirent("/", TRUE, root_start, 0))

resolve_path(io, path) ==
    LET at[n \in 0 .. Len(path)] ==
            IF n = 0 THEN RootPlace
            ELSE LET dir == at[n - 1].entry
                 IN  IF IsDirectory(dir) THEN dir_find_in(io, dir.first_sector, path[n])
                     ELSE NotFound
    IN  at[Len(path)]

(* The first sector of the directory that the last name of a path is in.   *)
resolve_parent(io, path) ==
    LET parent == resolve_path(io, Front(path))
    IN  IF path # <<>> /\ IsDirectory(parent.entry)
        THEN parent.entry.first_sector ELSE NO_SECTOR

(* Faulty variant: without room for the entry the sector is not given back.*)
PutDirectory_Leaks(io, parent, name, new) ==
    LET cleared == write_sector(new.io, new.sector, Blank)
    IN  Bind(dir_create_in(cleared, parent, Dirent(name, TRUE, new.sector, 0)), LAMBDA made :
            [io |-> made.io, ok |-> made.place.found])

(* mkdir: the new directory's sector is allocated and cleared before its   *)
(* entry is written, and given back when there is no room for the entry.   *)
PutDirectory(io, parent, name, new) ==
    LET cleared == write_sector(new.io, new.sector, Blank)
    IN  Bind(dir_create_in(cleared, parent, Dirent(name, TRUE, new.sector, 0)), LAMBDA made :
            IF made.place.found THEN [io |-> made.io, ok |-> TRUE]
            ELSE [io |-> fat_free(made.io, new.sector), ok |-> FALSE])

mkdir(io, path) ==
    LET parent == resolve_parent(io, path)
    IN  IF parent = NO_SECTOR \/ dir_find_in(io, parent, Last(path)).found
        THEN [io |-> io, ok |-> FALSE]
        ELSE Bind(fat_alloc(io), LAMBDA new :
                IF new.sector = NO_SECTOR THEN [io |-> io, ok |-> FALSE]
                ELSE PutDirectory(io, parent, Last(path), new))

-----------------------------------------------------------------------------
(* The directories that a path leads to.                                   *)
DirectoryTree(io) ==
    LET below(d) == { [path |-> Append(d.path, place.entry.name), first |-> place.entry.first_sector] :
                        place \in {p \in Entries(io, d.first) : IsDirectory(p.entry)} }
        reach[n \in 0 .. total_sectors] ==
            IF n = 0 THEN {[path |-> <<>>, first |-> root_start]}
            ELSE reach[n - 1] \cup UNION {below(d) : d \in reach[n - 1]}
    IN  reach[total_sectors - root_start]
=============================================================================

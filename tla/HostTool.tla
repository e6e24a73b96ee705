----------------------------- MODULE HostTool -----------------------------
(***************************************************************************)
(* The host's tool for disk images: the commands create --from, add and    *)
(* mkdir of bin/qfs.ts and the class QFSImage under them                   *)
(* (src/platform/server/qfs.ts), which keeps FAT, directories and the      *)
(* superblock in the same way and the same order as the kernel's driver:   *)
(* allocateSector is fat_alloc, freeSectorChain fat_free, findInDirectory  *)
(* dir_find_in, findFreeSlot dir_find_free_in.                             *)
(*                                                                         *)
(* A command opens the image, works on it and closes it; no two run at a   *)
(* time.  The variable reported is what the commands said they had put in  *)
(* the image.                                                              *)
(***************************************************************************)
EXTENDS QfsDisk

CONSTANTS
    LongNames,      \* names of more than MAX_FILENAME_LEN characters
    Files,          \* the contents of files
    Trees,          \* the scans of directories of the host: see FromHost
    AddNames, MkdirPaths    \* what add and mkdir are called for

(* A file is a sequence of bytes; a scan has them under paths.             *)
IsData(data) == data \in Seq({ByteCell(data[i].value) : i \in DOMAIN data})

IsScanned(entry) ==
    entry.path \in Seq(Names) \ {<<>>} /\ entry.dir \in BOOLEAN /\ IsData(entry.data)

ASSUME HostAssumption ==
    /\ LongNames \subseteq Names
    /\ \A data \in Files : IsData(data)
    /\ \A tree \in Trees : tree \in Seq(Range(tree)) /\ \A n \in DOMAIN tree : IsScanned(tree[n])
    /\ AddNames \subseteq Names
    /\ MkdirPaths \subseteq Seq(Names) \ {<<>>}

VARIABLES disk, reported

toolVars == <<disk, reported>>

Image == Start(disk, disk.super.free_sectors)

Report(path, dir, data) == [path |-> path, dir |-> dir, data |-> data]

Init == disk = NewDisk /\ reported = {}

Leave(io, reports) ==
    /\ disk' = io.disk
    /\ reported' = reported \cup reports

-----------------------------------------------------------------------------
(* Faulty variant: what was written is not given back when the disk is     *)
(* full.                                                                   *)
GiveBack_Not(writing) == writing

(* writeFile.  Sectors are linked as they are allocated; all are given     *)
(* back when there are too few.                                            *)
SectorData(data, n) ==
    [c \in 0 .. Cells - 1 |->
        IF (n - 1) * Cells + c < Len(data) THEN data[(n - 1) * Cells + c + 1] ELSE Zero]

(* Faulty variant: the sectors are not linked.                             *)
LinkedAfter_Not(io, writing, sector) == io

LinkedAfter(io, writing, sector) ==
    IF writing.first = NO_SECTOR THEN io ELSE fat_write(io, writing.prev, sector)

PutSector(writing, new, cells) ==
    IF new.sector = NO_SECTOR THEN [writing EXCEPT !.failed = TRUE]
    ELSE [writing EXCEPT
            !.io = write_sector(LinkedAfter(new.io, writing, new.sector), new.sector, cells),
            !.first = IF @ = NO_SECTOR THEN new.sector ELSE @,
            !.prev = new.sector]

GiveBack(writing) ==
    IF writing.failed /\ writing.first # NO_SECTOR
    THEN [writing EXCEPT !.io = fat_free(@, writing.first)] ELSE writing

writeFile(io, data) ==
    LET start == [io |-> io, first |-> NO_SECTOR, prev |-> NO_SECTOR, failed |-> FALSE]
        write(writing, n) ==
            IF writing.failed THEN writing
            ELSE Bind(fat_alloc(writing.io), LAMBDA new : PutSector(writing, new, SectorData(data, n)))
    IN  Bind(Repeat(write, start, (Len(data) + Cells - 1) \div Cells), GiveBack)

readFile(io, entry) ==
    Bind(Chain(io, entry.first_sector), LAMBDA chain :
        [i \in 1 .. Min({entry.size, Len(chain) * Cells}) |->
            io.disk.sector[chain[(i - 1) \div Cells + 1]][(i - 1) % Cells]])

(* add: the entry goes to the slot that was found, but always of the first *)
(* sector of the root directory (setDirEntry).                             *)
Add(name, data) ==
    /\ name \notin LongNames
    /\ ~dir_find_in(Image, root_start, name).found
    /\ \E at \in {dir_find_free_in(Image, root_start)} :
        /\ at.place.found
        /\ \E file \in {writeFile(at.io, data)} :
            IF file.failed THEN Leave(file.io, {})
            ELSE Leave(write_dirent_at(file.io, root_start, at.place.slot,
                                       Dirent(name, FALSE, file.first, Len(data))),
                       {Report(<<name>>, FALSE, data)})

Mkdir(path) ==
    /\ Last(path) \notin LongNames
    /\ \E made \in {mkdir(Image, path)} :
         Leave(made.io, IF made.ok THEN {Report(path, TRUE, <<>>)} ELSE {})

-----------------------------------------------------------------------------
(* create --from.  A scan lists each directory before what is in it; an    *)
(* entry is [path, dir, data].  Its parent is looked for from the root,    *)
(* and when that fails the error is reported, but the entry is put into    *)
(* the last directory that was found.                                      *)
ParentSector(io, path) ==
    LET search == [first |-> root_start, broken |-> FALSE]
        next(at, n) ==
            LET found == dir_find_in(io, at.first, path[n]).entry
            IN  IF at.broken \/ ~IsDirectory(found) THEN [at EXCEPT !.broken = TRUE]
                ELSE [at EXCEPT !.first = found.first_sector]
    IN  Repeat(next, search, Len(path) - 1).first

(* Working on an image: a file that does not fit ends the command.         *)
Work(io, reports, thrown) == [io |-> io, reports |-> reports, thrown |-> thrown]

PutFile(work, parent, entry) ==
    Bind(dir_find_free_in(work.io, parent), LAMBDA at :
        IF ~at.place.found THEN work
        ELSE Bind(writeFile(at.io, entry.data), LAMBDA file :
            IF file.failed THEN Work(file.io, work.reports, TRUE)
            ELSE Work(write_dirent_at(file.io, at.place.sector, at.place.slot,
                        Dirent(Last(entry.path), FALSE, file.first, Len(entry.data))),
                      work.reports \cup {entry}, FALSE)))

CreateDirectory(work, parent, entry) ==
    Bind(fat_alloc(work.io), LAMBDA new :
        IF new.sector = NO_SECTOR THEN work
        ELSE Bind(PutDirectory(work.io, parent, Last(entry.path), new), LAMBDA made :
            Work(made.io, IF made.ok THEN work.reports \cup {entry} ELSE work.reports, FALSE)))

PutEntry(work, entry) ==
    IF work.thrown \/ Last(entry.path) \in LongNames THEN work
    ELSE Bind(ParentSector(work.io, entry.path), LAMBDA parent :
            IF entry.dir THEN CreateDirectory(work, parent, entry)
            ELSE PutFile(work, parent, entry))

FromHost(tree) ==
    /\ disk = NewDisk
    /\ \E work \in {Repeat(LAMBDA at, n : PutEntry(at, tree[n]), Work(Image, {}, FALSE), Len(tree))} :
         Leave(work.io, work.reports)

Next ==
    \/ \E name \in AddNames, data \in Files : Add(name, data)
    \/ \E path \in MkdirPaths : Mkdir(path)
    \/ \E tree \in Trees : FromHost(tree)

Spec == Init /\ [][Next]_toolVars

-----------------------------------------------------------------------------
ImageContents ==
    UNION { { Report(Append(d.path, place.entry.name), place.entry.dir,
                     IF place.entry.dir THEN <<>> ELSE readFile(Image, place.entry)) :
                place \in Entries(Image, d.first) } : d \in DirectoryTree(Image) }

(* What the commands said they put in the image is there, under the path   *)
(* it was given, with its data, and nothing else is: later commands        *)
(* disturb nothing (add, mkdir, create --from).                            *)
ImageIsAsReported == ImageContents = reported

UsedSectors(first) == ToSet(Chain(Image, first))

PlacedEntries == UNION {Entries(Image, d.first) : d \in DirectoryTree(Image)}

(* Every sector belongs to one file or directory or is free, and the count *)
(* of free sectors is right, also after a command that failed half way     *)
(* (writeFile, createDirectory).                                           *)
SectorsAccounted ==
    LET used == [place \in PlacedEntries |-> UsedSectors(place.entry.first_sector)]
        taken == UsedSectors(root_start) \cup UNION Range(used)
        free == {s \in DataSectors : fat_read(Image, s) = FAT_FREE}
    IN  /\ \A p \in PlacedEntries : used[p] \cap UsedSectors(root_start) = {}
        /\ \A p, q \in PlacedEntries : p # q => used[p] \cap used[q] = {}
        /\ free = DataSectors \ taken
        /\ disk.super.free_sectors = Cardinality(free)
=============================================================================

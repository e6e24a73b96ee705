-------------------------------- MODULE Qfs --------------------------------
(***************************************************************************)
(* The kernel's file system driver (src/kernel/fs.qll) and the calls that  *)
(* reach it: the file system calls of src/kernel/syscall.qll and the       *)
(* commands of src/kernel/shell.qll.                                       *)
(*                                                                         *)
(* Handlers are masked, so that a call sees the disk the one before it     *)
(* left.  What a call cannot escape is the end of the machine: its writes  *)
(* reach the disk one sector at a time, in the variable writes until then, *)
(* and a crash may come between any two of them.                           *)
(***************************************************************************)
EXTENDS QfsDisk

CONSTANTS
    Values,          \* what the bytes of files are told apart by
    MAX_OPEN_FILES,
    Counts,          \* the numbers of bytes of one read or write
    Paths,           \* the paths that files are opened, made and removed by
    DirPaths,        \* the paths of mkdir
    Calls,           \* the calls that are made
    Habits           \* what programs do not keep from doing, see Minds

ASSUME QfsAssumption ==
    /\ MAX_OPEN_FILES \in Nat
    /\ Counts \subseteq Nat
    /\ Paths \cup DirPaths \subseteq Seq(Names) \ {<<>>}

VARIABLES
    disk,            \* the disk, as the calls made so far leave it
    stored,          \* what is stored of it
    writes,          \* the sector writes of the last call that are still to be stored
    free_sectors,    \* the cached superblock's count
    open_files,
    answer           \* the call that was last made, and what it returned

vars == <<disk, stored, writes, free_sectors, open_files, answer>>

Slots == 0 .. MAX_OPEN_FILES - 1

MODE_READ == "read"
MODE_WRITE == "write"
MODE_APPEND == "append"
Modes == {MODE_READ, MODE_WRITE, MODE_APPEND}

Closed == [in_use |-> FALSE]
Free == {h \in Slots : ~open_files[h].in_use}
Open == {h \in Slots : open_files[h].in_use}

Now == Start(disk, free_sectors)

Init ==
    /\ disk = NewDisk
    /\ stored = NewDisk
    /\ writes = <<>>
    /\ free_sectors = NewDisk.super.free_sectors
    /\ open_files = [h \in Slots |-> Closed]
    /\ answer = [call |-> "boot", result |-> 0]

(* A call is made when the one before it is done, and decides its writes.  *)
(* Where no crash can come between them they are stored at once.           *)
Calling(call) == writes = <<>> /\ call \in Calls

Finish(io, call, result) ==
    /\ disk' = io.disk
    /\ writes' = IF "crash" \in Calls THEN io.writes ELSE <<>>
    /\ stored' = IF "crash" \in Calls THEN stored ELSE io.disk
    /\ free_sectors' = io.free_sectors
    /\ answer' = [call |-> call, result |-> result]

-----------------------------------------------------------------------------
(* Buffers: each open file has one sector of its own in memory.            *)
flush_buffer(io, file) ==
    IF file.buffer_dirty /\ file.buffer_sector # NO_SECTOR
    THEN write_sector(io, file.buffer_sector, file.buffer) ELSE io

Flushed(at) == [at EXCEPT !.io = flush_buffer(@, at.file), !.file.buffer_dirty = FALSE]

(* Faulty variant: a dirty buffer is not written before it is replaced.    *)
load_buffer_NoFlush(at) ==
    IF at.file.buffer_sector = at.file.current_sector THEN at
    ELSE [at EXCEPT
            !.file.buffer = at.io.disk.sector[at.file.current_sector],
            !.file.buffer_sector = at.file.current_sector, !.file.buffer_dirty = FALSE]

load_buffer(at) ==
    IF at.file.buffer_sector = at.file.current_sector THEN at
    ELSE [Flushed(at) EXCEPT
            !.file.buffer = Flushed(at).io.disk.sector[at.file.current_sector],
            !.file.buffer_sector = at.file.current_sector]

(* Faulty variant: the last sector is not reached.                         *)
SeekEnd_Short(io, entry) ==
    IF entry.first_sector = NO_SECTOR \/ entry.size = 0 THEN entry.first_sector
    ELSE LET chain == Chain(io, entry.first_sector)
         IN  chain[Max({(Min({entry.size, Len(chain) * Cells}) - 1) \div Cells, 1})]

(* file_open.  Nothing is truncated; an appending handle seeks the last    *)
(* sector of the file.                                                     *)
SeekEnd(io, entry) ==
    IF entry.first_sector = NO_SECTOR \/ entry.size = 0 THEN entry.first_sector
    ELSE LET chain == Chain(io, entry.first_sector)
         IN  chain[Min({(entry.size - 1) \div Cells + 1, Len(chain)})]

NewFile(io, place, mode) ==
    [in_use |-> TRUE, mode |-> mode, modified |-> FALSE,
     dir_sector |-> place.sector, dir_slot |-> place.slot,
     first_sector |-> place.entry.first_sector,
     current_sector |-> IF mode = MODE_APPEND THEN SeekEnd(io, place.entry)
                        ELSE place.entry.first_sector,
     file_size |-> place.entry.size,
     position |-> IF mode = MODE_APPEND THEN place.entry.size ELSE 0,
     buffer |-> Blank, buffer_sector |-> NO_SECTOR, buffer_dirty |-> FALSE]

FindOrCreate(io, path, mode) ==
    LET parent == resolve_parent(io, path)
        found == dir_find_in(io, parent, Last(path))
    IN  IF parent = NO_SECTOR THEN [io |-> io, place |-> NotFound]
        ELSE IF found.found \/ mode = MODE_READ THEN [io |-> io, place |-> found]
        ELSE dir_create_in(io, parent, Dirent(Last(path), FALSE, NO_SECTOR, 0))

(* What a program may do but should mind: to open a file for writing that  *)
(* is open ("share"), to read by a handle that writes ("mix"), to open a   *)
(* directory as a file, to remove a directory that has entries or a file   *)
(* that is open, and to DESTROY a file in a root of several sectors        *)
(* ("destroy beyond", see DestroyDeletesNamed).                            *)
OpenAt(place) == {h \in Open : open_files[h].dir_sector = place.sector
                            /\ open_files[h].dir_slot = place.slot}

Minds(habit) == habit \notin Habits

MayOpen(place, mode) ==
    /\ Minds("share") => \A h \in OpenAt(place) : mode = MODE_READ /\ open_files[h].mode = MODE_READ
    /\ Minds("open directory") => ~IsDirectory(place.entry)

FileOpen(path, mode) ==
    /\ Calling("open")
    /\ \E at \in {FindOrCreate(Now, path, mode)} :
        /\ MayOpen(at.place, mode)
        /\ IF Free # {} /\ at.place.found
           THEN /\ open_files' = [open_files EXCEPT ![Min(Free)] = NewFile(at.io, at.place, mode)]
                /\ Finish(at.io, "open", Min(Free))
           ELSE /\ Finish(IF Free = {} THEN Now ELSE at.io, "open", -1)
                /\ UNCHANGED open_files

(* Faulty variant: the entry is written only if the file had no sectors.   *)
SaveEntry_OnlyNew(io, file) ==
    LET entry == read_dirent_at(io, file.dir_sector, file.dir_slot)
    IN  IF ~file.modified \/ entry.kind # "dirent" \/ entry.first_sector # NO_SECTOR THEN io
        ELSE write_dirent_at(io, file.dir_sector, file.dir_slot,
                [entry EXCEPT !.first_sector = file.first_sector, !.size = file.file_size])

(* file_close: the entry learns of the file's first sector and size.       *)
SaveEntry(io, file) ==
    LET entry == read_dirent_at(io, file.dir_sector, file.dir_slot)
    IN  IF ~file.modified \/ entry.kind # "dirent" THEN io
        ELSE write_dirent_at(io, file.dir_sector, file.dir_slot,
                [entry EXCEPT !.first_sector = file.first_sector, !.size = file.file_size])

(* Faulty variant: the entry is written before the last buffer.            *)
Closing_EntryFirst(io, file) == flush_buffer(SaveEntry(io, file), file)

Closing(io, file) == SaveEntry(flush_buffer(io, file), file)

FileClose(h) ==
    /\ Calling("close")
    /\ open_files[h].in_use
    /\ \E io \in {Closing(Now, open_files[h])} : Finish(io, "close", 0)
    /\ open_files' = [open_files EXCEPT ![h] = Closed]

-----------------------------------------------------------------------------
(* Reading and writing go byte by byte, and stop early at the end of the   *)
(* file or of the disk.  Reading moves to the next sector after the last   *)
(* byte of one, writing before the first byte of the next.                 *)
Job(h) == [io |-> Now, file |-> open_files[h], read |-> <<>>, written |-> 0, stopped |-> FALSE]

AtBoundary(file) == file.position % Cells = 0

NextOf(at) == fat_read(at.io, at.file.current_sector)

AfterByte(at) ==
    IF AtBoundary(at.file) /\ NextOf(at) \notin {FAT_END, FAT_FREE}
    THEN [at EXCEPT !.file.current_sector = NextOf(at)] ELSE at

ReadByte(at, n) ==
    IF \/ at.stopped \/ at.file.position >= at.file.file_size
       \/ at.file.current_sector = NO_SECTOR
    THEN [at EXCEPT !.stopped = TRUE]
    ELSE Bind(load_buffer(at), LAMBDA here :
            AfterByte([here EXCEPT
                !.read = Append(@, here.file.buffer[here.file.position % Cells]),
                !.file.position = @ + 1]))

FirstSector(at) ==
    LET new == fat_alloc(at.io)
    IN  IF at.file.first_sector # NO_SECTOR THEN at
        ELSE IF new.sector = NO_SECTOR THEN [at EXCEPT !.stopped = TRUE]
        ELSE [at EXCEPT !.io = new.io, !.file.first_sector = new.sector,
                        !.file.current_sector = new.sector]

(* Faulty variant: the link is stored before the sector it leads to is     *)
(* taken.                                                                  *)
BeforeByte_LinkFirst(at) ==
    LET new == fat_alloc(at.io)
        linked == fat_write(at.io, at.file.current_sector, new.sector)
    IN  IF at.stopped \/ at.file.position = 0 \/ ~AtBoundary(at.file) THEN at
        ELSE IF NextOf(at) \notin {FAT_END, FAT_FREE}
        THEN [at EXCEPT !.file.current_sector = NextOf(at)]
        ELSE IF new.sector = NO_SECTOR THEN [at EXCEPT !.stopped = TRUE]
        ELSE [at EXCEPT !.io = fat_alloc(linked).io, !.file.current_sector = new.sector]

BeforeByte(at) ==
    LET new == fat_alloc(at.io)
    IN  IF at.stopped \/ at.file.position = 0 \/ ~AtBoundary(at.file) THEN at
        ELSE IF NextOf(at) \notin {FAT_END, FAT_FREE}
        THEN [at EXCEPT !.file.current_sector = NextOf(at)]
        ELSE IF new.sector = NO_SECTOR THEN [at EXCEPT !.stopped = TRUE]
        ELSE [at EXCEPT !.io = fat_write(new.io, at.file.current_sector, new.sector),
                        !.file.current_sector = new.sector]

PutByte(at, value) ==
    LET position == at.file.position
    IN  [at EXCEPT !.written = @ + 1,
                   !.file.buffer[position % Cells] = ByteCell(value),
                   !.file.buffer_dirty = TRUE, !.file.modified = TRUE,
                   !.file.position = @ + 1,
                   !.file.file_size = Max({@, position + 1})]

WriteByte(at, value) ==
    IF at.stopped THEN at
    ELSE Bind(FirstSector(at), LAMBDA first : Bind(BeforeByte(first), LAMBDA here :
            IF here.stopped THEN here ELSE Bind(load_buffer(here), LAMBDA in : PutByte(in, value))))

FileRead(h, count) ==
    /\ Calling("read")
    /\ open_files[h].in_use
    /\ Minds("mix") => open_files[h].mode = MODE_READ
    /\ \E done \in {Repeat(ReadByte, Job(h), count)} :
        /\ Finish(done.io, "read", done.read)
        /\ open_files' = [open_files EXCEPT ![h] = done.file]

FileWrite(h, count, value) ==
    /\ Calling("write")
    /\ open_files[h].in_use
    /\ open_files[h].mode # MODE_READ
    /\ \E done \in {Repeat(LAMBDA at, n : WriteByte(at, value), Job(h), count)} :
        /\ Finish(done.io, "write", done.written)
        /\ open_files' = [open_files EXCEPT ![h] = done.file]

-----------------------------------------------------------------------------
(* mkdir, touch and rm of the shell, the CREATE and DESTROY calls.  The    *)
(* calls look a name up in the root directory, whose first sector is       *)
(* assumed to hold every entry: DESTROY deletes the entry at the slot that *)
(* was found, but of that sector.                                          *)
Done(outcome, call) ==
    /\ \E at \in {outcome} : Finish(at.io, call, at.ok)
    /\ UNCHANGED open_files

Mkdir(path) == Calling("mkdir") /\ Done(mkdir(Now, path), "mkdir")

NewFileIn(io, dir, name) ==
    Bind(dir_create_in(io, dir, Dirent(name, FALSE, NO_SECTOR, 0)), LAMBDA made :
        [io |-> made.io, ok |-> made.place.found])

(* Faulty variant: the name is not looked for.                             *)
touch_Blind(io, path) ==
    LET parent == resolve_parent(io, path)
    IN  IF parent = NO_SECTOR THEN [io |-> io, ok |-> FALSE]
        ELSE NewFileIn(io, parent, Last(path))

touch(io, path) ==
    LET parent == resolve_parent(io, path)
    IN  IF resolve_path(io, path).found THEN [io |-> io, ok |-> TRUE]
        ELSE IF parent = NO_SECTOR THEN [io |-> io, ok |-> FALSE]
        ELSE NewFileIn(io, parent, Last(path))

Touch(path) == Calling("touch") /\ Done(touch(Now, path), "touch")

MayRemove(place) ==
    /\ Minds("remove open") => OpenAt(place) = {}
    /\ Minds("remove directory") /\ IsDirectory(place.entry) => Entries(Now, place.entry.first_sector) = {}

Rm(path) ==
    /\ Calling("rm")
    /\ \E place \in {resolve_path(Now, path)} :
        /\ MayRemove(place)
        /\ Done(dir_delete_at(Now, place.sector, place.slot), "rm")

Create(name) ==
    /\ Calling("CREATE")
    /\ Done(IF dir_find_in(Now, root_start, name).found THEN [io |-> Now, ok |-> TRUE]
            ELSE NewFileIn(Now, root_start, name), "CREATE")

Destroy(name) ==
    /\ Calling("DESTROY")
    /\ \E place \in {dir_find_in(Now, root_start, name)} :
        /\ MayRemove(place)
        /\ Minds("destroy beyond") => place.sector \in {root_start, NO_SECTOR}
        /\ Done(IF place.found THEN dir_delete_at(Now, root_start, place.slot)
                ELSE [io |-> Now, ok |-> FALSE], "DESTROY")

-----------------------------------------------------------------------------
WriteSector ==
    /\ writes # <<>>
    /\ stored' = Apply(stored, Head(writes))
    /\ writes' = Tail(writes)
    /\ UNCHANGED <<disk, free_sectors, open_files, answer>>

(* A crash between the FAT and the superblock leaves the count wrong, and  *)
(* again and again further off.  Bound: the count of free sectors that a   *)
(* restart finds.                                                          *)
CountBound == 0 .. total_sectors

(* The machine stops and is started again: qfs::init reads the superblock. *)
Crash ==
    /\ "crash" \in Calls
    /\ stored.super.free_sectors \in CountBound
    /\ disk' = stored
    /\ writes' = <<>>
    /\ free_sectors' = stored.super.free_sectors
    /\ open_files' = [h \in Slots |-> Closed]
    /\ answer' = [call |-> "boot", result |-> 0]
    /\ UNCHANGED stored

Next ==
    \/ \E path \in Paths, mode \in Modes : FileOpen(path, mode)
    \/ \E h \in Slots : FileClose(h)
    \/ \E h \in Slots, count \in Counts : FileRead(h, count)
    \/ \E h \in Slots, count \in Counts, value \in Values : FileWrite(h, count, value)
    \/ \E path \in DirPaths : Mkdir(path)
    \/ \E path \in Paths : Touch(path) \/ Rm(path)
    \/ \E name \in Names : Create(name) \/ Destroy(name)
    \/ WriteSector
    \/ Crash

Spec == Init /\ [][Next]_vars

-----------------------------------------------------------------------------
Bytes == {ByteCell(v) : v \in Values}

Directories == {d.first : d \in DirectoryTree(Now)}

AllEntries == UNION {Entries(Now, d) : d \in Directories}

(* The chains in use: the root directory's, those of the entries of every  *)
(* directory, and those of open files whose entry does not know them yet.  *)
Owner(s, slot, first) == [sector |-> s, slot |-> slot, first |-> first]

Owners ==
    { o \in {Owner(NO_SECTOR, 0, root_start)}
              \cup {Owner(p.sector, p.slot, p.entry.first_sector) : p \in AllEntries}
              \cup { Owner(open_files[h].dir_sector, open_files[h].dir_slot,
                           open_files[h].first_sector) : h \in Open } :
        o.first # NO_SECTOR }

SectorsOf(owner) == ToSet(Chain(Now, owner.first))

(* No sector is part of two files or directories, none in use is free, and *)
(* every chain ends: allocation, linking and freeing go entry by entry,    *)
(* and are done by calls on different files in between (fat_alloc,         *)
(* fat_free, file_write, dir_find_free_in).                                *)
ChainsDisjoint ==
    /\ \A a, b \in Owners : a # b => SectorsOf(a) \cap SectorsOf(b) = {}
    /\ \A a \in Owners :
         /\ \A s \in SectorsOf(a) \ {root_start} : fat_read(Now, s) # FAT_FREE
         /\ Len(Chain(Now, a.first)) = Cardinality(SectorsOf(a))

FreeSectors == {s \in DataSectors : fat_read(Now, s) = FAT_FREE}

(* The count in the superblock, cached and on the disk, is the number of   *)
(* free entries of the FAT.                                                *)
FreeIsCounted ==
    /\ free_sectors = Cardinality(FreeSectors)
    /\ disk.super.free_sectors = free_sectors

(* Whatever is not free is part of a file or directory: a call that fails  *)
(* half way gives back what it took (mkdir without room for its entry).    *)
NoSectorLost ==
    DataSectors \ FreeSectors \subseteq UNION {SectorsOf(a) : a \in Owners}

(* No directory has two entries of one name, whatever makes them: each     *)
(* call searches for itself before it writes (mkdir, touch, file_open,     *)
(* the CREATE call), and a file and a directory share one space of names.  *)
NamesUnique ==
    \A d \in Directories : \A p, q \in Entries(Now, d) :
        p.entry.name = q.entry.name => p = q

(* DESTROY deletes the file that it names, and no other entry of the root  *)
(* directory (_destroy: "Delete a file.").                                 *)
RootNames == {place.entry.name : place \in Entries(Now, root_start)}

DestroyDeletesNamed ==
    [][\A name \in Names : Destroy(name) => RootNames' = RootNames \ {name}]_vars

(* A file's chain is as long as its size says.                             *)
ChainsCoverSizes ==
    \A place \in AllEntries :
        ~place.entry.dir /\ OpenAt(place) = {} =>
            Len(Chain(Now, place.entry.first_sector)) = (place.entry.size + Cells - 1) \div Cells

(* Whenever the machine stops, every byte that an entry on the disk counts *)
(* is there: a write reaches the entry when the file is closed, after its  *)
(* sectors are linked and its last buffer is stored (file_write,           *)
(* file_close).                                                            *)
BytesStored ==
    \A place \in AllEntries : ~place.entry.dir =>
        LET chain == Chain(Now, place.entry.first_sector)
        IN  \A i \in 0 .. place.entry.size - 1 :
                /\ i \div Cells < Len(chain)
                /\ disk.sector[chain[i \div Cells + 1]][i % Cells].kind = "byte"

(* current_sector is the sector that position lies in, for each open file, *)
(* whatever was read or written by its handle before.                      *)
HandleAtPosition ==
    \A h \in Open :
        LET file == open_files[h]
            chain == Chain(Now, file.first_sector)
        IN  ~AtBoundary(file) => file.current_sector = chain[file.position \div Cells + 1]
=============================================================================

------------------------------ MODULE QfsStore ------------------------------
(***************************************************************************)
(* Qfs implements FileStore for the files of the root directory.  The      *)
(* variable seen is the state of the abstract store that a state of Qfs    *)
(* stands for; it follows the other variables.                             *)
(***************************************************************************)
EXTENDS Qfs

VARIABLE seen

(* The abstract store.  A file that is open for writing has the size its   *)
(* handle knows, and the bytes of the handle's buffer where that is newer. *)
CellAt(s, k, writers) ==
    LET newer == {h \in writers : open_files[h].buffer_sector = s}
    IN  IF newer = {} THEN disk.sector[s][k] ELSE open_files[Min(newer)].buffer[k]

Extent(place, writers) ==
    IF writers = {} THEN place.entry
    ELSE [first_sector |-> open_files[Min(writers)].first_sector,
          size |-> open_files[Min(writers)].file_size]

BytesAt(place) ==
    Bind({h \in OpenAt(place) : open_files[h].mode # MODE_READ}, LAMBDA writers :
    Bind(Extent(place, writers), LAMBDA extent :
    Bind(Chain(Now, extent.first_sector), LAMBDA chain :
        [i \in 1 .. extent.size |->
            CellAt(chain[(i - 1) \div Cells + 1], (i - 1) % Cells, writers)])))

PlaceOf(name) == dir_find_in(Now, root_start, name)

HandleOf(file) ==
    IF ~file.in_use THEN [open |-> FALSE]
    ELSE [open |-> TRUE, mode |-> file.mode, position |-> file.position,
          name |-> read_dirent_at(Now, file.dir_sector, file.dir_slot).name]

Seen ==
    [store |-> [n \in {m \in Names : PlaceOf(m).found} |-> Bind(PlaceOf(n), BytesAt)],
     handles |-> [h \in Slots |-> HandleOf(open_files[h])]]

SInit == Init /\ seen = Seen
SNext == Next /\ seen' = Seen'
SSpec == SInit /\ [][SNext]_<<vars, seen>>

FS == INSTANCE FileStore WITH
    store <- seen.store, handles <- seen.handles, Values <- Bytes

(* Programs that mind their habits see a file store: buffers, sectors and  *)
(* entries that are only written on closing never show (file_open,         *)
(* file_read, file_write, file_close, CREATE and DESTROY).                 *)
ImplementsFileStore == FS!FSpec
=============================================================================

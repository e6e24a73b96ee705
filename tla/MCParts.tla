------------------------------- MODULE MCParts -------------------------------
(***************************************************************************)
(* Parts that work alone: the two MMUs, the heap, and the block device     *)
(* with its driver.  Which of them is driven is chosen at the start.       *)
(*                                                                         *)
(* The list MMU has tables with neighbouring pages, unsorted pages, a      *)
(* mapping that is repeated and one repeated with a larger size (a display *)
(* closed and opened again); the two-level MMU has tables that grant       *)
(* different accesses; the heap has room for three small allocations or a  *)
(* large one beside a small one; the disk has two sectors, of two words.   *)
(***************************************************************************)
EXTENDS ListMmu, Heap

VARIABLES
    kind,
    tables, walking, root, mru, walked,
    ram, sectors, status, error, transfers, command, polling, ok

MCTables ==
    LET page(v, p, n, f) == [virtualAddress |-> v, physicalAddress |-> p, size |-> n, flags |-> f]
    IN {<<>>,
        <<page(4, 40, 2, {"read"}), page(8, 80, 2, {"read", "write"})>>,
        <<page(8, 40, 2, {"read"}), page(3, 60, 3, {"read", "write"})>>,
        <<page(4, 40, 2, {"read"}), page(4, 70, 2, {"write"}), page(6, 90, 1, {"write"})>>,
        <<page(4, 40, 2, {"read"}), page(4, 70, 4, {"read", "write"})>>}

MCDirectories ==
    LET all == {"present", "read", "write"}
        entry(a, fs) == [address |-> a, flags |-> fs]
        table(fs, e, f) == [flags |-> fs, entries |-> [i \in {0, 1} |-> IF i = 0 THEN e ELSE f]]
    IN {[i \in {0, 1} |-> table(all, entry(4096 * (i + 1), {"present", "read"}), entry(8192, all))],
        [i \in {0, 1} |-> table({"present", "read"}, entry(8192, {"present", "read"}), entry(0, {}))],
        [i \in {0, 1} |-> table({"present", "read"}, entry(8192, all), entry(1024, all))]}

T == INSTANCE TwoLevelMmu WITH
        Indexes <- {0, 1}, Offsets <- {1023}, Directories <- MCDirectories,
        memory <- tables, enabled <- walking, baseAddress <- root, answer <- walked

twoLevelVars == <<tables, walking, root, mru, walked>>

(* Every request of one or two sectors, in and out of range.               *)
MCCalls ==
    LET asked(c, l, n, at) == [command |-> c, lba |-> l, count |-> n, buffer |-> at]
    IN {asked("flush", 0, 0, 0)}
       \cup {asked(c, l, n, 0) : c \in {"read", "write"}, l \in 0 .. 2, n \in 0 .. 2}
       \cup {asked(c, l, 1, 1) : c \in {"read", "write"}, l \in 0 .. 2}

B == INSTANCE BlockDevice WITH
        sectorSize <- 2, totalSectors <- 2, Addresses <- 0 .. 3, Contents <- {0, 1},
        Calls <- MCCalls, memory <- ram, call <- command, answer <- ok

ASSUME MCDeviceAssumption == B!DeviceAssumption

deviceVars == <<ram, sectors, status, error, transfers, command, polling, ok>>

(* Every table starts the same; the kernel writes the others.  What is     *)
(* not driven starts in one way.                                           *)
MCInit ==
    /\ kind \in {"list", "two-level", "heap", "block device"}
    /\ Init /\ memory[0] = <<>> /\ memory[16] = memory[32]
    /\ kind # "list" => memory[16] = <<>>
    /\ T!Init /\ \A base \in DOMAIN tables : tables[base] = tables[0]
    /\ kind # "two-level" => tables[0] = CHOOSE d \in MCDirectories : TRUE
    /\ HeapInit
    /\ kind # "heap" => request = CHOOSE size \in Sizes : TRUE
    /\ B!BlockInit
    /\ kind # "block device" =>
         /\ ram = [a \in 0 .. 3 |-> 0]
         /\ sectors = [lba \in 0 .. 1 |-> [o \in 0 .. 1 |-> 0]]

MCNext ==
    /\ \/ kind = "list" /\ Next /\ UNCHANGED <<twoLevelVars, heapVars, deviceVars>>
       \/ kind = "two-level" /\ T!Next /\ UNCHANGED <<listVars, heapVars, deviceVars>>
       \/ kind = "heap" /\ HeapNext /\ UNCHANGED <<listVars, twoLevelVars, deviceVars>>
       \/ kind = "block device" /\ B!BlockNext /\ UNCHANGED <<listVars, twoLevelVars, heapVars>>
    /\ UNCHANGED kind

MCSpec ==
    /\ MCInit /\ [][MCNext]_<<kind, listVars, twoLevelVars, heapVars, deviceVars>>
    /\ WF_heapVars(Walk)
    /\ WF_deviceVars(B!Driver) /\ WF_deviceVars(B!Device)

(* The two-level MMU answers as the table in memory would: neither its     *)
(* cache nor the two masks show (mmu.ts:172-228).                          *)
TwoLevelImplementsTranslation == T!TwoLevelImplementsTranslation

(* A call of the block device's driver that answers true has moved its     *)
(* sectors and no others, one that answers false has touched no more; when *)
(* it answers the device has stopped, and it does answer (block.qll:52-105,*)
(* peripherals.ts:507-608).                                                *)
BlockImplementsTransfers == B!ImplementsTransfers
=============================================================================

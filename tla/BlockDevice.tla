---------------------------- MODULE BlockDevice -----------------------------
(***************************************************************************)
(* The block device (src/src/platform/server/peripherals.ts) and its       *)
(* driver (src/kernel/block.qll).  A command is started by a write to the  *)
(* device's first word, and its sectors are moved one after the other by   *)
(* promises, while the driver polls the status word.  The driver runs with *)
(* interrupts masked: nothing else uses the device or the memory meanwhile.*)
(***************************************************************************)
EXTENDS Integers

CONSTANTS
    sectorSize,
    totalSectors,
    Addresses,      \* of the words that buffers are in
    Contents,       \* what a word may hold
    Calls           \* of the driver

READY == "READY"
BUSY == "BUSY"
ERROR == "ERROR"

ERR_NONE == 0
ERR_INVALID_LBA == 1
ERR_INVALID_COUNT == 2
ERR_IO_ERROR == 3

Idle == [command |-> "none", lba |-> 0, count |-> 0, buffer |-> 0]

Offsets == 0 .. sectorSize - 1
Lbas == 0 .. totalSectors - 1

(* Of a device: a sector has words, the driver asks for one of three       *)
(* commands, and the buffer of a request in range lies in memory.          *)
DeviceAssumption ==
    /\ sectorSize \in Nat \ {0} /\ totalSectors \in Nat /\ Addresses \subseteq Nat
    /\ Calls \subseteq [command : {"read", "write", "flush"}, lba : Nat, count : Nat, buffer : Nat]
    /\ \A c \in Calls : c.lba + c.count <= totalSectors =>
          c.buffer .. c.buffer + c.count * sectorSize - 1 \subseteq Addresses

VARIABLES
    memory,
    sectors,        \* the storage
    status,         \* the device's status word
    error,          \* its error word
    transfers,      \* the chains of promises that are not settled
    call,           \* the call of the driver, or Idle
    polling,        \* it is in the loop of _wait
    answer          \* what its last call returned

blockVars == <<memory, sectors, status, error, transfers, call, polling, answer>>

BlockInit ==
    /\ memory \in [Addresses -> Contents]
    /\ sectors \in [Lbas -> [Offsets -> Contents]]
    /\ status = READY
    /\ error = ERR_NONE
    /\ transfers = {}
    /\ call = Idle
    /\ polling = FALSE
    /\ answer = FALSE

(* What writeSectors takes from memory before it asks the storage.         *)
DataAt(a) == [o \in Offsets |-> memory[a + o]]

(* A sector that the device has asked the storage to read or write.        *)
Transfer(c, lba, remaining, a) ==
    [command |-> c, lba |-> lba, remaining |-> remaining, address |-> a,
     data |-> IF c = "write" THEN DataAt(a) ELSE <<>>]

SetReady == status' = READY /\ UNCHANGED error
SetError(code) == status' = ERROR /\ error' = code

(* A faulty variant: the status is not changed before the storage answers. *)
StartWithoutBusy(t) ==
    /\ error' = ERR_NONE
    /\ transfers' = transfers \cup {t}
    /\ UNCHANGED status

Start(t) ==
    /\ status' = BUSY
    /\ error' = ERR_NONE
    /\ transfers' = transfers \cup {t}

Notify(c) ==
    IF c.command = "flush" THEN Start(Transfer("flush", 0, 1, 0))
    ELSE IF c.lba >= totalSectors THEN SetError(ERR_INVALID_LBA) /\ UNCHANGED transfers
    ELSE IF c.count = 0 \/ c.lba + c.count > totalSectors
         THEN SetError(ERR_INVALID_COUNT) /\ UNCHANGED transfers
    ELSE Start(Transfer(c.command, c.lba, c.count, c.buffer))

(* The driver writes the words of the command, the command word last.      *)
Command(c) ==
    /\ call = Idle
    /\ Notify(c)
    /\ call' = c
    /\ polling' = TRUE
    /\ UNCHANGED <<memory, sectors, answer>>

LeaveLoop ==
    /\ polling
    /\ status # BUSY
    /\ polling' = FALSE
    /\ UNCHANGED <<memory, sectors, status, error, transfers, call, answer>>

Return ==
    /\ call # Idle /\ ~polling
    /\ answer' = (status = READY)
    /\ call' = Idle
    /\ UNCHANGED <<memory, sectors, status, error, transfers, polling>>

(* A promise is kept: the sector is moved and the next one is asked for.   *)
Put(t) ==
    CASE t.command = "read" ->
           /\ memory' = [a \in Addresses |->
                IF a - t.address \in Offsets THEN sectors[t.lba][a - t.address] ELSE memory[a]]
           /\ UNCHANGED sectors
      [] t.command = "write" -> sectors' = [sectors EXCEPT ![t.lba] = t.data] /\ UNCHANGED memory
      [] OTHER -> UNCHANGED <<memory, sectors>>

Following(t) == Transfer(t.command, t.lba + 1, t.remaining - 1, t.address + sectorSize)

Resolve(t) ==
    /\ Put(t)
    /\ IF t.remaining = 1
       THEN SetReady /\ transfers' = transfers \ {t}
       ELSE /\ transfers' = (transfers \ {t}) \cup {Following(t)}
            /\ UNCHANGED <<status, error>>
    /\ UNCHANGED <<call, polling, answer>>

(* A promise is broken; a sector may have been written all the same.       *)
Reject(t) ==
    /\ \/ UNCHANGED <<memory, sectors>>
       \/ t.command = "write" /\ Put(t)
    /\ SetError(ERR_IO_ERROR)
    /\ transfers' = transfers \ {t}
    /\ UNCHANGED <<call, polling, answer>>

(* The kernel uses its memory between two calls.                           *)
Write(a, v) ==
    /\ call = Idle
    /\ memory' = [memory EXCEPT ![a] = v]
    /\ UNCHANGED <<sectors, status, error, transfers, call, polling, answer>>

Driver == LeaveLoop \/ Return
Device == \E t \in transfers : Resolve(t) \/ Reject(t)

BlockNext ==
    \/ \E c \in Calls : Command(c)
    \/ \E a \in Addresses, v \in Contents : Write(a, v)
    \/ Driver
    \/ Device

(* The machine runs, and a promise of the storage is settled.              *)
BlockSpec == BlockInit /\ [][BlockNext]_blockVars /\ WF_blockVars(Driver) /\ WF_blockVars(Device)

D == INSTANCE Transfers WITH SectorSize <- sectorSize, TotalSectors <- totalSectors

(* A call of the driver that answers true has moved its sectors and no     *)
(* others, one that answers false has touched no more; when it answers the *)
(* device has stopped, and it does answer (block.qll:52-105).              *)
ImplementsTransfers == D!Spec
=============================================================================

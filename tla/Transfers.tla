----------------------------- MODULE Transfers ------------------------------
(***************************************************************************)
(* What the block device driver promises to the file system: a call moves  *)
(* sectors between the disk and its buffer, touches nothing else, has      *)
(* moved all of them if it answers true, and is over when it answers.      *)
(* BlockDevice implements it.                                              *)
(***************************************************************************)
EXTENDS Integers

CONSTANTS
    SectorSize,     \* words in a sector
    TotalSectors,
    Calls,          \* the calls of the driver
    Idle            \* no call

VARIABLES
    memory,         \* the words of the machine
    sectors,        \* the words of each sector of the disk
    call,           \* the call under way, or Idle
    answer          \* of the last call

transferVars == <<memory, sectors, call, answer>>

Words == 0 .. SectorSize - 1

(* The words of the buffer that belong to the i-th sector of a call.       *)
Place(c, i) == {c.buffer + i * SectorSize + w : w \in Words}

InBuffer(c, i) == [w \in Words |-> memory[c.buffer + i * SectorSize + w]]

Valid(c) == c.count > 0 /\ c.lba + c.count <= TotalSectors

Moved(c) ==
    /\ Valid(c)
    /\ \A i \in 0 .. c.count - 1 : InBuffer(c, i) = sectors[c.lba + i]

Request(c) ==
    /\ call = Idle
    /\ call' = c
    /\ UNCHANGED <<memory, sectors, answer>>

(* A sector at a time, in any order.                                       *)
Move(i) ==
    /\ call # Idle /\ Valid(call)
    /\ i \in 0 .. call.count - 1
    /\ \/ /\ call.command = "read"
          /\ memory' = [a \in DOMAIN memory |->
                IF a \in Place(call, i) THEN sectors[call.lba + i][a - call.buffer - i * SectorSize]
                ELSE memory[a]]
          /\ UNCHANGED sectors
       \/ /\ call.command = "write"
          /\ sectors' = [sectors EXCEPT ![call.lba + i] = InBuffer(call, i)]
          /\ UNCHANGED memory
    /\ UNCHANGED <<call, answer>>

Answer(ok) ==
    /\ call # Idle
    /\ ok /\ call.command # "flush" => Moved(call)
    /\ answer' = ok
    /\ call' = Idle
    /\ UNCHANGED <<memory, sectors>>

(* The kernel uses its memory between calls.                               *)
Store(a) ==
    /\ call = Idle
    /\ memory' = [memory EXCEPT ![a] = memory'[a]]
    /\ UNCHANGED <<sectors, call, answer>>

Next ==
    \/ \E c \in Calls : Request(c)
    \/ call # Idle /\ \E i \in 0 .. call.count - 1 : Move(i)
    \/ \E ok \in BOOLEAN : Answer(ok)
    \/ \E a \in DOMAIN memory : Store(a)

(* A call is answered: nothing else runs meanwhile.                        *)
Answered == call # Idle ~> call = Idle

Safe == call = Idle /\ [][Next]_transferVars

Spec == Safe /\ Answered
=============================================================================

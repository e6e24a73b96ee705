------------------------------- MODULE Memory -------------------------------
(***************************************************************************)
(* Physical memory and page tables (src/kernel/memory.qll): the allocator  *)
(* of the user pool, which never takes memory back, and the page table of  *)
(* each process.  Addresses and sizes are in words.  As Interrupts, it has *)
(* operations for Display and Kernel to use and no behaviour of its own.   *)
(***************************************************************************)
EXTENDS Integers, Sequences

CONSTANTS
    LastPid,            \* the identifiers of processes are 1 .. LastPid
    user_pool_size,     \* words of the pool that processes are allocated from
    MAX_PAGES_PER_PROCESS

ASSUME MemoryAssumption ==
    /\ LastPid \in Nat
    /\ user_pool_size \in Nat
    /\ MAX_PAGES_PER_PROCESS \in Nat /\ MAX_PAGES_PER_PROCESS >= 3

VARIABLES
    user_pool_current,  \* words of the pool in use
    table               \* the page table of each process, <<>> before it has one

Pids == 1 .. LastPid

memVars == <<user_pool_current, table>>

CHUNK_SIZE == 4096
user_pool_base == 196608                \* KERNEL_RESERVED
DEFAULT_EXECUTABLE_BASE == 4096
DEFAULT_EXECUTABLE_SIZE == 32768
DEFAULT_HEAP_SIZE == 65536
DEFAULT_STACK_SIZE == 65536
IMAGE_SIZE == DEFAULT_EXECUTABLE_SIZE + DEFAULT_HEAP_SIZE + DEFAULT_STACK_SIZE

Page == [virtual_address : Nat, physical_address : Nat, size : Nat]

MemTypeOK ==
    /\ user_pool_current \in Nat
    /\ table \in [Pids -> Seq(Page)]

MemInit ==
    /\ user_pool_current = 0
    /\ table = [p \in Pids |-> <<>>]

-----------------------------------------------------------------------------
(* allocate_physical_memory: whole chunks from the unused end of the pool. *)
RoundUp(size) == ((size + CHUNK_SIZE - 1) \div CHUNK_SIZE) * CHUNK_SIZE

Fits(size) == user_pool_current + RoundUp(size) <= user_pool_size

NewMemory == user_pool_base + user_pool_current

(* A faulty variant of Take: the allocation is rounded down to chunks, so   *)
(* that the next one starts inside of it.                                  *)
Take_RoundsDown(size) ==
    user_pool_current' = user_pool_current + (size \div CHUNK_SIZE) * CHUNK_SIZE

Take(size) == user_pool_current' = user_pool_current + RoundUp(size)

(* create_table's layout: executable, heap and stack, an unmapped chunk    *)
(* between them, in one piece of physical memory.                          *)
HEAP_BASE == DEFAULT_EXECUTABLE_BASE + DEFAULT_EXECUTABLE_SIZE + CHUNK_SIZE
STACK_BASE == HEAP_BASE + DEFAULT_HEAP_SIZE + CHUNK_SIZE

ImagePages(base) == <<
    [virtual_address |-> DEFAULT_EXECUTABLE_BASE, physical_address |-> base,
     size |-> DEFAULT_EXECUTABLE_SIZE],
    [virtual_address |-> HEAP_BASE, physical_address |-> base + DEFAULT_EXECUTABLE_SIZE,
     size |-> DEFAULT_HEAP_SIZE],
    [virtual_address |-> STACK_BASE,
     physical_address |-> base + DEFAULT_EXECUTABLE_SIZE + DEFAULT_HEAP_SIZE,
     size |-> DEFAULT_STACK_SIZE] >>

CreateTable(p) ==
    /\ Fits(IMAGE_SIZE)
    /\ Take(IMAGE_SIZE)
    /\ table' = [table EXCEPT ![p] = ImagePages(NewMemory)]

TableFull(p) == Len(table[p]) >= MAX_PAGES_PER_PROCESS

AddPage(p, page) == table' = [table EXCEPT ![p] = Append(@, page)]

-----------------------------------------------------------------------------
Overlap(a, b) ==
    /\ a.physical_address < b.physical_address + b.size
    /\ b.physical_address < a.physical_address + a.size

(* Every page lies in the allocated part of the pool.                      *)
PagesAllocated ==
    \A p \in Pids : \A i \in DOMAIN table[p] :
        /\ user_pool_base <= table[p][i].physical_address
        /\ table[p][i].physical_address + table[p][i].size
             <= user_pool_base + user_pool_current

(* Address spaces are isolated: no word of physical memory is mapped by    *)
(* two pages, of one process or of two.  (create_table and display_open    *)
(* only map memory the allocator has just handed out.)                     *)
FramesDisjoint ==
    \A p, q \in Pids : \A i \in DOMAIN table[p], j \in DOMAIN table[q] :
        <<p, i>> # <<q, j>> => ~Overlap(table[p][i], table[q][j])

PoolBounded == user_pool_current <= user_pool_size
=============================================================================

-------------------------------- MODULE Heap --------------------------------
(***************************************************************************)
(* The heap of src/shared/alloc.qll, for the kernel, for user programs and *)
(* for bare programs: blocks that tile the heap, each a header of three    *)
(* words (allocated, size, next) and the words it describes.  The headers  *)
(* lie among the words of the programs, in one memory, `word'.             *)
(*                                                                         *)
(* alloc walks the list for the first block that fits, and splits it;      *)
(* dealloc frees a block and walks the list to merge neighbours.  Each     *)
(* iteration of a walk is a step.  The caller is one program, which waits  *)
(* for its answer, and writes the words it was given, and no others.       *)
(***************************************************************************)
EXTENDS Integers, Functions

CONSTANTS
    heap,               \* where system::alloc puts the heap
    HEAP_SIZE,
    SPLIT_THRESHOLD,
    Sizes,              \* the sizes that are asked for
    Values              \* the values that programs write

sizeof_block == 3
null == 0

ASSUME HeapAssumption ==
    /\ heap \in Nat \ {null}
    /\ HEAP_SIZE \in Nat /\ HEAP_SIZE >= sizeof_block
    /\ SPLIT_THRESHOLD \in Nat
    /\ Sizes \subseteq Nat /\ Sizes # {}
    /\ Values \subseteq Int

VARIABLES
    word,           \* the memory
    blocks,         \* the head of the list, null before the first call
    live,           \* the allocations the program has not released
    call,           \* "none", "alloc" or "dealloc": the call under way
    request,        \* its argument: the size alloc is asked for
    b,              \* where the walk is
    initial_block   \* the free block that the walk may extend

heapVars == <<word, blocks, live, call, request, b, initial_block>>

Top == heap + HEAP_SIZE
Words == heap .. Top - 1

IsAllocated(a) == word[a] # 0
Size(a) == word[a + 1]
NextOf(a) == word[a + 2]
End(a) == a + sizeof_block + Size(a)

Data(l) == l.pointer .. l.pointer + l.size - 1

HeapInit ==
    /\ word = [w \in Words |-> 0]
    /\ blocks = null
    /\ live = {}
    /\ call = "none"
    /\ request \in Sizes
    /\ b = null
    /\ initial_block = null

(* alloc sets the heap up when it is called for the first time.            *)
InitAlloc ==
    word' = [word EXCEPT ![heap] = 0, ![heap + 1] = HEAP_SIZE - sizeof_block, ![heap + 2] = null]

Alloc(size) ==
    /\ call = "none"
    /\ call' = "alloc"
    /\ request' = size
    /\ b' = heap
    /\ blocks' = heap
    /\ IF blocks = null THEN InitAlloc ELSE UNCHANGED word
    /\ UNCHANGED <<live, initial_block>>

Fits(a) == ~IsAllocated(a) /\ Size(a) >= request

PassBy ==
    /\ call = "alloc" /\ b # null
    /\ ~Fits(b)
    /\ b' = NextOf(b)
    /\ UNCHANGED <<word, blocks, live, call, request, initial_block>>

(* No free block found: alloc answers null.                                *)
Refuse ==
    /\ call = "alloc" /\ b = null
    /\ call' = "none"
    /\ UNCHANGED <<word, blocks, live, request, b, initial_block>>

WorthSplitting(a) == Size(a) - request > sizeof_block + SPLIT_THRESHOLD

(* A faulty variant: the rest is taken to be as long as if its header were *)
(* free.                                                                   *)
Split_HeaderForgotten(a) ==
    LET split_block == a + sizeof_block + request
    IN  word' = [word EXCEPT
            ![a] = 1, ![a + 1] = request, ![a + 2] = split_block,
            ![split_block] = 0,
            ![split_block + 1] = Size(a) - request,
            ![split_block + 2] = NextOf(a)]

Split(a) ==
    LET split_block == a + sizeof_block + request
    IN  word' = [word EXCEPT
            ![a] = 1, ![a + 1] = request, ![a + 2] = split_block,
            ![split_block] = 0,
            ![split_block + 1] = Size(a) - request - sizeof_block,
            ![split_block + 2] = NextOf(a)]

Take ==
    /\ call = "alloc" /\ b # null
    /\ Fits(b)
    /\ IF WorthSplitting(b) THEN Split(b) ELSE word' = [word EXCEPT ![b] = 1]
    /\ live' = live \cup {[pointer |-> b + sizeof_block, size |-> request]}
    /\ call' = "none"
    /\ UNCHANGED <<blocks, request, b, initial_block>>

(* dealloc of an allocation the program has; of null, it does nothing.     *)
Dealloc(l) ==
    /\ call = "none"
    /\ call' = "dealloc"
    /\ word' = [word EXCEPT ![l.pointer - sizeof_block] = 0]
    /\ live' = live \ {l}
    /\ b' = blocks
    /\ initial_block' = null
    /\ UNCHANGED <<blocks, request>>

(* _merge_blocks, an iteration for a free block behind a free block, for   *)
(* the first of a run of free blocks, and for an allocated block.          *)
Absorb ==
    /\ call = "dealloc" /\ b # null
    /\ ~IsAllocated(b) /\ initial_block # null
    /\ word' = [word EXCEPT
         ![initial_block + 2] = NextOf(b),
         ![initial_block + 1] = Size(initial_block) + sizeof_block + Size(b)]
    /\ b' = NextOf(b)
    /\ UNCHANGED <<blocks, live, call, request, initial_block>>

StartRun ==
    /\ call = "dealloc" /\ b # null
    /\ ~IsAllocated(b) /\ initial_block = null
    /\ initial_block' = b
    /\ b' = NextOf(b)
    /\ UNCHANGED <<word, blocks, live, call, request>>

(* A faulty variant: the walk goes on only behind free blocks.             *)
EndRun_Stays ==
    /\ call = "dealloc" /\ b # null
    /\ IsAllocated(b)
    /\ initial_block' = null
    /\ UNCHANGED <<word, blocks, live, call, request, b>>

EndRun ==
    /\ call = "dealloc" /\ b # null
    /\ IsAllocated(b)
    /\ initial_block' = null
    /\ b' = NextOf(b)
    /\ UNCHANGED <<word, blocks, live, call, request>>

Merged ==
    /\ call = "dealloc" /\ b = null
    /\ call' = "none"
    /\ UNCHANGED <<word, blocks, live, request, b, initial_block>>

(* The program writes a word of its own.                                   *)
Store(w, v) ==
    /\ call = "none"
    /\ word' = [word EXCEPT ![w] = v]
    /\ UNCHANGED <<blocks, live, call, request, b, initial_block>>

Walk == PassBy \/ Refuse \/ Take \/ Absorb \/ StartRun \/ EndRun \/ Merged

HeapNext ==
    \/ \E size \in Sizes : Alloc(size)
    \/ \E l \in live : Dealloc(l)
    \/ \E l \in live : \E w \in Data(l), v \in Values : Store(w, v)
    \/ Walk

HeapSpec == HeapInit /\ [][HeapNext]_heapVars
HeapFairSpec == HeapSpec /\ WF_heapVars(Walk)

(* Every call of alloc and dealloc returns: the list that it walks ends,   *)
(* however blocks were split and merged before (alloc.qll:34, 58).         *)
CallsEnd == call # "none" ~> call = "none"

-----------------------------------------------------------------------------
Owned == UNION {Data(l) : l \in live}

A == INSTANCE Allocator WITH
        Header <- sizeof_block, Slack <- 2 * sizeof_block + SPLIT_THRESHOLD,
        content <- [w \in Owned |-> word[w]], calling <- call = "alloc"

(* The heap is an allocator: what a program has is its own and is not      *)
(* touched until it is released, and alloc answers null only when no run   *)
(* of unused words is long enough (alloc.qll:45-100).                      *)
ImplementsAllocator == A!Spec
=============================================================================

----------------------------- MODULE HeapProofs -----------------------------
(***************************************************************************)
(* Proofs about Heap, for every heap, threshold, sizes and values.         *)
(*                                                                         *)
(* Inv has a witness S, the addresses of the blocks: they tile the heap in *)
(* the order of the list, and the allocated ones are what the program has. *)
(* Outside of dealloc no two free blocks are neighbours, which is what     *)
(* makes a refusal justified; the middle of each walk has a part of its    *)
(* own (Searching, Merging).                                               *)
(***************************************************************************)
EXTENDS Heap, TLAPS

(* The words, the list's head and the caller's state have their types.     *)
TypeOK ==
    /\ word \in [Words -> Int]
    /\ blocks \in {null, heap}
    /\ live \subseteq [pointer : Int, size : Sizes]
    /\ call \in {"none", "alloc", "dealloc"}
    /\ request \in Sizes

(* The blocks with their headers in S tile the heap, in the order of the   *)
(* list.                                                                   *)
Tiled(S) ==
    /\ S \subseteq Words /\ heap \in S
    /\ \A a \in S :
         /\ Size(a) \in Nat /\ End(a) <= Top
         /\ End(a) = Top => NextOf(a) = null
         /\ End(a) < Top => NextOf(a) = End(a) /\ End(a) \in S
    /\ \A a, c \in S : a < c => End(a) <= c
    /\ \A w \in Words : \E a \in S : a <= w /\ w < End(a)

(* The allocated blocks are the allocations that the program has.          *)
Owners(S) ==
    /\ \A l \in live : 
         LET a == l.pointer - sizeof_block IN
         /\ a \in S
         /\ IsAllocated(a)
         /\ l.size <= Size(a) /\ Size(a) <= l.size + sizeof_block + SPLIT_THRESHOLD
    /\ \A a \in S : IsAllocated(a) => \E l \in live : l.pointer = a + sizeof_block
    /\ \A l, m \in live : l.pointer = m.pointer => l = m

(* A free block has a free neighbour only ahead of the walk that merges.   *)
Coalesced(S) ==
    \A a \in S :
        /\ ~IsAllocated(a) /\ End(a) < Top
        /\ call = "dealloc" /\ b # null => End(a) < b
        => IsAllocated(End(a))

(* What alloc has passed by does not fit.                                  *)
Searching(S) ==
    call = "alloc" =>
        /\ b # null => b \in S
        /\ \A a \in S : b = null \/ a < b => ~Fits(a)

(* The walk of dealloc is at the block behind the run of free ones.        *)
Merging(S) ==
    call = "dealloc" =>
        /\ b # null => b \in S
        /\ initial_block # null =>
             initial_block \in S /\ ~IsAllocated(initial_block) /\ NextOf(initial_block) = b
        /\ \A a \in S : ~IsAllocated(a) /\ NextOf(a) = b /\ b # null => initial_block = a

Sound(S) == Tiled(S) /\ Owners(S) /\ Coalesced(S) /\ Searching(S) /\ Merging(S)

Inv ==
    /\ TypeOK
    /\ IF blocks = null THEN live = {} /\ call = "none"
       ELSE \E S \in SUBSET Words : Sound(S)

-----------------------------------------------------------------------------
LEMMA Apart ==
    ASSUME NEW S \in SUBSET Words, TypeOK, Tiled(S), NEW a \in S, NEW c \in S, a # c
    PROVE  /\ a \in Int /\ c \in Int /\ Size(a) \in Nat /\ Size(c) \in Nat
           /\ End(a) <= c \/ End(c) <= a
           /\ End(a) # End(c)
           /\ a + 3 <= c \/ c + 3 <= a
  BY HeapAssumption, SMT DEF Tiled, End, Words, sizeof_block, Top

(* The header of a block lies in the heap.                                 *)
LEMMA HeaderWords ==
    ASSUME NEW S \in SUBSET Words, TypeOK, Tiled(S), NEW a \in S
    PROVE  /\ a \in Words /\ a + 1 \in Words /\ a + 2 \in Words /\ a \in Int /\ a > 0
           /\ Size(a) \in Nat /\ End(a) \in Int /\ a + 3 <= End(a) /\ End(a) <= Top
           /\ word[a] \in Int /\ NextOf(a) \in Int
  <1>1. a \in Int /\ heap <= a /\ a > 0 /\ a \in Words
    BY HeapAssumption, SMT DEF Words, null, Top
  <1>2. Size(a) \in Nat /\ End(a) <= Top /\ End(a) \in Int /\ a + 3 <= End(a)
    BY <1>1, SMT DEF Tiled, End, sizeof_block
  <1>3. a + 1 \in Words /\ a + 2 \in Words
    BY <1>1, <1>2, HeapAssumption, SMT DEF Words, Top
  <1>4. word[a] \in Int /\ NextOf(a) \in Int
    BY <1>1, <1>3 DEF TypeOK, NextOf
  <1> QED
    BY <1>1, <1>2, <1>3, <1>4

(* The list is in the order of the addresses.                              *)
LEMMA NextBlock ==
    ASSUME NEW S \in SUBSET Words, TypeOK, Tiled(S), NEW a \in S
    PROVE  /\ End(a) = Top => NextOf(a) = null /\ \A c \in S : c <= a
           /\ End(a) < Top => /\ NextOf(a) = End(a) /\ NextOf(a) \in S /\ NextOf(a) # null
                              /\ a < NextOf(a)
                              /\ \A c \in S : c < NextOf(a) => c <= a
  <1>1. a \in Int /\ End(a) \in Int /\ a + 3 <= End(a) /\ a > 0
    BY HeaderWords
  <1>2. \A c \in S : c \in Int /\ c + 3 <= End(c) /\ End(c) <= Top /\ End(c) \in Int
    BY HeaderWords
  <1>3. \A c \in S : a < c => End(a) <= c
    BY DEF Tiled
  <1>4. Top \in Int
    BY HeapAssumption DEF Top
  <1>5. CASE End(a) = Top
    <2>1. NextOf(a) = null
      BY <1>5 DEF Tiled
    <2>2. \A c \in S : c <= a
      BY <1>1, <1>2, <1>3, <1>4, <1>5, SMT
    <2> QED
      BY <2>1, <2>2, <1>5, <1>4, SMT
  <1>6. CASE End(a) < Top
    <2>1. NextOf(a) = End(a) /\ End(a) \in S
      BY <1>6 DEF Tiled
    <2>2. \A c \in S : c < End(a) => c <= a
      BY <1>1, <1>2, <1>3, SMT
    <2> QED
      BY <2>1, <2>2, <1>1, <1>4, <1>6, SMT DEF null
  <1> QED
    BY <1>1, <1>4, <1>5, <1>6, SMT

(* The words of a program are not headers.                                 *)
LEMMA DataApart ==
    ASSUME NEW S \in SUBSET Words, TypeOK, Tiled(S), Owners(S),
           NEW l \in live, NEW w \in Data(l), NEW a \in S
    PROVE  w \in Words /\ (w < a \/ w > a + 2)
  <1> DEFINE c == l.pointer - 3
  <1>1. l.pointer \in Int /\ l.size \in Nat
    BY HeapAssumption DEF TypeOK
  <1>2. c \in S /\ l.size <= Size(c)
    BY SMT DEF Owners, sizeof_block
  <1>3. c + 3 <= w /\ w < c + 3 + Size(c) /\ Size(c) \in Nat /\ w \in Int
    BY <1>1, <1>2, HeaderWords, SMT DEF Data
  <1>4. End(c) <= Top /\ heap <= c /\ c \in Int
    <2> HIDE DEF c
    <2> QED
      BY <1>2, HeaderWords, HeapAssumption, SMT DEF Words, Top
  <1>5. w \in Words
    <2>1. End(c) = c + 3 + Size(c)
      BY DEF End, sizeof_block
    <2> HIDE DEF c
    <2> QED
      BY <2>1, <1>3, <1>4, HeapAssumption, SMT DEF Words, Top
  <1>6. CASE a = c
    BY <1>5, <1>6, <1>3, <1>1, SMT
  <1>7. CASE a # c
    <2> HIDE DEF c
    <2>1. End(a) <= c \/ End(c) <= a
      BY <1>2, <1>7, Apart
    <2>2. a + 3 <= End(a) /\ a \in Int /\ End(a) \in Int /\ c \in Int
      BY HeaderWords, <1>2
    <2> QED
      BY <2>1, <2>2, <1>3, <1>5, SMT DEF End, sizeof_block
  <1> QED
    BY <1>6, <1>7

-----------------------------------------------------------------------------
LEMMA AllocInv ==
    ASSUME Inv, NEW size \in Sizes, Alloc(size)
    PROVE  Inv'
  <1>1. CASE blocks = null
    <2>1. live = {} /\ live' = {} /\ blocks' = heap /\ heap # null /\ call' = "alloc" /\ b' = heap /\ request' = size
      BY <1>1, HeapAssumption DEF Inv, Alloc
    <2>2. word' \in [Words -> Int]
      BY <1>1, HeapAssumption, SMT DEF Inv, TypeOK, Alloc, InitAlloc, sizeof_block, null
    <2>3. TypeOK'
      BY <2>1, <2>2 DEF TypeOK
    <2>4. /\ heap \in Int /\ heap > 0 /\ HEAP_SIZE \in Int /\ HEAP_SIZE >= 3
          /\ heap \in Words /\ heap + 1 \in Words /\ heap + 2 \in Words
      BY HeapAssumption, SMT DEF Words, Top, sizeof_block, null
    <2>5. word'[heap] = 0 /\ word'[heap + 1] = HEAP_SIZE - 3 /\ word'[heap + 2] = 0
      BY <1>1, <2>4, SMT DEF Inv, TypeOK, Alloc, InitAlloc, sizeof_block, null
    <2>6. Tiled({heap})'
      <3>1. End(heap)' = Top
        BY <2>4, <2>5, SMT DEF End, Size, Top, sizeof_block
      <3>2. \A w \in Words : heap <= w /\ w < Top
        BY <2>4, SMT DEF Words, Top
      <3>3. Size(heap)' \in Nat /\ NextOf(heap)' = null
        BY <2>4, <2>5, SMT DEF Size, NextOf, null
      <3> QED
        BY <3>1, <3>2, <3>3, <2>4, SMT DEF Tiled, Top
    <2>7. Owners({heap})'
      BY <2>1, <2>5, SMT DEF Owners, IsAllocated
    <2>8. Coalesced({heap})'
      <3>1. End(heap)' = Top
        BY <2>4, <2>5, SMT DEF End, Size, Top, sizeof_block
      <3> QED
        BY <3>1, <2>4, SMT DEF Coalesced, Top
    <2>9. Searching({heap})' /\ Merging({heap})'
      BY <2>1, <2>4, SMT DEF Searching, Merging, null
    <2> QED
      BY <2>1, <2>3, <2>4, <2>6, <2>7, <2>8, <2>9 DEF Inv, Sound
  <1>2. CASE blocks # null
    <2>1. PICK S \in SUBSET Words : Sound(S)
      BY <1>2 DEF Inv
    <2>2. /\ word' = word /\ blocks' = blocks /\ live' = live /\ call' = "alloc" /\ call = "none"
          /\ b' = heap /\ request' = size
      BY <1>2 DEF Inv, TypeOK, Alloc
    <2>3. TypeOK'
      BY <2>2 DEF Inv, TypeOK
    <2>4. Tiled(S)' /\ Owners(S)' /\ Coalesced(S)' /\ Merging(S)'
      BY <2>1, <2>2 DEF Sound, Tiled, Owners, Coalesced, Merging, End, Size, NextOf, IsAllocated
    <2>5. Searching(S)'
      BY <2>1, <2>2, HeapAssumption, SMT DEF Sound, Tiled, Searching, Words, null
    <2> QED
      BY <1>2, <2>2, <2>3, <2>4, <2>5 DEF Inv, Sound
  <1> QED
    BY <1>1, <1>2

LEMMA PassByInv ==
    ASSUME Inv, PassBy
    PROVE  Inv'
  <1>1. blocks # null
    BY DEF Inv, PassBy
  <1>2. PICK S \in SUBSET Words : Sound(S)
    BY <1>1 DEF Inv
  <1>3. /\ word' = word /\ blocks' = blocks /\ live' = live /\ call' = call /\ call = "alloc"
        /\ b' = NextOf(b) /\ b # null /\ ~Fits(b) /\ request' = request
    BY DEF PassBy
  <1>4. TypeOK'
    BY <1>3 DEF Inv, TypeOK
  <1>5. Tiled(S)' /\ Owners(S)' /\ Coalesced(S)' /\ Merging(S)'
    BY <1>2, <1>3 DEF Sound, Tiled, Owners, Coalesced, Merging, End, Size, NextOf, IsAllocated
  <1>6. Searching(S)'
    <2>1. b \in S /\ \A a \in S : a < b => ~Fits(a)
      BY <1>2, <1>3 DEF Sound, Searching
    <2>2. \A a \in S : Fits(a)' <=> Fits(a)
      BY <1>3 DEF Fits, IsAllocated, Size
    <2>6. End(b) <= Top /\ End(b) \in Int /\ Top \in Int
      BY <2>1, <1>2, HeaderWords, HeapAssumption DEF Sound, Inv, Top
    <2>3. b' # null => b' \in S /\ \A a \in S : a < b' => a <= b
      BY <2>1, <2>6, <1>2, <1>3, NextBlock, SMT DEF Sound, Inv
    <2>7. TypeOK /\ Tiled(S)
      BY <1>2 DEF Sound, Inv
    <2>8. End(b) < Top => NextOf(b) # null
      BY <2>1, <2>7, NextBlock
    <2>9. End(b) = Top => \A a \in S : a <= b
      BY <2>1, <2>7, NextBlock
    <2>4. b' = null => \A a \in S : a <= b
      BY <2>6, <2>8, <2>9, <1>3, SMT
    <2>5. \A a \in S : a <= b /\ a # b => a < b
      BY <2>1, <1>2, HeaderWords, SMT DEF Sound, Inv
    <2> QED
      BY <2>1, <2>2, <2>3, <2>4, <2>5, <1>3 DEF Searching
  <1> QED
    BY <1>1, <1>3, <1>4, <1>5, <1>6 DEF Inv, Sound

LEMMA RefuseInv ==
    ASSUME Inv, Refuse
    PROVE  Inv'
  <1>1. blocks # null
    BY DEF Inv, Refuse
  <1>2. PICK S \in SUBSET Words : Sound(S)
    BY <1>1 DEF Inv
  <1>3. /\ word' = word /\ blocks' = blocks /\ live' = live /\ call' = "none" /\ call = "alloc"
        /\ request' = request
    BY DEF Refuse
  <1>4. TypeOK'
    BY <1>3 DEF Inv, TypeOK
  <1>5. Tiled(S)' /\ Owners(S)' /\ Coalesced(S)' /\ Merging(S)' /\ Searching(S)'
    BY <1>2, <1>3 DEF Sound, Tiled, Owners, Coalesced, Merging, Searching, End, Size, NextOf, IsAllocated
  <1> QED
    BY <1>1, <1>3, <1>4, <1>5 DEF Inv, Sound

(* What a free block becomes when alloc takes it whole.                    *)
LEMMA TakeWholeInv ==
    ASSUME Inv, Take, ~WorthSplitting(b)
    PROVE  Inv'
  <1>1. blocks # null
    BY DEF Inv, Take
  <1>2. PICK S \in SUBSET Words : Sound(S)
    BY <1>1 DEF Inv
  <1>3. TypeOK /\ Tiled(S) /\ Owners(S) /\ Coalesced(S) /\ Searching(S)
    BY <1>2 DEF Sound, Inv
  <1>4. /\ call = "alloc" /\ b # null /\ ~IsAllocated(b) /\ Size(b) >= request
        /\ word' = [word EXCEPT ![b] = 1]
        /\ live' = live \cup {[pointer |-> b + 3, size |-> request]}
        /\ call' = "none" /\ blocks' = blocks /\ request' = request /\ b' = b
    BY DEF Take, Fits, sizeof_block
  <1>5. b \in S
    BY <1>3, <1>4 DEF Searching
  <1>6. b \in Words /\ b \in Int /\ Size(b) \in Nat /\ request \in Nat
    BY <1>3, <1>5, HeaderWords, HeapAssumption DEF TypeOK
  <1>7. Size(b) <= request + 3 + SPLIT_THRESHOLD
    BY <1>6, HeapAssumption, SMT DEF WorthSplitting, sizeof_block
  <1>8. /\ word' \in [Words -> Int] /\ word'[b] = 1
        /\ \A w \in Words : w # b => word'[w] = word[w]
    BY <1>3, <1>4, <1>6, SMT DEF TypeOK
  <1>9. TypeOK'
    <2>1. [pointer |-> b + 3, size |-> request] \in [pointer : Int, size : Sizes]
      BY <1>3, <1>6 DEF TypeOK
    <2> QED
      BY <2>1, <1>3, <1>4, <1>8 DEF TypeOK
  <1>10. \A c \in S : /\ Size(c)' = Size(c) /\ NextOf(c)' = NextOf(c) /\ End(c)' = End(c)
                      /\ c # b => (IsAllocated(c)' <=> IsAllocated(c))
    <2> SUFFICES ASSUME NEW c \in S
                 PROVE  /\ Size(c)' = Size(c) /\ NextOf(c)' = NextOf(c) /\ End(c)' = End(c)
                        /\ c # b => (IsAllocated(c)' <=> IsAllocated(c))
      OBVIOUS
    <2>1. c \in Int /\ c \in Words /\ c + 1 \in Words /\ c + 2 \in Words
      BY <1>3, HeaderWords
    <2>2. c + 1 # b /\ c + 2 # b
      BY <2>1, <1>3, <1>5, <1>6, Apart, SMT
    <2>3. word'[c + 1] = word[c + 1] /\ word'[c + 2] = word[c + 2] /\ (c # b => word'[c] = word[c])
      BY <2>1, <2>2, <1>8
    <2> QED
      BY <2>3 DEF Size, NextOf, End, IsAllocated
  <1>11. IsAllocated(b)'
    BY <1>4, <1>8 DEF IsAllocated
  <1>12. Tiled(S)'
    BY <1>3, <1>10 DEF Tiled
  <1>13. Owners(S)'
    <2> DEFINE n == [pointer |-> b + 3, size |-> request]
    <2>1. n.pointer = b + 3 /\ n.size = request /\ b + 3 - 3 = b
      BY <1>6, SMT
    <2>2. \A l \in live : l.pointer - 3 \in S /\ IsAllocated(l.pointer - 3) /\ l.pointer \in Int
      BY <1>3 DEF Owners, TypeOK, sizeof_block
    <2>3. \A l \in live : l.pointer - 3 # b /\ l.pointer # n.pointer
      BY <2>1, <2>2, <1>4, <1>6, SMT
    <2> HIDE DEF n
    <2>4. ASSUME NEW l \in live'
          PROVE  LET a == l.pointer - sizeof_block IN
                 /\ a \in S /\ IsAllocated(a)'
                 /\ l.size <= Size(a)' /\ Size(a)' <= l.size + sizeof_block + SPLIT_THRESHOLD
      <3>1. CASE l \in live
        BY <3>1, <1>3, <1>10, <2>2, <2>3 DEF Owners, sizeof_block
      <3>2. CASE l = n
        <4>1. l.pointer - sizeof_block = b
          BY <3>2, <2>1, <1>6, SMT DEF sizeof_block
        <4>2. IsAllocated(b)' /\ Size(b)' = Size(b)
          BY <1>4, <1>5, <1>8, <1>10 DEF IsAllocated, Size
        <4>3. word'[b] # 0 /\ word'[b + 1] = Size(b)
          BY <4>2, <1>4 DEF IsAllocated, Size
        <4> QED
          BY <4>1, <4>3, <3>2, <2>1, <1>4, <1>5, <1>6, <1>7 DEF IsAllocated, Size, sizeof_block
      <3> QED
        BY <3>1, <3>2, <1>4 DEF n
    <2>5. ASSUME NEW a \in S, IsAllocated(a)'
          PROVE  \E l \in live' : l.pointer = a + sizeof_block
      <3>1. CASE a = b
        BY <3>1, <2>1, <1>4 DEF n, sizeof_block
      <3>2. CASE a # b
        BY <3>2, <2>5, <1>10, <1>3, <1>4 DEF Owners
      <3> QED
        BY <3>1, <3>2
    <2>6. ASSUME NEW l \in live', NEW m \in live', l.pointer = m.pointer
          PROVE  l = m
      BY <2>6, <2>3, <1>3, <1>4 DEF Owners, n
    <2> QED
      BY <2>4, <2>5, <2>6 DEF Owners
  <1>14. Coalesced(S)'
    <2>1. \A a \in S : ~IsAllocated(a) /\ End(a) < Top => IsAllocated(End(a)) /\ End(a) \in S
      BY <1>3, <1>4 DEF Coalesced, Tiled
    <2> QED
      BY <2>1, <1>10, <1>11, <1>4 DEF Coalesced
  <1>15. Searching(S)' /\ Merging(S)'
    BY <1>4 DEF Searching, Merging
  <1> QED
    BY <1>1, <1>4, <1>9, <1>12, <1>13, <1>14, <1>15 DEF Inv, Sound

(* What it becomes when alloc splits it: the rest is a block of its own.   *)
LEMMA TakeSplitInv ==
    ASSUME Inv, Take, WorthSplitting(b)
    PROVE  Inv'
  <1> DEFINE s == b + 3 + request
  <1>1. blocks # null
    BY DEF Inv, Take
  <1>2. PICK S \in SUBSET Words : Sound(S)
    BY <1>1 DEF Inv
  <1>3. TypeOK /\ Tiled(S) /\ Owners(S) /\ Coalesced(S) /\ Searching(S)
    BY <1>2 DEF Sound, Inv
  <1>4. /\ call = "alloc" /\ b # null /\ ~IsAllocated(b)
        /\ Split(b)
        /\ live' = live \cup {[pointer |-> b + 3, size |-> request]}
        /\ call' = "none" /\ blocks' = blocks /\ request' = request /\ b' = b
    BY DEF Take, Fits, sizeof_block
  <1>5. b \in S
    BY <1>3, <1>4 DEF Searching
  <1>6. /\ b \in Words /\ b + 1 \in Words /\ b + 2 \in Words /\ b \in Int
        /\ Size(b) \in Nat /\ request \in Nat /\ NextOf(b) \in Int /\ End(b) \in Int /\ End(b) <= Top
    BY <1>3, <1>5, HeaderWords, HeapAssumption DEF TypeOK
  <1>7. End(b) = b + 3 + Size(b) /\ Top \in Int /\ Top = heap + HEAP_SIZE
    BY HeapAssumption DEF End, Top, sizeof_block
  <1>8. /\ s \in Int /\ b + 3 <= s /\ s + 3 <= End(b) /\ s < Top
        /\ Size(b) - request - 3 \in Nat
    BY <1>6, <1>7, HeapAssumption, SMT DEF WorthSplitting, sizeof_block
  <1>9. s \in Words /\ s + 1 \in Words /\ s + 2 \in Words
    BY <1>6, <1>7, <1>8, HeapAssumption, SMT DEF Words
  <1>10. word' = [word EXCEPT ![b] = 1, ![b + 1] = request, ![b + 2] = s,
                     ![s] = 0, ![s + 1] = Size(b) - request - 3, ![s + 2] = NextOf(b)]
    BY <1>4 DEF Split, sizeof_block
  <1> HIDE DEF s
  <1>11. /\ word' \in [Words -> Int]
         /\ word'[b] = 1 /\ word'[b + 1] = request /\ word'[b + 2] = s
         /\ word'[s] = 0 /\ word'[s + 1] = Size(b) - request - 3 /\ word'[s + 2] = NextOf(b)
         /\ \A w \in Words : w < b \/ w > s + 2 => word'[w] = word[w]
    BY <1>3, <1>6, <1>8, <1>9, <1>10, SMT DEF TypeOK
  <1>12. TypeOK'
    <2>1. [pointer |-> b + 3, size |-> request] \in [pointer : Int, size : Sizes]
      BY <1>3, <1>6 DEF TypeOK
    <2> QED
      BY <2>1, <1>3, <1>4, <1>11 DEF TypeOK
  <1>13. \A c \in S \ {b} :
           /\ Size(c)' = Size(c) /\ NextOf(c)' = NextOf(c) /\ End(c)' = End(c)
           /\ IsAllocated(c)' <=> IsAllocated(c)
           /\ c \in Int /\ End(c) \in Int /\ c + 3 <= End(c) /\ End(c) <= Top
           /\ End(c) <= b \/ End(b) <= c
    <2> SUFFICES ASSUME NEW c \in S, c # b
                 PROVE  /\ Size(c)' = Size(c) /\ NextOf(c)' = NextOf(c) /\ End(c)' = End(c)
                        /\ IsAllocated(c)' <=> IsAllocated(c)
                        /\ c \in Int /\ End(c) \in Int /\ c + 3 <= End(c) /\ End(c) <= Top
                        /\ End(c) <= b \/ End(b) <= c
      OBVIOUS
    <2>1. /\ c \in Int /\ c \in Words /\ c + 1 \in Words /\ c + 2 \in Words
          /\ End(c) \in Int /\ c + 3 <= End(c) /\ End(c) <= Top
      BY <1>3, HeaderWords
    <2>2. End(c) <= b \/ End(b) <= c
      BY <1>3, <1>5, Apart
    <2>3. c + 2 < b \/ c > s + 2
      BY <2>1, <2>2, <1>6, <1>8, SMT
    <2>4. word'[c + 1] = word[c + 1] /\ word'[c + 2] = word[c + 2] /\ word'[c] = word[c]
      BY <2>1, <2>3, <1>6, <1>8, <1>11, SMT
    <2> QED
      BY <2>1, <2>2, <2>4 DEF Size, NextOf, End, IsAllocated
  <1>14. Size(s)' = Size(b) - request - 3 /\ NextOf(s)' = NextOf(b) /\ ~IsAllocated(s)' /\ End(s)' = End(b)
    <2>1. word'[s + 1] = Size(b) - request - 3 /\ word'[s + 2] = NextOf(b) /\ word'[s] = 0
      BY <1>11
    <2>2. s + 3 + (Size(b) - request - 3) = End(b)
      BY <1>6, <1>7, <1>8, SMT DEF s
    <2>3. s' = s
      BY <1>4 DEF s
    <2> QED
      BY <2>1, <2>2, <2>3 DEF Size, NextOf, IsAllocated, End, sizeof_block
  <1>15. Size(b)' = request /\ NextOf(b)' = s /\ IsAllocated(b)' /\ End(b)' = s
    BY <1>4, <1>11 DEF Size, NextOf, IsAllocated, End, sizeof_block, s
  <1>16. s' = s /\ s \notin S
    <2>1. s' = s
      BY <1>4 DEF s
    <2>2. ASSUME s \in S PROVE FALSE
      BY <2>2, <1>3, <1>5, <1>6, <1>8, Apart, HeaderWords, SMT
    <2> QED
      BY <2>1, <2>2
  <1> DEFINE S2 == S \cup {s}
  <1>17. Tiled(S2)'
    <2>1. S2 \subseteq Words /\ heap \in S2
      BY <1>3, <1>9 DEF Tiled
    <2>2. ASSUME NEW a \in S2
          PROVE  /\ Size(a)' \in Nat /\ End(a)' <= Top
                 /\ End(a)' = Top => NextOf(a)' = null
                 /\ End(a)' < Top => NextOf(a)' = End(a)' /\ End(a)' \in S2
      <3>1. CASE a \in S /\ a # b
        BY <3>1, <1>3, <1>13 DEF Tiled
      <3>2. CASE a = b
        <4>1. word'[b + 1] = request /\ word'[b + 2] = s
          BY <1>11
        <4>2. Size(a)' = request /\ NextOf(a)' = s /\ End(a)' = s
          BY <4>1, <3>2, <1>4 DEF Size, NextOf, End, sizeof_block, s
        <4> QED
          BY <4>2, <1>6, <1>7, <1>8, SMT
      <3>3. CASE a = s
        BY <3>3, <1>3, <1>5, <1>6, <1>8, <1>14, <1>16 DEF Tiled
      <3> QED
        BY <3>1, <3>2, <3>3
    <2>3. ASSUME NEW a \in S2, NEW c \in S2, a < c
          PROVE  End(a)' <= c
      <3>1. CASE a \in S \ {b} /\ c \in S
        BY <3>1, <2>3, <1>3, <1>13 DEF Tiled
      <3>2. CASE a = b /\ c \in S
        <4>1. c # b /\ c \in Int /\ c \in S \ {b}
          BY <3>2, <2>3, <1>3, <1>6, HeaderWords, SMT
        <4>2. End(b) <= c
          BY <4>1, <3>2, <2>3, <1>6, <1>13, SMT
        <4> QED
          BY <4>1, <4>2, <3>2, <1>4, <1>6, <1>8, <1>15, SMT
      <3>3. CASE a = s /\ c \in S
        <4>1. c # b /\ c \in Int /\ c \in S \ {b}
          BY <3>3, <2>3, <1>3, <1>6, <1>8, HeaderWords, SMT
        <4>2. End(b) <= c
          BY <4>1, <3>3, <2>3, <1>6, <1>8, <1>13, SMT
        <4> QED
          BY <4>2, <3>3, <1>14, <1>16
      <3>4. CASE a \in S \ {b} /\ c = s
        BY <3>4, <2>3, <1>6, <1>8, <1>13, SMT
      <3>5. CASE a = b /\ c = s
        BY <3>5, <1>4, <1>8, <1>15, SMT
      <3>6. CASE a = s /\ c = s
        BY <3>6, <2>3, <1>8, SMT
      <3> QED
        BY <3>1, <3>2, <3>3, <3>4, <3>5, <3>6
    <2>4. ASSUME NEW w \in Words
          PROVE  \E a \in S2 : a <= w /\ w < End(a)'
      <3>1. w \in Int
        BY HeapAssumption DEF Words, Top
      <3>2. PICK a \in S : a <= w /\ w < End(a)
        BY <1>3 DEF Tiled
      <3>3. CASE a # b
        BY <3>2, <3>3, <1>13
      <3>4. CASE a = b /\ w < s
        BY <3>2, <3>4, <1>4, <1>15
      <3>5. CASE a = b /\ ~(w < s)
        <4>1. s <= w /\ w < End(b)
          BY <3>1, <3>2, <3>5, <1>8, SMT
        <4> QED
          BY <4>1, <1>14, <1>16
      <3> QED
        BY <3>3, <3>4, <3>5
    <2> HIDE DEF S2
    <2>5. S2' = S2
      BY <1>16 DEF S2
    <2> QED
      BY <2>1, <2>2, <2>3, <2>4, <2>5 DEF Tiled
  <1>18. Owners(S2)'
    <2> DEFINE n == [pointer |-> b + 3, size |-> request]
    <2>1. n.pointer = b + 3 /\ n.size = request /\ b + 3 - 3 = b
      BY <1>6, SMT
    <2>2. \A l \in live : l.pointer - 3 \in S /\ IsAllocated(l.pointer - 3) /\ l.pointer \in Int
      BY <1>3 DEF Owners, TypeOK, sizeof_block
    <2>3. \A l \in live : l.pointer - 3 # b /\ l.pointer # n.pointer
      BY <2>1, <2>2, <1>4, <1>6, SMT
    <2> HIDE DEF n
    <2>4. ASSUME NEW l \in live'
          PROVE  LET a == l.pointer - sizeof_block IN
                 /\ a \in S2 /\ IsAllocated(a)'
                 /\ l.size <= Size(a)' /\ Size(a)' <= l.size + sizeof_block + SPLIT_THRESHOLD
      <3>1. CASE l \in live
        <4>1. l.pointer - 3 \in S \ {b}
          BY <3>1, <2>2, <2>3
        <4> QED
          BY <4>1, <3>1, <1>3, <1>13, <2>2 DEF Owners, sizeof_block
      <3>2. CASE l = n
        <4>1. l.pointer - sizeof_block = b
          BY <3>2, <2>1, <1>6, SMT DEF sizeof_block
        <4>2. word'[b] # 0 /\ word'[b + 1] = request
          BY <1>11
        <4>3. request <= request /\ request <= request + 3 + SPLIT_THRESHOLD
          BY <1>6, HeapAssumption, SMT
        <4> QED
          BY <4>1, <4>2, <4>3, <3>2, <2>1, <1>5 DEF IsAllocated, Size, sizeof_block
      <3> QED
        BY <3>1, <3>2, <1>4 DEF n
    <2>5. ASSUME NEW a \in S2, IsAllocated(a)'
          PROVE  \E l \in live' : l.pointer = a + sizeof_block
      <3>1. CASE a = b
        BY <3>1, <2>1, <1>4 DEF n, sizeof_block
      <3>2. CASE a \in S \ {b}
        BY <3>2, <2>5, <1>13, <1>3, <1>4 DEF Owners
      <3>3. CASE a = s
        BY <3>3, <2>5, <1>14, <1>16
      <3> QED
        BY <3>1, <3>2, <3>3
    <2>6. ASSUME NEW l \in live', NEW m \in live', l.pointer = m.pointer
          PROVE  l = m
      BY <2>6, <2>3, <1>3, <1>4 DEF Owners, n
    <2> HIDE DEF S2
    <2>7. S2' = S2
      BY <1>16 DEF S2
    <2> QED
      BY <2>4, <2>5, <2>6, <2>7 DEF Owners
  <1>19. Coalesced(S2)'
    <2>1. \A a \in S : ~IsAllocated(a) /\ End(a) < Top => IsAllocated(End(a)) /\ End(a) \in S
      BY <1>3, <1>4 DEF Coalesced, Tiled
    <2>5. \A c \in S \ {b} : word'[c] # 0 <=> word[c] # 0
      BY <1>13 DEF IsAllocated
    <2>2. \A a \in S : ~IsAllocated(a) /\ End(a) < Top => word'[End(a)] # 0
      BY <2>1, <2>5, <1>4 DEF IsAllocated
    <2>3. ASSUME NEW a \in S2, ~IsAllocated(a)', End(a)' < Top
          PROVE  word'[End(a)'] # 0
      <3>1. CASE a \in S \ {b}
        BY <3>1, <2>2, <2>3, <1>13
      <3>2. CASE a = s
        <4>1. End(a)' = End(b)
          BY <3>2, <1>14, <1>16
        <4> QED
          BY <4>1, <2>2, <2>3, <1>4, <1>5
      <3>3. CASE a = b
        BY <3>3, <2>3, <1>11 DEF IsAllocated
      <3> QED
        BY <3>1, <3>2, <3>3
    <2> HIDE DEF S2
    <2>4. S2' = S2
      BY <1>16 DEF S2
    <2> QED
      BY <2>3, <2>4 DEF Coalesced, IsAllocated, Top
  <1>20. Searching(S2)' /\ Merging(S2)'
    BY <1>4 DEF Searching, Merging
  <1>21. S2 \in SUBSET Words /\ S2' = S2
    BY <1>9, <1>16
  <1> HIDE DEF S2
  <1> QED
    BY <1>1, <1>4, <1>12, <1>17, <1>18, <1>19, <1>20, <1>21 DEF Inv, Sound, Words, Top

LEMMA DeallocInv ==
    ASSUME Inv, NEW l \in live, Dealloc(l)
    PROVE  Inv'
  <1> DEFINE f == l.pointer - 3
  <1>1. blocks # null /\ blocks = heap
    BY DEF Inv, TypeOK
  <1>2. PICK S \in SUBSET Words : Sound(S)
    BY <1>1 DEF Inv
  <1>3. TypeOK /\ Tiled(S) /\ Owners(S)
    BY <1>2 DEF Sound, Inv
  <1>4. /\ word' = [word EXCEPT ![f] = 0] /\ live' = live \ {l} /\ call' = "dealloc"
        /\ b' = heap /\ initial_block' = null /\ blocks' = blocks /\ request' = request
    BY <1>1 DEF Dealloc, sizeof_block
  <1>5. f \in S /\ \A m \in live : m # l => m.pointer - 3 \in S /\ m.pointer # l.pointer /\ m.pointer \in Int
    BY <1>3 DEF Owners, TypeOK, sizeof_block
  <1>6. f \in Int /\ f \in Words /\ l.pointer \in Int
    BY <1>3, <1>5, HeaderWords DEF TypeOK
  <1> HIDE DEF f
  <1>7. word' \in [Words -> Int] /\ word'[f] = 0 /\ \A w \in Words : w # f => word'[w] = word[w]
    BY <1>3, <1>4, <1>6, SMT DEF TypeOK
  <1>8. TypeOK'
    BY <1>3, <1>4, <1>7 DEF TypeOK
  <1>9. \A c \in S : /\ Size(c)' = Size(c) /\ NextOf(c)' = NextOf(c) /\ End(c)' = End(c)
                     /\ c # f => (IsAllocated(c)' <=> IsAllocated(c))
    <2> SUFFICES ASSUME NEW c \in S
                 PROVE  /\ Size(c)' = Size(c) /\ NextOf(c)' = NextOf(c) /\ End(c)' = End(c)
                        /\ c # f => (IsAllocated(c)' <=> IsAllocated(c))
      OBVIOUS
    <2>1. c \in Int /\ c \in Words /\ c + 1 \in Words /\ c + 2 \in Words
      BY <1>3, HeaderWords
    <2>2. c + 1 # f /\ c + 2 # f
      BY <2>1, <1>3, <1>5, <1>6, Apart, SMT
    <2>3. word'[c + 1] = word[c + 1] /\ word'[c + 2] = word[c + 2] /\ (c # f => word'[c] = word[c])
      BY <2>1, <2>2, <1>7
    <2> QED
      BY <2>3 DEF Size, NextOf, End, IsAllocated
  <1>10. Tiled(S)'
    BY <1>3, <1>9 DEF Tiled
  <1>11. Owners(S)'
    <2>1. ASSUME NEW m \in live'
          PROVE  LET a == m.pointer - sizeof_block IN
                 /\ a \in S /\ IsAllocated(a)'
                 /\ m.size <= Size(a)' /\ Size(a)' <= m.size + sizeof_block + SPLIT_THRESHOLD
      <3>1. m \in live /\ m # l
        BY <1>4
      <3>2. m.pointer - 3 # f
        BY <3>1, <1>5, <1>6, SMT DEF f
      <3> QED
        BY <3>1, <3>2, <1>3, <1>9 DEF Owners, sizeof_block
    <2>2. ASSUME NEW a \in S, IsAllocated(a)'
          PROVE  \E m \in live' : m.pointer = a + sizeof_block
      <3>1. a # f
        BY <2>2, <1>7 DEF IsAllocated
      <3>2. PICK m \in live : m.pointer = a + sizeof_block
        BY <2>2, <3>1, <1>3, <1>9 DEF Owners
      <3>3. a \in Int
        BY <1>3, HeaderWords
      <3>4. m # l
        BY <3>1, <3>2, <3>3, SMT DEF f, sizeof_block
      <3> QED
        BY <3>2, <3>4, <1>4
    <2>3. \A m, n \in live' : m.pointer = n.pointer => m = n
      BY <1>3, <1>4 DEF Owners
    <2> QED
      BY <2>1, <2>2, <2>3 DEF Owners
  <1>12. \A a \in S : End(a) \in Int /\ heap < End(a) /\ heap # null
    BY <1>3, HeaderWords, HeapAssumption, SMT DEF Words, Top
  <1>13. Coalesced(S)'
    BY <1>4, <1>9, <1>12, HeapAssumption, SMT DEF Coalesced
  <1>14. Merging(S)'
    <2>1. \A a \in S : NextOf(a) # heap
      <3> SUFFICES ASSUME NEW a \in S PROVE NextOf(a) # heap
        OBVIOUS
      <3>1. End(a) <= Top /\ End(a) \in Int /\ Top \in Int
        BY <1>3, HeaderWords, HeapAssumption DEF Top
      <3>2. End(a) = Top => NextOf(a) = null
        BY <1>3, NextBlock
      <3>3. End(a) < Top => NextOf(a) = End(a)
        BY <1>3, NextBlock
      <3> QED
        BY <3>1, <3>2, <3>3, <1>12, HeapAssumption, SMT
    <2> QED
      BY <2>1, <1>3, <1>4, <1>9 DEF Merging, Tiled
  <1>15. Searching(S)'
    BY <1>4 DEF Searching
  <1> QED
    BY <1>1, <1>4, <1>8, <1>10, <1>11, <1>13, <1>14, <1>15 DEF Inv, Sound

LEMMA StoreInv ==
    ASSUME Inv, NEW l \in live, NEW w \in Data(l), NEW v \in Values, Store(w, v)
    PROVE  Inv'
  <1>1. blocks # null
    BY DEF Inv
  <1>2. PICK S \in SUBSET Words : Sound(S)
    BY <1>1 DEF Inv
  <1>3. TypeOK /\ Tiled(S) /\ Owners(S)
    BY <1>2 DEF Sound, Inv
  <1>4. /\ word' = [word EXCEPT ![w] = v]
        /\ call = "none" /\ call' = "none" /\ blocks' = blocks /\ live' = live /\ request' = request
    BY DEF Store
  <1>5. v \in Int
    BY HeapAssumption
  <1>6. word' \in [Words -> Int] /\ \A u \in Words : u # w => word'[u] = word[u]
    BY <1>3, <1>4, <1>5 DEF TypeOK
  <1>7. \A c \in S : /\ Size(c)' = Size(c) /\ NextOf(c)' = NextOf(c) /\ End(c)' = End(c)
                     /\ IsAllocated(c)' <=> IsAllocated(c)
    <2> SUFFICES ASSUME NEW c \in S
                 PROVE  /\ Size(c)' = Size(c) /\ NextOf(c)' = NextOf(c) /\ End(c)' = End(c)
                        /\ IsAllocated(c)' <=> IsAllocated(c)
      OBVIOUS
    <2>1. c \in Int /\ c \in Words /\ c + 1 \in Words /\ c + 2 \in Words
      BY <1>3, HeaderWords
    <2>2. w \in Words /\ (w < c \/ w > c + 2)
      BY <1>3, DataApart
    <2>3. w # c /\ w # c + 1 /\ w # c + 2
      BY <2>1, <2>2, HeapAssumption, SMT DEF Words, Top
    <2>4. word'[c + 1] = word[c + 1] /\ word'[c + 2] = word[c + 2] /\ word'[c] = word[c]
      BY <2>1, <2>3, <1>6
    <2> QED
      BY <2>4 DEF Size, NextOf, End, IsAllocated
  <1>8. TypeOK'
    BY <1>3, <1>4, <1>6 DEF TypeOK
  <1>9. Tiled(S)'
    BY <1>3, <1>7 DEF Tiled
  <1>10. Owners(S)'
    BY <1>3, <1>4, <1>7 DEF Owners
  <1>11. Coalesced(S)'
    <2>1. \A a \in S : ~IsAllocated(a) /\ End(a) < Top => word[End(a)] # 0 /\ End(a) \in S
      BY <1>2, <1>3, <1>4 DEF Sound, Coalesced, Tiled, IsAllocated
    <2>2. \A c \in S : word'[c] # 0 <=> word[c] # 0
      BY <1>7 DEF IsAllocated
    <2>3. \A a \in S : ~IsAllocated(a)' /\ End(a)' < Top => word'[End(a)'] # 0
      BY <2>1, <2>2, <1>7
    <2> QED
      BY <2>3 DEF Coalesced, IsAllocated, Top
  <1>12. Searching(S)' /\ Merging(S)'
    BY <1>4 DEF Searching, Merging
  <1> QED
    BY <1>1, <1>4, <1>8, <1>9, <1>10, <1>11, <1>12 DEF Inv, Sound

-----------------------------------------------------------------------------
(* Behind the walk, free blocks have allocated neighbours.                 *)
LEMMA WalkPoint ==
    ASSUME NEW S \in SUBSET Words, Inv, Sound(S), call = "dealloc", b # null
    PROVE  /\ b \in S /\ b \in Int /\ End(b) \in Int /\ Top \in Int
           /\ \/ End(b) = Top /\ NextOf(b) = null /\ \A c \in S : c <= b
              \/ /\ End(b) < Top /\ NextOf(b) = End(b) /\ NextOf(b) \in S /\ NextOf(b) # null
                 /\ \A c \in S : c < NextOf(b) => c <= b
           /\ \A a \in S : NextOf(a) = NextOf(b) /\ NextOf(b) # null => a = b
           /\ \A a \in S : End(a) < b /\ ~IsAllocated(a) => IsAllocated(End(a))
           /\ \A a \in S : a \in Int /\ End(a) \in Int /\ End(a) <= Top /\ a < End(a)
                           /\ (End(a) < Top => End(a) \in S /\ NextOf(a) = End(a))
                           /\ (End(a) = Top => NextOf(a) = null)
  <1>1. TypeOK /\ Tiled(S) /\ Merging(S) /\ Coalesced(S)
    BY DEF Inv, Sound
  <1>2. b \in S
    BY <1>1 DEF Merging
  <1>3. \A a \in S : a \in Int /\ End(a) \in Int /\ End(a) <= Top /\ a + 3 <= End(a)
    BY <1>1, HeaderWords
  <1>4. \A a \in S : /\ End(a) < Top => End(a) \in S /\ NextOf(a) = End(a)
                     /\ End(a) = Top => NextOf(a) = null
    BY <1>1 DEF Tiled
  <1>5. Top \in Int
    BY HeapAssumption DEF Top
  <1>6. \/ End(b) = Top /\ NextOf(b) = null /\ \A c \in S : c <= b
        \/ /\ End(b) < Top /\ NextOf(b) = End(b) /\ NextOf(b) \in S /\ NextOf(b) # null
           /\ \A c \in S : c < NextOf(b) => c <= b
    <2>1. CASE End(b) = Top
      BY <2>1, <1>1, <1>2, NextBlock
    <2>2. CASE End(b) < Top
      BY <2>2, <1>1, <1>2, NextBlock
    <2> QED
      BY <2>1, <2>2, <1>2, <1>3, <1>5, SMT
  <1>7. ASSUME NEW a \in S, NextOf(a) = NextOf(b), NextOf(b) # null
        PROVE  a = b
    <2>1. End(a) < Top /\ End(b) < Top
      BY <1>2, <1>3, <1>4, <1>5, <1>7, SMT
    <2>2. End(a) = End(b)
      BY <2>1, <1>2, <1>4, <1>7
    <2> QED
      BY <2>2, <1>1, <1>2, Apart
  <1>8. ASSUME NEW a \in S, End(a) < b, ~IsAllocated(a)
        PROVE  IsAllocated(End(a))
    <2>1. End(a) < Top
      BY <1>2, <1>3, <1>5, <1>8, SMT
    <2> QED
      BY <2>1, <1>1, <1>8 DEF Coalesced
  <1>9. \A a \in S : a < End(a)
    BY <1>3, SMT
  <1> QED
    BY <1>2, <1>3, <1>4, <1>5, <1>6, <1>7, <1>8, <1>9

LEMMA StartRunInv ==
    ASSUME Inv, StartRun
    PROVE  Inv'
  <1>1. blocks # null
    BY DEF Inv, StartRun
  <1>2. PICK S \in SUBSET Words : Sound(S)
    BY <1>1 DEF Inv
  <1>3. /\ word' = word /\ blocks' = blocks /\ live' = live /\ call' = "dealloc" /\ call = "dealloc"
        /\ b # null /\ b' = NextOf(b) /\ initial_block = null /\ initial_block' = b
        /\ ~IsAllocated(b) /\ request' = request
    BY DEF StartRun
  <1>4. TypeOK' /\ Tiled(S)' /\ Owners(S)' /\ Searching(S)'
    BY <1>2, <1>3 DEF Inv, Sound, TypeOK, Tiled, Owners, Searching, End, Size, NextOf, IsAllocated
  <1>5. \A c \in S : (NextOf(c)' = NextOf(c)) /\ (IsAllocated(c)' <=> IsAllocated(c)) /\ End(c)' = End(c)
    BY <1>3 DEF NextOf, IsAllocated, End, Size
  <1>6. b \in S /\ (NextOf(b) # null => NextOf(b) \in S) /\ \A a \in S : NextOf(a) = NextOf(b) /\ NextOf(b) # null => a = b
    BY <1>2, <1>3, WalkPoint
  <1>7. Merging(S)'
    <2>1. word'[b] = word[b] /\ word'[b + 2] = word[b + 2]
      BY <1>3
    <2> QED
      BY <2>1, <1>3, <1>5, <1>6 DEF Merging, IsAllocated, NextOf
  <1>8. Coalesced(S)'
    <2>1. ASSUME NEW a \in S, ~IsAllocated(a), End(a) < Top, b' # null => End(a) < b'
          PROVE  word[End(a)] # 0
      <3>1. End(a) \in S /\ NextOf(a) = End(a) /\ End(a) \in Int
        BY <2>1, <1>2, <1>3, WalkPoint
      <3>2. End(a) <= b
        BY <2>1, <3>1, <1>2, <1>3, WalkPoint
      <3>3. End(a) # b
        <4>1. a # null
          BY <1>2, HeaderWords, SMT DEF Inv, Sound, null
        <4> QED
          BY <2>1, <3>1, <4>1, <1>2, <1>3 DEF Sound, Merging
      <3>4. End(a) < b
        BY <3>1, <3>2, <3>3, <1>2, <1>3, WalkPoint, SMT
      <3> QED
        BY <2>1, <3>4, <1>2, <1>3, WalkPoint DEF IsAllocated
    <2> QED
      BY <2>1, <1>3, <1>5 DEF Coalesced, IsAllocated, Top
  <1> QED
    BY <1>1, <1>3, <1>4, <1>7, <1>8 DEF Inv, Sound

LEMMA EndRunInv ==
    ASSUME Inv, EndRun
    PROVE  Inv'
  <1>1. blocks # null
    BY DEF Inv, EndRun
  <1>2. PICK S \in SUBSET Words : Sound(S)
    BY <1>1 DEF Inv
  <1>3. /\ word' = word /\ blocks' = blocks /\ live' = live /\ call' = "dealloc" /\ call = "dealloc"
        /\ b # null /\ b' = NextOf(b) /\ initial_block' = null
        /\ IsAllocated(b) /\ request' = request
    BY DEF EndRun
  <1>4. TypeOK' /\ Tiled(S)' /\ Owners(S)' /\ Searching(S)'
    BY <1>2, <1>3 DEF Inv, Sound, TypeOK, Tiled, Owners, Searching, End, Size, NextOf, IsAllocated
  <1>5. \A c \in S : (NextOf(c)' = NextOf(c)) /\ (IsAllocated(c)' <=> IsAllocated(c)) /\ End(c)' = End(c)
    BY <1>3 DEF NextOf, IsAllocated, End, Size
  <1>6. b \in S /\ (NextOf(b) # null => NextOf(b) \in S) /\ \A a \in S : NextOf(a) = NextOf(b) /\ NextOf(b) # null => a = b
    BY <1>2, <1>3, WalkPoint
  <1>7. Merging(S)'
    BY <1>3, <1>5, <1>6 DEF Merging
  <1>8. Coalesced(S)'
    <2>1. ASSUME NEW a \in S, ~IsAllocated(a), End(a) < Top, b' # null => End(a) < b'
          PROVE  word[End(a)] # 0
      <3>1. End(a) \in S /\ NextOf(a) = End(a) /\ End(a) \in Int
        BY <2>1, <1>2, <1>3, WalkPoint
      <3>2. End(a) <= b
        BY <2>1, <3>1, <1>2, <1>3, WalkPoint
      <3>3. CASE End(a) = b
        BY <3>3, <1>3 DEF IsAllocated
      <3>4. CASE End(a) # b
        <4>1. End(a) < b
          BY <3>1, <3>2, <3>4, <1>2, <1>3, WalkPoint, SMT
        <4> QED
          BY <2>1, <4>1, <1>2, <1>3, WalkPoint DEF IsAllocated
      <3> QED
        BY <3>3, <3>4
    <2> QED
      BY <2>1, <1>3, <1>5 DEF Coalesced, IsAllocated, Top
  <1> QED
    BY <1>1, <1>3, <1>4, <1>7, <1>8 DEF Inv, Sound

LEMMA MergedInv ==
    ASSUME Inv, Merged
    PROVE  Inv'
  <1>1. blocks # null
    BY DEF Inv, Merged
  <1>2. PICK S \in SUBSET Words : Sound(S)
    BY <1>1 DEF Inv
  <1>3. /\ word' = word /\ blocks' = blocks /\ live' = live /\ call' = "none" /\ call = "dealloc"
        /\ b = null /\ request' = request
    BY DEF Merged
  <1>4. TypeOK' /\ Tiled(S)' /\ Owners(S)' /\ Searching(S)' /\ Merging(S)'
    BY <1>2, <1>3 DEF Inv, Sound, TypeOK, Tiled, Owners, Searching, Merging, End, Size, NextOf, IsAllocated
  <1>5. Coalesced(S)'
    BY <1>2, <1>3 DEF Sound, Coalesced, IsAllocated, End, Size, Top
  <1> QED
    BY <1>1, <1>3, <1>4, <1>5 DEF Inv, Sound

(* The block at b becomes a part of the block in front of it.              *)
LEMMA AbsorbInv ==
    ASSUME Inv, Absorb
    PROVE  Inv'
  <1> DEFINE i == initial_block
  <1>1. blocks # null
    BY DEF Inv, Absorb
  <1>2. PICK S \in SUBSET Words : Sound(S)
    BY <1>1 DEF Inv
  <1>3. TypeOK /\ Tiled(S) /\ Owners(S) /\ Coalesced(S) /\ Merging(S)
    BY <1>2 DEF Sound, Inv
  <1>4. /\ call = "dealloc" /\ b # null /\ ~IsAllocated(b) /\ i # null
        /\ word' = [word EXCEPT ![i + 2] = NextOf(b), ![i + 1] = Size(i) + 3 + Size(b)]
        /\ b' = NextOf(b) /\ i' = i
        /\ call' = "dealloc" /\ blocks' = blocks /\ request' = request /\ live' = live
    BY DEF Absorb, sizeof_block
  <1>5. i \in S /\ b \in S /\ ~IsAllocated(i) /\ NextOf(i) = b
    BY <1>3, <1>4 DEF Merging
  <1> HIDE DEF i
  <1>6. /\ i \in Int /\ i + 1 \in Words /\ i + 2 \in Words /\ Size(i) \in Nat /\ End(i) \in Int
        /\ i + 3 <= End(i) /\ i \in Words /\ End(i) <= Top /\ Top \in Int
    BY <1>3, <1>5, HeaderWords, HeapAssumption DEF Top
  <1>7. /\ b \in Int /\ Size(b) \in Nat /\ End(b) \in Int /\ NextOf(b) \in Int
        /\ b + 3 <= End(b) /\ End(b) <= Top
    BY <1>3, <1>5, HeaderWords
  <1>8. End(i) = b /\ i < b
    <2>1. End(i) < Top
      <3>1. End(i) = Top => NextOf(i) = null
        BY <1>3, <1>5 DEF Tiled
      <3> QED
        BY <3>1, <1>4, <1>5, <1>6, SMT
    <2>2. End(i) = b
      BY <2>1, <1>3, <1>5 DEF Tiled
    <2> QED
      BY <2>2, <1>6, SMT
  <1>9. /\ word' \in [Words -> Int]
        /\ word'[i + 2] = NextOf(b) /\ word'[i + 1] = Size(i) + 3 + Size(b)
        /\ \A w \in Words : w # i + 1 /\ w # i + 2 => word'[w] = word[w]
    BY <1>3, <1>4, <1>6, <1>7, SMT DEF TypeOK
  <1>10. TypeOK'
    BY <1>3, <1>4, <1>9 DEF TypeOK
  <1>11. \A c \in S : c # i => Size(c)' = Size(c) /\ NextOf(c)' = NextOf(c) /\ End(c)' = End(c)
    <2> SUFFICES ASSUME NEW c \in S, c # i
                 PROVE  Size(c)' = Size(c) /\ NextOf(c)' = NextOf(c) /\ End(c)' = End(c)
      OBVIOUS
    <2>1. c \in Int /\ c + 1 \in Words /\ c + 2 \in Words /\ (i + 3 <= c \/ c + 3 <= i)
      BY <1>3, <1>5, HeaderWords, Apart
    <2>2. c + 1 # i + 1 /\ c + 1 # i + 2 /\ c + 2 # i + 1 /\ c + 2 # i + 2
      BY <2>1, <1>6, SMT
    <2>3. word'[c + 1] = word[c + 1] /\ word'[c + 2] = word[c + 2]
      BY <2>1, <2>2, <1>9
    <2> QED
      BY <2>3 DEF Size, NextOf, End
  <1>12. \A c \in S : IsAllocated(c)' <=> IsAllocated(c)
    <2> SUFFICES ASSUME NEW c \in S PROVE word'[c] = word[c]
      BY DEF IsAllocated
    <2>1. c \in Int /\ c \in Words /\ (c = i \/ i + 3 <= c \/ c + 3 <= i)
      BY <1>3, <1>5, HeaderWords, Apart
    <2>2. c # i + 1 /\ c # i + 2
      BY <2>1, <1>6, SMT
    <2> QED
      BY <2>1, <2>2, <1>9
  <1>13. Size(i)' = Size(i) + 3 + Size(b) /\ NextOf(i)' = NextOf(b) /\ End(i)' = End(b)
    <2>1. i + 3 + (Size(i) + 3 + Size(b)) = End(b)
      <3>1. End(i) = i + 3 + Size(i) /\ End(b) = b + 3 + Size(b)
        BY DEF End, sizeof_block
      <3> QED
        BY <3>1, <1>6, <1>7, <1>8, SMT
    <2>2. word'[i' + 1] = Size(i) + 3 + Size(b) /\ word'[i' + 2] = NextOf(b)
      BY <1>4, <1>9
    <2> QED
      BY <2>1, <2>2, <1>4 DEF Size, NextOf, End, sizeof_block
  <1> DEFINE S2 == S \ {b}
  <1>14. i \in S2
    BY <1>5, <1>6, <1>7, <1>8, SMT
  <1>15. \A c \in S : c # i => End(c) # b
    BY <1>3, <1>5, <1>8, Apart
  <1>16. /\ \A a \in S2 : /\ Size(a)' \in Nat /\ End(a)' <= Top
                          /\ End(a)' = Top => NextOf(a)' = null
                          /\ End(a)' < Top => NextOf(a)' = End(a)' /\ End(a)' \in S2
         /\ \A a, c \in S2 : a < c => End(a)' <= c
         /\ \A w \in Words : \E a \in S2 : a <= w /\ w < End(a)'
    <2>1. ASSUME NEW a \in S2
          PROVE  /\ Size(a)' \in Nat /\ End(a)' <= Top
                 /\ End(a)' = Top => NextOf(a)' = null
                 /\ End(a)' < Top => NextOf(a)' = End(a)' /\ End(a)' \in S2
      <3>1. CASE a # i
        BY <3>1, <1>3, <1>11, <1>15 DEF Tiled
      <3>2. CASE a = i
        <4>1. word'[i + 1] = Size(i) + 3 + Size(b) /\ word'[i + 2] = NextOf(b)
          BY <1>9
        <4>2. Size(i) + 3 + Size(b) \in Nat
          BY <1>6, <1>7, SMT
        <4>3. End(b) # b
          BY <1>7, SMT
        <4>4. a + 3 + word'[a + 1] = End(b)
          BY <4>1, <3>2, <1>4, <1>13 DEF End, Size, sizeof_block
        <4>5. Size(a)' = Size(i) + 3 + Size(b) /\ NextOf(a)' = NextOf(b) /\ End(a)' = End(b)
          BY <4>1, <4>4, <3>2 DEF Size, NextOf, End, sizeof_block
        <4> QED
          BY <4>2, <4>3, <4>5, <1>3, <1>5, <1>7 DEF Tiled
      <3> QED
        BY <3>1, <3>2
    <2>2. ASSUME NEW a \in S2, NEW c \in S2, a < c
          PROVE  End(a)' <= c
      <3>1. CASE a # i
        BY <3>1, <2>2, <1>3, <1>11 DEF Tiled
      <3>2. CASE a = i
        <4>1. End(i) <= c /\ c # b
          BY <3>2, <2>2, <1>3 DEF Tiled
        <4>2. c \in Int /\ b < c
          BY <4>1, <1>3, <1>7, <1>8, HeaderWords, SMT
        <4>3. End(b) <= c
          BY <4>2, <1>3, <1>5 DEF Tiled
        <4>4. End(a)' = End(b)
          BY <3>2, <1>4, <1>13 DEF End, Size
        <4> QED
          BY <4>3, <4>4
      <3> QED
        BY <3>1, <3>2
    <2>3. ASSUME NEW w \in Words
          PROVE  \E a \in S2 : a <= w /\ w < End(a)'
      <3>1. w \in Int
        BY HeapAssumption DEF Words, Top
      <3>2. PICK a \in S : a <= w /\ w < End(a)
        BY <1>3 DEF Tiled
      <3>3. i <= i /\ End(i)' = End(b)
        BY <1>6, <1>13, SMT
      <3>4. CASE a # i /\ a # b
        BY <3>2, <3>4, <1>11
      <3>5. CASE a = i \/ a = b
        <4>1. i <= w /\ w < End(b)
          BY <3>1, <3>2, <3>5, <1>6, <1>7, <1>8, SMT
        <4> QED
          BY <4>1, <3>3, <1>4, <1>14
      <3> QED
        BY <3>4, <3>5
    <2> QED
      BY <2>1, <2>2, <2>3
  <1>17. S2 \subseteq Words /\ heap \in S2
    BY <1>3, <1>6, <1>7, <1>8, HeapAssumption, SMT DEF Tiled, Words, Top
  <1>18. \A a \in S2 : ~IsAllocated(a)' /\ End(a)' < Top /\ (b' # null => End(a)' < b')
                         => word'[End(a)'] # 0
    <2> SUFFICES ASSUME NEW a \in S2, ~IsAllocated(a)', End(a)' < Top, b' # null => End(a)' < b'
                 PROVE  word'[End(a)'] # 0
      OBVIOUS
    <2>1. CASE a = i
      <3>1. End(a)' = End(b)
        BY <2>1, <1>4, <1>13 DEF End, Size
      <3>2. NextOf(b) = End(b) /\ NextOf(b) # null
        BY <3>1, <1>2, <1>4, <1>7, WalkPoint, SMT
      <3> QED
        BY <3>1, <3>2, <1>4, <1>7, SMT
    <2>2. CASE a # i
      <3>1. End(a)' = End(a) /\ ~IsAllocated(a) /\ a \in S
        BY <2>2, <1>11, <1>12
      <3>2. End(a) \in S /\ End(a) \in Int
        BY <3>1, <1>2, <1>4, WalkPoint
      <3>3. End(a) <= b
        BY <3>1, <3>2, <1>2, <1>4, WalkPoint
      <3>4. End(a) < b
        BY <3>1, <3>2, <3>3, <2>2, <1>7, <1>15, SMT
      <3>5. word[End(a)] # 0
        BY <3>1, <3>4, <1>2, <1>4, WalkPoint DEF IsAllocated
      <3>6. \A c \in S : word'[c] # 0 <=> word[c] # 0
        BY <1>12 DEF IsAllocated
      <3> QED
        BY <3>1, <3>2, <3>5, <3>6
    <2> QED
      BY <2>1, <2>2
  <1>19. /\ \A l \in live' : LET a == l.pointer - sizeof_block IN
                /\ a \in S2 /\ IsAllocated(a)'
                /\ l.size <= Size(a)' /\ Size(a)' <= l.size + sizeof_block + SPLIT_THRESHOLD
         /\ \A a \in S2 : IsAllocated(a)' => \E l \in live' : l.pointer = a + sizeof_block
         /\ \A l, m \in live' : l.pointer = m.pointer => l = m
    <2>1. \A l \in live' : l.pointer - 3 \in S /\ IsAllocated(l.pointer - 3)
      BY <1>3, <1>4 DEF Owners, sizeof_block
    <2>2. \A l \in live' : l.pointer - 3 \in S2 /\ l.pointer - 3 # i
      BY <2>1, <1>4, <1>5
    <2>3. \A l \in live' : LET a == l.pointer - sizeof_block IN
                 /\ a \in S2 /\ IsAllocated(a)'
                 /\ l.size <= Size(a)' /\ Size(a)' <= l.size + sizeof_block + SPLIT_THRESHOLD
      BY <2>1, <2>2, <1>3, <1>4, <1>11, <1>12 DEF Owners, sizeof_block
    <2>4. \A a \in S2 : IsAllocated(a)' => \E l \in live' : l.pointer = a + sizeof_block
      BY <1>3, <1>4, <1>12 DEF Owners
    <2>5. \A l, m \in live' : l.pointer = m.pointer => l = m
      BY <1>3, <1>4 DEF Owners
    <2> QED
      BY <2>3, <2>4, <2>5
  <1>20. /\ b' # null => b' \in S2
         /\ i \in S2 /\ ~IsAllocated(i)' /\ NextOf(i)' = b'
         /\ \A a \in S2 : ~IsAllocated(a)' /\ NextOf(a)' = b' /\ b' # null => i = a
    <2>1. b' # null => b' \in S2
      <3>1. NextOf(b) # null => NextOf(b) \in S /\ NextOf(b) = End(b)
        BY <1>2, <1>4, WalkPoint
      <3> QED
        BY <3>1, <1>4, <1>7, SMT
    <2>2. \A a \in S : NextOf(a) = NextOf(b) /\ NextOf(b) # null => a = b
      BY <1>2, <1>4, WalkPoint
    <2>3. i' = i /\ word'[i] = word[i]
      <3>1. i # i + 1 /\ i # i + 2
        BY <1>6, SMT
      <3> QED
        BY <3>1, <1>4, <1>6, <1>9
    <2>4. ~IsAllocated(i)'
      BY <2>3, <1>5 DEF IsAllocated
    <2> QED
      BY <2>1, <2>2, <2>4, <1>4, <1>11, <1>13, <1>14
  <1>21. PICK S3 \in SUBSET Words : S3 = S2
    BY <1>17
  <1>22. Tiled(S3)'
    <2> HIDE DEF S2
    <2>1. Words' = Words /\ Top' = Top
      BY DEF Words, Top
    <2> QED
      BY <2>1, <1>16, <1>17, <1>21 DEF Tiled
  <1>23. Owners(S3)'
    <2> HIDE DEF S2
    <2> QED
      BY <1>19, <1>21 DEF Owners
  <1>24. Coalesced(S3)' /\ Searching(S3)' /\ Merging(S3)'
    <2> HIDE DEF S2
    <2> QED
      BY <1>4, <1>18, <1>20, <1>21 DEF Coalesced, Searching, Merging, IsAllocated, Top, i
  <1> QED
    BY <1>1, <1>4, <1>10, <1>21, <1>22, <1>23, <1>24 DEF Inv, Sound, Words, Top

-----------------------------------------------------------------------------
(* The heap is sound (alloc.qll:19-101): blocks tile it in the order of    *)
(* the list, the allocated ones are what the program has, free ones have   *)
(* no free neighbours outside of a call of dealloc.                        *)
THEOREM HeapSound == HeapSpec => []Inv
  <1>1. HeapInit => Inv
    BY HeapAssumption DEF HeapInit, Inv, TypeOK, Words, Top
  <1>2. Inv /\ [HeapNext]_heapVars => Inv'
    <2> SUFFICES ASSUME Inv, [HeapNext]_heapVars PROVE Inv'
      OBVIOUS
    <2>1. ASSUME NEW size \in Sizes, Alloc(size) PROVE Inv'
      BY <2>1, AllocInv
    <2>2. ASSUME NEW l \in live, Dealloc(l) PROVE Inv'
      BY <2>2, DeallocInv
    <2>3. ASSUME NEW l \in live, NEW w \in Data(l), NEW v \in Values, Store(w, v) PROVE Inv'
      BY <2>3, StoreInv
    <2>4. CASE PassBy
      BY <2>4, PassByInv
    <2>5. CASE Refuse
      BY <2>5, RefuseInv
    <2>6. CASE Take
      BY <2>6, TakeWholeInv, TakeSplitInv
    <2>7. CASE Absorb
      BY <2>7, AbsorbInv
    <2>8. CASE StartRun
      BY <2>8, StartRunInv
    <2>9. CASE EndRun
      BY <2>9, EndRunInv
    <2>10. CASE Merged
      BY <2>10, MergedInv
    <2>11. CASE UNCHANGED heapVars
      BY <2>11 DEF heapVars, Inv, Sound, TypeOK, Tiled, Owners, Coalesced, Searching, Merging,
                   IsAllocated, Size, NextOf, End, Fits
    <2> QED
      BY <2>1, <2>2, <2>3, <2>4, <2>5, <2>6, <2>7, <2>8, <2>9, <2>10, <2>11 DEF HeapNext, Walk
  <1> QED
    BY <1>1, <1>2, PTL DEF HeapSpec

-----------------------------------------------------------------------------
(* An allocation lies in its block.                                        *)
LEMMA InItsBlock ==
    ASSUME NEW S \in SUBSET Words, TypeOK, Tiled(S), Owners(S), NEW l \in live
    PROVE  /\ l.pointer - 3 \in S /\ IsAllocated(l.pointer - 3)
           /\ l.pointer \in Int /\ l.size \in Nat
           /\ l.pointer + l.size <= End(l.pointer - 3)
           /\ End(l.pointer - 3) <= l.pointer + l.size + 3 + SPLIT_THRESHOLD
  <1>1. /\ l.pointer - 3 \in S /\ IsAllocated(l.pointer - 3)
        /\ l.size <= Size(l.pointer - 3) /\ Size(l.pointer - 3) <= l.size + 3 + SPLIT_THRESHOLD
    BY DEF Owners, sizeof_block
  <1>2. l.pointer \in Int /\ l.size \in Nat
    BY HeapAssumption DEF TypeOK
  <1>3. End(l.pointer - 3) = l.pointer - 3 + 3 + Size(l.pointer - 3)
    BY DEF End, sizeof_block
  <1>4. Size(l.pointer - 3) \in Nat
    BY <1>1, HeaderWords
  <1>5. SPLIT_THRESHOLD \in Nat
    BY HeapAssumption
  <1> QED
    BY <1>1, <1>2, <1>3, <1>4, <1>5, SMT

(* alloc answers null only when there is no room.                          *)
LEMMA NoRoom ==
    ASSUME NEW S \in SUBSET Words, TypeOK, Sound(S), call = "alloc", b = null,
           NEW w \in Words,
           w + request + 6 + SPLIT_THRESHOLD <= Top
    PROVE  \E l \in live : /\ l.pointer - 3 < w + request + 6 + SPLIT_THRESHOLD
                           /\ w < l.pointer + l.size
  <1> DEFINE n == request + 6 + SPLIT_THRESHOLD
  <1>1. Tiled(S) /\ Owners(S) /\ Coalesced(S) /\ \A a \in S : ~Fits(a)
    BY DEF Sound, Searching
  <1>2. w \in Int /\ request \in Nat /\ SPLIT_THRESHOLD \in Nat /\ Top \in Int /\ n = request + 6 + SPLIT_THRESHOLD
    BY HeapAssumption DEF Words, Top, TypeOK
  <1> HIDE DEF n
  <1>3. PICK a \in S : a <= w /\ w < End(a)
    BY <1>1 DEF Tiled
  <1>4. \A c \in S : c \in Int /\ Size(c) \in Nat /\ End(c) \in Int /\ c + 3 <= End(c) /\ End(c) <= Top
                     /\ End(c) = c + 3 + Size(c)
    BY <1>1, HeaderWords DEF End, sizeof_block
  <1>5. \A c \in S : ~IsAllocated(c) => Size(c) < request
    BY <1>1, <1>2, <1>4, SMT DEF Fits
  <1>6. \A c \in S : IsAllocated(c) =>
          \E l \in live : /\ l.pointer - 3 = c /\ l.pointer \in Int /\ l.size \in Nat
                          /\ End(c) <= l.pointer + l.size + 3 + SPLIT_THRESHOLD
    <2> SUFFICES ASSUME NEW c \in S, IsAllocated(c)
                 PROVE  \E l \in live : /\ l.pointer - 3 = c /\ l.pointer \in Int /\ l.size \in Nat
                                        /\ End(c) <= l.pointer + l.size + 3 + SPLIT_THRESHOLD
      OBVIOUS
    <2>1. PICK l \in live : l.pointer = c + 3
      BY <1>1 DEF Owners, sizeof_block
    <2>2. l.pointer - 3 = c
      BY <2>1, <1>4, SMT
    <2> QED
      BY <2>2, <1>1, InItsBlock
  <1>7. \A c \in S : ~IsAllocated(c) /\ End(c) < Top => IsAllocated(End(c)) /\ End(c) \in S
    BY <1>1 DEF Coalesced, Tiled
  (* The free block that holds w, or comes next, is too short.             *)
  <1>8. CASE ~IsAllocated(a)
    <2>1. End(a) < w + n /\ End(a) < Top
      BY <1>2, <1>3, <1>4, <1>5, <1>8, SMT
    <2>2. PICK l \in live : l.pointer - 3 = End(a) /\ l.pointer \in Int /\ l.size \in Nat
      BY <2>1, <1>6, <1>7, <1>8
    <2> QED
      BY <2>1, <2>2, <1>2, <1>3, <1>4, SMT
  <1>9. CASE IsAllocated(a)
    <2>1. PICK l \in live : /\ l.pointer - 3 = a /\ l.pointer \in Int /\ l.size \in Nat
                            /\ End(a) <= l.pointer + l.size + 3 + SPLIT_THRESHOLD
      BY <1>6, <1>9
    <2>2. CASE w < l.pointer + l.size
      BY <2>1, <2>2, <1>2, <1>3, SMT
    <2>3. CASE l.pointer + l.size <= w
      <3>1. End(a) < w + n /\ End(a) < Top /\ End(a) \in S
        <4>1. End(a) <= w + 3 + SPLIT_THRESHOLD
          BY <2>1, <2>3, <1>2, <1>3, <1>4, SMT
        <4>2. End(a) < w + n /\ End(a) < Top
          BY <4>1, <1>2, <1>3, <1>4, SMT
        <4> QED
          BY <4>2, <1>1 DEF Tiled
      <3>2. CASE IsAllocated(End(a))
        <4>1. PICK m \in live : m.pointer - 3 = End(a) /\ m.pointer \in Int /\ m.size \in Nat
          BY <3>1, <3>2, <1>6
        <4> QED
          BY <4>1, <3>1, <1>2, <1>3, <1>4, SMT
      <3>3. CASE ~IsAllocated(End(a))
        <4>1. /\ Size(End(a)) < request /\ Size(End(a)) \in Nat /\ End(End(a)) \in Int
              /\ End(End(a)) = End(a) + 3 + Size(End(a)) /\ End(End(a)) <= Top
          BY <3>1, <3>3, <1>4, <1>5
        <4>2. End(a) <= w + 3 + SPLIT_THRESHOLD
          BY <2>1, <2>3, <1>2, <1>3, <1>4, SMT
        <4>3. End(End(a)) < w + n /\ End(End(a)) < Top
          BY <4>1, <4>2, <1>2, <1>4, <3>1, SMT
        <4>4. PICK m \in live : m.pointer - 3 = End(End(a)) /\ m.pointer \in Int /\ m.size \in Nat
          BY <4>3, <3>1, <3>3, <1>6, <1>7
        <4> QED
          BY <4>1, <4>3, <4>4, <1>2, <1>3, <1>4, <3>1, SMT
      <3> QED
        BY <3>2, <3>3
    <2> QED
      BY <2>1, <2>2, <2>3, <1>2, SMT
  <1> QED
    BY <1>8, <1>9

LEMMA DataOfLive == A!DataOf(live) = Owned /\ A!DataOf(live') = Owned'
  BY DEF A!DataOf, A!Data, Owned, Data

LEMMA AllocMaps ==
    ASSUME Inv, NEW size \in Sizes, Alloc(size)
    PROVE  A!Next
  <1>1. call = "none" /\ call' = "alloc" /\ request' = size /\ live' = live
    BY DEF Alloc
  <1>2. CASE blocks = null
    <2>1. live = {} /\ Owned = {} /\ Owned' = {}
      BY <1>1, <1>2 DEF Inv, Owned
    <2> QED
      BY <1>1, <2>1 DEF A!Next, A!Call
  <1>3. CASE blocks # null
    <2>1. word' = word /\ Owned' = Owned
      BY <1>1, <1>3 DEF Alloc, Owned, Data
    <2> QED
      BY <1>1, <2>1 DEF A!Next, A!Call
  <1> QED
    BY <1>2, <1>3

LEMMA RefuseMaps ==
    ASSUME Inv, Refuse
    PROVE  A!Next
  <1>1. /\ blocks # null /\ call = "alloc" /\ b = null /\ call' = "none"
        /\ word' = word /\ live' = live /\ request' = request
    BY DEF Inv, Refuse
  <1>2. PICK S \in SUBSET Words : Sound(S)
    BY <1>1 DEF Inv
  <1>3. TypeOK /\ Tiled(S) /\ Owners(S)
    BY <1>2 DEF Inv, Sound
  <1> DEFINE n == request + (2 * sizeof_block + SPLIT_THRESHOLD)
  <1>4. n = request + 6 + SPLIT_THRESHOLD /\ n \in Int /\ n > 0 /\ Top \in Int /\ request \in Nat
        /\ SPLIT_THRESHOLD \in Nat
    BY HeapAssumption, SMT DEF sizeof_block, Top, Inv, TypeOK
  <1>5. ASSUME NEW w \in Words, A!Unused(w, n)
        PROVE  FALSE
    <2> HIDE DEF n
    <2>1. w \in Int /\ heap <= w /\ heap \in Int
      BY HeapAssumption, SMT DEF Words, Top
    <2>2. w + n - 1 \in Words
      BY <1>4, <1>5, <2>1, SMT DEF A!Unused
    <2>3. w + request + 6 + SPLIT_THRESHOLD <= Top
      BY <2>1, <2>2, <1>4, SMT DEF Words
    <2>4. PICK l \in live : /\ l.pointer - 3 < w + request + 6 + SPLIT_THRESHOLD
                            /\ w < l.pointer + l.size
      BY <1>1, <1>2, <1>3, <2>3, NoRoom
    <2>5. l.pointer \in Int /\ l.size \in Nat /\ A!Extent(l) \cap (w .. w + n - 1) = {}
      BY <1>3, <1>5, InItsBlock DEF A!Unused
    <2>6. CASE w >= l.pointer - 3
      BY <2>1, <2>4, <2>5, <2>6, <1>4, SMT DEF A!Extent, sizeof_block
    <2>7. CASE w < l.pointer - 3
      <3>1. l.pointer - 3 \in w .. w + n - 1
        BY <2>1, <2>4, <2>5, <2>7, <1>4, SMT
      <3>2. l.pointer - 3 \in A!Extent(l)
        BY <2>5, SMT DEF A!Extent, sizeof_block
      <3> QED
        BY <3>1, <3>2, <2>5
    <2> QED
      BY <2>1, <2>5, <2>6, <2>7, SMT
  <1>6. Owned' = Owned
    BY <1>1 DEF Owned, Data
  <1> QED
    BY <1>1, <1>5, <1>6 DEF A!Next, A!Refuse

(* alloc writes a header in front of the words it grants, and one behind.  *)
LEMMA TakeMaps ==
    ASSUME Inv, Take
    PROVE  A!Next
  <1>1. /\ blocks # null /\ call = "alloc" /\ b # null /\ ~IsAllocated(b) /\ Size(b) >= request
        /\ live' = live \cup {[pointer |-> b + 3, size |-> request]}
        /\ call' = "none" /\ request' = request
    BY DEF Inv, Take, Fits, sizeof_block
  <1>2. PICK S \in SUBSET Words : Sound(S)
    BY <1>1 DEF Inv
  <1>3. TypeOK /\ Tiled(S) /\ Owners(S) /\ b \in S
    BY <1>1, <1>2 DEF Inv, Sound, Searching
  <1>4. /\ b \in Int /\ b \in Words /\ request \in Nat /\ Size(b) \in Nat /\ End(b) \in Int
        /\ End(b) <= Top /\ End(b) = b + 3 + Size(b) /\ heap <= b /\ heap \in Int /\ Top = heap + HEAP_SIZE
        /\ HEAP_SIZE \in Int
    <2>1. b \in Int /\ b \in Words /\ Size(b) \in Nat /\ End(b) \in Int /\ End(b) <= Top
      BY <1>3, HeaderWords
    <2>2. heap <= b /\ heap \in Int /\ HEAP_SIZE \in Int
      BY <2>1, HeapAssumption, SMT DEF Words, Top
    <2> QED
      BY <1>3, <2>1, <2>2, HeapAssumption DEF TypeOK, End, sizeof_block, Top
  <1>5. \A l \in live : \A w \in A!Extent(l) : w < b \/ w >= End(b)
    <2> SUFFICES ASSUME NEW l \in live, NEW w \in A!Extent(l)
                 PROVE  w < b \/ w >= End(b)
      OBVIOUS
    <2>1. /\ l.pointer - 3 \in S /\ IsAllocated(l.pointer - 3)
          /\ l.pointer \in Int /\ l.size \in Nat
          /\ l.pointer + l.size <= End(l.pointer - 3)
      BY <1>3, InItsBlock
    <2>2. w \in Int /\ l.pointer - 3 <= w /\ w < l.pointer + l.size
      BY <2>1, SMT DEF A!Extent, sizeof_block
    <2>3. End(l.pointer - 3) <= b \/ End(b) <= l.pointer - 3
      BY <1>1, <1>3, <2>1, Apart
    <2>4. End(l.pointer - 3) \in Int
      BY <1>3, <2>1, HeaderWords
    <2> QED
      BY <2>1, <2>2, <2>3, <2>4, <1>4, SMT
  <1>6. A!Unused(b, sizeof_block + request)
    <2>1. b .. b + (sizeof_block + request) - 1 \subseteq Words
      BY <1>1, <1>4, SMT DEF Words, sizeof_block
    <2>2. \A w \in b .. b + (sizeof_block + request) - 1 : ~(w < b \/ w >= End(b))
      BY <1>1, <1>4, SMT DEF sizeof_block
    <2> QED
      BY <2>1, <2>2, <1>5 DEF A!Unused
  <1>7. \A w \in Owned : word'[w] = word[w]
    <2> SUFFICES ASSUME NEW w \in Owned PROVE word'[w] = word[w]
      OBVIOUS
    <2>1. PICK l \in live : w \in Data(l)
      BY DEF Owned
    <2>2. w \in Words
      BY <2>1, <1>3, DataApart
    <2>3. l.pointer \in Int /\ l.size \in Nat
      BY <1>3, InItsBlock
    <2>4. w \in A!Extent(l)
      BY <2>1, <2>3, SMT DEF Data, A!Extent, sizeof_block
    <2>5. w < b \/ w >= End(b)
      BY <1>5, <2>4
    <2>6. w \in Int
      BY <2>1, <2>3, SMT DEF Data
    <2>7. CASE WorthSplitting(b)
      <3> DEFINE s == b + 3 + request
      <3>1. s + 2 < End(b) /\ s \in Int /\ s > b + 2
        BY <2>7, <1>4, HeapAssumption, SMT DEF WorthSplitting, sizeof_block
      <3>2. word' = [word EXCEPT ![b] = 1, ![b + 1] = request, ![b + 2] = s,
                       ![s] = 0, ![s + 1] = Size(b) - request - 3, ![s + 2] = NextOf(b)]
        BY <2>7 DEF Take, Split, sizeof_block
      <3> HIDE DEF s
      <3>3. w # b /\ w # b + 1 /\ w # b + 2 /\ w # s /\ w # s + 1 /\ w # s + 2
        BY <2>5, <2>6, <3>1, <1>4, SMT
      <3> QED
        BY <2>2, <3>2, <3>3, <1>3 DEF TypeOK
    <2>8. CASE ~WorthSplitting(b)
      <3>1. word' = [word EXCEPT ![b] = 1] /\ w # b
        BY <2>5, <2>6, <2>8, <1>4, SMT DEF Take
      <3> QED
        BY <2>2, <3>1, <1>3 DEF TypeOK
    <2> QED
      BY <2>7, <2>8
  <1>8. Owned \subseteq Owned'
    BY <1>1 DEF Owned, Data
  <1>9. PICK a \in Words : a = b
    BY <1>4
  <1>10. A!Unused(a, sizeof_block + request) /\ live' = live \cup {[pointer |-> a + sizeof_block, size |-> request]}
    BY <1>1, <1>6, <1>9 DEF sizeof_block
  <1>11. A!Grant(a)
    <2>1. /\ DOMAIN [w \in Owned' |-> word'[w]] = A!DataOf(live')
          /\ A!Restrict([w \in Owned' |-> word'[w]], A!DataOf(live)) = [w \in Owned |-> word[w]]
      BY <1>7, <1>8, DataOfLive DEF A!Restrict
    <2>2. call = "alloc" /\ (call' = "alloc") = FALSE /\ request' = request
      BY <1>1
    <2> QED
      BY <2>1, <2>2, <1>10 DEF A!Grant
  <1> QED
    BY <1>11 DEF A!Next

LEMMA DeallocMaps ==
    ASSUME Inv, NEW l \in live, Dealloc(l)
    PROVE  A!Next
  <1>1. /\ blocks # null /\ call = "none" /\ call' = "dealloc" /\ live' = live \ {l}
        /\ word' = [word EXCEPT ![l.pointer - 3] = 0] /\ request' = request
    BY DEF Inv, Dealloc, sizeof_block
  <1>2. PICK S \in SUBSET Words : Sound(S)
    BY <1>1 DEF Inv
  <1>3. TypeOK /\ Tiled(S) /\ Owners(S)
    BY <1>2 DEF Inv, Sound
  <1>4. l.pointer - 3 \in S /\ l.pointer - 3 \in Int
    BY <1>3, InItsBlock
  <1>5. Owned' \subseteq Owned
    BY <1>1 DEF Owned, Data
  <1>6. \A w \in Owned : word'[w] = word[w]
    <2> SUFFICES ASSUME NEW w \in Owned PROVE word'[w] = word[w]
      OBVIOUS
    <2>1. PICK m \in live : w \in Data(m)
      BY DEF Owned
    <2>2. w \in Words /\ (w < l.pointer - 3 \/ w > l.pointer - 3 + 2)
      BY <2>1, <1>3, <1>4, DataApart
    <2>3. w # l.pointer - 3
      BY <2>2, <1>4, HeapAssumption, SMT DEF Words, Top
    <2> QED
      BY <2>2, <2>3, <1>1, <1>3 DEF TypeOK
  <1>7. [w \in Owned' |-> word'[w]] = A!Restrict([w \in Owned |-> word[w]], Owned')
    BY <1>5, <1>6 DEF A!Restrict
  <1>8. A!Release(l)
    BY <1>1, <1>7, DataOfLive DEF A!Release
  <1> QED
    BY <1>8 DEF A!Next

LEMMA StoreMaps ==
    ASSUME Inv, NEW l \in live, NEW w \in Data(l), NEW v \in Values, Store(w, v)
    PROVE  A!Next
  <1>1. call = "none" /\ call' = "none" /\ live' = live /\ request' = request /\ word' = [word EXCEPT ![w] = v]
    BY DEF Store
  <1>2. Owned' = Owned /\ w \in Owned
    BY <1>1 DEF Owned, Data
  <1>3. \A u \in Owned : u # w => word'[u] = word[u]
    <2>1. blocks # null
      BY DEF Inv
    <2>2. PICK S \in SUBSET Words : Sound(S)
      BY <2>1 DEF Inv
    <2>3. heap \in S /\ TypeOK /\ Tiled(S) /\ Owners(S)
      BY <2>2 DEF Inv, Sound, Tiled
    <2>4. Owned \subseteq Words
      BY <2>3, DataApart DEF Owned
    <2> QED
      BY <2>3, <2>4, <1>1 DEF TypeOK
  <1> DEFINE C == [u \in Owned |-> word[u]]
             D == [u \in Owned' |-> word'[u]]
  <1>4. D = [C EXCEPT ![w] = D[w]]
    BY <1>2, <1>3
  <1>5. A!Store(w)
    BY <1>1, <1>4 DEF A!Store
  <1> QED
    BY <1>2, <1>5, DataOfLive DEF A!Next

-----------------------------------------------------------------------------
(* The steps of a walk that leave the program's words alone.               *)
LEMMA WalkMaps ==
    ASSUME Inv, PassBy \/ Absorb \/ StartRun \/ EndRun \/ Merged
    PROVE  UNCHANGED A!allocatorVars
  <1>1. /\ live' = live /\ request' = request
        /\ \/ call = "alloc" /\ call' = "alloc"
           \/ call = "dealloc" /\ call' \in {"dealloc", "none"}
    BY DEF PassBy, Absorb, StartRun, EndRun, Merged
  <1>2. Owned' = Owned /\ UNCHANGED <<call = "alloc", live, request>>
    BY <1>1 DEF Owned, Data
  <1>3. \A w \in Owned : word'[w] = word[w]
    <2>1. CASE word' = word
      BY <2>1
    <2>2. CASE Absorb
      <3>1. blocks # null
        BY <2>2 DEF Inv, Absorb
      <3>2. PICK S \in SUBSET Words : Sound(S)
        BY <3>1 DEF Inv
      <3>3. TypeOK /\ Tiled(S) /\ Owners(S) /\ initial_block \in S
        BY <2>2, <3>2 DEF Inv, Sound, Merging, Absorb
      <3>4. initial_block \in Int
        BY <3>3, HeaderWords
      <3> SUFFICES ASSUME NEW w \in Owned PROVE word'[w] = word[w]
        OBVIOUS
      <3>5. w \in Words /\ (w < initial_block \/ w > initial_block + 2)
        <4>1. PICK l \in live : w \in Data(l)
          BY DEF Owned
        <4> QED
          BY <4>1, <3>3, DataApart
      <3>6. w # initial_block + 1 /\ w # initial_block + 2
        BY <3>4, <3>5, HeapAssumption, SMT DEF Words, Top
      <3> QED
        BY <3>3, <3>5, <3>6, <2>2 DEF TypeOK, Absorb
    <2> QED
      BY <2>1, <2>2 DEF PassBy, Absorb, StartRun, EndRun, Merged
  <1>4. [w \in Owned' |-> word'[w]] = [w \in Owned |-> word[w]]
    BY <1>2, <1>3
  <1> QED
    BY <1>2, <1>4 DEF A!allocatorVars

(* The heap is an allocator (alloc.qll:45-101), for every size of the heap *)
(* and of the requests: what the program has is its own and is not touched *)
(* until it is released; alloc answers null only when no run of unused     *)
(* words is long enough.                                                   *)
THEOREM HeapImplementsAllocator == HeapSpec => ImplementsAllocator
  <1>1. HeapInit => A!Init
    <2> SUFFICES ASSUME HeapInit PROVE A!Init
      OBVIOUS
    <2>1. live = {} /\ Owned = {} /\ call = "none" /\ request \in Sizes
      BY DEF HeapInit, Owned
    <2> QED
      BY <2>1 DEF A!Init
  <1>2. Inv /\ [HeapNext]_heapVars => [A!Next]_A!allocatorVars
    <2> SUFFICES ASSUME Inv, [HeapNext]_heapVars PROVE [A!Next]_A!allocatorVars
      OBVIOUS
    <2>1. ASSUME NEW size \in Sizes, Alloc(size) PROVE A!Next
      BY <2>1, AllocMaps
    <2>2. ASSUME NEW l \in live, Dealloc(l) PROVE A!Next
      BY <2>2, DeallocMaps
    <2>3. ASSUME NEW l \in live, NEW w \in Data(l), NEW v \in Values, Store(w, v) PROVE A!Next
      BY <2>3, StoreMaps
    <2>4. CASE Refuse
      BY <2>4, RefuseMaps
    <2>5. CASE Take
      BY <2>5, TakeMaps
    <2>6. CASE PassBy \/ Absorb \/ StartRun \/ EndRun \/ Merged
      BY <2>6, WalkMaps
    <2>7. CASE UNCHANGED heapVars
      BY <2>7 DEF heapVars, A!allocatorVars, Owned, Data
    <2> QED
      BY <2>1, <2>2, <2>3, <2>4, <2>5, <2>6, <2>7 DEF HeapNext, Walk
  <1> QED
    BY <1>1, <1>2, HeapSound, PTL DEF HeapSpec, ImplementsAllocator, A!Spec
=============================================================================

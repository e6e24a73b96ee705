---------------------------- MODULE KernelProofs ----------------------------
(***************************************************************************)
(* What the operating system guarantees for every number of processes,     *)
(* every size of the pool of memory and every set of framebuffer sizes.    *)
(***************************************************************************)
EXTENDS Kernel, TLAPS, WellFoundedInduction

-----------------------------------------------------------------------------
(* The allocator.  A block starts where the previous ones end and is at    *)
(* least as long as what was asked for.                                    *)
LEMMA RoundUpBounds ==
  ASSUME NEW size \in Nat
  PROVE  RoundUp(size) \in Nat /\ RoundUp(size) >= size
  BY DEF RoundUp, CHUNK_SIZE

LEMMA ImageIsWholeChunks == IMAGE_SIZE \in Nat /\ RoundUp(IMAGE_SIZE) = IMAGE_SIZE
  BY DEF RoundUp, IMAGE_SIZE, CHUNK_SIZE,
     DEFAULT_EXECUTABLE_SIZE, DEFAULT_HEAP_SIZE, DEFAULT_STACK_SIZE

(* The inductive invariant of memory.  Process numbers are never reused    *)
(* and each costs an image, so that the pool runs out before they do: this *)
(* is why a table that is created is that of a process without pages.      *)
MemoryInv ==
    /\ MemTypeOK
    /\ PoolBounded
    /\ id \in Nat \ {0}
    /\ (id - 1) * IMAGE_SIZE <= user_pool_current
    /\ PagesAllocated
    /\ FramesDisjoint

LEMMA InitMemoryInv == Init => MemoryInv
  BY MemoryAssumption
  DEF Init, MemInit, MemoryInv, MemTypeOK, PoolBounded, PagesAllocated, FramesDisjoint,
      IMAGE_SIZE, DEFAULT_EXECUTABLE_SIZE, DEFAULT_HEAP_SIZE, DEFAULT_STACK_SIZE

(* What lies above the used part of the pool overlaps no page.             *)
Unused(page) ==
    /\ page \in Page
    /\ user_pool_base + user_pool_current <= page.physical_address

LEMMA UnusedIsDisjoint ==
  ASSUME MemTypeOK, PagesAllocated, NEW page, Unused(page),
         NEW p \in Pids, NEW i \in DOMAIN table[p]
  PROVE  ~Overlap(page, table[p][i]) /\ ~Overlap(table[p][i], page)
<1>1. table[p][i] \in Page
  BY DEF MemTypeOK
<1> QED
  BY <1>1 DEF PagesAllocated, Unused, Overlap, Page, MemTypeOK, user_pool_base

(* A page that was allocated stays so when the pool grows.                 *)
LEMMA StaysAllocated ==
  ASSUME MemTypeOK, PagesAllocated,
         user_pool_current' \in Nat, user_pool_current <= user_pool_current',
         NEW p \in Pids, NEW i \in DOMAIN table[p]
  PROVE  /\ user_pool_base <= table[p][i].physical_address
         /\ table[p][i].physical_address + table[p][i].size
              <= user_pool_base + user_pool_current'
<1>1. table[p][i] \in Page
  BY DEF MemTypeOK
<1>2. /\ user_pool_base <= table[p][i].physical_address
      /\ table[p][i].physical_address + table[p][i].size
           <= user_pool_base + user_pool_current
  BY DEF PagesAllocated
<1>3. user_pool_current \in Nat
  BY DEF MemTypeOK
<1> QED
  BY <1>1, <1>2, <1>3 DEF Page, user_pool_base

LEMMA ImagePagesAreUnused ==
  ASSUME MemTypeOK
  PROVE  LET image == ImagePages(NewMemory)
         IN  /\ image \in Seq(Page)
             /\ \A i \in DOMAIN image :
                  /\ Unused(image[i])
                  /\ image[i].physical_address + image[i].size
                       <= user_pool_base + user_pool_current + IMAGE_SIZE
                  /\ \A j \in DOMAIN image : i # j => ~Overlap(image[i], image[j])
<1> DEFINE image == ImagePages(NewMemory)
           base == NewMemory
<1>1. base \in Nat
  BY DEF MemTypeOK, NewMemory, user_pool_base
<1>2. /\ image[1] = [virtual_address |-> DEFAULT_EXECUTABLE_BASE, physical_address |-> base,
                     size |-> DEFAULT_EXECUTABLE_SIZE]
      /\ image[2] = [virtual_address |-> HEAP_BASE,
                     physical_address |-> base + DEFAULT_EXECUTABLE_SIZE,
                     size |-> DEFAULT_HEAP_SIZE]
      /\ image[3] = [virtual_address |-> STACK_BASE,
                     physical_address |-> base + DEFAULT_EXECUTABLE_SIZE + DEFAULT_HEAP_SIZE,
                     size |-> DEFAULT_STACK_SIZE]
      /\ DOMAIN image = 1 .. 3 /\ Len(image) = 3
  BY DEF ImagePages
<1> USE DEF DEFAULT_EXECUTABLE_BASE, DEFAULT_EXECUTABLE_SIZE, DEFAULT_HEAP_SIZE,
            DEFAULT_STACK_SIZE, HEAP_BASE, STACK_BASE, CHUNK_SIZE
<1>3. image[1] \in Page /\ image[2] \in Page /\ image[3] \in Page
  BY <1>1, <1>2 DEF Page
<1>4. image \in Seq(Page)
  BY <1>3 DEF ImagePages
<1>5. ASSUME NEW i \in 1 .. 3
      PROVE  /\ Unused(image[i])
             /\ image[i].physical_address + image[i].size <= base + IMAGE_SIZE
  BY <1>1, <1>2, <1>3 DEF Unused, NewMemory, user_pool_base, MemTypeOK, IMAGE_SIZE
<1>6. ASSUME NEW i \in 1 .. 3, NEW j \in 1 .. 3, i # j
      PROVE  ~Overlap(image[i], image[j])
  BY <1>1, <1>2, <1>6 DEF Overlap
<1> HIDE DEF image
<1> QED
  BY <1>2, <1>4, <1>5, <1>6 DEF image, NewMemory

-----------------------------------------------------------------------------
(* create_table for the next process.                                      *)
LEMMA CreateTableKeepsMemory ==
  ASSUME MemoryInv, Fits(IMAGE_SIZE), CreateTable(id), id' = id + 1
  PROVE  MemoryInv' /\ id \in Pids
<1> DEFINE image == ImagePages(NewMemory)
<1>0. /\ user_pool_current \in Nat /\ id \in Nat \ {0} /\ user_pool_size \in Nat
      /\ (id - 1) * IMAGE_SIZE <= user_pool_current
  BY MemoryAssumption DEF MemoryInv, MemTypeOK
<1>1. user_pool_current' = user_pool_current + IMAGE_SIZE
  BY ImageIsWholeChunks DEF CreateTable, Take
<1>2. PoolBounded' /\ user_pool_current' \in Nat /\ user_pool_current <= user_pool_current'
  BY <1>0, <1>1, ImageIsWholeChunks DEF PoolBounded, Fits
<1>3. (id' - 1) * IMAGE_SIZE <= user_pool_current'
  BY <1>0, <1>1 DEF IMAGE_SIZE,
     DEFAULT_EXECUTABLE_SIZE, DEFAULT_HEAP_SIZE, DEFAULT_STACK_SIZE
<1>4. id \in Pids
  <2>1. id * IMAGE_SIZE < (LastPid + 1) * IMAGE_SIZE /\ LastPid \in Nat
    BY <1>0, <1>2, <1>3, KernelAssumption, MemoryAssumption DEF PoolBounded,
       IMAGE_SIZE, DEFAULT_EXECUTABLE_SIZE, DEFAULT_HEAP_SIZE, DEFAULT_STACK_SIZE
  <2> QED
    BY <1>0, <2>1 DEF Pids,
       IMAGE_SIZE, DEFAULT_EXECUTABLE_SIZE, DEFAULT_HEAP_SIZE, DEFAULT_STACK_SIZE
<1>5. /\ image \in Seq(Page)
      /\ \A i \in DOMAIN image :
           /\ Unused(image[i])
           /\ image[i].physical_address + image[i].size
                <= user_pool_base + user_pool_current + IMAGE_SIZE
           /\ \A j \in DOMAIN image : i # j => ~Overlap(image[i], image[j])
  BY ImagePagesAreUnused DEF MemoryInv
<1> HIDE DEF image
<1>6. table' = [table EXCEPT ![id] = image] /\ table \in [Pids -> Seq(Page)]
  BY DEF CreateTable, image, MemoryInv, MemTypeOK
<1>7. /\ table' \in [Pids -> Seq(Page)]
      /\ table'[id] = image
      /\ \A p \in Pids : p # id => table'[p] = table[p]
  BY <1>4, <1>5, <1>6, Zenon
<1>8. PagesAllocated'
  <2> SUFFICES ASSUME NEW p \in Pids, NEW i \in DOMAIN table'[p]
               PROVE  /\ user_pool_base <= table'[p][i].physical_address
                      /\ table'[p][i].physical_address + table'[p][i].size
                           <= user_pool_base + user_pool_current'
    BY DEF PagesAllocated
  <2>1. CASE p = id
    <3>1. Unused(image[i]) /\ table'[p][i] = image[i]
      BY <2>1, <1>5, <1>7
    <3>2. image[i].physical_address + image[i].size
            <= user_pool_base + user_pool_current + IMAGE_SIZE
      BY <2>1, <1>5, <1>7
    <3> QED
      BY <3>1, <3>2, <1>0, <1>1, ImageIsWholeChunks DEF Unused, Page, user_pool_base
  <2>2. CASE p # id
    BY <2>2, <1>2, <1>7, StaysAllocated DEF MemoryInv
  <2> QED
    BY <2>1, <2>2
<1>9. FramesDisjoint'
  <2> SUFFICES ASSUME NEW p \in Pids, NEW q \in Pids,
                      NEW i \in DOMAIN table'[p], NEW j \in DOMAIN table'[q],
                      <<p, i>> # <<q, j>>
               PROVE  ~Overlap(table'[p][i], table'[q][j])
    BY DEF FramesDisjoint
  <2>1. CASE p = id /\ q = id
    BY <2>1, <1>5, <1>7
  <2>2. CASE p = id /\ q # id
    BY <2>2, <1>5, <1>7, UnusedIsDisjoint DEF MemoryInv
  <2>3. CASE p # id /\ q = id
    BY <2>3, <1>5, <1>7, UnusedIsDisjoint DEF MemoryInv
  <2>4. CASE p # id /\ q # id
    BY <2>4, <1>7 DEF MemoryInv, FramesDisjoint
  <2> QED
    BY <2>1, <2>2, <2>3, <2>4
<1> QED
  BY <1>0, <1>2, <1>3, <1>4, <1>7, <1>8, <1>9 DEF MemoryInv, MemTypeOK

-----------------------------------------------------------------------------
(* A framebuffer: memory is taken, and a page may be added for it.         *)
LEMMA TakeBounds ==
  ASSUME MemoryInv, NEW size \in Nat, Fits(size), Take(size)
  PROVE  /\ user_pool_current' \in Nat
         /\ user_pool_current + size <= user_pool_current'
         /\ PoolBounded'
<1>1. user_pool_current \in Nat
  BY DEF MemoryInv, MemTypeOK
<1>2. RoundUp(size) \in Nat /\ RoundUp(size) >= size
  BY RoundUpBounds
<1> QED
  BY <1>1, <1>2 DEF Take, Fits, PoolBounded

(* The arithmetic of MemoryInv, which only looks at the pool and at id.    *)
LEMMA MorePoolKeepsNumbers ==
  ASSUME MemoryInv, user_pool_current' \in Nat, user_pool_current <= user_pool_current',
         UNCHANGED id
  PROVE  /\ id' \in Nat \ {0}
         /\ (id' - 1) * IMAGE_SIZE <= user_pool_current'
<1>1. /\ user_pool_current \in Nat /\ id \in Nat \ {0}
      /\ (id - 1) * IMAGE_SIZE <= user_pool_current
  BY DEF MemoryInv, MemTypeOK
<1> QED
  BY <1>1
  DEF IMAGE_SIZE, DEFAULT_EXECUTABLE_SIZE, DEFAULT_HEAP_SIZE, DEFAULT_STACK_SIZE

LEMMA TakeKeepsMemory ==
  ASSUME MemoryInv, NEW size \in Nat, Fits(size), Take(size), UNCHANGED <<table, id>>
  PROVE  MemoryInv'
<1>1. user_pool_current' \in Nat /\ user_pool_current <= user_pool_current' /\ PoolBounded'
  BY TakeBounds DEF MemoryInv, MemTypeOK
<1>2. MemTypeOK'
  BY <1>1 DEF MemoryInv, MemTypeOK
<1>3. PagesAllocated'
  <2> SUFFICES ASSUME NEW p \in Pids, NEW i \in DOMAIN table[p]
               PROVE  /\ user_pool_base <= table[p][i].physical_address
                      /\ table[p][i].physical_address + table[p][i].size
                           <= user_pool_base + user_pool_current'
    BY DEF PagesAllocated
  <2> QED
    BY <1>1, StaysAllocated DEF MemoryInv
<1>4. FramesDisjoint'
  BY DEF MemoryInv, FramesDisjoint
<1> QED
  BY <1>1, <1>2, <1>3, <1>4, MorePoolKeepsNumbers DEF MemoryInv

LEMMA FramebufferIsUnused ==
  ASSUME MemTypeOK, NEW size \in Nat
  PROVE  /\ Unused(Framebuffer(size))
         /\ Framebuffer(size).physical_address + Framebuffer(size).size
              = user_pool_base + user_pool_current + size
<1>1. user_pool_current \in Nat
  BY DEF MemTypeOK
<1> QED
  BY <1>1
  DEF Framebuffer, NewMemory, Page, Unused, user_pool_base, FRAMEBUFFER_VIRTUAL_BASE

LEMMA FramebufferKeepsMemory ==
  ASSUME MemoryInv, NEW p, NEW size \in Nat,
         Fits(size), Take(size), AddPage(p, Framebuffer(size)), UNCHANGED id
  PROVE  MemoryInv'
<1> DEFINE page == Framebuffer(size)
<1>0. user_pool_current \in Nat /\ MemTypeOK /\ PagesAllocated
  BY DEF MemoryInv, MemTypeOK
<1>1. /\ user_pool_current' \in Nat
      /\ user_pool_current + size <= user_pool_current'
      /\ user_pool_current <= user_pool_current'
      /\ PoolBounded'
  BY <1>0, TakeBounds
<1>2. /\ page \in Page
      /\ Unused(page)
      /\ page.physical_address + page.size <= user_pool_base + user_pool_current'
  <2>1. Unused(page)
    BY <1>0, FramebufferIsUnused
  <2>2. page.physical_address + page.size = user_pool_base + user_pool_current + size
    BY <1>0, FramebufferIsUnused
  <2> HIDE DEF page
  <2> QED
    BY <1>0, <1>1, <2>1, <2>2 DEF Unused, user_pool_base
<1>3. table' = [table EXCEPT ![p] = Append(table[p], page)]
  BY Zenon DEF AddPage
<1>4. table \in [Pids -> Seq(Page)]
  BY <1>0 DEF MemTypeOK
<1> HIDE DEF page
<1>5. CASE p \notin Pids
  <2>1. table' = table
    BY <1>3, <1>4, <1>5, Zenon
  <2> QED
    BY <2>1, TakeKeepsMemory
<1>6. CASE p \in Pids
  <2>1. table[p] \in Seq(Page) /\ Append(table[p], page) \in Seq(Page)
    BY <1>2, <1>4, <1>6
  <2>2. /\ table' \in [Pids -> Seq(Page)]
        /\ table'[p] = Append(table[p], page)
        /\ \A q \in Pids : q # p => table'[q] = table[q]
    BY <1>3, <1>4, <1>6, <2>1, Zenon
  <2>3. MemTypeOK'
    BY <1>1, <2>2 DEF MemTypeOK
  <2>4. /\ DOMAIN table'[p] = 1 .. Len(table[p]) + 1
        /\ table'[p][Len(table[p]) + 1] = page
        /\ \A i \in DOMAIN table[p] : table'[p][i] = table[p][i]
        /\ DOMAIN table[p] = 1 .. Len(table[p])
        /\ Len(table[p]) \in Nat
    BY <1>2, <2>1, <2>2
  <2> DEFINE New(q, i) == q = p /\ i = Len(table[p]) + 1
  <2>5. ASSUME NEW q \in Pids, NEW i \in DOMAIN table'[q]
        PROVE  \/ New(q, i) /\ table'[q][i] = page
               \/ ~New(q, i) /\ i \in DOMAIN table[q] /\ table'[q][i] = table[q][i]
    <3>1. CASE q = p
      BY <3>1, <2>4
    <3>2. CASE q # p
      BY <3>2, <2>2
    <3> QED
      BY <3>1, <3>2
  <2> HIDE DEF New
  <2>6. PagesAllocated'
    <3> SUFFICES ASSUME NEW q \in Pids, NEW i \in DOMAIN table'[q]
                 PROVE  /\ user_pool_base <= table'[q][i].physical_address
                        /\ table'[q][i].physical_address + table'[q][i].size
                             <= user_pool_base + user_pool_current'
      BY DEF PagesAllocated
    <3>1. CASE table'[q][i] = page
      BY <3>1, <1>0, <1>2 DEF Unused, Page, user_pool_base
    <3>2. CASE i \in DOMAIN table[q] /\ table'[q][i] = table[q][i]
      BY <3>2, <1>0, <1>1, StaysAllocated
    <3> QED
      BY <3>1, <3>2, <2>5
  <2>7. FramesDisjoint'
    <3> SUFFICES ASSUME NEW q \in Pids, NEW r \in Pids,
                        NEW i \in DOMAIN table'[q], NEW j \in DOMAIN table'[r],
                        <<q, i>> # <<r, j>>
                 PROVE  ~Overlap(table'[q][i], table'[r][j])
      BY DEF FramesDisjoint, Overlap
    <3>1. CASE New(q, i)
      <4>1. table'[q][i] = page /\ j \in DOMAIN table[r] /\ table'[r][j] = table[r][j]
        BY <3>1, <2>5 DEF New
      <4> QED
        BY <4>1, <1>0, <1>2, UnusedIsDisjoint
    <3>2. CASE New(r, j)
      <4>1. table'[r][j] = page /\ i \in DOMAIN table[q] /\ table'[q][i] = table[q][i]
        BY <3>2, <2>5 DEF New
      <4> QED
        BY <4>1, <1>0, <1>2, UnusedIsDisjoint
    <3>3. CASE ~New(q, i) /\ ~New(r, j)
      BY <3>3, <2>5 DEF MemoryInv, FramesDisjoint
    <3> QED
      BY <3>1, <3>2, <3>3
  <2> QED
    BY <1>1, <2>3, <2>6, <2>7, MorePoolKeepsNumbers DEF MemoryInv
<1> QED
  BY <1>5, <1>6

(* DISPLAY_OPEN changes the display and the table of its caller, whether   *)
(* it comes to a result or faults.                                         *)
Opening == OpenDisplay \/ OpenFaults

LEMMA OpeningOpens ==
  ASSUME Opening
  PROVE  /\ regs.ip = SyscallHandler
         /\ UNCHANGED <<taskVars, processVars>>
         /\ \E size \in FramebufferSizes, result_ptr_valid \in BOOLEAN, result \in {-1, 0} :
              DisplayOpen(current_task, size, result_ptr_valid, result)
<1>1. CASE OpenDisplay
  BY <1>1 DEF OpenDisplay, Called, SetResult
<1>2. CASE OpenFaults
  BY <1>2 DEF OpenFaults, Called, DisplayOpen
<1> QED
  BY <1>1, <1>2 DEF Opening

LEMMA DisplayKeepsMemory ==
  ASSUME MemoryInv, Opening, UNCHANGED id
  PROVE  MemoryInv'
<1> PICK size \in FramebufferSizes, result_ptr_valid \in BOOLEAN, result \in {-1, 0} :
         DisplayOpen(current_task, size, result_ptr_valid, result)
  BY OpeningOpens
<1>1. size \in Nat
  BY KernelAssumption
<1>2. CASE UNCHANGED memVars
  BY <1>2 DEF memVars, MemoryInv, MemTypeOK, PoolBounded, PagesAllocated, FramesDisjoint
<1>3. CASE OpenWithoutPage(current_task, size, result)
  BY <1>1, <1>3, TakeKeepsMemory DEF OpenWithoutPage, PointAt
<1>4. CASE OpenMapped(current_task, size, result_ptr_valid, result)
  BY <1>1, <1>4, FramebufferKeepsMemory DEF OpenMapped, PointAt
<1> QED
  BY <1>2, <1>3, <1>4 DEF DisplayOpen, OpenRefused, OpenWithoutMemory

-----------------------------------------------------------------------------
(* Every other action leaves the allocator, the tables and `id' alone.     *)
LEMMA OthersKeepMemory ==
  ASSUME Step, ~(\E parent \in processes \cup {0} : CreateProcess(parent)), ~Opening
  PROVE  UNCHANGED <<user_pool_current, table, id>>
<1> USE DEF kernelVars, vars, taskVars, memVars
<1>1. CASE Kernel
  <2>1. ASSUME NEW ip, NEW mask, Goto(ip, mask)
        PROVE  UNCHANGED <<user_pool_current, table, id>>
    BY <2>1 DEF Goto
  <2>2. ASSUME CreateFails PROVE UNCHANGED <<user_pool_current, table, id>>
    BY <2>2 DEF CreateFails
  <2>3. ASSUME WaitForProcess \/ CheckProcess \/ ReturnFromWait
        PROVE  UNCHANGED <<user_pool_current, table, id>>
    BY <2>1, <2>3 DEF WaitForProcess, CheckProcess, ReturnFromWait
  <2>4. ASSUME GoesAstray PROVE UNCHANGED <<user_pool_current, table, id>>
    BY <2>1, <2>4 DEF GoesAstray, LoopsAstray, HaltsAstray, FaultsAstray
  <2> QED
    BY <1>1, <2>2, <2>3, <2>4 DEF Kernel
<1>2. CASE User \/ Tick
  BY <1>2 DEF User, Compute, RaiseInterrupt, UserFault, Tick
<1>3. ASSUME KillCurrent PROVE UNCHANGED <<user_pool_current, table, id>>
  BY <1>3 DEF KillCurrent, DestroyProcess, DestroyTasks, Panic
<1>4. CASE Handler
  BY <1>3, <1>4 DEF Handler, TimerInterrupt, ErrorInterrupt, InterruptReturn, SyscallInterrupt,
     Exit, Yield, FlipDisplay, CloseDisplay, OtherCall, CallFaults, Opening,
     SetResult, DisplayFlip, DisplayClose
<1> QED
  BY <1>1, <1>2, <1>4 DEF Step

LEMMA NextMemoryInv == MemoryInv /\ [Next]_vars => MemoryInv'
<1> SUFFICES ASSUME MemoryInv, [Next]_vars PROVE MemoryInv'
  OBVIOUS
<1>1. ASSUME UNCHANGED <<user_pool_current, table, id>> PROVE MemoryInv'
  BY <1>1 DEF MemoryInv, MemTypeOK, PoolBounded, PagesAllocated, FramesDisjoint
<1>2. ASSUME NEW parent \in processes \cup {0}, CreateProcess(parent) PROVE MemoryInv'
  BY <1>2, CreateTableKeepsMemory DEF CreateProcess, CanCreate
<1>3. CASE Opening
  BY <1>3, OpeningOpens, DisplayKeepsMemory DEF taskVars
<1>4. CASE UNCHANGED vars
  BY <1>1, <1>4 DEF vars, kernelVars, taskVars, memVars
<1> QED
  BY <1>1, <1>2, <1>3, <1>4, OthersKeepMemory DEF Next, Stopped

(* Address spaces are isolated for every number of processes and whatever  *)
(* framebuffers they open: no word of physical memory is mapped twice.     *)
THEOREM AddressSpacesAreIsolated == Spec => []FramesDisjoint
<1>1. MemoryInv => FramesDisjoint
  BY DEF MemoryInv
<1> QED
  BY <1>1, InitMemoryInv, NextMemoryInv, PTL DEF Spec

-----------------------------------------------------------------------------
(***************************************************************************)
(* That the tables of the operating system agree, for every number of      *)
(* processes, whatever they do and in whatever order they die.             *)
(***************************************************************************)
(* The head of a task list is one of its tasks, and the greatest.          *)
LEMMA GreatestExists ==
  ASSUME NEW T, T \subseteq Tasks, T # {}
  PROVE  Max(T) \in T /\ \A t \in T : Max(T) >= t
<1> DEFINE Gap(t) == LastPid - t
           Gaps == {Gap(t) : t \in T}
           R == OpToRel(<, Nat)
<1>1. LastPid \in Nat /\ \A t \in T : t \in Nat /\ t <= LastPid
  BY MemoryAssumption DEF Tasks, Pids
<1>2. Gaps \subseteq Nat /\ Gaps # {}
  BY <1>1
<1>3. PICK g \in Gaps : \A h \in Gaps : ~ (<<h, g>> \in R)
  <2>1. IsWellFoundedOn(R, Nat)
    BY NatLessThanWellFounded DEF OpToRel
  <2> HIDE DEF R, Gaps
  <2> QED
    BY <1>2, <2>1, WFMin
<1>4. \A h \in Gaps : ~ (h < g)
  BY <1>2, <1>3 DEF OpToRel
<1>5. PICK t \in T : g = Gap(t)
  OBVIOUS
<1>6. \A u \in T : t >= u
  <2> TAKE u \in T
  <2>1. ~ (Gap(u) < Gap(t))
    BY <1>4, <1>5
  <2> QED
    BY <2>1, <1>1
<1> QED
  BY <1>5, <1>6 DEF Max

-----------------------------------------------------------------------------
(* The inductive invariant.  That memory bounds the process numbers is     *)
(* what keeps a new process from taking the place of another.              *)
ControlInv ==
    /\ MemoryInv
    /\ processes \subseteq Pids
    /\ parent_id \in [Pids -> Tasks]
    /\ TasksMatchProcesses
    /\ NothingOutlives

LEMMA InitControlInv == Init => ControlInv
<1> SUFFICES ASSUME Init PROVE ControlInv
  OBVIOUS
<1>1. MemoryInv
  BY InitMemoryInv
<1>2. /\ processes = {} /\ tasks = {0} /\ current_task = 0
      /\ parent_id = [p \in Pids |-> 0] /\ display_owner_pid = 0
  BY DEF Init, DisplayInit
<1>3. parent_id \in [Pids -> Tasks]
  BY <1>2 DEF Tasks
<1> QED
  BY <1>1, <1>2, <1>3 DEF ControlInv, TasksMatchProcesses, NothingOutlives

(* What keeps the tables keeps the invariant, when the display goes to     *)
(* nobody or to the current task.                                          *)
LEMMA SameTablesKeepControl ==
  ASSUME ControlInv, MemoryInv', UNCHANGED <<processes, parent_id, tasks, current_task>>,
         display_owner_pid' \in {display_owner_pid, 0, current_task}
  PROVE  ControlInv'
  BY DEF ControlInv, TasksMatchProcesses, NothingOutlives

-----------------------------------------------------------------------------
(* Scheduling goes to a task of the list.                                  *)
LEMMA NextTaskIsTask ==
  ASSUME ControlInv
  PROVE  NextTask \in tasks
<1>1. tasks \subseteq Tasks /\ tasks # {}
  BY DEF ControlInv, TasksMatchProcesses, Tasks
<1>2. FirstTask(tasks) \in tasks
  BY <1>1, GreatestExists DEF FirstTask
<1>3. ASSUME Below(current_task) # {}
      PROVE  Max(Below(current_task)) \in tasks
  <2>1. Below(current_task) \subseteq tasks
    BY DEF Below
  <2> QED
    BY <1>1, <1>3, <2>1, GreatestExists
<1> QED
  BY <1>2, <1>3 DEF NextTask

LEMMA ScheduleKeepsControl ==
  ASSUME ControlInv, MemoryInv', ScheduleTask, UNCHANGED <<tasks, processVars, displayVars>>
  PROVE  ControlInv'
<1>1. current_task' \in tasks
  BY NextTaskIsTask DEF ScheduleTask, ControlInv, TasksMatchProcesses
<1> QED
  BY <1>1 DEF ControlInv, TasksMatchProcesses, NothingOutlives, processVars, displayVars

-----------------------------------------------------------------------------
(* A process that is destroyed takes its descendants with it: nobody whose *)
(* parent is among them is left.                                           *)
LEMMA DescendantsAreClosed ==
  ASSUME NEW p \in processes
  PROVE  /\ Descendants(p) \subseteq processes
         /\ p \in Descendants(p)
         /\ \A q \in processes : parent_id[q] \in Descendants(p) => q \in Descendants(p)
<1>1. ASSUME NEW q \in processes, parent_id[q] \in Descendants(p)
      PROVE  q \in Descendants(p)
  <2> SUFFICES ASSUME NEW S \in SUBSET processes, p \in S, ClosedUnderChildren(S)
               PROVE  q \in S
    BY DEF Descendants
  <2>1. parent_id[q] \in S
    BY <1>1 DEF Descendants
  <2> QED
    BY <2>1 DEF ClosedUnderChildren
<1> QED
  BY <1>1 DEF Descendants

LEMMA DestroyKeepsControl ==
  ASSUME ControlInv, MemoryInv', current_task \in processes, DestroyProcess(current_task)
  PROVE  ControlInv'
<1> DEFINE D == Descendants(current_task)
<1>1. /\ D \subseteq processes
      /\ \A q \in processes : parent_id[q] \in D => q \in D
  BY DescendantsAreClosed
<1>2. /\ processes' = processes \ D
      /\ tasks' = tasks \ D
      /\ current_task' = FirstTask(tasks \ D)
      /\ display_owner_pid' = IF display_owner_pid \in D THEN 0 ELSE display_owner_pid
      /\ UNCHANGED parent_id
  BY DEF DestroyProcess, DestroyTasks, ReleaseDisplay
<1> HIDE DEF D
<1>3. /\ tasks' = processes' \cup {0} /\ processes' \subseteq Pids
      /\ tasks' \subseteq Tasks /\ tasks' # {}
  BY <1>1, <1>2 DEF ControlInv, TasksMatchProcesses, Tasks, Pids
<1>4. current_task' \in tasks'
  BY <1>2, <1>3, GreatestExists DEF FirstTask
<1>5. NothingOutlives'
  BY <1>1, <1>2 DEF ControlInv, NothingOutlives
<1> QED
  BY <1>2, <1>3, <1>4, <1>5 DEF ControlInv, TasksMatchProcesses

LEMMA CreateKeepsControl ==
  ASSUME ControlInv, NEW parent \in processes \cup {0}, CreateProcess(parent)
  PROVE  ControlInv'
<1>1. MemoryInv' /\ id \in Pids
  BY CreateTableKeepsMemory DEF ControlInv, CreateProcess, CanCreate
<1>2. /\ processes' = processes \cup {id}
      /\ tasks' = tasks \cup {id}
      /\ parent_id' = [parent_id EXCEPT ![id] = parent]
      /\ UNCHANGED <<current_task, display_owner_pid>>
  BY DEF CreateProcess, displayVars
<1>3. parent \in Tasks /\ parent_id \in [Pids -> Tasks]
  BY DEF ControlInv, Tasks
<1>4. /\ parent_id' \in [Pids -> Tasks]
      /\ parent_id'[id] = parent
      /\ \A p \in Pids : p # id => parent_id'[p] = parent_id[p]
  BY <1>1, <1>2, <1>3, Zenon
<1>5. TasksMatchProcesses' /\ processes' \subseteq Pids
  BY <1>1, <1>2 DEF ControlInv, TasksMatchProcesses
<1>6. NothingOutlives'
  <2>1. ASSUME NEW p \in processes'
        PROVE  parent_id'[p] \in processes' \cup {0}
    <3>1. CASE p = id
      BY <3>1, <1>2, <1>4
    <3>2. CASE p # id
      BY <3>2, <1>2, <1>4 DEF ControlInv, NothingOutlives
    <3> QED
      BY <3>1, <3>2
  <2> QED
    BY <2>1, <1>2 DEF ControlInv, NothingOutlives
<1> QED
  BY <1>1, <1>4, <1>5, <1>6 DEF ControlInv

-----------------------------------------------------------------------------
(* The handlers.  An error or EXIT destroys the current process, a timer   *)
(* or YIELD schedules, and the rest leave the tables as they are.          *)
LEMMA KillKeepsControl ==
  ASSUME ControlInv, MemoryInv', KillCurrent
  PROVE  ControlInv'
<1>1. CASE Panic
  BY <1>1, SameTablesKeepControl DEF Panic, kernelVars, taskVars, processVars, displayVars
<1> QED
  BY <1>1, DestroyKeepsControl DEF KillCurrent

LEMMA DisplayKeepsControl ==
  ASSUME ControlInv, MemoryInv', Opening \/ FlipDisplay \/ CloseDisplay
  PROVE  ControlInv'
<1>1. UNCHANGED <<processes, parent_id, tasks, current_task>>
  BY OpeningOpens DEF FlipDisplay, CloseDisplay, SetResult, taskVars, processVars
<1>2. display_owner_pid' \in {display_owner_pid, 0, current_task}
  <2>1. ASSUME NEW size, NEW valid, NEW result, DisplayOpen(current_task, size, valid, result)
        PROVE  display_owner_pid' \in {display_owner_pid, current_task}
    BY <2>1 DEF DisplayOpen, OpenRefused, OpenWithoutMemory, OpenWithoutPage, OpenMapped, displayVars
  <2> QED
    BY <2>1, OpeningOpens
    DEF FlipDisplay, CloseDisplay, DisplayFlip, DisplayClose, displayVars
<1> QED
  BY <1>1, <1>2, SameTablesKeepControl

LEMMA HandlerKeepsControl ==
  ASSUME ControlInv, MemoryInv', Handler
  PROVE  ControlInv'
<1>1. CASE TimerInterrupt
  BY <1>1, ScheduleKeepsControl DEF TimerInterrupt
<1>2. CASE Yield
  BY <1>2, ScheduleKeepsControl DEF Yield
<1>3. CASE ErrorInterrupt \/ Exit
  BY <1>3, KillKeepsControl DEF ErrorInterrupt, Exit
<1>4. CASE Opening \/ FlipDisplay \/ CloseDisplay
  BY <1>4, DisplayKeepsControl
<1>5. CASE OtherCall \/ CallFaults \/ InterruptReturn
  BY <1>5, SameTablesKeepControl
  DEF OtherCall, CallFaults, InterruptReturn, SetResult, kernelVars, taskVars, processVars, displayVars
<1> QED
  BY <1>1, <1>2, <1>3, <1>4, <1>5 DEF Handler, SyscallInterrupt, Opening

LEMMA NextControlInv == ControlInv /\ [Next]_vars => ControlInv'
<1> SUFFICES ASSUME ControlInv, [Next]_vars PROVE ControlInv'
  OBVIOUS
<1>1. MemoryInv'
  BY NextMemoryInv DEF ControlInv
<1>2. ASSUME UNCHANGED <<taskVars, processes, parent_id, displayVars>>
      PROVE  ControlInv'
  BY <1>1, <1>2, SameTablesKeepControl DEF taskVars, displayVars
<1>3. CASE Kernel
  <2>1. CASE \E parent \in processes \cup {0} : CreateProcess(parent)
    BY <2>1, CreateKeepsControl
  <2>2. CASE CreateFails
    BY <2>2, <1>2 DEF CreateFails, vars, kernelVars, processVars
  <2>3. CASE WaitForProcess \/ CheckProcess \/ ReturnFromWait
    BY <2>3, <1>2 DEF WaitForProcess, CheckProcess, ReturnFromWait, Goto
  <2>4. CASE LoopsAstray
    BY <2>4, <1>2 DEF LoopsAstray, Goto
  <2>5. CASE HaltsAstray \/ FaultsAstray
    BY <2>5, <1>2 DEF HaltsAstray, FaultsAstray, kernelVars, processVars
  <2> QED
    BY <1>3, <2>1, <2>2, <2>3, <2>4, <2>5 DEF Kernel, GoesAstray
<1>4. CASE User \/ Tick
  <2>1. UNCHANGED kernelVars
    <3>1. Compute \/ RaiseInterrupt \/ UserFault \/ Tick
      BY <1>4 DEF User
    <3>2. Compute => UNCHANGED kernelVars
      BY DEF Compute
    <3>3. RaiseInterrupt => UNCHANGED kernelVars
      BY DEF RaiseInterrupt
    <3>4. UserFault \/ Tick => UNCHANGED kernelVars
      BY DEF UserFault, Tick
    <3> QED
      BY <3>1, <3>2, <3>3, <3>4
  <2> QED
    BY <2>1, <1>2 DEF kernelVars, processVars
<1>5. CASE Handler
  BY <1>1, <1>5, HandlerKeepsControl
<1>6. CASE UNCHANGED vars
  BY <1>2, <1>6 DEF vars, kernelVars, processVars
<1> QED
  BY <1>3, <1>4, <1>5, <1>6 DEF Next, Step, Stopped

LEMMA AlwaysControlInv == Spec => []ControlInv
  BY InitControlInv, NextControlInv, PTL DEF Spec

(* The task list and the process table agree whatever happens, so that     *)
(* current_process finds the process of every task but the kernel's.       *)
THEOREM TablesAgree == Spec => []TasksMatchProcesses
<1>1. ControlInv => TasksMatchProcesses
  BY DEF ControlInv
<1> QED
  BY <1>1, AlwaysControlInv, PTL

(* No process outlives its parent and the display never belongs to a dead  *)
(* process, for any tree of processes and any order of deaths.             *)
THEOREM DeathIsComplete == Spec => []NothingOutlives
<1>1. ControlInv => NothingOutlives
  BY DEF ControlInv
<1> QED
  BY <1>1, AlwaysControlInv, PTL

-----------------------------------------------------------------------------
(***************************************************************************)
(* That a program only ever runs with its own registers and in its own     *)
(* memory, and that no program can stop the machine under another, for     *)
(* every number of processes and whatever they compute and call.           *)
(***************************************************************************)
(* The hardware, as the kernel sets its handler table up.                  *)
HandlerOf(n) ==
    IF n = ERROR THEN ErrorHandler ELSE IF n = TIMER THEN TimerHandler ELSE SyscallHandler

(* The registers are saved as `current', unless they are already.          *)
Entered(ip, current) ==
    /\ enabled' = FALSE
    /\ regs'.ip = ip
    /\ frame' = IF enabled THEN current ELSE frame
    /\ status' = status

LEMMA HandlerEntries ==
  /\ DOMAIN HandlerTable = 1 .. 128
  /\ \A n \in {ERROR, TIMER, SYSCALL} : HandlerTable[n] = HandlerOf(n) /\ HandlerOf(n) \in Nat \ {0}
  /\ \A n \in 1 .. 128 \ {ERROR, TIMER, SYSCALL} : HandlerTable[n] = 0
  BY DEF HandlerTable, HandlerOf, ERROR, TIMER, SYSCALL, ErrorHandler, TimerHandler, SyscallHandler

LEMMA EnterEffect ==
  ASSUME Hardware!HwTypeOK, NEW n \in {ERROR, TIMER, SYSCALL}, faulting' \in BOOLEAN,
         NEW current \in Hardware!Registers, Hardware!Enter(n, current, frame)
  PROVE  Entered(HandlerOf(n), current) /\ Hardware!HwTypeOK'
<1>1. HandlerTable[n] = HandlerOf(n) /\ HandlerOf(n) \in Nat
  BY HandlerEntries
<1>2. /\ regs' = [current EXCEPT !.ip = HandlerOf(n)]
      /\ mmu' = FALSE /\ enabled' = FALSE /\ status' = status
      /\ frame' = IF enabled THEN current ELSE frame
  BY <1>1 DEF Hardware!Enter
<1> HIDE DEF HandlerOf
<1> QED
  BY <1>1, <1>2 DEF Entered, Hardware!HwTypeOK, Hardware!Registers

LEMMA FaultEnters ==
  ASSUME Hardware!HwTypeOK, ~faulting, Hardware!Fault
  PROVE  Entered(ErrorHandler, regs) /\ Hardware!HwTypeOK'
<1>1. Hardware!Mapped(ERROR)
  BY HandlerEntries DEF Hardware!Mapped, Hardware!Known, ERROR, TIMER, SYSCALL
<1>2. faulting' = TRUE /\ Hardware!Enter(ERROR, regs, frame)
  BY <1>1 DEF Hardware!Fault, Hardware!FirstFault, Hardware!FAULT, ERROR
<1>3. regs \in Hardware!Registers
  BY DEF Hardware!HwTypeOK
<1> QED
  BY <1>2, <1>3, EnterEffect DEF HandlerOf

LEMMA DispatchEnters ==
  ASSUME Hardware!HwTypeOK, ~faulting, NEW n \in Nat \ {0},
         NEW current \in Hardware!Registers, Hardware!Dispatch(n, current)
  PROVE  /\ Hardware!HwTypeOK'
         /\ \/ /\ n \in {ERROR, TIMER, SYSCALL}
               /\ Entered(HandlerOf(n), current)
               /\ faulting' = FALSE
            \/ Entered(ErrorHandler, regs)
         /\ enabled \/ n = ERROR
<1>1. CASE Hardware!Known(n) /\ Hardware!Enter(n, current, frame) /\ UNCHANGED faulting
  <2>1. Hardware!Mapped(n)
    BY <1>1 DEF Hardware!Dispatch, Hardware!Accepts
  <2>2. n \in {ERROR, TIMER, SYSCALL}
    BY <2>1, HandlerEntries DEF Hardware!Mapped, Hardware!Known
  <2>3. faulting' = FALSE
    BY <1>1 DEF Hardware!HwTypeOK
  <2> QED
    BY <1>1, <2>2, <2>3, EnterEffect DEF Hardware!Dispatch, Hardware!Accepts, Hardware!FAULT, ERROR
<1>2. CASE Hardware!Fault
  BY <1>2, FaultEnters DEF Hardware!Dispatch, Hardware!Accepts, Hardware!FAULT, ERROR
<1> QED
  BY <1>1, <1>2 DEF Hardware!Dispatch

-----------------------------------------------------------------------------
(* The inductive invariant.  RunsOwnContext by itself is not inductive: a  *)
(* return restores what the schedule loaded, so that every saved context   *)
(* must be one that can be resumed, the kernel's too, and the kernel is    *)
(* advanced past its WAIT only when no process is left.                    *)
Resumable(task, context) ==
    /\ context.data.own = task
    /\ task = 0 => context.ip \in {Check, WaitInstruction}
    /\ task # 0 => context.ip \notin KernelCode \cup HandlerCode \cup {0}

CanResume(context) ==
    \/ Resumable(current_task, context)
    \/ /\ current_task = 0 /\ processes = {}
       /\ context.data.own = 0 /\ context.ip \in {Astray, AfterWait}

InShell == regs.ip = Shell /\ regs.data.own = 0 /\ current_task = 0

Typed == Hardware!HwTypeOK /\ state \in [Tasks -> Hardware!Registers]

FrameFits ==
    /\ ~InHandler => frame = Hardware!ZeroRegisters /\ (InShell \/ CanResume(regs))
    /\ InHandler => \/ CanResume(frame)
                    \/ regs.ip = ErrorHandler /\ frame = Hardware!ZeroRegisters
    /\ regs.ip = SyscallHandler => current_task # 0
    /\ regs.ip = ErrorHandler => current_task # 0 \/ frame.ip = Astray

ContextInv ==
    /\ ControlInv
    /\ Typed
    /\ KernelSurvives
    /\ current_table = current_task
    /\ SavedContexts
    /\ FrameFits

(* The addresses are apart.                                                *)
LEMMA Addresses ==
  /\ KernelCode = 5 .. 9 /\ HandlerCode = 1 .. 4 /\ UserCode = 10 .. 11
  /\ ErrorHandler = 1 /\ TimerHandler = 2 /\ SyscallHandler = 3 /\ Trampoline = 4
  /\ Shell = 5 /\ Check = 6 /\ Astray = 7 /\ WaitInstruction = 8 /\ AfterWait = 9
  BY DEF KernelCode, HandlerCode, UserCode, ErrorHandler, TimerHandler, SyscallHandler,
     Trampoline, Shell, Check, Astray, WaitInstruction, AfterWait

LEMMA ZeroIsContext == Hardware!ZeroRegisters \in Hardware!Registers
  BY KernelAssumption DEF Hardware!ZeroRegisters, Hardware!Registers, Data, Tasks

LEMMA ContextType ==
  ASSUME NEW ip \in Nat, NEW task \in Tasks
  PROVE  /\ Context(ip, task) \in Hardware!Registers
         /\ Context(ip, task).ip = ip /\ Context(ip, task).data.own = task
  BY KernelAssumption DEF Context, Hardware!Registers, Data

LEMMA InitContextInv == Init => ContextInv
<1> SUFFICES ASSUME Init PROVE ContextInv
  OBVIOUS
<1>1. 0 \in Tasks /\ Shell \in Nat
  BY Addresses DEF Tasks
<1>2. Context(Shell, 0) \in Hardware!Registers
      /\ Context(Shell, 0).ip = Shell /\ Context(Shell, 0).data.own = 0
  BY <1>1, ContextType
<1>3. /\ regs = Context(Shell, 0) /\ frame = Hardware!ZeroRegisters
      /\ ~enabled /\ enabled \in BOOLEAN /\ faulting = FALSE /\ mmu = FALSE /\ status = "on"
      /\ tasks = {0} /\ current_task = 0 /\ current_table = 0
      /\ state = [t \in Tasks |-> Context(Shell, 0)]
  BY DEF Init
<1>4. Typed
  BY <1>2, <1>3, ZeroIsContext DEF Typed, Hardware!HwTypeOK
<1>5. regs.ip = Shell /\ ~InHandler /\ InShell
  BY <1>2, <1>3, Addresses DEF InHandler, InShell
<1>6. KernelSurvives /\ FrameFits
  BY <1>3, <1>5, Addresses DEF KernelSurvives, FrameFits, InHandler
<1> QED
  BY <1>3, <1>4, <1>6, InitControlInv DEF ContextInv, SavedContexts

-----------------------------------------------------------------------------
(* An interrupt stores the registers, or leaves the stored ones alone.     *)
LEMMA InterruptKeepsContext ==
  ASSUME ContextInv, status = "on", ControlInv', UNCHANGED kernelVars,
         NEW n \in {ERROR, TIMER, SYSCALL}, NEW current \in Hardware!Registers,
         Entered(HandlerOf(n), current), Hardware!HwTypeOK',
         enabled, CanResume(current) \/ (n = ERROR /\ current = Hardware!ZeroRegisters),
         faulting' => n = ERROR,
         \/ n = TIMER \/ current_task # 0
         \/ n = ERROR /\ current.ip = Astray
  PROVE  ContextInv'
<1>1. /\ regs'.ip = HandlerOf(n) /\ frame' = current /\ ~enabled' /\ status' = "on"
      /\ UNCHANGED <<processes, tasks, current_task, current_table, state>>
  BY DEF Entered, ContextInv, KernelSurvives, kernelVars, taskVars, processVars
<1>2. /\ regs'.ip \in HandlerCode
      /\ regs'.ip = ErrorHandler <=> n = ERROR
      /\ regs'.ip = SyscallHandler <=> n = SYSCALL
      /\ ERROR # TIMER /\ ERROR # SYSCALL /\ TIMER # SYSCALL
  BY <1>1, Addresses DEF HandlerOf, ERROR, TIMER, SYSCALL
<1>3. FrameFits'
  BY <1>1, <1>2 DEF FrameFits, InHandler, CanResume, Resumable
<1> QED
  BY <1>1, <1>2, <1>3 DEF ContextInv, Typed, KernelSurvives, SavedContexts

LEMMA CallFaultsEnter ==
  ASSUME ContextInv, status = "on", CallFaults \/ OpenFaults
  PROVE  /\ regs.ip = SyscallHandler /\ CanResume(frame) /\ current_task # 0
         /\ regs'.ip = ErrorHandler /\ frame' = frame /\ ~enabled' /\ status' = "on"
         /\ UNCHANGED <<processes, tasks, current_task, current_table, state>>
         /\ Hardware!HwTypeOK'
<1>1. regs.ip = SyscallHandler /\ UNCHANGED <<taskVars, processVars>> /\ Hardware!Fault
  BY DEF CallFaults, OpenFaults, Called, kernelVars
<1>2. ~enabled /\ ~faulting /\ current_task # 0 /\ CanResume(frame)
  BY <1>1, Addresses DEF ContextInv, KernelSurvives, FrameFits, InHandler
<1>3. Entered(ErrorHandler, regs) /\ Hardware!HwTypeOK'
  BY <1>1, <1>2, FaultEnters DEF ContextInv, Typed
<1> QED
  BY <1>1, <1>2, <1>3 DEF Entered, taskVars, processVars

LEMMA CallFaultsKeepsContext ==
  ASSUME ContextInv, status = "on", ControlInv', CallFaults \/ OpenFaults
  PROVE  ContextInv'
<1>1. /\ CanResume(frame) /\ current_task # 0
      /\ regs'.ip = ErrorHandler /\ frame' = frame /\ ~enabled' /\ status' = "on"
      /\ UNCHANGED <<processes, tasks, current_task, current_table, state>>
      /\ Hardware!HwTypeOK'
  BY CallFaultsEnter
<1>2. FrameFits'
  BY <1>1, Addresses DEF FrameFits, InHandler, CanResume, Resumable
<1> QED
  BY <1>1, <1>2, Addresses DEF ContextInv, Typed, KernelSurvives, SavedContexts

(* A program, or the kernel while it waits, runs unmasked and with nothing *)
(* in the saved-register area.                                             *)
LEMMA Unmasked ==
  ASSUME ContextInv, enabled
  PROVE  /\ ~faulting /\ ~InHandler /\ frame = Hardware!ZeroRegisters
         /\ CanResume(regs) /\ regs \in Hardware!Registers
         /\ regs.ip \notin KernelCode => current_task # 0
<1>1. ~InHandler /\ regs.ip # Shell /\ ~faulting /\ regs \in Hardware!Registers
  BY Addresses
  DEF ContextInv, KernelSurvives, InHandler, Typed, Hardware!HwTypeOK
<1>2. frame = Hardware!ZeroRegisters /\ CanResume(regs)
  BY <1>1 DEF ContextInv, FrameFits, InShell
<1> QED
  BY <1>1, <1>2, Addresses DEF CanResume, Resumable

LEMMA UserIsUnmasked ==
  ASSUME ContextInv, InUser
  PROVE  enabled
  BY Addresses DEF ContextInv, KernelSurvives, InUser

LEMMA TickKeepsContext ==
  ASSUME ContextInv, status = "on", ControlInv', Tick
  PROVE  ContextInv'
<1>1. UNCHANGED kernelVars /\ Hardware!Dispatch(TIMER, regs) /\ enabled
  BY DEF Tick, Hardware!External, Hardware!Dispatch, Hardware!Accepts, Hardware!FAULT, TIMER
<1>2. ~faulting /\ CanResume(regs) /\ regs \in Hardware!Registers
  BY <1>1, Unmasked
<1>3. Hardware!Known(TIMER)
  BY HandlerEntries DEF Hardware!Known, TIMER
<1>4. Hardware!Enter(TIMER, regs, frame) /\ ~faulting' /\ faulting' \in BOOLEAN
  BY <1>1, <1>2, <1>3 DEF Hardware!Dispatch, ContextInv, Typed, Hardware!HwTypeOK
<1>5. Entered(HandlerOf(TIMER), regs) /\ Hardware!HwTypeOK'
  BY <1>2, <1>4, EnterEffect DEF ContextInv, Typed
<1> QED
  BY <1>1, <1>2, <1>4, <1>5, InterruptKeepsContext

LEMMA UserFaultKeepsContext ==
  ASSUME ContextInv, status = "on", ControlInv', enabled, regs.ip \notin KernelCode,
         Hardware!Fault, UNCHANGED kernelVars
  PROVE  ContextInv'
<1>1. ~faulting /\ CanResume(regs) /\ regs \in Hardware!Registers /\ current_task # 0
  BY Unmasked
<1>2. Entered(HandlerOf(ERROR), regs) /\ Hardware!HwTypeOK'
  BY <1>1, FaultEnters DEF ContextInv, Typed, HandlerOf
<1> QED
  BY <1>1, <1>2, InterruptKeepsContext

-----------------------------------------------------------------------------
(* What a program does with its own registers keeps them its own.          *)
LEMMA RegistersKeepContext ==
  ASSUME ContextInv, status = "on", ControlInv', enabled, regs.ip \notin KernelCode,
         UNCHANGED <<enabled, faulting, mmu, frame, status, kernelVars>>,
         regs' \in Hardware!Registers, regs'.ip \notin 0 .. 9,
         regs'.data.own = regs.data.own
  PROVE  ContextInv'
<1>1. CanResume(regs) /\ current_task # 0 /\ frame = Hardware!ZeroRegisters /\ ~faulting
  BY Unmasked
<1>2. UNCHANGED <<processes, tasks, current_task, current_table, state>>
  BY DEF kernelVars, taskVars, processVars
<1>3. Resumable(current_task, regs') /\ regs'.ip \notin HandlerCode \cup {Shell}
  BY <1>1, Addresses DEF CanResume, Resumable
<1>4. FrameFits' /\ KernelSurvives'
  BY <1>1, <1>2, <1>3, Addresses
  DEF FrameFits, InHandler, CanResume, Resumable, ContextInv, KernelSurvives
<1> QED
  BY <1>1, <1>2, <1>4 DEF ContextInv, Typed, Hardware!HwTypeOK, SavedContexts

At(context, ip) == [context EXCEPT !.ip = ip]
Computed(context, ip, r0) == [context EXCEPT !.ip = ip, !.data.r0 = r0]
WithResult(context, r0) == [context EXCEPT !.data.r0 = r0]

LEMMA ContextWith ==
  ASSUME NEW context \in Hardware!Registers, NEW ip \in Nat, NEW r0 \in Values
  PROVE  /\ At(context, ip) \in Hardware!Registers
         /\ At(context, ip).ip = ip
         /\ At(context, ip).data.own = context.data.own
         /\ Computed(context, ip, r0) \in Hardware!Registers
         /\ Computed(context, ip, r0).ip = ip
         /\ Computed(context, ip, r0).data.own = context.data.own
         /\ WithResult(context, r0) \in Hardware!Registers
         /\ WithResult(context, r0).ip = context.ip
         /\ WithResult(context, r0).data.own = context.data.own
  BY DEF At, Computed, WithResult, Hardware!Registers, Data

LEMMA ComputeKeepsContext ==
  ASSUME ContextInv, status = "on", ControlInv', Compute
  PROVE  ContextInv'
<1>1. enabled /\ regs.ip \notin KernelCode /\ regs \in Hardware!Registers
  <2>1. InUser /\ regs.ip \notin KernelCode
    <3>1. regs.ip \in UserCode
      BY Zenon DEF Compute
    <3> QED
      BY <3>1, Addresses DEF InUser
  <2> QED
    BY <2>1, UserIsUnmasked DEF ContextInv, Typed, Hardware!HwTypeOK
<1>2. PICK ip \in UserCode, r0 \in Values : regs' = Computed(regs, ip, r0)
  BY Zenon DEF Compute, Computed
<1>3. ip \in Nat /\ ip \notin 0 .. 9
  BY Addresses
<1>4. /\ regs' \in Hardware!Registers /\ regs'.ip \notin 0 .. 9
      /\ regs'.data.own = regs.data.own
  BY <1>1, <1>2, <1>3, ContextWith
<1>5. UNCHANGED <<enabled, faulting, mmu, frame, status, kernelVars>>
  BY Zenon DEF Compute
<1> QED
  BY <1>1, <1>4, <1>5, RegistersKeepContext

LEMMA RaiseKeepsContext ==
  ASSUME ContextInv, status = "on", ControlInv', RaiseInterrupt
  PROVE  ContextInv'
<1> DEFINE current == [regs EXCEPT !.ip = @ + 1]
<1>1. PICK n \in UserInterrupts : Hardware!SoftwareInterrupt(n)
  BY DEF RaiseInterrupt
<1>2. /\ enabled /\ regs.ip \in 10 .. 11 /\ regs.ip \notin KernelCode
      /\ n \in Nat /\ UNCHANGED kernelVars
  <2>1. regs.ip \in UserCode /\ UNCHANGED kernelVars
    BY Zenon DEF RaiseInterrupt
  <2>2. InUser
    BY <2>1, Addresses DEF InUser
  <2> QED
    BY <2>1, <2>2, UserIsUnmasked, Addresses, KernelAssumption
<1>3. /\ ~faulting /\ CanResume(regs) /\ regs \in Hardware!Registers /\ current_task # 0
      /\ frame = Hardware!ZeroRegisters
  BY <1>2, Unmasked
<1>4. /\ current \in Hardware!Registers /\ current.ip \notin 0 .. 9
      /\ current.data.own = regs.data.own
  BY <1>2, <1>3 DEF Hardware!Registers, Data
<1> HIDE DEF current
<1>5. CanResume(current)
  BY <1>3, <1>4, Addresses DEF CanResume, Resumable
<1>6. CASE n = 0 /\ Hardware!Return
  <2>1. Hardware!FirstFault(Hardware!ZeroRegisters, Hardware!ZeroRegisters)
    BY <1>3, <1>6 DEF Hardware!Return, Hardware!ZeroRegisters
  <2>2. Hardware!Mapped(ERROR)
    BY HandlerEntries DEF Hardware!Mapped, Hardware!Known, ERROR
  <2>3. faulting' = TRUE /\ Hardware!Enter(ERROR, Hardware!ZeroRegisters, frame)
    BY <1>3, <2>1, <2>2 DEF Hardware!FirstFault, Hardware!FAULT, ERROR
  <2>4. Entered(HandlerOf(ERROR), Hardware!ZeroRegisters) /\ Hardware!HwTypeOK'
    BY <2>3, EnterEffect, ZeroIsContext DEF ContextInv, Typed
  <2> QED
    BY <1>2, <1>3, <2>4, ZeroIsContext, InterruptKeepsContext
<1>7. CASE n # 0 /\ Hardware!Dispatch(n, current)
  <2>1. /\ Hardware!HwTypeOK'
        /\ \/ /\ n \in {ERROR, TIMER, SYSCALL}
              /\ Entered(HandlerOf(n), current)
              /\ faulting' = FALSE
           \/ Entered(ErrorHandler, regs)
    BY <1>2, <1>3, <1>4, <1>7, DispatchEnters DEF ContextInv, Typed
  <2>2. CASE n \in {ERROR, TIMER, SYSCALL} /\ Entered(HandlerOf(n), current) /\ ~faulting'
    BY <1>2, <1>3, <1>4, <1>5, <2>1, <2>2, InterruptKeepsContext
  <2>3. CASE Entered(HandlerOf(ERROR), regs)
    BY <1>2, <1>3, <2>1, <2>3, InterruptKeepsContext
  <2> QED
    BY <2>1, <2>2, <2>3 DEF HandlerOf
<1>8. CASE Hardware!Advance
  <2>1. regs' = current
    BY <1>8 DEF Hardware!Advance, current
  <2> QED
    BY <1>2, <1>4, <1>8, <2>1, RegistersKeepContext DEF Hardware!Advance
<1> QED
  BY <1>1, <1>6, <1>7, <1>8 DEF Hardware!SoftwareInterrupt, Hardware!RETURN, current

LEMMA ReturnKeepsContext ==
  ASSUME ContextInv, status = "on", ControlInv', InterruptReturn
  PROVE  ContextInv'
<1>1. regs.ip = Trampoline /\ UNCHANGED kernelVars /\ Hardware!Return
  BY DEF InterruptReturn, Hardware!SoftwareInterrupt, Hardware!RETURN
<1>2. CanResume(frame) /\ frame \in Hardware!Registers
  BY <1>1, Addresses DEF ContextInv, FrameFits, InHandler, Typed, Hardware!HwTypeOK
<1>3. frame.ip # 0 /\ frame.ip \notin HandlerCode \cup {Shell}
  BY <1>2, Addresses DEF CanResume, Resumable
<1>4. /\ regs' = frame /\ frame' = Hardware!ZeroRegisters
      /\ faulting' = FALSE /\ enabled' = TRUE /\ mmu' = TRUE /\ status' = status
  BY <1>1, <1>3 DEF Hardware!Return
<1>5. UNCHANGED <<processes, tasks, current_task, current_table, state>>
  BY <1>1 DEF kernelVars, taskVars, processVars
<1>6. FrameFits'
  BY <1>2, <1>3, <1>4, <1>5, Addresses DEF FrameFits, InHandler, CanResume, Resumable
<1> QED
  BY <1>2, <1>3, <1>4, <1>5, <1>6, ZeroIsContext
  DEF ContextInv, Typed, Hardware!HwTypeOK, KernelSurvives, SavedContexts

-----------------------------------------------------------------------------
(* The kernel goes about its business; it masks interrupts to go back to   *)
(* the shell, and only then.                                               *)
LEMMA GotoKeepsContext ==
  ASSUME ContextInv, status = "on", ControlInv', NEW ip, NEW mask \in BOOLEAN, Goto(ip, mask),
         regs.ip \in {Shell, Check, Astray, AfterWait},
         \/ ip \in {Check, WaitInstruction} /\ mask
         \/ ip = Shell /\ ~mask
  PROVE  ContextInv'
<1>1. /\ ~InHandler /\ ~faulting /\ regs \in Hardware!Registers
      /\ frame = Hardware!ZeroRegisters
      /\ InShell \/ CanResume(regs)
  BY Addresses
  DEF ContextInv, FrameFits, InHandler, KernelSurvives, Typed, Hardware!HwTypeOK
<1>2. current_task = 0 /\ regs.data.own = 0
  BY <1>1, Addresses DEF InShell, CanResume, Resumable
<1>3. ip \in Nat
  BY Addresses
<1>4. regs' = At(regs, ip)
  BY Zenon DEF Goto, At
<1>5. regs' \in Hardware!Registers /\ regs'.ip = ip /\ regs'.data.own = 0
  BY <1>1, <1>2, <1>3, <1>4, ContextWith, KernelAssumption
<1>6. enabled' = mask /\ UNCHANGED <<faulting, mmu, frame, status>>
      /\ UNCHANGED <<processes, tasks, current_task, current_table, state>>
  BY DEF Goto, taskVars
<1>7. FrameFits'
  BY <1>1, <1>2, <1>5, <1>6, Addresses
  DEF FrameFits, InHandler, InShell, CanResume, Resumable
<1>8. KernelSurvives'
  BY <1>1, <1>5, <1>6, Addresses DEF KernelSurvives, ContextInv
<1> QED
  BY <1>5, <1>6, <1>7, <1>8 DEF ContextInv, Typed, Hardware!HwTypeOK, SavedContexts

LEMMA WaitingKeepsContext ==
  ASSUME ContextInv, status = "on", ControlInv', WaitForProcess \/ CheckProcess \/ ReturnFromWait
  PROVE  ContextInv'
<1>1. CASE WaitForProcess
  BY <1>1, GotoKeepsContext DEF WaitForProcess
<1>2. CASE CheckProcess
  BY <1>2, GotoKeepsContext DEF CheckProcess
<1>3. CASE ReturnFromWait
  BY <1>3, GotoKeepsContext DEF ReturnFromWait
<1> QED
  BY <1>1, <1>2, <1>3

(* Only the kernel goes astray, and with no process left.                  *)
LEMMA AstrayIsAlone ==
  ASSUME NEW context, CanResume(context), context.ip = Astray
  PROVE  current_task = 0 /\ processes = {}
  BY Addresses DEF CanResume, Resumable

(* Where it was resumed astray no process is left, and what it does there  *)
(* is its own affair: it goes on, halts, or faults for itself.             *)
LEMMA AstrayKeepsContext ==
  ASSUME ContextInv, status = "on", ControlInv', GoesAstray
  PROVE  ContextInv'
<1>1. regs.ip = Astray
  BY DEF GoesAstray, LoopsAstray, HaltsAstray, FaultsAstray
<1>2. enabled
  BY <1>1, Addresses DEF ContextInv, KernelSurvives
<1>3. ~faulting /\ CanResume(regs) /\ regs \in Hardware!Registers
  BY <1>2, Unmasked
<1>4. CASE LoopsAstray
  BY <1>1, <1>4, GotoKeepsContext DEF LoopsAstray
<1>5. CASE HaltsAstray
  <2>1. /\ UNCHANGED <<enabled, faulting, mmu, regs, frame>> /\ status' = "halted"
        /\ UNCHANGED <<processes, tasks, current_task, current_table, state>>
    BY <1>5 DEF HaltsAstray, Hardware!Halt, kernelVars, taskVars, processVars
  <2>2. processes = {}
    BY <1>1, <1>3, AstrayIsAlone
  <2>3. KernelSurvives'
    BY <1>1, <2>1, <2>2 DEF ContextInv, KernelSurvives
  <2> QED
    BY <2>1, <2>3
    DEF ContextInv, Typed, Hardware!HwTypeOK, SavedContexts, FrameFits,
        InHandler, InShell, CanResume, Resumable
<1>6. CASE FaultsAstray
  <2>1. Hardware!Fault /\ UNCHANGED kernelVars
    BY <1>6 DEF FaultsAstray
  <2>2. Entered(HandlerOf(ERROR), regs) /\ Hardware!HwTypeOK'
    BY <1>3, <2>1, FaultEnters DEF ContextInv, Typed, HandlerOf
  <2> QED
    BY <1>1, <1>2, <1>3, <2>1, <2>2, InterruptKeepsContext
<1> QED
  BY <1>4, <1>5, <1>6 DEF GoesAstray

(* A new process is to start in its own code with its own registers.       *)
LEMMA CreateKeepsContext ==
  ASSUME ContextInv, status = "on", ControlInv', NEW parent \in processes \cup {0}, CreateProcess(parent)
  PROVE  ContextInv'
<1>1. /\ regs.ip = Shell /\ tasks' = tasks \cup {id} /\ processes' = processes \cup {id}
      /\ state' = [state EXCEPT ![id] = Context(10, id)]
      /\ UNCHANGED <<current_task, current_table>>
  BY DEF CreateProcess
<1>2. UNCHANGED <<enabled, faulting, mmu, regs, frame, status>>
  BY DEF CreateProcess, hwVars
<1>3. id \in Pids /\ id \in Tasks /\ id # 0
  BY CreateTableKeepsMemory
  DEF ContextInv, ControlInv, CreateProcess, CanCreate, Tasks, Pids
<1>4. /\ Context(10, id) \in Hardware!Registers
      /\ Context(10, id).ip = 10 /\ Context(10, id).data.own = id
  BY <1>3, ContextType
<1>5. state \in [Tasks -> Hardware!Registers]
  BY DEF ContextInv, Typed
<1>6. /\ state' \in [Tasks -> Hardware!Registers]
      /\ state'[id] = Context(10, id)
      /\ \A t \in Tasks : t # id => state'[t] = state[t]
  BY <1>1, <1>3, <1>4, <1>5, Zenon
<1>7. InShell
  BY <1>1, Addresses
  DEF ContextInv, FrameFits, InHandler, CanResume, Resumable, InShell
<1>8. FrameFits' /\ KernelSurvives'
  BY <1>1, <1>2, <1>7, Addresses
  DEF ContextInv, KernelSurvives, FrameFits, InHandler, InShell
<1>9. SavedContexts'
  <2> SUFFICES ASSUME NEW t \in tasks', t # current_task'
               PROVE  Resumable(t, state'[t])
    BY DEF SavedContexts, Resumable
  <2>1. CASE t = id
    BY <2>1, <1>3, <1>4, <1>6, Addresses DEF Resumable
  <2>2. CASE t # id
    <3>1. t \in tasks \ {current_task} /\ t \in Tasks
      BY <2>2, <1>1 DEF ContextInv, ControlInv, TasksMatchProcesses, Tasks
    <3>2. state'[t] = state[t]
      BY <3>1, <2>2, <1>6
    <3> QED
      BY <3>1, <3>2 DEF ContextInv, SavedContexts, Resumable
  <2> QED
    BY <2>1, <2>2
<1> QED
  BY <1>1, <1>2, <1>6, <1>8, <1>9 DEF ContextInv, Typed, Hardware!HwTypeOK

-----------------------------------------------------------------------------
(* A handler ends with a context to return to in the saved-register area.  *)
LEMMA HandlerEndKeepsContext ==
  ASSUME ContextInv, status = "on", ControlInv', InHandler, HandlerEnds,
         frame' \in Hardware!Registers, CanResume(frame)',
         state' \in [Tasks -> Hardware!Registers], current_table' = current_task',
         SavedContexts'
  PROVE  ContextInv'
<1>1. regs' = At(regs, Trampoline)
  BY Zenon DEF HandlerEnds, At
<1>2. regs \in Hardware!Registers /\ ~enabled
  BY Addresses DEF ContextInv, Typed, Hardware!HwTypeOK, KernelSurvives, InHandler
<1>3. regs' \in Hardware!Registers /\ regs'.ip = Trampoline
  <2>1. Trampoline \in Nat /\ 0 \in Values
    BY Addresses, KernelAssumption
  <2> QED
    BY <1>1, <1>2, <2>1, ContextWith
<1>4. UNCHANGED <<enabled, faulting, mmu, status>>
  BY DEF HandlerEnds
<1>5. FrameFits' /\ KernelSurvives'
  BY <1>2, <1>3, <1>4, Addresses DEF FrameFits, InHandler, KernelSurvives, ContextInv
<1> QED
  BY <1>3, <1>4, <1>5 DEF ContextInv, Typed, Hardware!HwTypeOK

(* The turn goes to a process unless the current task is alone.            *)
LEMMA NextTaskIsProcess ==
  ASSUME ControlInv, ~OnlyTask
  PROVE  NextTask \in tasks \ {0}
<1>1. tasks \subseteq Tasks /\ current_task \in tasks /\ tasks \ {0} # {}
  BY DEF ControlInv, TasksMatchProcesses, Tasks, OnlyTask
<1>2. \A t \in tasks : t \in Nat
  BY <1>1, MemoryAssumption DEF Tasks, Pids
<1>3. FirstTask(tasks) # 0
  <2>1. PICK t \in tasks : t # 0
    BY <1>1
  <2>2. Max(tasks) >= t
    BY <1>1, GreatestExists
  <2> QED
    BY <1>2, <2>1, <2>2 DEF FirstTask
<1>4. ASSUME Below(current_task) \ {0} # {}
      PROVE  Max(Below(current_task)) # 0
  <2>1. Below(current_task) \subseteq tasks
    BY DEF Below
  <2>2. PICK t \in Below(current_task) : t # 0
    BY <1>4
  <2>3. Max(Below(current_task)) >= t
    BY <1>1, <2>1, GreatestExists
  <2> QED
    BY <1>2, <2>1, <2>2, <2>3
<1>5. NextTask # 0
  BY <1>3, <1>4 DEF NextTask
<1> QED
  BY <1>5, NextTaskIsTask

LEMMA ScheduleHandsContext ==
  ASSUME ContextInv, CanResume(frame), ScheduleTask, UNCHANGED <<tasks, processes>>,
         frame' \in Hardware!Registers,
         frame'.ip = ScheduledFrame.ip, frame'.data.own = ScheduledFrame.data.own
  PROVE  /\ CanResume(frame)'
         /\ state' \in [Tasks -> Hardware!Registers]
         /\ current_table' = current_task'
         /\ SavedContexts'
<1>1. CASE OnlyTask
  <2>1. UNCHANGED <<current_task, state, current_table>> /\ ScheduledFrame = frame
    BY <1>1 DEF ScheduleTask, ScheduledFrame
  <2> QED
    BY <2>1 DEF ContextInv, Typed, CanResume, Resumable, SavedContexts
<1>2. CASE ~OnlyTask
  <2>1. /\ state' = [state EXCEPT ![current_task] = frame]
        /\ current_task' = NextTask /\ current_table' = NextTask
        /\ NextTask \in tasks \ {0}
    BY <1>2, NextTaskIsProcess DEF ScheduleTask, ContextInv
  <2>2. state \in [Tasks -> Hardware!Registers] /\ frame \in Hardware!Registers
    BY DEF ContextInv, Typed, Hardware!HwTypeOK
  <2>3. /\ current_task \in Tasks /\ tasks \subseteq Tasks
        /\ current_task \in tasks /\ processes # {}
    BY <2>1 DEF ContextInv, ControlInv, TasksMatchProcesses, Tasks
  <2>4. /\ state' \in [Tasks -> Hardware!Registers]
        /\ state'[current_task] = frame
        /\ \A t \in Tasks : t # current_task => state'[t] = state[t]
    BY <2>1, <2>2, <2>3, Zenon
  <2>5. Resumable(current_task, frame)
    BY <2>3 DEF CanResume
  <2>6. Resumable(NextTask, ScheduledFrame)
    <3>1. CASE NextTask = current_task
      BY <3>1, <2>5 DEF ScheduledFrame
    <3>2. CASE NextTask # current_task
      <4>1. ScheduledFrame = state[NextTask]
        BY <1>2, <2>1, <3>2 DEF ScheduledFrame
      <4> QED
        BY <2>1, <3>2, <4>1 DEF ContextInv, SavedContexts, Resumable
    <3> QED
      BY <3>1, <3>2
  <2>7. CanResume(frame)'
    BY <2>1, <2>6 DEF CanResume, Resumable
  <2>8. SavedContexts'
    <3> SUFFICES ASSUME NEW t \in tasks, t # NextTask
                 PROVE  Resumable(t, state'[t])
      BY <2>1 DEF SavedContexts, Resumable
    <3>1. CASE t = current_task
      BY <3>1, <2>4, <2>5
    <3>2. CASE t # current_task
      <4>1. state'[t] = state[t]
        BY <3>2, <2>3, <2>4
      <4> QED
        BY <3>2, <4>1 DEF ContextInv, SavedContexts, Resumable
    <3> QED
      BY <3>1, <3>2
  <2> QED
    BY <2>1, <2>4, <2>7, <2>8
<1> QED
  BY <1>1, <1>2

LEMMA ScheduledFrameType ==
  ASSUME ContextInv
  PROVE  ScheduledFrame \in Hardware!Registers
<1>1. NextTask \in Tasks
  BY NextTaskIsTask DEF ContextInv, ControlInv, TasksMatchProcesses, Tasks
<1> QED
  BY <1>1 DEF ScheduledFrame, ContextInv, Typed, Hardware!HwTypeOK

LEMMA SchedulingKeepsContext ==
  ASSUME ContextInv, status = "on", ControlInv', TimerInterrupt \/ Yield
  PROVE  ContextInv'
<1>1. /\ InHandler /\ ScheduleTask /\ HandlerEnds /\ UNCHANGED <<tasks, processes>>
      /\ frame' \in {ScheduledFrame, WithResult(ScheduledFrame, 0)}
  <2>1. TimerInterrupt => /\ ScheduleTask /\ HandlerEnds /\ UNCHANGED <<tasks, processes>>
                          /\ frame' = ScheduledFrame /\ regs.ip = TimerHandler
    BY Zenon DEF TimerInterrupt, processVars
  <2>2. Yield => /\ ScheduleTask /\ HandlerEnds /\ UNCHANGED <<tasks, processes>>
                 /\ frame' = WithResult(ScheduledFrame, 0) /\ regs.ip = SyscallHandler
    BY Zenon DEF Yield, Called, processVars, WithResult
  <2> QED
    BY <2>1, <2>2, Addresses DEF InHandler
<1>2. CanResume(frame)
  <2>1. regs.ip # ErrorHandler
    BY Addresses DEF TimerInterrupt, Yield, Called
  <2> QED
    BY <1>1, <2>1 DEF ContextInv, FrameFits
<1>3. /\ frame' \in Hardware!Registers /\ frame'.ip = ScheduledFrame.ip
      /\ frame'.data.own = ScheduledFrame.data.own
  <2>1. 0 \in Values /\ 0 \in Nat
    BY KernelAssumption
  <2> QED
    BY <1>1, <2>1, ScheduledFrameType, ContextWith
<1>4. /\ CanResume(frame)'
      /\ state' \in [Tasks -> Hardware!Registers]
      /\ current_table' = current_task'
      /\ SavedContexts'
  BY <1>1, <1>2, <1>3, ScheduleHandsContext
<1> QED
  BY <1>1, <1>3, <1>4, HandlerEndKeepsContext

(* A process that dies hands over to one that is left, or to the kernel    *)
(* when none is.                                                           *)
LEMMA KillHandsOver ==
  ASSUME ContextInv, ControlInv', current_task # 0, KillCurrent
  PROVE  /\ HandlerEnds
         /\ current_task \in processes
         /\ processes' \subseteq processes \ {current_task}
         /\ tasks' \subseteq tasks \ {current_task}
         /\ current_task' \in tasks' /\ current_table' = current_task'
         /\ current_task' = 0 => processes' = {}
         /\ Resumable(current_task', state[current_task'])
         /\ frame' = AdvanceKernel(current_task', state[current_task'])
         /\ state' = [state EXCEPT ![current_task'] = frame']
<1> DEFINE D == Descendants(current_task)
           next == current_task'
<1>1. current_task \in processes /\ DestroyProcess(current_task) /\ HandlerEnds
  BY DEF KillCurrent, ContextInv, ControlInv, TasksMatchProcesses
<1>2. D \subseteq processes /\ current_task \in D
  BY <1>1, DescendantsAreClosed
<1>3. /\ processes' = processes \ D /\ tasks' = tasks \ D
      /\ next = FirstTask(tasks \ D) /\ current_table' = next
      /\ state' = [state EXCEPT ![next] = AdvanceKernel(next, state[next])]
      /\ frame' = AdvanceKernel(next, state[next])
  BY <1>1, Zenon DEF DestroyProcess, DestroyTasks
<1> HIDE DEF D
<1>4. /\ processes' \subseteq processes \ {current_task}
      /\ tasks' \subseteq tasks \ {current_task}
      /\ tasks' \subseteq Tasks /\ next \in tasks'
  BY <1>2, <1>3 DEF ControlInv, TasksMatchProcesses, Tasks
<1>5. Resumable(next, state[next])
  BY <1>4 DEF ContextInv, SavedContexts, Resumable
<1>6. next = 0 => processes' = {}
  <2>1. \A t \in tasks' : next >= t
    BY <1>3, <1>4, GreatestExists DEF FirstTask
  <2>2. \A p \in processes' : p \in Nat \ {0} /\ p \in tasks'
    BY MemoryAssumption DEF ControlInv, TasksMatchProcesses, Pids
  <2> QED
    BY <2>1, <2>2
<1> QED
  BY <1>1, <1>3, <1>4, <1>5, <1>6

LEMMA KillKeepsContext ==
  ASSUME ContextInv, status = "on", ControlInv', InHandler, current_task # 0, KillCurrent
  PROVE  ContextInv'
<1> DEFINE next == current_task'
<1>1. /\ HandlerEnds
      /\ tasks' \subseteq tasks \ {current_task}
      /\ next \in tasks' /\ current_table' = next
      /\ next = 0 => processes' = {}
      /\ Resumable(next, state[next])
      /\ frame' = AdvanceKernel(next, state[next])
      /\ state' = [state EXCEPT ![next] = frame']
  BY KillHandsOver
<1>2. state \in [Tasks -> Hardware!Registers] /\ tasks' \subseteq Tasks /\ next \in Tasks
  BY <1>1 DEF ContextInv, Typed, ControlInv, TasksMatchProcesses, Tasks
<1>3. /\ frame' \in Hardware!Registers
      /\ CanResume(frame)'
  <2>1. CASE next # 0
    <3>1. frame' = state[next]
      BY <1>1, <2>1 DEF AdvanceKernel
    <3> QED
      BY <1>1, <1>2, <3>1 DEF CanResume, Resumable
  <2>2. CASE next = 0
    <3>1. /\ state[0] \in Hardware!Registers
          /\ state[0].ip \in {Check, WaitInstruction} /\ state[0].data.own = 0
      BY <1>1, <1>2, <2>2 DEF Resumable
    <3>2. frame' = At(state[0], state[0].ip + 1)
      BY <1>1, <2>2 DEF AdvanceKernel, At
    <3>3. frame' \in Hardware!Registers /\ frame'.ip = state[0].ip + 1 /\ frame'.data.own = 0
      <4>1. state[0].ip + 1 \in Nat /\ 0 \in Values
        BY <3>1, Addresses, KernelAssumption
      <4> QED
        BY <3>1, <3>2, <4>1, ContextWith
    <3> QED
      BY <1>1, <2>2, <3>1, <3>3, Addresses DEF CanResume
  <2> QED
    BY <2>1, <2>2
<1>4. /\ state' \in [Tasks -> Hardware!Registers]
      /\ \A t \in Tasks : t # next => state'[t] = state[t]
  BY <1>1, <1>2, <1>3, Zenon
<1>5. SavedContexts'
  <2> SUFFICES ASSUME NEW t \in tasks', t # next
               PROVE  Resumable(t, state'[t])
    BY DEF SavedContexts, Resumable
  <2>1. t \in tasks \ {current_task} /\ state'[t] = state[t]
    BY <1>1, <1>2, <1>4
  <2> QED
    BY <2>1 DEF ContextInv, SavedContexts, Resumable
<1> QED
  BY <1>1, <1>3, <1>4, <1>5, HandlerEndKeepsContext

(* Every other system call writes its result into the caller's context.    *)
LEMMA ResultKeepsContext ==
  ASSUME ContextInv, status = "on", ControlInv', regs.ip = SyscallHandler,
         NEW result \in Values, SetResult(result)
  PROVE  ContextInv'
<1>1. /\ frame' = WithResult(frame, result) /\ HandlerEnds
      /\ UNCHANGED <<processes, tasks, current_task, current_table, state>>
  BY Zenon DEF SetResult, taskVars, processVars, WithResult
<1>2. InHandler /\ CanResume(frame) /\ frame \in Hardware!Registers
  BY Addresses DEF InHandler, ContextInv, FrameFits, Typed, Hardware!HwTypeOK
<1>3. /\ frame' \in Hardware!Registers /\ frame'.ip = frame.ip
      /\ frame'.data.own = frame.data.own
  <2>1. 0 \in Nat
    OBVIOUS
  <2> QED
    BY <1>1, <1>2, <2>1, ContextWith
<1>4. CanResume(frame)'
  BY <1>1, <1>2, <1>3 DEF CanResume, Resumable
<1> QED
  BY <1>1, <1>2, <1>3, <1>4, HandlerEndKeepsContext
  DEF ContextInv, Typed, SavedContexts

LEMMA SyscallKeepsContext ==
  ASSUME ContextInv, status = "on", ControlInv', SyscallInterrupt
  PROVE  ContextInv'
<1>1. regs.ip = SyscallHandler
  BY DEF SyscallInterrupt, Exit, Yield, OpenDisplay, FlipDisplay, CloseDisplay, OtherCall,
     CallFaults, OpenFaults, Called
<1>2. InHandler /\ current_task # 0
  BY <1>1, Addresses DEF InHandler, ContextInv, FrameFits
<1>3. CASE Exit
  BY <1>2, <1>3, KillKeepsContext DEF Exit
<1>4. CASE Yield
  BY <1>4, SchedulingKeepsContext
<1>5. CASE CallFaults \/ OpenFaults
  BY <1>5, CallFaultsKeepsContext
<1>6. CASE OpenDisplay \/ FlipDisplay \/ CloseDisplay \/ OtherCall
  <2>1. \E result \in Values : SetResult(result)
    BY <1>6, KernelAssumption DEF OpenDisplay, FlipDisplay, CloseDisplay, OtherCall
  <2> QED
    BY <1>1, <2>1, ResultKeepsContext
<1> QED
  BY <1>3, <1>4, <1>5, <1>6 DEF SyscallInterrupt

LEMMA NextContextInv == ContextInv /\ [Next]_vars => ContextInv'
<1> SUFFICES ASSUME ContextInv, [Next]_vars PROVE ContextInv'
  OBVIOUS
<1>1. ControlInv'
  BY NextControlInv DEF ContextInv
<1>2. ASSUME UNCHANGED vars PROVE ContextInv'
  <2>1. UNCHANGED <<enabled, faulting, mmu, regs, frame, status>>
    BY <1>2 DEF vars, hwVars
  <2>2. UNCHANGED <<processes, tasks, current_task, current_table, state>>
    BY <1>2 DEF vars, kernelVars, taskVars, processVars
  <2> QED
    BY <1>1, <2>1, <2>2
    DEF ContextInv, Typed, Hardware!HwTypeOK, KernelSurvives, SavedContexts, FrameFits,
        InHandler, InShell, CanResume, Resumable
<1>3. CASE status = "on" /\ Kernel
  <2>1. CASE \E parent \in processes \cup {0} : CreateProcess(parent)
    BY <1>1, <1>3, <2>1, CreateKeepsContext
  <2>2. CASE CreateFails
    BY <1>2, <2>2 DEF CreateFails
  <2>3. CASE WaitForProcess \/ CheckProcess \/ ReturnFromWait
    BY <1>1, <1>3, <2>3, WaitingKeepsContext
  <2>4. CASE GoesAstray
    BY <1>1, <1>3, <2>4, AstrayKeepsContext
  <2> QED
    BY <1>3, <2>1, <2>2, <2>3, <2>4 DEF Kernel
<1>4. CASE status = "on" /\ Compute
  BY <1>1, <1>4, ComputeKeepsContext
<1>5. CASE status = "on" /\ RaiseInterrupt
  BY <1>1, <1>5, RaiseKeepsContext
<1>6. CASE status = "on" /\ UserFault
  BY <1>1, <1>6, UserIsUnmasked, UserFaultKeepsContext DEF UserFault, InUser
<1>7. CASE status = "on" /\ Tick
  BY <1>1, <1>7, TickKeepsContext
<1>8. CASE status = "on" /\ TimerInterrupt
  BY <1>1, <1>8, SchedulingKeepsContext
<1>9. CASE status = "on" /\ ErrorInterrupt
  <2>1. regs.ip = ErrorHandler /\ InHandler /\ KillCurrent
    BY <1>9, Addresses DEF ErrorInterrupt, InHandler
  <2>2. CASE current_task # 0
    BY <1>1, <1>9, <2>1, <2>2, KillKeepsContext
  <2>3. CASE current_task = 0
    <3>1. frame.ip = Astray
      BY <2>1, <2>3 DEF ContextInv, FrameFits
    <3>2. Panic
      BY <2>1, <2>3, MemoryAssumption DEF KillCurrent, ContextInv, ControlInv, Pids
    <3>3. /\ UNCHANGED <<enabled, faulting, mmu, regs, frame>> /\ status' = "halted"
          /\ UNCHANGED <<processes, tasks, current_task, current_table, state>>
      BY <3>2 DEF Panic, Hardware!Halt, kernelVars, taskVars, processVars
    <3>4. CanResume(frame)
      <4>1. frame # Hardware!ZeroRegisters
        BY <3>1, Addresses DEF Hardware!ZeroRegisters
      <4> QED BY <2>1, <4>1 DEF ContextInv, FrameFits
    <3>5. processes = {}
      BY <3>1, <3>4, AstrayIsAlone
    <3>6. KernelSurvives'
      BY <2>1, <3>1, <3>3, <3>5 DEF ContextInv, KernelSurvives
    <3> QED
      BY <1>1, <3>3, <3>6
      DEF ContextInv, Typed, Hardware!HwTypeOK, SavedContexts, FrameFits,
          InHandler, InShell, CanResume, Resumable
  <2> QED
    BY <2>2, <2>3
<1>10. CASE status = "on" /\ SyscallInterrupt
  BY <1>1, <1>10, SyscallKeepsContext
<1>11. CASE status = "on" /\ InterruptReturn
  BY <1>1, <1>11, ReturnKeepsContext
<1> QED
  BY <1>2, <1>3, <1>4, <1>5, <1>6, <1>7, <1>8, <1>9, <1>10, <1>11
  DEF Next, Step, Stopped, User, Handler

LEMMA AlwaysContextInv == Spec => []ContextInv
  BY InitContextInv, NextContextInv, PTL DEF Spec

-----------------------------------------------------------------------------
(* Programs are separated: none ever runs with another's registers or page *)
(* table, however the scheduler, deaths and interrupts interleave.         *)
THEOREM ProgramsAreSeparated == Spec => []RunsOwnContext
<1>1. ContextInv => RunsOwnContext
  <2> SUFFICES ASSUME ContextInv PROVE RunsOwnContext
    OBVIOUS
  <2>1. ~InHandler => regs.data.own = current_task
    BY DEF ContextInv, FrameFits, InShell, CanResume, Resumable
  <2>2. InHandler => \/ frame.data.own = current_task
                     \/ regs.ip = ErrorHandler /\ frame = Hardware!ZeroRegisters
    BY DEF ContextInv, FrameFits, CanResume, Resumable
  <2> QED
    BY <2>1, <2>2 DEF ContextInv, RunsOwnContext
<1> QED
  BY <1>1, AlwaysContextInv, PTL

(* Every task that waits its turn can be resumed where it was.             *)
THEOREM WaitingTasksCanResume == Spec => []SavedContexts
<1>1. ContextInv => SavedContexts
  BY DEF ContextInv
<1> QED
  BY <1>1, AlwaysContextInv, PTL

(* No program, whatever it computes, calls or raises, makes the kernel     *)
(* panic or halt or the machine double-fault while another is there.  The  *)
(* kernel by itself may halt, or fault and panic, and only where it was    *)
(* resumed astray after the last process died.                             *)
THEOREM NoProgramStopsTheKernel == Spec => []KernelSurvives
<1>1. ContextInv => KernelSurvives
  BY DEF ContextInv
<1> QED
  BY <1>1, AlwaysContextInv, PTL

-----------------------------------------------------------------------------
(***************************************************************************)
(* That the display only ever shows memory of the process that owns it,    *)
(* whoever opened it before and however they died; and the types.          *)
(***************************************************************************)
(* The inductive invariant.  That numbers are not used again matters here  *)
(* too: the table that is created is not the owner's.                      *)
DisplayInv ==
    /\ ContextInv
    /\ DisplayTypeOK
    /\ waiting_for \in Tasks
    /\ \A p \in processes : p < id
    /\ ScreenIsOwners

LEMMA InitDisplayInv == Init => DisplayInv
<1> SUFFICES ASSUME Init PROVE DisplayInv
  OBVIOUS
<1>1. /\ display_owner_pid = 0 /\ display_fb_phys = 0 /\ screen = [pointer |-> 0, size |-> 0]
      /\ waiting_for = 0 /\ processes = {}
  BY DEF Init, DisplayInit
<1> QED
  BY <1>1, InitContextInv DEF DisplayInv, DisplayTypeOK, ScreenIsOwners, Tasks

(* The display is as it was, or it is nobody's.                            *)
DisplayKept ==
    \/ UNCHANGED displayVars
    \/ display_owner_pid' = 0 /\ display_fb_phys' = 0 /\ screen' = screen

LEMMA KeptDisplayStaysOwned ==
  ASSUME DisplayInv, ContextInv', DisplayKept,
         UNCHANGED table, UNCHANGED id, processes' \subseteq processes,
         waiting_for' \in {waiting_for, 0}
  PROVE  DisplayInv'
<1>1. waiting_for' \in Tasks /\ \A p \in processes' : p < id'
  BY DEF DisplayInv, Tasks
<1>2. CASE UNCHANGED displayVars
  BY <1>1, <1>2 DEF DisplayInv, DisplayTypeOK, ScreenIsOwners, displayVars
<1>3. CASE display_owner_pid' = 0 /\ display_fb_phys' = 0 /\ screen' = screen
  BY <1>1, <1>3 DEF DisplayInv, DisplayTypeOK, ScreenIsOwners
<1> QED
  BY <1>2, <1>3 DEF DisplayKept

-----------------------------------------------------------------------------
LEMMA CreateKeepsDisplay ==
  ASSUME DisplayInv, ContextInv', NEW parent \in processes \cup {0}, CreateProcess(parent)
  PROVE  DisplayInv'
<1>1. /\ processes' = processes \cup {id} /\ id' = id + 1 /\ waiting_for' = id
      /\ UNCHANGED displayVars
  BY DEF CreateProcess
<1>2. id \in Pids /\ id \in Nat
  BY CreateTableKeepsMemory, MemoryAssumption
  DEF DisplayInv, ContextInv, ControlInv, CreateProcess, CanCreate, Pids
<1>3. \A p \in processes' : p < id'
  BY <1>1, <1>2, MemoryAssumption DEF DisplayInv, ContextInv, ControlInv, Pids
<1>4. display_owner_pid \in processes \cup {0} /\ display_owner_pid # id
  BY <1>2, MemoryAssumption
  DEF DisplayInv, ContextInv, ControlInv, NothingOutlives, Pids
<1>5. display_owner_pid # 0 => table'[display_owner_pid] = table[display_owner_pid]
  <2>1. table' = [table EXCEPT ![id] = ImagePages(NewMemory)]
    BY Zenon DEF CreateProcess, CreateTable
  <2>2. table \in [Pids -> Seq(Page)] /\ (display_owner_pid # 0 => display_owner_pid \in Pids)
    BY <1>4 DEF DisplayInv, ContextInv, ControlInv, MemoryInv, MemTypeOK
  <2> QED
    BY <1>4, <2>1, <2>2, Zenon
<1> QED
  BY <1>1, <1>2, <1>3, <1>5
  DEF DisplayInv, DisplayTypeOK, ScreenIsOwners, displayVars, Tasks

-----------------------------------------------------------------------------
(* Opening the display: the peripheral is pointed at new memory while      *)
(* nobody owns the display, and the page for it is the new owner's.        *)
LEMMA OpenKeepsDisplay ==
  ASSUME DisplayInv, ContextInv', Opening
  PROVE  DisplayInv'
<1> PICK size \in FramebufferSizes, result_ptr_valid \in BOOLEAN, result \in {-1, 0} :
         DisplayOpen(current_task, size, result_ptr_valid, result)
  BY OpeningOpens
<1>1. UNCHANGED <<id, processes, waiting_for>>
  BY OpeningOpens DEF taskVars, processVars
<1>2. waiting_for' \in Tasks /\ \A p \in processes' : p < id'
  BY <1>1 DEF DisplayInv
<1>3. size \in Nat /\ NewMemory \in Nat
  BY KernelAssumption
  DEF DisplayInv, ContextInv, ControlInv, MemoryInv, MemTypeOK, NewMemory, user_pool_base
<1>4. CASE OpenRefused(result)
  BY <1>1, <1>4, KeptDisplayStaysOwned DEF OpenRefused, DisplayKept, memVars
<1>5. CASE OpenWithoutMemory(size, result)
  <2>1. display_owner_pid = 0 /\ UNCHANGED <<display_owner_pid, display_fb_phys>>
        /\ screen' = [screen EXCEPT !.size = size]
    BY <1>5 DEF OpenWithoutMemory
  <2>2. screen' \in [pointer : Nat, size : Nat]
    BY <1>3, <2>1 DEF DisplayInv, DisplayTypeOK
  <2> QED
    BY <1>2, <2>1, <2>2 DEF DisplayInv, DisplayTypeOK, ScreenIsOwners
<1>6. ASSUME PointAt(size)
      PROVE  /\ display_owner_pid = 0 /\ display_fb_phys' = NewMemory
             /\ screen' = [pointer |-> NewMemory, size |-> size]
             /\ display_fb_phys' \in Nat /\ screen' \in [pointer : Nat, size : Nat]
  BY <1>3, <1>6 DEF PointAt
<1>7. CASE OpenWithoutPage(current_task, size, result)
  <2>1. PointAt(size) /\ UNCHANGED display_owner_pid
    BY <1>7 DEF OpenWithoutPage
  <2> QED
    BY <1>2, <1>6, <2>1 DEF DisplayInv, DisplayTypeOK, ScreenIsOwners
<1>8. CASE OpenMapped(current_task, size, result_ptr_valid, result)
  <2> DEFINE page == Framebuffer(size)
             pages == table[current_task]
  <2>1. /\ PointAt(size)
        /\ display_owner_pid' \in {0, current_task}
        /\ table' = [table EXCEPT ![current_task] = Append(pages, page)]
    BY <1>6, <1>8, Zenon DEF OpenMapped, AddPage
  <2>2. current_task \in Pids
    <3> QED
      BY OpeningOpens
      DEF DisplayInv, ContextInv, FrameFits, ControlInv, TasksMatchProcesses
  <2>3. table \in [Pids -> Seq(Page)] /\ pages \in Seq(Page)
    BY <2>2 DEF DisplayInv, ContextInv, ControlInv, MemoryInv, MemTypeOK
  <2>4. table'[current_task] = Append(pages, page)
    BY <2>1, <2>2, <2>3, Zenon
  <2> HIDE DEF page, pages
  <2>5. \E i \in DOMAIN table'[current_task] : table'[current_task][i] = page
    <3>1. /\ Len(pages) + 1 \in DOMAIN Append(pages, page)
          /\ Append(pages, page)[Len(pages) + 1] = page
      BY <2>3
    <3> QED
      BY <2>4, <3>1
  <2>6. page.physical_address = NewMemory /\ page.size = size
    BY DEF page, Framebuffer
  <2>7. DisplayTypeOK'
    BY <1>6, <2>1, <2>2 DEF DisplayTypeOK
  <2>8. ScreenIsOwners'
    <3> SUFFICES ASSUME display_owner_pid' = current_task
                 PROVE  /\ screen'.pointer = display_fb_phys'
                        /\ \E i \in DOMAIN table'[current_task] :
                             /\ table'[current_task][i].physical_address = screen'.pointer
                             /\ table'[current_task][i].size = screen'.size
      BY <2>1 DEF ScreenIsOwners
    <3>1. /\ display_fb_phys' = NewMemory
          /\ screen'.pointer = NewMemory /\ screen'.size = size
      BY <1>6, <2>1
    <3> QED
      BY <2>5, <2>6, <3>1
  <2> QED
    BY <1>2, <2>7, <2>8 DEF DisplayInv
<1> QED
  BY <1>4, <1>5, <1>7, <1>8 DEF DisplayOpen

-----------------------------------------------------------------------------
(* Every other action leaves the display as it was, or takes it from its   *)
(* owner: closing it, and the death of the owner.                          *)
LEMMA KillReleasesDisplay ==
  ASSUME KillCurrent
  PROVE  DisplayKept /\ processes' \subseteq processes /\ UNCHANGED waiting_for
<1>1. CASE Panic
  BY <1>1 DEF Panic, DisplayKept, kernelVars, processVars
<1>2. CASE DestroyProcess(current_task)
  BY <1>2 DEF DestroyProcess, ReleaseDisplay, DisplayKept, displayVars
<1> QED
  BY <1>1, <1>2 DEF KillCurrent

NobodyNew ==
    /\ DisplayKept
    /\ processes' \subseteq processes
    /\ waiting_for' \in {waiting_for, 0}

LEMMA OthersKeepDisplay ==
  ASSUME Step, ~(\E parent \in processes \cup {0} : CreateProcess(parent)), ~Opening
  PROVE  NobodyNew
<1>1. ASSUME UNCHANGED <<displayVars, processes>>, waiting_for' \in {waiting_for, 0}
      PROVE  NobodyNew
  BY <1>1 DEF NobodyNew, DisplayKept
<1>2. ASSUME UNCHANGED kernelVars PROVE NobodyNew
  BY <1>1, <1>2 DEF kernelVars, processVars
<1>3. ASSUME KillCurrent PROVE NobodyNew
  BY <1>3, KillReleasesDisplay DEF NobodyNew
<1>4. CASE Kernel
  <2>1. CreateFails => UNCHANGED kernelVars
    BY DEF CreateFails, vars
  <2>2. ASSUME WaitForProcess \/ CheckProcess \/ ReturnFromWait
        PROVE  UNCHANGED <<displayVars, processes>> /\ waiting_for' \in {waiting_for, 0}
    BY <2>2 DEF WaitForProcess, CheckProcess, ReturnFromWait, Goto
  <2>3. ASSUME LoopsAstray PROVE UNCHANGED <<displayVars, processes, waiting_for>>
    BY <2>3 DEF LoopsAstray, Goto
  <2>4. HaltsAstray \/ FaultsAstray => UNCHANGED kernelVars
    BY DEF HaltsAstray, FaultsAstray
  <2> QED
    BY <1>1, <1>2, <1>4, <2>1, <2>2, <2>3, <2>4 DEF Kernel, GoesAstray
<1>5. CASE User \/ Tick
  <2>1. Compute => UNCHANGED kernelVars
    BY DEF Compute
  <2>2. RaiseInterrupt => UNCHANGED kernelVars
    BY DEF RaiseInterrupt
  <2>3. UserFault \/ Tick => UNCHANGED kernelVars
    BY DEF UserFault, Tick
  <2> QED
    BY <1>2, <1>5, <2>1, <2>2, <2>3 DEF User
<1>6. CASE TimerInterrupt \/ Yield \/ FlipDisplay \/ OtherCall
  BY <1>1, <1>6
  DEF TimerInterrupt, Yield, FlipDisplay, OtherCall, DisplayFlip, SetResult, processVars
<1>7. CASE CloseDisplay
  <2>1. PICK result \in {-1, 0} : DisplayClose(current_task, result) /\ SetResult(result)
    BY <1>7 DEF CloseDisplay
  <2>2. DisplayKept
    BY <2>1 DEF DisplayClose, DisplayKept
  <2> QED
    BY <2>1, <2>2 DEF NobodyNew, SetResult, processVars
<1>8. CASE ErrorInterrupt \/ Exit
  BY <1>3, <1>8 DEF ErrorInterrupt, Exit
<1>9. CASE CallFaults \/ InterruptReturn
  BY <1>2, <1>9 DEF CallFaults, InterruptReturn
<1> QED
  BY <1>4, <1>5, <1>6, <1>7, <1>8, <1>9 DEF Step, Handler, SyscallInterrupt, Opening

LEMMA NextDisplayInv == DisplayInv /\ [Next]_vars => DisplayInv'
<1> SUFFICES ASSUME DisplayInv, [Next]_vars PROVE DisplayInv'
  OBVIOUS
<1>1. ContextInv'
  BY NextContextInv DEF DisplayInv
<1>2. CASE \E parent \in processes \cup {0} : CreateProcess(parent)
  BY <1>1, <1>2, CreateKeepsDisplay
<1>3. CASE Opening
  BY <1>1, <1>3, OpenKeepsDisplay
<1>4. CASE /\ Step /\ ~Opening
           /\ ~(\E parent \in processes \cup {0} : CreateProcess(parent))
  <2>1. UNCHANGED <<table, id>>
    BY <1>4, OthersKeepMemory
  <2>2. /\ DisplayKept
        /\ processes' \subseteq processes /\ waiting_for' \in {waiting_for, 0}
    BY <1>4, OthersKeepDisplay DEF NobodyNew
  <2> QED
    BY <1>1, <2>1, <2>2, KeptDisplayStaysOwned
<1>5. CASE UNCHANGED vars
  <2>1. /\ UNCHANGED displayVars /\ UNCHANGED table /\ UNCHANGED id
        /\ UNCHANGED <<processes, waiting_for>>
    BY <1>5 DEF vars, kernelVars, taskVars, processVars, memVars
  <2> QED
    BY <1>1, <2>1, KeptDisplayStaysOwned DEF DisplayKept
<1> QED
  BY <1>2, <1>3, <1>4, <1>5 DEF Next, Stopped

LEMMA AlwaysDisplayInv == Spec => []DisplayInv
  BY InitDisplayInv, NextDisplayInv, PTL DEF Spec

(* What is flipped is the owner's: no process draws on, or looks at, the   *)
(* framebuffer of another, in whatever order they open, close and die.     *)
THEOREM ScreenIsAlwaysOwners == Spec => []ScreenIsOwners
<1>1. DisplayInv => ScreenIsOwners
  BY DEF DisplayInv
<1> QED
  BY <1>1, AlwaysDisplayInv, PTL

(* The types of the system's state.                                        *)
THEOREM KernelTypes == Spec => []TypeOK
<1>1. DisplayInv => TypeOK
  <2> SUFFICES ASSUME DisplayInv PROVE TypeOK
    OBVIOUS
  <2>1. /\ Hardware!HwTypeOK /\ state \in [Tasks -> Hardware!Registers]
        /\ current_table = current_task /\ ControlInv
        /\ DisplayTypeOK /\ waiting_for \in Tasks
    BY DEF DisplayInv, ContextInv, Typed
  <2>2. MemTypeOK /\ id \in Nat \ {0}
    BY <2>1 DEF ControlInv, MemoryInv
  <2>3. /\ processes \subseteq Pids /\ parent_id \in [Pids -> Tasks]
        /\ tasks \subseteq Tasks /\ current_task \in Tasks
    BY <2>1 DEF ControlInv, TasksMatchProcesses, Tasks
  <2> QED
    BY <2>1, <2>2, <2>3 DEF TypeOK
<1> QED
  BY <1>1, AlwaysDisplayInv, PTL

-----------------------------------------------------------------------------
(* That the kernel implements TimeSharing: to each program the processor   *)
(* looks like one of its own.  With other processes about, YIELD breaks    *)
(* this (a result is written to the next process's r0), so that the        *)
(* theorem is about programs that yield when they are alone, or never.     *)

YieldsAlone == YIELD \in CallsAlone \/ YIELD \notin Values

(* A YIELD that is being served was made by a process that was alone.      *)
LoneYield ==
    regs.ip = SyscallHandler /\ frame.data.r0 = YIELD => processes = {current_task}

SharingInv == DisplayInv /\ LoneYield

-----------------------------------------------------------------------------
(* The mapping.                                                            *)
LEMMA ContextsAre ==
  /\ \A p \in Pids :
       Contexts[p] = IF p # current_task THEN state[p]
                     ELSE IF InHandler THEN frame ELSE regs
  /\ \A p \in Pids :
       Contexts'[p] = IF p # current_task' THEN state'[p]
                      ELSE IF InHandler' THEN frame' ELSE regs'
  BY DEF Contexts

LEMMA ContextsTyped ==
  /\ ContextInv => Contexts \in [Pids -> Hardware!Registers]
  /\ ContextInv' => Contexts' \in [Pids -> Hardware!Registers]
<1>1. ASSUME ContextInv PROVE Contexts \in [Pids -> Hardware!Registers]
  BY <1>1 DEF ContextInv, Typed, Hardware!HwTypeOK, Contexts, Tasks
<1>2. ASSUME ContextInv' PROVE Contexts' \in [Pids -> Hardware!Registers]
  BY <1>2 DEF ContextInv, Typed, Hardware!HwTypeOK, Contexts, Tasks
<1> QED
  BY <1>1, <1>2

(* The current task is a process or the kernel.                            *)
LEMMA CpuIsLive ==
  ASSUME ContextInv
  PROVE  /\ current_task \in processes \/ current_task = 0
         /\ 0 \notin Pids /\ processes \subseteq Pids
         /\ Calling => current_task \in processes
<1>1. current_task \in processes \/ current_task = 0
  BY DEF ContextInv, ControlInv, TasksMatchProcesses
<1>2. Calling => current_task # 0
  BY DEF ContextInv, FrameFits, Calling
<1> QED
  BY <1>1, <1>2, MemoryAssumption DEF ContextInv, ControlInv, Pids

LEMMA InitSharing == Init => Sharing!Init
<1> SUFFICES ASSUME Init PROVE Sharing!Init
  OBVIOUS
<1>1. processes = {} /\ current_task = 0
  BY DEF Init
<1>2. Contexts \in [Pids -> Hardware!Registers]
  BY InitContextInv, ContextsTyped
<1>3. ~Calling
  BY Addresses DEF Init, Context, Calling
<1> QED
  BY <1>1, <1>2, <1>3 DEF Sharing!Init

-----------------------------------------------------------------------------
(* What a process does itself, and what the kernel does while it has the   *)
(* processor, changes nobody else's registers.                             *)
LEMMA RunIsExecute ==
  ASSUME ContextInv, ContextInv', UNCHANGED <<processes, current_task, state>>, ~Calling
  PROVE  Sharing!Execute \/ UNCHANGED Sharing!vars
<1>1. Contexts \in [Pids -> Hardware!Registers] /\ Contexts' \in [Pids -> Hardware!Registers]
  BY ContextsTyped
<1>2. \A p \in Pids : p # current_task => Contexts'[p] = Contexts[p]
  BY ContextsAre
<1>3. CASE current_task \in processes
  <2>1. Sharing!OnlyChanges({current_task})
    BY <1>1, <1>2, CpuIsLive DEF Sharing!OnlyChanges
  <2>2. Calling' \in BOOLEAN
    BY DEF Calling
  <2> QED
    BY <1>3, <2>1, <2>2 DEF Sharing!Execute
<1>4. CASE current_task = 0
  <2>1. Contexts' = Contexts
    BY <1>1, <1>2, <1>4, CpuIsLive
  <2>2. ~Calling'
    BY <1>4 DEF ContextInv, FrameFits, Calling
  <2>3. Calling' = Calling
    BY <2>2 DEF Calling
  <2> QED
    BY <2>1, <2>3, Zenon DEF Sharing!vars
<1> QED
  BY <1>3, <1>4, CpuIsLive

(* What ends a system call of a process that goes on.                      *)
LEMMA CallIsResult ==
  ASSUME ContextInv, ContextInv', Calling, ~Calling', InHandler',
         UNCHANGED <<processes, current_task>>, frame'.ip = frame.ip,
         \A p \in Pids : p # current_task => state'[p] = state[p]
  PROVE  Sharing!Result
<1>1. current_task \in processes /\ current_task \in Pids
  BY CpuIsLive
<1>2. Contexts' \in [Pids -> Hardware!Registers]
  BY ContextsTyped
<1>3. \A p \in Pids : p # current_task => Contexts'[p] = Contexts[p]
  BY ContextsAre
<1>4. Sharing!OnlyChanges({current_task})
  BY <1>2, <1>3, CpuIsLive DEF Sharing!OnlyChanges
<1>5. InHandler
  BY Addresses DEF Calling, InHandler
<1>6. Contexts'[current_task].ip = Contexts[current_task].ip
  BY <1>1, <1>5, ContextsAre
<1> QED
  BY <1>1, <1>4, <1>6 DEF Sharing!Result

(* The death of a process leaves the others as they were.                  *)
LEMMA KillIsExit ==
  ASSUME ContextInv, ContextInv', current_task # 0, KillCurrent
  PROVE  Sharing!Exit
<1>1. /\ HandlerEnds
      /\ current_task \in processes
      /\ processes' \subseteq processes \ {current_task}
      /\ current_task' \in tasks'
      /\ current_task' = 0 => processes' = {}
      /\ frame' = AdvanceKernel(current_task', state[current_task'])
      /\ state' = [state EXCEPT ![current_task'] = frame']
  BY KillHandsOver DEF ContextInv
<1>2. regs'.ip = Trampoline
  BY <1>1 DEF HandlerEnds, ContextInv, Typed, Hardware!HwTypeOK, Hardware!Registers
<1>3. InHandler' /\ ~Calling'
  BY <1>2, Addresses DEF InHandler, Calling
<1>4. current_task' \in processes' \cup {0}
  BY <1>1 DEF ContextInv, ControlInv, TasksMatchProcesses
<1>5. ASSUME NEW p \in processes'
      PROVE  Contexts'[p] = Contexts[p]
  <2>1. p \in Pids /\ p # 0 /\ p # current_task /\ p \in Tasks
    BY <1>1, CpuIsLive DEF Tasks
  <2>2. Contexts[p] = state[p]
    BY <2>1, ContextsAre
  <2>3. CASE p = current_task'
    BY <1>1, <1>3, <2>1, <2>2, <2>3, ContextsAre DEF AdvanceKernel
  <2>4. CASE p # current_task'
    <3>1. state \in [Tasks -> Hardware!Registers]
      BY DEF ContextInv, Typed
    <3>2. state'[p] = state[p]
      BY <1>1, <2>1, <2>4, <3>1, Zenon
    <3> QED
      BY <2>1, <2>2, <2>4, <3>2, ContextsAre
  <2> QED
    BY <2>3, <2>4
<1> QED
  BY <1>1, <1>3, <1>4, <1>5, ContextsTyped DEF Sharing!Exit

(* A new process is one that was not there.                                *)
LEMMA CreateIsStart ==
  ASSUME DisplayInv, ContextInv', NEW parent \in processes \cup {0}, CreateProcess(parent)
  PROVE  Sharing!Start(id)
<1>1. /\ regs.ip = Shell /\ processes' = processes \cup {id}
      /\ state' = [state EXCEPT ![id] = Context(10, id)]
      /\ UNCHANGED <<current_task, regs, frame>>
  BY DEF CreateProcess, hwVars
<1>2. id \notin processes
  BY MemoryAssumption DEF DisplayInv, ContextInv, ControlInv, MemoryInv, Pids
<1>3. current_task = 0
  BY <1>1, Addresses
  DEF DisplayInv, ContextInv, FrameFits, InHandler, CanResume, Resumable, InShell
<1>4. \A p \in processes \ {id} : Contexts'[p] = Contexts[p]
  <2> TAKE p \in processes \ {id}
  <2>1. p \in Pids /\ p \in Tasks /\ p # current_task
    BY <1>3, CpuIsLive DEF DisplayInv, Tasks
  <2>2. state \in [Tasks -> Hardware!Registers]
    BY DEF DisplayInv, ContextInv, Typed
  <2>3. state'[p] = state[p]
    BY <1>1, <2>1, <2>2, Zenon
  <2> QED
    BY <1>1, <2>1, <2>3, ContextsAre
<1>5. Sharing!OnlyChanges({id})
  BY <1>4, ContextsTyped DEF Sharing!OnlyChanges
<1>6. Calling' = Calling
  BY <1>1 DEF Calling
<1> QED
  BY <1>1, <1>2, <1>3, <1>5, <1>6, Zenon DEF Sharing!Start

(* A switch changes no register of any process.                            *)
LEMMA TimerIsSwitch ==
  ASSUME ContextInv, ContextInv', TimerInterrupt
  PROVE  Sharing!Switch \/ UNCHANGED Sharing!vars
<1>1. /\ regs.ip = TimerHandler /\ regs'.ip = Trampoline
      /\ ScheduleTask /\ frame' = ScheduledFrame /\ UNCHANGED <<tasks, processes>>
  BY DEF TimerInterrupt, HandlerEnds, processVars, ContextInv, Typed,
     Hardware!HwTypeOK, Hardware!Registers
<1>2. InHandler /\ InHandler' /\ ~Calling /\ ~Calling'
  BY <1>1, Addresses DEF InHandler, Calling
<1>3. Calling' = Calling
  BY <1>2 DEF Calling
<1>4. Contexts \in [Pids -> Hardware!Registers] /\ Contexts' \in [Pids -> Hardware!Registers]
  BY ContextsTyped
<1>5. CASE OnlyTask
  <2>1. UNCHANGED <<current_task, state, frame>>
    BY <1>1, <1>5 DEF ScheduleTask, ScheduledFrame
  <2>2. Contexts' = Contexts
    BY <1>2, <1>4, <2>1, ContextsAre
  <2> QED
    BY <1>1, <1>3, <2>1, <2>2, Zenon DEF Sharing!vars
<1>6. CASE ~OnlyTask
  <2>1. /\ state' = [state EXCEPT ![current_task] = frame]
        /\ current_task' = NextTask /\ NextTask \in tasks \ {0}
    BY <1>1, <1>6, NextTaskIsProcess DEF ScheduleTask, ContextInv
  <2>2. /\ state \in [Tasks -> Hardware!Registers] /\ current_task \in Tasks
        /\ current_task' \in processes
    BY <2>1 DEF ContextInv, Typed, ControlInv, TasksMatchProcesses, Tasks
  <2>3. /\ state'[current_task] = frame
        /\ \A t \in Tasks : t # current_task => state'[t] = state[t]
    BY <2>1, <2>2, Zenon
  <2>4. ASSUME NEW p \in processes
        PROVE  Contexts'[p] = Contexts[p]
    <3>1. p \in Pids /\ p \in Tasks
      BY CpuIsLive DEF Tasks
    <3>2. CASE p # NextTask
      BY <1>2, <2>1, <2>3, <3>1, <3>2, ContextsAre
    <3>3. CASE p = NextTask
      <4>1. frame' = IF p = current_task THEN frame ELSE state[p]
        BY <1>1, <1>6, <2>1, <3>3 DEF ScheduledFrame
      <4> QED
        BY <1>2, <2>1, <3>1, <3>3, <4>1, ContextsAre
    <3> QED
      BY <3>2, <3>3
  <2>5. Sharing!OnlyChanges({})
    BY <1>4, <2>4 DEF Sharing!OnlyChanges
  <2> QED
    BY <1>1, <1>2, <1>3, <2>2, <2>5, Zenon DEF Sharing!Switch
<1> QED
  BY <1>5, <1>6

(* YIELD by the only process comes back to it.                             *)
LEMMA LoneYieldIsResult ==
  ASSUME ContextInv, ContextInv', LoneYield, Yield
  PROVE  Sharing!Result
<1>1. /\ Calling /\ processes = {current_task}
      /\ ScheduleTask /\ UNCHANGED processes
      /\ frame' = WithResult(ScheduledFrame, 0)
      /\ regs' = At(regs, Trampoline)
  BY Zenon DEF Yield, Called, Calling, LoneYield, processVars, WithResult, HandlerEnds, At
<1>2. current_task \in Pids /\ current_task # 0
  BY <1>1, CpuIsLive
<1>3. ~OnlyTask /\ tasks \ {0} = {current_task}
  BY <1>1, <1>2 DEF OnlyTask, ContextInv, ControlInv, TasksMatchProcesses
<1>4. NextTask = current_task
  BY <1>3, NextTaskIsProcess DEF ContextInv
<1>5. /\ ScheduledFrame = frame /\ current_task' = current_task
      /\ state' = [state EXCEPT ![current_task] = frame]
  BY <1>1, <1>3, <1>4 DEF ScheduledFrame, ScheduleTask
<1>6. /\ frame'.ip = frame.ip /\ regs'.ip = Trampoline
  <2>1. /\ frame \in Hardware!Registers /\ regs \in Hardware!Registers
        /\ 0 \in Nat /\ 0 \in Values /\ Trampoline \in Nat
    BY Addresses, KernelAssumption DEF ContextInv, Typed, Hardware!HwTypeOK
  <2> QED
    BY <1>1, <1>5, <2>1, ContextWith
<1>7. InHandler' /\ ~Calling'
  BY <1>6, Addresses DEF InHandler, Calling
<1>8. \A p \in Pids : p # current_task => state'[p] = state[p]
  <2>1. state \in [Tasks -> Hardware!Registers] /\ Pids \subseteq Tasks
    BY DEF ContextInv, Typed, Tasks
  <2> QED
    BY <1>5, <2>1, Zenon
<1> QED
  BY <1>1, <1>5, <1>6, <1>7, <1>8, CallIsResult

-----------------------------------------------------------------------------
(* Only a program's INT enters the system call handler.                    *)
LEMMA RaiseIsLone ==
  ASSUME ContextInv, YieldsAlone, RaiseInterrupt, regs'.ip = SyscallHandler
  PROVE  LoneYield'
<1> DEFINE current == [regs EXCEPT !.ip = @ + 1]
<1>1. PICK n \in UserInterrupts :
         /\ n = SYSCALL /\ regs.data.r0 \in CallsAlone => processes = {current_task}
         /\ Hardware!SoftwareInterrupt(n)
  BY Zenon DEF RaiseInterrupt
<1>2. regs.ip \in UserCode /\ UNCHANGED kernelVars
  BY Zenon DEF RaiseInterrupt
<1>3. /\ enabled /\ ~faulting /\ regs \in Hardware!Registers
      /\ frame = Hardware!ZeroRegisters /\ n \in Nat
  <2>1. InUser
    BY <1>2, Addresses DEF InUser
  <2> QED
    BY <2>1, UserIsUnmasked, Unmasked, KernelAssumption
<1>4. /\ current \in Hardware!Registers /\ current.ip = regs.ip + 1
      /\ current.data = regs.data /\ regs.data.r0 \in Values
  BY <1>3 DEF Hardware!Registers, Data
<1> HIDE DEF current
<1>5. UNCHANGED <<processes, current_task>>
  BY <1>2 DEF kernelVars, taskVars, processVars
<1>6. ErrorHandler # SyscallHandler /\ TimerHandler # SyscallHandler
  BY Addresses
<1>7. CASE n = 0 /\ Hardware!Return
  <2>1. Hardware!FirstFault(Hardware!ZeroRegisters, Hardware!ZeroRegisters)
    BY <1>3, <1>7 DEF Hardware!Return, Hardware!ZeroRegisters
  <2>2. Hardware!Mapped(ERROR)
    BY HandlerEntries DEF Hardware!Mapped, Hardware!Known, ERROR
  <2>3. faulting' = TRUE /\ Hardware!Enter(ERROR, Hardware!ZeroRegisters, frame)
    BY <1>3, <2>1, <2>2 DEF Hardware!FirstFault, Hardware!FAULT, ERROR
  <2>4. Entered(HandlerOf(ERROR), Hardware!ZeroRegisters)
    BY <2>3, EnterEffect, ZeroIsContext DEF ContextInv, Typed
  <2> QED
    BY <1>6, <2>4 DEF Entered, HandlerOf
<1>8. CASE n # 0 /\ Hardware!Dispatch(n, current)
  <2>1. \/ n \in {ERROR, TIMER, SYSCALL} /\ Entered(HandlerOf(n), current)
        \/ Entered(ErrorHandler, regs)
    BY <1>3, <1>4, <1>8, DispatchEnters DEF ContextInv, Typed
  <2>2. n = SYSCALL /\ frame' = current
    BY <1>3, <1>6, <2>1 DEF Entered, HandlerOf, ERROR, TIMER, SYSCALL
  <2>3. frame'.data.r0 = YIELD => processes = {current_task}
    BY <1>1, <1>4, <2>2 DEF YieldsAlone
  <2> QED
    BY <1>5, <2>3 DEF LoneYield
<1>9. CASE Hardware!Advance
  <2>1. regs' = current
    BY <1>9 DEF Hardware!Advance, current
  <2> QED
    BY <1>2, <1>4, <2>1, Addresses
<1> QED
  BY <1>1, <1>7, <1>8, <1>9 DEF Hardware!SoftwareInterrupt, Hardware!RETURN, current

LEMMA OthersCallNothing ==
  ASSUME ContextInv, ContextInv', Step, ~RaiseInterrupt
  PROVE  ~Calling'
<1>1. regs \in Hardware!Registers
  BY DEF ContextInv, Typed, Hardware!HwTypeOK
<1>2. ASSUME NEW ip \in Nat, ip # SyscallHandler, regs' = At(regs, ip)
      PROVE  ~Calling'
  <2>1. 0 \in Values
    BY KernelAssumption
  <2> QED
    BY <1>1, <1>2, <2>1, ContextWith DEF Calling
<1>3. ASSUME HandlerEnds PROVE ~Calling'
  BY <1>2, <1>3, Addresses DEF HandlerEnds, At
<1>4. ASSUME regs.ip # SyscallHandler, regs' = regs PROVE ~Calling'
  BY <1>4 DEF Calling
<1>5. CASE \E parent \in processes \cup {0} : CreateProcess(parent)
  BY <1>4, <1>5, Addresses DEF CreateProcess, hwVars
<1>6. CASE CreateFails
  BY <1>4, <1>6, Addresses DEF CreateFails, vars, hwVars
<1>7. CASE WaitForProcess \/ CheckProcess \/ ReturnFromWait
  BY <1>2, <1>7, Addresses DEF WaitForProcess, CheckProcess, ReturnFromWait, Goto, At
<1>16. CASE GoesAstray
  <2>0. regs.ip = Astray
    BY <1>16 DEF GoesAstray, LoopsAstray, HaltsAstray, FaultsAstray
  <2>1. regs.ip = Astray /\ enabled
    BY <2>0, Addresses DEF ContextInv, KernelSurvives
  <2>2. CASE LoopsAstray
    BY <1>2, <2>2, Addresses DEF LoopsAstray, Goto, At
  <2>3. CASE HaltsAstray
    BY <1>4, <2>1, <2>3, Addresses DEF HaltsAstray, Hardware!Halt
  <2>4. CASE FaultsAstray
    <3>1. Entered(ErrorHandler, regs)
      BY <2>1, <2>4, Unmasked, FaultEnters DEF FaultsAstray, ContextInv, Typed
    <3> QED
      BY <3>1, Addresses DEF Entered, Calling
  <2> QED
    BY <1>16, <2>2, <2>3, <2>4 DEF GoesAstray
<1>8. CASE Compute
  <2>1. PICK ip \in UserCode, r0 \in Values : regs' = Computed(regs, ip, r0)
    BY <1>8, Zenon DEF Compute, Computed
  <2>2. ip \in Nat /\ ip # SyscallHandler
    BY Addresses
  <2> QED
    BY <1>1, <2>1, <2>2, ContextWith DEF Calling
<1>9. CASE UserFault
  <2>1. ~faulting /\ Hardware!Fault
    BY <1>9, UserIsUnmasked, Unmasked DEF UserFault
  <2>2. Entered(ErrorHandler, regs)
    BY <2>1, FaultEnters DEF ContextInv, Typed
  <2> QED
    BY <2>2, Addresses DEF Entered, Calling
<1>10. CASE Tick
  <2>1. Hardware!Dispatch(TIMER, regs) /\ enabled
    BY <1>10 DEF Tick, Hardware!External, Hardware!Dispatch, Hardware!Accepts,
       Hardware!FAULT, TIMER
  <2>2. ~faulting /\ TIMER \in Nat \ {0}
    BY <2>1, Unmasked DEF TIMER
  <2>3. Entered(HandlerOf(TIMER), regs) \/ Entered(ErrorHandler, regs)
    BY <1>1, <2>1, <2>2, DispatchEnters DEF ContextInv, Typed
  <2> QED
    BY <2>3, Addresses DEF Entered, Calling, HandlerOf, ERROR, TIMER
<1>11. ASSUME KillCurrent, current_task # 0 PROVE ~Calling'
  BY <1>3, <1>11, KillHandsOver DEF ContextInv
<1>12. CASE ErrorInterrupt \/ Exit
  <2>1. KillCurrent /\ (current_task # 0 \/ regs.ip = ErrorHandler)
    BY <1>12 DEF ErrorInterrupt, Exit, ContextInv, FrameFits
  <2>2. CASE Panic
    BY <1>12, <2>1, <2>2, <1>4, <1>11, Addresses DEF Panic, Hardware!Halt
  <2> QED
    BY <1>3, <2>1, <2>2 DEF KillCurrent
<1>13. CASE TimerInterrupt \/ Yield \/ OpenDisplay \/ FlipDisplay \/ CloseDisplay \/ OtherCall
  <2>1. HandlerEnds
    BY <1>13 DEF TimerInterrupt, Yield, OpenDisplay, FlipDisplay, CloseDisplay, OtherCall,
       SetResult
  <2> QED
    BY <1>3, <2>1
<1>14. CASE CallFaults \/ OpenFaults
  BY <1>14, CallFaultsEnter, Addresses DEF Calling, Step
<1>15. CASE InterruptReturn
  <2>1. regs.ip = Trampoline /\ Hardware!Return
    BY <1>15 DEF InterruptReturn, Hardware!SoftwareInterrupt, Hardware!RETURN
  <2>2. CanResume(frame)
    BY <2>1, Addresses DEF ContextInv, FrameFits, InHandler
  <2>3. frame.ip # 0 /\ frame.ip # SyscallHandler
    BY <2>2, Addresses DEF CanResume, Resumable
  <2>4. regs' = frame
    BY <2>1, <2>3 DEF Hardware!Return
  <2> QED
    BY <2>3, <2>4 DEF Calling
<1> QED
  BY <1>5, <1>6, <1>7, <1>8, <1>9, <1>10, <1>12, <1>13, <1>14, <1>15, <1>16
  DEF Step, Kernel, User, Handler, SyscallInterrupt

-----------------------------------------------------------------------------
LEMMA NextSharingInv ==
  ASSUME YieldsAlone
  PROVE  SharingInv /\ [Next]_vars => SharingInv'
<1> SUFFICES ASSUME SharingInv, [Next]_vars PROVE SharingInv'
  OBVIOUS
<1>1. DisplayInv' /\ ContextInv /\ ContextInv'
  BY NextDisplayInv DEF SharingInv, DisplayInv
<1>2. ASSUME RaiseInterrupt PROVE LoneYield'
  <2>1. CASE regs'.ip = SyscallHandler
    BY <1>1, <1>2, <2>1, RaiseIsLone
  <2>2. CASE regs'.ip # SyscallHandler
    BY <2>2 DEF LoneYield
  <2> QED
    BY <2>1, <2>2
<1>3. ASSUME Step, ~RaiseInterrupt PROVE LoneYield'
  <2>1. ~Calling'
    BY <1>1, <1>3, OthersCallNothing
  <2> QED
    BY <2>1 DEF LoneYield, Calling
<1>4. ASSUME UNCHANGED vars PROVE LoneYield'
  <2>1. UNCHANGED <<regs, frame, processes, current_task>>
    BY <1>4 DEF vars, hwVars, kernelVars, taskVars, processVars
  <2> QED
    BY <2>1 DEF SharingInv, LoneYield
<1>5. LoneYield'
  BY <1>2, <1>3, <1>4 DEF Next, Stopped
<1> QED
  BY <1>1, <1>5 DEF SharingInv

LEMMA NextIsSharing ==
  ASSUME SharingInv, SharingInv', [Next]_vars
  PROVE  [Sharing!Next]_(Sharing!vars)
<1> DEFINE Goal == Sharing!Next \/ UNCHANGED Sharing!vars
<1>1. ContextInv /\ ContextInv' /\ DisplayInv /\ LoneYield
  BY DEF SharingInv, DisplayInv
<1>2. ASSUME UNCHANGED <<processes, current_task, state>>, ~Calling PROVE Goal
  BY <1>1, <1>2, RunIsExecute DEF Sharing!Next
<1>3. ASSUME UNCHANGED kernelVars, ~Calling PROVE Goal
  BY <1>2, <1>3 DEF kernelVars, taskVars, processVars
<1>4. CASE UNCHANGED vars
  <2>1. /\ UNCHANGED <<processes, current_task>> /\ Calling' = Calling
    BY <1>4 DEF vars, hwVars, kernelVars, taskVars, processVars, Calling
  <2>2. Contexts' = Contexts
    BY <1>4 DEF vars, hwVars, kernelVars, taskVars, Contexts, InHandler
  <2> QED
    BY <2>1, <2>2, Zenon DEF Sharing!vars
<1>5. CASE \E parent \in processes \cup {0} : CreateProcess(parent)
  <2>1. id \in Pids
    BY <1>5, CreateTableKeepsMemory
    DEF CreateProcess, CanCreate, SharingInv, DisplayInv, ContextInv, ControlInv
  <2> QED
    BY <1>1, <1>5, <2>1, CreateIsStart DEF Sharing!Next
<1>6. CASE CreateFails
  BY <1>4, <1>6 DEF CreateFails
<1>7. CASE WaitForProcess \/ CheckProcess \/ ReturnFromWait
  BY <1>2, <1>7, Addresses
  DEF WaitForProcess, CheckProcess, ReturnFromWait, Goto, taskVars, Calling
<1>18. CASE GoesAstray
  <2>0. regs.ip = Astray
    BY <1>18 DEF GoesAstray, LoopsAstray, HaltsAstray, FaultsAstray
  <2>1. ~Calling
    BY <2>0, Addresses DEF Calling
  <2>2. CASE LoopsAstray
    BY <1>2, <2>1, <2>2 DEF LoopsAstray, Goto, taskVars
  <2>3. CASE HaltsAstray \/ FaultsAstray
    BY <1>3, <2>1, <2>3 DEF HaltsAstray, FaultsAstray
  <2> QED
    BY <1>18, <2>2, <2>3 DEF GoesAstray
<1>8. CASE Compute
  <2>1. regs.ip \in UserCode /\ UNCHANGED kernelVars
    BY <1>8, Zenon DEF Compute
  <2> QED
    BY <1>3, <2>1, Addresses DEF Calling
<1>9. CASE RaiseInterrupt
  <2>1. regs.ip \in UserCode /\ UNCHANGED kernelVars
    BY <1>9, Zenon DEF RaiseInterrupt
  <2> QED
    BY <1>3, <2>1, Addresses DEF Calling
<1>10. CASE UserFault
  BY <1>3, <1>10, Addresses DEF UserFault, InUser, Calling
<1>11. CASE Tick
  <2>1. enabled /\ UNCHANGED kernelVars
    BY <1>11 DEF Tick, Hardware!External, Hardware!Dispatch, Hardware!Accepts,
       Hardware!FAULT, TIMER
  <2>2. ~Calling
    BY <1>1, <2>1, Addresses DEF ContextInv, KernelSurvives, Calling
  <2> QED
    BY <1>3, <2>1, <2>2
<1>12. CASE TimerInterrupt
  BY <1>1, <1>12, TimerIsSwitch DEF Sharing!Next
<1>13. CASE ErrorInterrupt \/ Exit
  <2>1. KillCurrent /\ (current_task # 0 \/ regs.ip = ErrorHandler)
    BY <1>1, <1>13 DEF ErrorInterrupt, Exit, ContextInv, FrameFits
  <2>2. CASE current_task # 0
    BY <1>1, <2>1, <2>2, KillIsExit DEF Sharing!Next
  <2>3. CASE current_task = 0
    <3>1. Panic
      BY <1>1, <2>1, <2>3, MemoryAssumption DEF KillCurrent, ContextInv, ControlInv, Pids
    <3> QED
      BY <1>3, <2>1, <2>3, <3>1, Addresses DEF Panic, Calling
  <2> QED
    BY <2>2, <2>3
<1>14. CASE Yield
  BY <1>1, <1>14, LoneYieldIsResult DEF Sharing!Next
<1>15. CASE OpenDisplay \/ FlipDisplay \/ CloseDisplay \/ OtherCall
  <2>1. Calling /\ \E result \in Values : SetResult(result)
    BY <1>15, KernelAssumption
    DEF OpenDisplay, FlipDisplay, CloseDisplay, OtherCall, Called, Calling
  <2>2. PICK result \in Values : SetResult(result)
    BY <2>1
  <2>3. /\ frame' = WithResult(frame, result) /\ regs' = At(regs, Trampoline)
        /\ UNCHANGED <<processes, current_task, state>>
    BY <2>2, Zenon DEF SetResult, HandlerEnds, taskVars, processVars, WithResult, At
  <2>4. frame'.ip = frame.ip /\ regs'.ip = Trampoline
    <3>1. /\ frame \in Hardware!Registers /\ regs \in Hardware!Registers
          /\ 0 \in Nat /\ Trampoline \in Nat
      BY <1>1, Addresses DEF ContextInv, Typed, Hardware!HwTypeOK
    <3> QED
      BY <2>3, <3>1, ContextWith
  <2>5. InHandler' /\ ~Calling'
    BY <2>4, Addresses DEF InHandler, Calling
  <2> QED
    BY <1>1, <2>1, <2>3, <2>4, <2>5, CallIsResult DEF Sharing!Next
<1>16. CASE status = "on" /\ (CallFaults \/ OpenFaults)
  <2>1. /\ Calling /\ ~Calling' /\ InHandler' /\ frame' = frame
        /\ UNCHANGED <<processes, current_task, state>>
    BY <1>1, <1>16, CallFaultsEnter, Addresses DEF Calling, InHandler
  <2> QED
    BY <1>1, <2>1, CallIsResult DEF Sharing!Next
<1>17. CASE InterruptReturn
  BY <1>3, <1>17, Addresses DEF InterruptReturn, Calling
<1> QED
  BY <1>4, <1>5, <1>6, <1>7, <1>8, <1>9, <1>10, <1>11, <1>12, <1>13, <1>14, <1>15,
     <1>16, <1>17, <1>18
  DEF Next, Step, Stopped, Kernel, User, Handler, SyscallInterrupt

(* The scheduler is invisible: every step of the kernel is, to the         *)
(* programs, a step of one of them, a start, an exit or a switch that      *)
(* changes no register of any.                                             *)
THEOREM SchedulingIsInvisible ==
  ASSUME YieldsAlone
  PROVE  Spec => ImplementsTimeSharing
<1>1. Init => SharingInv
  BY InitDisplayInv, Addresses DEF SharingInv, LoneYield, Init, Context
<1>2. SharingInv /\ [Next]_vars => SharingInv'
  BY NextSharingInv
<1>3. SharingInv /\ SharingInv' /\ [Next]_vars => [Sharing!Next]_(Sharing!vars)
  BY NextIsSharing
<1> QED
  BY <1>1, <1>2, <1>3, InitSharing, PTL
  DEF Spec, ImplementsTimeSharing, Sharing!Spec
=============================================================================

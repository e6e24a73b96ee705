------------------------------- MODULE Kernel -------------------------------
(***************************************************************************)
(* The operating system's control (src/kernel): the process table, the     *)
(* task list, the interrupt handlers and the system calls, running on the  *)
(* interrupt logic of Interrupts beside arbitrary user programs.           *)
(*                                                                         *)
(* A handler runs masked, so its body is one action; the trampoline's      *)
(* `int 0x0' is another.  The kernel itself, task 0, is the shell: it runs *)
(* masked except while it waits for a process.                             *)
(*                                                                         *)
(* The registers r0..r63 are abstracted to r0, which carries the number    *)
(* and the result of a system call, and `own', the task whose values all   *)
(* the other registers hold: the kernel writes none of them.               *)
(***************************************************************************)
EXTENDS Display, FiniteSets, FiniteSetsExt

CONSTANTS
    Values,         \* the values of r0 considered, numbers of system calls among them
    MAX_PROCESSES,
    FramebufferSizes,   \* the framebuffer sizes that programs ask for
    UserInterrupts,     \* the interrupt numbers that user programs raise
    CallsAlone,     \* the system calls that a program makes only when it runs alone
    Batch           \* how many processes the kernel runs at once; 1 in the shell

ASSUME KernelAssumption ==
    /\ Values \subseteq Int /\ {-1, 0} \subseteq Values
    /\ MAX_PROCESSES \in Nat
    /\ FramebufferSizes \subseteq Nat \ {0}
    /\ UserInterrupts \subseteq Nat
    /\ CallsAlone \subseteq Int
    /\ Batch \in Nat \ {0}
    /\ (LastPid + 1) * IMAGE_SIZE > user_pool_size

VARIABLES enabled, faulting, mmu, regs, frame, status

VARIABLES
    id,             \* the number the next task gets
    tasks,          \* the task list; see Below
    current_task,
    state,          \* the saved registers of each task
    current_table,  \* whose page table the MMU has, 0 for none
    processes,      \* the process table
    parent_id,
    waiting_for     \* the process the shell waits for, 0 for none

EXIT == 0
READ == 1
WRITE == 2
OPEN == 3
CREATE == 5
DESTROY == 6
YIELD == 8
DISPLAY_OPEN == 9
DISPLAY_FLIP == 10
DISPLAY_CLOSE == 11
SYSCALL_COUNT == 15

ERROR == 1
TIMER == 2
SYSCALL == 128

(* The code that the model tells apart.  A handler is one address, and so  *)
(* is the loop that looks for the process in the table.  Astray stands for *)
(* the word after the one that the kernel was to execute next when it was  *)
(* interrupted in that loop: an instruction, or a constant's second word.  *)
ErrorHandler == 1
TimerHandler == 2
SyscallHandler == 3
Trampoline == 4         \* `int r0' with r0 = 0
Shell == 5
Check == 6
Astray == 7
WaitInstruction == 8
AfterWait == 9          \* `jmp r0'
UserCode == 10 .. 11

KernelCode == {Shell, Check, Astray, WaitInstruction, AfterWait}
HandlerCode == {ErrorHandler, TimerHandler, SyscallHandler, Trampoline}

Tasks == Pids \cup {0}
Data == [r0 : Values, own : Tasks]

(* The handler table once each init has called interrupt().                *)
HandlerTable ==
    [n \in 1 .. SYSCALL |-> CASE n = ERROR -> ErrorHandler
                             [] n = TIMER -> TimerHandler
                             [] n = SYSCALL -> SyscallHandler
                             [] OTHER -> 0]

Hardware == INSTANCE Interrupts WITH
    Data <- Data,
    ZeroData <- [r0 |-> 0, own |-> 0],
    Handler <- HandlerTable

hwVars == <<enabled, faulting, mmu, regs, frame, status>>
taskVars == <<id, tasks, current_task, state, current_table>>
processVars == <<processes, parent_id, waiting_for>>
kernelVars == <<taskVars, processVars, memVars, displayVars>>
vars == <<hwVars, kernelVars>>

Context(ip, task) == [ip |-> ip, data |-> [r0 |-> 0, own |-> task]]

TypeOK ==
    /\ Hardware!HwTypeOK
    /\ MemTypeOK
    /\ DisplayTypeOK
    /\ id \in Nat \ {0}
    /\ tasks \subseteq Tasks
    /\ current_task \in Tasks
    /\ state \in [Tasks -> Hardware!Registers]
    /\ current_table \in Tasks
    /\ processes \subseteq Pids
    /\ parent_id \in [Pids -> Tasks]
    /\ waiting_for \in Tasks

(* The state that kernel::init leaves, about to enter the shell: task 0 is *)
(* the kernel, which runs with interrupts disabled and no page table.      *)
Init ==
    /\ enabled = FALSE
    /\ faulting = FALSE
    /\ mmu = FALSE
    /\ regs = Context(Shell, 0)
    /\ frame = Hardware!ZeroRegisters
    /\ status = "on"
    /\ MemInit
    /\ DisplayInit
    /\ id = 1
    /\ tasks = {0}
    /\ current_task = 0
    /\ state = [t \in Tasks |-> Context(Shell, 0)]
    /\ current_table = 0
    /\ processes = {}
    /\ parent_id = [p \in Pids |-> 0]
    /\ waiting_for = 0

-----------------------------------------------------------------------------
(* The scheduler.  enqueue_task pushes at the head of the list and task    *)
(* numbers grow, so the list is the set `tasks' in decreasing order: the   *)
(* head is the greatest, `next' leads to the greatest of those below, and  *)
(* the kernel's task is the last.                                          *)
FirstTask(T) == Max(T)
Below(t) == { u \in tasks : u < t }

(* A faulty variant of NextTask: the head of the list always gets its turn. *)
NextTask_AlwaysHead == FirstTask(tasks)

(* _schedule_task goes to the next task, around to the head, and passes    *)
(* over the kernel's.                                                      *)
NextTask ==
    IF Below(current_task) \ {0} # {} THEN Max(Below(current_task)) ELSE FirstTask(tasks)

OnlyTask == tasks = {current_task}

(* The saved-register area as _schedule_task leaves it.                    *)
ScheduledFrame ==
    IF OnlyTask \/ NextTask \in {0, current_task} THEN frame ELSE state[NextTask]

(* A faulty variant of ScheduleTask: it does not save the registers of the *)
(* task it leaves.                                                         *)
ScheduleTask_NotSaved ==
    IF OnlyTask
    THEN UNCHANGED <<current_task, state, current_table>>
    ELSE /\ current_task' = NextTask
         /\ current_table' = IF NextTask = 0 THEN current_table ELSE NextTask
         /\ UNCHANGED state

ScheduleTask ==
    IF OnlyTask
    THEN UNCHANGED <<current_task, state, current_table>>
    ELSE /\ state' = [state EXCEPT ![current_task] = frame]
         /\ current_task' = NextTask
         /\ current_table' = IF NextTask = 0 THEN current_table ELSE NextTask

(* A faulty variant of AdvanceKernel: the kernel resumes at its WAIT.      *)
AdvanceKernel_Not(task, saved) == saved

(* destroy_task for the tasks in D, one of which is the current one: the   *)
(* head of the list is restored, the kernel past its WAIT.                 *)
AdvanceKernel(task, saved) ==
    IF task = 0 THEN [saved EXCEPT !.ip = @ + 1] ELSE saved

(* A faulty variant of DestroyTasks: the page table is not switched.       *)
DestroyTasks_KeepsTable(D) ==
    LET next == FirstTask(tasks \ D)
    IN  /\ tasks' = tasks \ D
        /\ current_task' = next
        /\ state' = [state EXCEPT ![next] = AdvanceKernel(next, @)]
        /\ frame' = AdvanceKernel(next, state[next])
        /\ UNCHANGED <<current_table, id>>

DestroyTasks(D) ==
    LET next == FirstTask(tasks \ D)
    IN  /\ tasks' = tasks \ D
        /\ current_task' = next
        /\ state' = [state EXCEPT ![next] = AdvanceKernel(next, @)]
        /\ frame' = AdvanceKernel(next, state[next])
        /\ current_table' = next
        /\ UNCHANGED id

(* A process and all that descend from it: what destroy_process and        *)
(* _kill_children remove from the process table, children first.           *)
ClosedUnderChildren(S) ==
    \A p \in processes : parent_id[p] \in S => p \in S

(* A faulty variant of Descendants: only the children are found.           *)
Descendants_Children(p) == {p} \cup { q \in processes : parent_id[q] = p }

Descendants(p) ==
    { q \in processes :
        \A S \in SUBSET processes : p \in S /\ ClosedUnderChildren(S) => q \in S }

(* A faulty variant of DestroyProcess: the process table keeps the         *)
(* descendants.                                                            *)
DestroyProcess_KeepsChildren(p) ==
    LET D == Descendants(p)
    IN  /\ ReleaseDisplay(D)
        /\ processes' = processes \ {p}
        /\ DestroyTasks(D)
        /\ UNCHANGED <<parent_id, waiting_for, memVars, screen>>

(* Another one: the tasks of the descendants go on.                        *)
DestroyProcess_KeepsChildTasks(p) ==
    LET D == Descendants(p)
    IN  /\ ReleaseDisplay(D)
        /\ processes' = processes \ D
        /\ DestroyTasks({p})
        /\ UNCHANGED <<parent_id, waiting_for, memVars, screen>>

DestroyProcess(p) ==
    LET D == Descendants(p)
    IN  /\ ReleaseDisplay(D)
        /\ processes' = processes \ D
        /\ DestroyTasks(D)
        /\ UNCHANGED <<parent_id, waiting_for, memVars, screen>>

-----------------------------------------------------------------------------
(* The shell.  load_executable and create_process, for a child of `parent',*)
(* 0 when it has none; the shell starts processes without a parent.        *)
CanCreate ==
    /\ Cardinality(processes) < MAX_PROCESSES
    /\ Fits(IMAGE_SIZE)

CreateProcess(parent) ==
    /\ regs.ip = Shell
    /\ Cardinality(processes) < Batch
    /\ CanCreate
    /\ CreateTable(id)
    /\ id' = id + 1
    /\ state' = [state EXCEPT ![id] = Context(10, id)]
    /\ processes' = processes \cup {id}
    /\ parent_id' = [parent_id EXCEPT ![id] = parent]
    /\ tasks' = tasks \cup {id}
    /\ waiting_for' = id
    /\ UNCHANGED <<hwVars, current_task, current_table, displayVars>>

(* No process slot or no memory: the shell says so and goes on.            *)
CreateFails == regs.ip = Shell /\ ~CanCreate /\ UNCHANGED vars

(* wait_for_process enables interrupts, looks for the process, waits, and  *)
(* disables interrupts when the process is gone.                           *)
Goto(ip, mask) ==
    /\ regs' = [regs EXCEPT !.ip = ip]
    /\ enabled' = mask
    /\ UNCHANGED <<faulting, mmu, frame, status, taskVars, processes, parent_id,
                   memVars, displayVars>>

WaitForProcess ==
    /\ regs.ip = Shell /\ waiting_for # 0
    /\ Goto(Check, TRUE)
    /\ UNCHANGED waiting_for

CheckProcess ==
    /\ regs.ip = Check
    /\ IF waiting_for \in processes
       THEN Goto(WaitInstruction, TRUE) /\ UNCHANGED waiting_for
       ELSE Goto(Shell, FALSE) /\ waiting_for' = 0

ReturnFromWait ==
    /\ regs.ip = AfterWait
    /\ Goto(Check, TRUE)
    /\ UNCHANGED waiting_for

(* The kernel goes on from that word.  It gets through the loop, which     *)
(* finds the process gone or, in the copy of the table that it searches,   *)
(* still there; or the word is a constant or an address went wrong, and it *)
(* halts or faults.                                                        *)
LoopsAstray ==
    /\ regs.ip = Astray
    /\ Goto(Check, TRUE) \/ Goto(WaitInstruction, TRUE)
    /\ UNCHANGED waiting_for

HaltsAstray == regs.ip = Astray /\ Hardware!Halt /\ UNCHANGED kernelVars

FaultsAstray == regs.ip = Astray /\ Hardware!Fault /\ UNCHANGED kernelVars

GoesAstray == LoopsAstray \/ HaltsAstray \/ FaultsAstray

Kernel ==
    \/ \E parent \in processes \cup {0} : CreateProcess(parent)
    \/ CreateFails
    \/ WaitForProcess
    \/ CheckProcess
    \/ ReturnFromWait
    \/ GoesAstray

-----------------------------------------------------------------------------
(* A user program: it computes, jumps, raises an interrupt or faults.      *)
InUser == regs.ip \notin KernelCode \cup HandlerCode

Compute ==
    /\ regs.ip \in UserCode
    /\ \E ip \in UserCode, r0 \in Values :
         regs' = [regs EXCEPT !.ip = ip, !.data.r0 = r0]
    /\ UNCHANGED <<enabled, faulting, mmu, frame, status, kernelVars>>

RaiseInterrupt ==
    /\ regs.ip \in UserCode
    /\ \E n \in UserInterrupts :
         /\ n = SYSCALL /\ regs.data.r0 \in CallsAlone => processes = {current_task}
         /\ Hardware!SoftwareInterrupt(n)
    /\ UNCHANGED kernelVars

UserFault == InUser /\ Hardware!Fault /\ UNCHANGED kernelVars

User == Compute \/ RaiseInterrupt \/ UserFault

(* The timer fires.  One that fires while interrupts are masked is lost.   *)
Tick == Hardware!External(TIMER) /\ UNCHANGED kernelVars

-----------------------------------------------------------------------------
(* The handlers: each runs to the trampoline's `int 0x0'.                  *)
HandlerEnds ==
    /\ regs' = [regs EXCEPT !.ip = Trampoline]
    /\ UNCHANGED <<enabled, faulting, mmu, status>>

TimerInterrupt ==
    /\ regs.ip = TimerHandler
    /\ ScheduleTask
    /\ frame' = ScheduledFrame
    /\ HandlerEnds
    /\ UNCHANGED <<id, tasks, processVars, memVars, displayVars>>

(* current_process panics when the kernel's own task is the current one.   *)
Panic == Hardware!Halt /\ UNCHANGED kernelVars

KillCurrent ==
    \/ current_task \in processes /\ DestroyProcess(current_task) /\ HandlerEnds
    \/ current_task \notin processes /\ Panic

ErrorInterrupt == regs.ip = ErrorHandler /\ KillCurrent

(* The system calls.  Every one but EXIT writes its result to r0 of the    *)
(* saved-register area, whichever task's that is by then.                  *)
Called(n) == regs.ip = SyscallHandler /\ frame.data.r0 = n

Exit ==
    /\ regs.ip = SyscallHandler
    /\ frame.data.r0 \notin 1 .. SYSCALL_COUNT - 1
    /\ KillCurrent

Yield ==
    /\ Called(YIELD)
    /\ ScheduleTask
    /\ frame' = [ScheduledFrame EXCEPT !.data.r0 = 0]
    /\ HandlerEnds
    /\ UNCHANGED <<id, tasks, processVars, memVars, displayVars>>

(* A faulty variant of SetResult: the saved ip is taken to be that of the  *)
(* INT instruction, and advanced.                                          *)
SetResult_AdvancesIp(result) ==
    /\ frame' = [frame EXCEPT !.data.r0 = result, !.ip = @ + 1]
    /\ HandlerEnds
    /\ UNCHANGED <<taskVars, processVars>>

SetResult(result) ==
    /\ frame' = [frame EXCEPT !.data.r0 = result]
    /\ HandlerEnds
    /\ UNCHANGED <<taskVars, processVars>>

OpenDisplay ==
    /\ Called(DISPLAY_OPEN)
    /\ \E size \in FramebufferSizes, result_ptr_valid \in BOOLEAN, result \in {-1, 0} :
         /\ DisplayOpen(current_task, size, result_ptr_valid, result)
         /\ SetResult(result)

FlipDisplay ==
    /\ Called(DISPLAY_FLIP)
    /\ \E result \in {-1, 0} : DisplayFlip(current_task, result) /\ SetResult(result)

CloseDisplay ==
    /\ Called(DISPLAY_CLOSE)
    /\ \E result \in {-1, 0} : DisplayClose(current_task, result) /\ SetResult(result)

(* The calls that touch no process: files, keys, the clock, SPAWN.         *)
OtherCall ==
    /\ regs.ip = SyscallHandler
    /\ frame.data.r0 \in 1 .. SYSCALL_COUNT - 1
    /\ frame.data.r0 \notin {YIELD, DISPLAY_OPEN, DISPLAY_FLIP, DISPLAY_CLOSE}
    /\ \E result \in Values : SetResult(result)
    /\ UNCHANGED <<memVars, displayVars>>

(* A call that follows the user's pointers past the end of memory faults,  *)
(* which replaces the handler.                                             *)
CallFaults ==
    /\ regs.ip = SyscallHandler
    /\ frame.data.r0 \in {READ, WRITE, OPEN, CREATE, DESTROY}
    /\ Hardware!Fault
    /\ UNCHANGED kernelVars

(* DISPLAY_OPEN writes its result through a pointer of the user's when the *)
(* framebuffer is mapped and the display is not owned yet.                 *)
OpenFaults ==
    /\ Called(DISPLAY_OPEN)
    /\ \E size \in FramebufferSizes : OpenMapped(current_task, size, FALSE, -1)
    /\ Hardware!Fault
    /\ UNCHANGED <<taskVars, processVars>>

SyscallInterrupt ==
    \/ Exit \/ Yield \/ OpenDisplay \/ FlipDisplay \/ CloseDisplay
    \/ OtherCall \/ CallFaults \/ OpenFaults

InterruptReturn ==
    /\ regs.ip = Trampoline
    /\ Hardware!SoftwareInterrupt(0)
    /\ UNCHANGED kernelVars

Handler == TimerInterrupt \/ ErrorInterrupt \/ SyscallInterrupt \/ InterruptReturn

-----------------------------------------------------------------------------
Step == status = "on" /\ (Kernel \/ User \/ Tick \/ Handler)

(* A machine that has halted stays as it is.                               *)
Stopped == status # "on" /\ UNCHANGED vars

Next == Step \/ Stopped

(* The machine always executes: a handler runs to its end, and as the      *)
(* timer's interval is longer than its handler, the shell gets on between  *)
(* two ticks.  The timer fires again and again while it is not masked.     *)
Fairness ==
    /\ SF_vars(WaitForProcess \/ CheckProcess \/ ReturnFromWait \/ GoesAstray)
    /\ WF_vars(Handler)
    /\ WF_vars(Tick)

Spec == Init /\ [][Next]_vars
FairSpec == Spec /\ Fairness

-----------------------------------------------------------------------------
(* The processes and the tasks are the same: each process has a task in    *)
(* the list and each task but the kernel's has a process, so that          *)
(* current_process finds one for whatever task a handler runs for.         *)
TasksMatchProcesses == tasks = processes \cup {0} /\ current_task \in tasks

InHandler == regs.ip \in HandlerCode

(* The registers that a return would restore, or that the machine has, are *)
(* the current task's, and the page table is its own too: a program never  *)
(* runs with the registers or in the memory of another.  The exception is  *)
(* the zero frame after a stray `int 0x0' of a program about to be killed. *)
RunsOwnContext ==
    /\ current_table = current_task
    /\ ~InHandler => regs.data.own = current_task
    /\ InHandler =>
         \/ frame.data.own = current_task
         \/ regs.ip = ErrorHandler /\ frame = Hardware!ZeroRegisters

(* The task of every process that is not running can be resumed: its saved *)
(* registers are its own and point into its code, and the kernel's, while  *)
(* a process runs, point into wait_for_process.                            *)
SavedContexts ==
    \A t \in tasks \ {current_task} :
        /\ state[t].data.own = t
        /\ t = 0 => state[t].ip \in {Check, WaitInstruction}
        /\ t # 0 => state[t].ip \notin KernelCode \cup HandlerCode \cup {0}

(* A child never outlives its parent, and the display never belongs to a   *)
(* process that is gone: exit and fault clean up after all descendants.    *)
NothingOutlives ==
    /\ \A p \in processes : parent_id[p] \in processes \cup {0}
    /\ display_owner_pid \in processes \cup {0}

(* No program, whatever it does and whenever it dies, makes the kernel     *)
(* panic or halt, or the machine double-fault, while another is there.     *)
(* The kernel stops the machine by itself, when the last process is gone   *)
(* and destroy_task resumed it astray (see AdvancesPastWait): there, or in *)
(* the handler of the fault that it makes there.  And interrupts are       *)
(* masked exactly in the shell and in the handlers.                        *)
KernelSurvives ==
    /\ status # "on" =>
         /\ processes = {}
         /\ \/ regs.ip = Astray
            \/ regs.ip = ErrorHandler /\ frame.ip = Astray
    /\ enabled <=> regs.ip \notin HandlerCode \cup {Shell}
    /\ faulting => regs.ip \in {ErrorHandler, Trampoline}

(* Every process gets the processor again and again until it is gone,      *)
(* whatever the others compute, unless they make system calls for ever:    *)
(* then each tick may come while a call has interrupts masked, and is lost. *)
EveryProcessRuns ==
    \/ []<>(regs.ip = SyscallHandler)
    \/ \A p \in Pids : p \in processes ~> (p \notin processes \/ current_task = p)

(* wait_for_process returns to the shell once no process is left, unless   *)
(* the kernel is resumed astray: it may then halt, or wait for ever.       *)
ShellResumes == <>(regs.ip = Astray) \/ ((processes = {}) ~> (regs.ip = Shell))

(* The register file that each process sees: its saved one, the one that a *)
(* handler will return to, or the machine's.                               *)
Contexts ==
    [p \in Pids |-> IF p # current_task THEN state[p] ELSE IF InHandler THEN frame ELSE regs]

Calling == regs.ip = SyscallHandler

(* The scheduler is invisible to user programs.                            *)
Sharing == INSTANCE TimeSharing WITH
    Registers <- Hardware!Registers,
    live <- processes,
    cpu <- current_task,
    context <- Contexts,
    calling <- Calling

ImplementsTimeSharing == Sharing!Spec

(* scheduler.qll:107: "The kernel task was interrupted by the timer while  *)
(* at a `wait` instruction": the only ip that destroy_task advances is     *)
(* that of the WAIT.                                                       *)
AdvancesPastWait ==
    [][processes' # processes /\ current_task # 0 /\ current_task' = 0
         => state[0].ip = WaitInstruction]_vars

(* syscall.qll:49: "interrupts::state now holds a different task's         *)
(* registers; writing here would corrupt them": a result is written only   *)
(* to the task that made the call.                                         *)
ResultGoesToCaller ==
    [][regs.ip = SyscallHandler /\ current_task' # current_task
         => frame' = state'[current_task']]_vars
=============================================================================

# Formal models of QUINIX

QUINIX is a 32-bit computer written from nothing: a virtual machine, an
assembler, a compiler for a small systems language (QLL) and an operating system
(QOS) that is written in it.  This directory holds TLA+ models of its behaviour,
TLC configurations that check them on small instances, and TLAPS proofs of what
matters most for every instance.

## 1. The system

| component | state | operations | interacts with |
|---|---|---|---|
| VM interrupts (`src/src/vm/vm.ts`) | enable word at 0x0, handler table, saved-register area at 0x2, `faulting`, the MMU switch | `fault`, `prepareInterrupt`, `interrupt`, `INT`, `WAIT` | every handler; peripherals call `interrupt` between instructions |
| VM instructions (`vm.ts`, `instructions.ts`) | 64 registers, `ip`, memory | `step` | MMU, peripherals (memory-mapped words) |
| MMU (`mmu.ts`) | table address; the list MMU's pages and last page, the two-level MMU's cache of entries | `translate`, `enable`, `disable`, `reset`, `notify` | read by each access; rebuilt when the kernel writes its word |
| peripherals (`peripherals.ts`, `platform/*`) | control word, size, buffer; timer period; framebuffer pointer | `notify`, `tick`, asynchronous completion | raise interrupts, write shared memory |
| scheduler (`kernel/scheduler.qll`) | task list, current task, saved registers of each | `create_task`, `enqueue_task`, `_schedule_task`, `destroy_task` | saved-register area, MMU |
| processes (`kernel/process.qll`) | process table, parents | `create_process`, `destroy_process`, error handler | scheduler, memory, display |
| memory (`kernel/memory.qll`) | use of the pool, page tables | `allocate_physical_memory`, `create_table`, `add_page`, `translate` | MMU |
| system calls (`kernel/syscall.qll`) | display owner and framebuffer | fifteen calls | everything above, the file system |
| file system (`kernel/fs.qll`) | allocation table, directories, open-file slots | open, read, write, close, create, delete | block device |
| block device (`kernel/block.qll`, `platform/server/peripherals.ts`) | control word, sector, address | read, write, asynchronous completion | disk image |
| heap (`shared/alloc.qll`) | list of blocks | `alloc`, `dealloc` | kernel and user programs |
| host disk tool (`bin/qfs.ts`, `platform/server/qfs.ts`) | disk image | create, create --from, add, mkdir; list, extract, dump | the same disk format |
| assembler (`src/assembly`) | labels, data | parse, layout (`preassemble`), encode (`assemble`) | loader of the VM |
| compiler (`src/lowlevel`) | type declarations, scopes, template copies; registers in use, frame register, loop labels, storage of a function | parse, kindcheck, typecheck, liveness, compile | assembler; the allocator that the program brings |

What is hard here:

* the timer preempts any instruction of a process and of the kernel's waiting
  loop, and a fault replaces whatever handler is running;
* there is one saved-register area, shared by all of them, and the kernel
  switches tasks by rewriting it;
* interrupts that come while they are masked are lost;
* system calls fail half way, and what they did before stays;
* physical memory and task numbers are never given back;
* disk structures span sectors that are written one after the other;
* an MMU answers from what it read of a table earlier, which the kernel may have
  changed or switched since;
* the compiler keeps values in registers across code that it has not generated yet:
  nested calls, run-time checks and jumps must give back what they take, on every
  way through the code;
* types are recursive and compared by structure, alternative after alternative, with
  bindings of type variables made on the way.

## 2. Modules

| module | models | source |
|---|---|---|
| `Interrupts` | the interrupt logic, as operations on the hardware's state | `vm.ts` |
| `Machine` | an arbitrary program on that logic, peripherals interrupting | `vm.ts` `step`, `execute` |
| `MachineProofs` | theorems about `Machine` | |
| `Memory` | the allocator of the user pool and page tables | `memory.qll` |
| `Display` | ownership of the display and its framebuffers | `syscall.qll` |
| `Kernel` | the operating system's control, on `Interrupts`, `Memory` and `Display` | `scheduler.qll`, `process.qll`, `syscall.qll`, `kernel.qll`, `support.qasm` |
| `TimeSharing` | what the scheduler promises to programs; `Kernel` implements it | |
| `KernelProofs` | theorems about `Kernel`: memory, the tables, registers and masking, the display and the types; the refinement | |
| `QfsDisk` | a QFS disk: FAT chains, directories, paths, as operators on a disk | `fs.qll`, and the same in `qfs.ts` |
| `Qfs` | the file system driver: open files, the calls and shell commands that reach it, crashes | `fs.qll`, `syscall.qll`, `shell.qll` |
| `FileStore` | what a program may rely on: files are byte sequences, handles have positions | |
| `QfsStore` | the refinement: `Qfs` implements `FileStore` | |
| `QfsDiskProofs` | theorems about `QfsDisk`: chains and counts, directories and paths | |
| `QfsProofs` | theorems about `Qfs` | |
| `QfsStoreProofs` | the proof that `Qfs` implements `FileStore` | |
| `HostTool` | the host's disk tool, on `QfsDisk` | `bin/qfs.ts`, `qfs.ts` |
| `HostToolProofs` | theorem about `HostTool` | |
| `Translation` | what an MMU promises: an answer that the table in memory gives, without a cache | `mmu.ts` |
| `ListMmu`, `TwoLevelMmu` | the two MMUs, with their caches; both implement `Translation` | `mmu.ts` |
| `Allocator` | what a heap promises: words of one's own, refused only when none are left | |
| `Heap` | the heap's list of blocks, in the memory it manages; it implements `Allocator` | `shared/alloc.qll` |
| `HeapProofs` | theorems about `Heap` | |
| `Transfers` | what the block device's driver promises to the file system | |
| `BlockDevice` | the driver and the device behind it; implements `Transfers` | `block.qll`, `server/peripherals.ts` |
| `PeripheralProofs` | theorems about `ListMmu`, `TwoLevelMmu` and `BlockDevice` | |
| `Types` | QLL's types: substitution, evaluation, size, unification, inference | `types.ts` |
| `Kinds` | the check of type declarations, one after the other | `types.ts`, `typechecker.ts` |
| `ExpressionTypes`, `Expressions` | the typechecking and the code of every class of expression | `expressions.ts` |
| `Statements` | the same for statements | `statements.ts` |
| `Compiler` | registers, calls, frames, storage and run-time checks, which those are generated with | `compiler.ts` |
| `LowLevel` | a program: functions, globals, template copies, liveness | `lowlevel.ts` |
| `Instructions`, `Assembler`, `Cpu` | instruction words and arithmetic; the assembler's two passes; the machine's `step` | `instructions.ts`, `assembly.ts`, `vm.ts` |
| `Toolchain` | a program on its way through all of them, and its run | `lowlevel.ts`, `bare/entrypoint.qasm` |
| `MCMachine`, `MCKernel`, `MCQfs`, `MCQfsTree`, `MCHostTool`, `MCParts`, `MCKinds`, `MCPrograms`, `MCCompiler` | instances for TLC | |

### Interrupts and Machine

A register file is the `ip` and one value `data` for r0..r63.  `Enter` is the
tail of `prepareInterrupt`; `Return` is `int 0x0`; `Dispatch` chooses between the
mask, an unknown number (a fault), an unmapped entry (ignored) and the handler.
`SoftwareInterrupt` saves the next address, `External` the current one, as in the
code.  `Machine` runs a program, which is a constant of each behaviour chosen in
`Init`, so that one run covers every program of `Programs`.  `origin` is a history
variable, read by no action: the registers that the pending interrupt must return
to.  The VM throws on a double fault and on an unhandled one: `Stop`.

### Kernel

A handler runs with interrupts masked, so nothing can come between its
instructions: its body is one action, and the trampoline's `int 0x0` another.
The kernel's own task, number 0, is the shell; it masks interrupts except in
`wait_for_process`, whose instructions are separate actions (`WaitForProcess`,
`CheckProcess`, the WAIT, `ReturnFromWait`).  User programs are arbitrary: at any
instruction they compute, raise any interrupt or fault.

r0..r63 are abstracted to r0, which carries the number and the result of a
system call, and `own`, the task whose values all the others hold.  The kernel
copies the saved-register area as a whole and writes nothing in it but r0, so a
copy that goes to the wrong task shows as a wrong `own`.

`enqueue_task` pushes at the head of the list and task numbers grow, so the list
is always in decreasing order of number; it is modelled as the set `tasks`, with
`Below` for what follows an element.

`destroy_process` is one action, for the process and all its descendants:
`Descendants` is the least set that `_kill_children` reaches.

The shipped shell runs one process at a time and waits for it (`Batch = 1`).
The scheduler and the process table are written for many
(`create_process` takes a parent, SPAWN has a number), and the project's README
calls the system preemptive; `Batch > 1` lets the kernel start several processes
with any parents before it waits, and exercises that code.

`Astray` stands for a word in the middle of the searching loop of `wait_for_process`,
one further than where it was interrupted (see the finding `AdvancesPastWait`).  What
the kernel does from there depends on the compiled loop, and the model has each outcome
that control can have (`GoesAstray`): it gets through the loop, and returns to the shell
or, as `process_exists` searches a copy of the table's slice that still holds the freed
process, waits for it, for ever; it meets a constant's second word and halts; it faults,
and as the error handler runs for the kernel's own task, `current_process` panics.  A
skipped instruction may also be the one that computes the address of a local variable
that is then stored, or of the return: what is written or run in this way is not
followed.  A machine that has halted stays as it is (`Stopped`), so that deadlock is
still checked.

The system calls that follow pointers of the user's may fault on them, which replaces
their handler: those that read a slice or a name (`CallFaults`) and DISPLAY_OPEN, which
has mapped the framebuffer by then and does not own the display yet (`OpenFaults`).

### TimeSharing

Each process has its own register file, which only changes when that process
executes an instruction or gets the result of its own call.  `Kernel`'s refinement
maps the file of the running process to the registers, or to the saved-register
area while a handler runs, and of any other to its task.  The one call that breaks
this, YIELD, has a run of its own (`MCKernelYield`); in `MCKernelCalls` a process
makes it when it is alone (`CallsAlone`), as it is in the shell, and the refinement
holds, since the task it switches to is the caller.

### QfsDisk, Qfs and HostTool

An operation of `QfsDisk` takes a record of the disk, of the sector writes made so
far and of the cached count of free sectors, and returns the next one; the drivers
of the kernel and of the host keep the disk in the same way and order, so both are
built from it.  A sector is `Cells` cells, each zero, a directory entry or a byte.
A chain of sectors is followed as the code does, to an end mark, a free mark or
sector 0; a cyclic chain, on which the code would not return, is cut after as many
steps as there are sectors, and shows in `ChainsDisjoint`.

Handlers are masked, and the shell's commands run one at a time, so that a call of
`Qfs` is one action: it sees the disk that the call before it left.  Its sector
writes are queued in `writes`; `WriteSector` stores them one by one and `Crash`
drops those that are left, with the open files and the cached superblock.  Where
the calls of a run do not include "crash", the writes are stored with the call.
`Habits` lists what programs do that the driver does not defend itself against
(share a file with a writer, read by a handle that writes, open a directory, remove
an open file or a directory with entries, DESTROY a file beyond the first sector of
the root); in the passing runs they do none of it.

Left out: I/O errors of the device, names cut to 24 characters and trailing
slashes (paths are sequences of names), and the magic number; `file_read_words` is
a read of whole words.  A deleted entry is a zero cell: no search distinguishes
them.

`FileStore` has neither sectors nor buffers.  `QfsStore` maps a file to the bytes
along its chain, where a writer's buffer is newer to that, and its size to the one
that the writer knows; `seen` holds the mapped state.

`HostTool`'s commands open the image, work on it and close it.  `reported` is what
the commands said they had put in the image.

### Translation, ListMmu and TwoLevelMmu

`Translation` has the tables, which of them is in force, and no cache.  `ListMmu`
keeps `pages`, a sorted copy of the table, and `lastPage`, tried before the list;
`TwoLevelMmu` keeps the entries it has found (`mru`).  `answer` is the last access
and what `translate` returned; an access by `translate` is one action in three
disjuncts, without translation, by the cache and past it.  The kernel writes a table
while the MMU is disabled, which is how its handlers run (`Enter`).

A switch of tables (`notify`) rebuilds the list and leaves `lastPage`: the last page
is forgotten by `enable` and `disable` only.  The refinement holds because the kernel
writes the MMU's word with the MMU disabled, and a list answers by it only while it
is enabled (`ListInv`).

Pages may overlap in any way: `add_page` checks nothing, and a display that is closed and
opened again is mapped a second time at 0x40000, with the size it then asks for.
`AnswersOf` says what such a table allows.  Where all the pages that cover an address are
mapped at the same place, the first one answers (the sort is stable); where they begin
apart or have different sizes, any of them may, because the last page used is preferred
to the first that covers the address.  `Translation` leaves that choice open, and no
other: a page that is not in the table in force, or does not cover the address, never
answers.

The two-level MMU masks an entry with bits 10 to 29 on a miss and with bits 12 and up
of that on a hit, and checks the first table's flags on a miss only.  They agree on the
tables that `WellFormed` describes.  Nothing in the repository writes such tables but
the tests.

### Allocator and Heap

`Heap` has one memory, `word`, in which the headers of the blocks lie among the words
of the program, as in `alloc.qll`; the list is what `NextOf` reads there.  A call is a
step that starts the walk along the list and a step for each iteration, so that the
walk follows links that it has just written, and need not end.  The caller is one
program (a user program, or the kernel with interrupts masked), which waits for its
answer; between calls it stores into words it was given, and into no others.  Requests
are sizes of the constant `Sizes`; 0 is one that the code takes.

`Allocator` has neither headers nor list: `live` and the `content` of the program's
words.  `Grant` finds any words that are unused and leaves `content` alone; `Refuse`
needs that no run of unused words is as long as the request and `Slack`, which is a
header, and what a block may keep beyond what was asked for because splitting it is
not worth while.

### Transfers and BlockDevice

The driver writes the words of a command, which starts it (`notify`), and polls the
status word.  `transfers` are the chains of promises that are not settled: `Resolve`
moves a sector and asks for the next, `Reject` ends the chain with an error, and a
sector whose writing failed may be on the disk or not.  Nothing in the device keeps a
second command from starting beside the first; that there is never one is due to the
driver's loop and to the masked interrupts it runs with.  Buffers lie in memory, as
the kernel's do.  `_wait` reads the status twice: `LeaveLoop` and `Return`.

`Transfers` moves sectors in any order while a call is under way and none afterwards;
true is answered only when all are moved.  This is what `Qfs` counts on when a sector
write is one of its steps.

### The compiler

A type, an expression and a statement are records with their class in `k`.  The typing
rules are operators on them, as the methods are; checking an expression gives it back
with its type and with what it stands for.  Recursion over declarations goes through
`declared`.  `MaxDepth` is where the code's stack ends when two recursive types are
compared for ever.

Code generation is a chain of operators on a compiler `s`: the code so far, the free
registers, the frame register, the stacks of loop labels, the storage.  `s.r` is the
register that the last call returned.  The register a loop or call keeps across the
code of its parts is a parameter of the operators that go on after them, in the order
of the code.

`Toolchain` takes a program through the whole: declarations are kindchecked one by one
(`KindcheckDeclaration`), the functions, globals and copies of templates are checked
one by one (`Typecheck`: a copy is checked when it is first referred to), the live ones
are compiled and assembled behind the entry point (`CompileProgram`), and the machine
executes an instruction to a step (`Run`).

What is abstracted there:

* words have `WIDTH` bits for arithmetic and memory, and instruction words have their
  32 bits; a shift or a division is by the code's operator, and a division by zero
  gives 0, as the machine's conversion to a word of infinity or NaN does;
* a float is a whole number, kept in a word by a bijection (`floatToInt`) that no
  integer instruction respects, so that a value taken for one of the other class shows;
* names are qualified by identifier and template arguments; namespaces and usings,
  which only resolve identifiers, are left out, as is the parser: programs are trees;
* the types written in a function's body name known types (those in signatures are
  checked: `SignatureErrors`);
* the code of functions is laid out in a fixed order, where the source goes by the
  order of files; `label`s and `ref`s make it irrelevant;
* one kind of error is as good as another: a program is `rejected`.

The allocator of `new` and `delete` is a function of the program; those of `MCPrograms`
have one that takes words from a fixed range and gives null when it is used up.

## 3. Runs

Bounds are constants of each `.cfg`.  `LastPid` bounds task numbers: the pool has
room for that many images, so it is the memory, and not the bound, that stops
creation (`KernelAssumption`).

| run | instance | shows |
|---|---|---|
| `MCMachine` | every program of two or three instructions, two handlers | types, returns to the origin, isolation of handlers, `faulting`, stray returns; handlers return, although the timer may fire at every instruction |
| `MCKernelTasks` | three processes, any parents, EXIT and faults | tables agree, saved contexts are right, nothing outlives its parent; every process runs, the shell resumes |
| `MCKernelCalls` | two processes, every call, every kind of interrupt number, five pages in a table | types, isolation, display ownership, no panic while a process is there, contexts, refinement |
| `MCKernelYield` | two processes and YIELD | finding: the result goes to another task |
| `MCKernelWait` | one process | finding: the kernel is advanced past an instruction that is not WAIT |
| `MCQfsStore` | two files, two handles, two data sectors of two bytes | the driver implements `FileStore`; sizes and positions |
| `MCQfsTree` | three names, a directory and one in it, three data sectors | no sector shared, lost or miscounted, names unique |
| `MCQfsCrash` | the same with crashes and two handles, no removals | no sector shared; sizes never ahead of the bytes |
| `MCQfsDestroy` | three names in a root of two slots | finding: DESTROY deletes another file |
| `MCHostTool` | images made from four trees, then add and mkdir | the image holds what was reported; all sectors accounted for |
| `MCParts` | tables of up to three pages in any order, one with a repeated mapping and one with a larger page over a smaller, two tables besides the absent one; two-level tables of two entries each; a heap of 14 words, requests of one and four; a disk of two sectors of two words, requests of up to two sectors in and out of range | both MMUs implement `Translation`; the list's copies are current; the heap implements `Allocator`, and its calls return; the block device implements `Transfers` |
| `MCCompiler` | 188 programs, and two types and a template of every combination of ten, nine and five bodies in three orders | what is accepted computes what it means and ends, at the end of every function no register is lost but those listed; the reported recursions are real; conversion keeps sizes; inferred arguments fit |

A disk of two cells to a sector has all the boundaries of a real one: a file ends
within a sector, at its end, and in the next; a directory is full with two entries
and extended with the third; three data sectors are few enough for every
allocation of every call to fail.  Reads and writes of two and three bytes start and
end on both sides of a boundary.  In `MCQfsStore` names and values are symmetric,
and states that differ in the last answer only are taken as one (`But_answer`); every
step is still checked.  `CountBound` caps how far the count of free sectors drifts
in repeated crashes.

The programs of `MCPrograms` are trees with the outcome the language gives them
(`docs/qll.md`): a result, a refusal, or one of the run-time checks.  Pairs of values
under every operator are computed by both the model and `Apply`, their meaning; then
comes every construct while something else is alive around it: calls in the arguments
of calls, with words and structures, results in memory, loops in loops with `break` and
`continue` in either, slices of arrays and of slices, allocation that fails, templates
that instantiate templates, literals as globals, interrupt handlers.  `Deep` runs out
of registers.  32 registers are enough for the deepest of the others and make those
that are saved by the callee come into use; 1000 words hold the longest program, its
heap and its stack; 15 bits hold addresses and overflow in `Numbers`.  Instantiations
may nest four deep, the code's 10 would only repeat the same copies; `MaxDepth` is more
than any two finite types need.  `kinds` alone are cheap: they start from every
combination of bodies and end as programs without `main`, refused.

A heap of 14 words with a threshold of one has room for three small allocations, or for
a large one beside a small one; a block is split, is taken whole because the rest is too
short, and is refused; every order of release merges with the block before it, behind
it, with both and with none.  Two sectors make a transfer that fails behind its first, and
requests that begin or end beyond the disk.

In the kernel's runs, READ stands for every call that touches no process
(`OtherCall`), and may fault on the user's pointer (`CallFaults`).

Three processes are enough for a task list with a head, a middle and the kernel's
task at its end, for a parent, a child and a grandchild, and for the death of any
of them while another runs.  A framebuffer of which three fit beside one image and none
beside two, with room for two in a page table, reaches each failing branch of
`display_open`.  Programs of
three instructions with handlers of two reach a fault in the main code, in a
handler and in the fault handler, with the timer before, between and after.

`CHECK_DEADLOCK FALSE` is set in the `Machine` runs, where a machine that halts or
stops takes no step, in those of `HostTool`, where every command may refuse, and in
`MCCompiler`, where a refused program and a halted machine take no step either.
The kernel's runs and the driver's check deadlock.

### Met on the way

Each finding of `PROJECT.json` has a run.  These have none:

* `vm.ts:657` says that the saved address of an external interrupt is that of the
  instruction that should execute after the return; of an interrupt at a WAIT it is
  the WAIT itself (`StepWait`), and the kernel counts on it (`scheduler.qll:107`).
* `vm.ts:861` says that the registers are not stored only for a double fault; the
  fault of a program that masked interrupts itself does not store them either
  (`Enter`), and `Disciplined` leaves such programs out.
* A process that closes the display and opens it again has two pages at 0x40000
  and draws in the first, which the display no longer shows (`syscall.qll:384`).  If the
  second one is larger, the words beyond the first page reach the new framebuffer, and so
  do the others as long as the last page used is the new one (`mmu.ts:313`): which
  framebuffer a word of the screen goes to depends on the access before it.
* A handle that has read up to the end of a sector and then writes moves on twice
  and skips a sector (`fs.qll:953`): with `"mix"` in `Habits` and one file,
  `HandleAtPosition` fails.
* `qfs create --from` puts a file into the directory found last when an ancestor of
  it was skipped for its long name (`bin/qfs.ts:280`): with such a tree in `Trees`,
  `ImageIsAsReported` fails.
* `qfs add` puts the first file for a full root directory over the first entry:
  `findFreeDirEntry` extends the directory and `setDirEntry` writes to its first sector
  (`qfs.ts:511`, `bin/qfs.ts:53`); `MCHostTool` adds no more than the root holds,
  and `AddsFit` is this assumption of `AccountsForSectors`.
* `kindcheck` accepts `type A = struct { x: * B; y: B; }; type B = A;`: a name seen
  through a pointer is not looked at again where it is contained (`types.ts:728`;
  `errors.test.ts:258` has the cases that are refused).  A structure that contains an
  alias of itself, a template whose member is directly of its type variable
  (`types.ts:1146`) and the comparison of two recursive types of the same shape end the
  compiler itself.  The model rejects them (`Crashed`) or ends them (`MaxDepth`).
* Arrays convert to slices inside structures, where nothing converts their words
  (`types.ts:1014`); `isEqualTo` is not symmetric; a member's type written `A.x` has no
  `size` or `resolve` of its own (`types.ts:576`).  `ConvertedFits` excepts these.
* `&&`, `||` (`expressions.ts:1573`, `1617`) and `delete p` (`statements.ts:837`) keep a
  register for the rest of the function (`RegistersReturned` excepts them; `Deep` shows
  what it leads to).  Deleting a slice frees a register twice, which goes well because
  the call's result is in the same one (`statements.ts:802`).
* A function saves the registers that its callers expect to keep (`compiler.ts:1151`)
  and its return does not restore them (`compiler.ts:1177`; `docs/qll.md:368` has them
  in the frame).  No caller depends on them: `emitCall` saves all that it uses.
* Allocation: `new` with a one-word structure stores its address
  (`expressions.ts:993`); `new T[n] = e` copies as many words as `n` asks for, whatever
  `e` has (`expressions.ts:1186`); `new T[n] = e...` with structures and no element
  never ends (`expressions.ts:1218`); `new` of an array type is always refused
  (`expressions.ts:917`); the result is not tested for null before it is initialized.
  The programs have none of these.
* A null slice is the address 0, from which three words are copied
  (`expressions.ts:802`); the bounds of `a[lo:hi]` are not checked
  (`expressions.ts:2517`).
* A global with a constant value has one word, whatever its type's size
  (`lowlevel.ts:301`): `kernel/process.qll:17` and `kernel/memory.qll:65` initialize
  vectors with null, slices of three words that lie over the data behind them once they
  are assigned to.
* `user/alloc.qll:7` puts the heap of a user program at 0x4000, "to match the kernel's
  memory layout" (line 3); `create_table` maps the heap page at 0xA000
  (`kernel/process.qll:4`, `memory.qll:117`; `HEAP_BASE` in `Memory`).  The heap is in
  the page of the executable, on top of a program that is longer than 0x3000 words, and
  an allocation that reaches 0x9000 is in no page.  The 0x10000 words of
  `shared/alloc.qll:4` are right for the kernel.
* `std::buffered::write` copies more words than a peripheral's buffer has over those that
  follow it (`shared/buffered.qll:14`): a string of more than 253 words that the kernel
  prints.  Programs are safe, as WRITE prints one word at a time (`syscall.qll:142`); a READ
  whose buffer is shorter than what was typed drops the rest (`shared/buffered.qll:41`).
* Two lines that reach the console at once are read as one: what follows the first is kept,
  and is not looked at for a line end again (`server/peripherals.ts:99`).
* Copies of a template are told apart by the type of the function (`lowlevel.ts:662`;
  its comment at 670 says by their arguments): two that have the same type share a body
  even where they differ by what is cast or measured in it.

### Fairness

`Machine`: the VM keeps executing (`WF(Step)`): `execute` is a loop.  Peripherals
are not assumed to raise anything.

`MCParts`: `alloc` and `dealloc` go on with their loops (`WF(Walk)`), the driver with
its own (`WF(Driver)`), and the storage settles its promises (`WF(Device)`: the VM lets
them run after every so many instructions, `execute`).

`MCCompiler`: the machine keeps executing (`WF(Run)`), as in `Machine`; nothing is
assumed of the compiler's steps, and `Ends` is about programs that run.  They get no
interrupt.

`Kernel`: handlers run to their end (`WF(Handler)`: they are masked, and the loop
goes on); the timer fires again and again while it is not masked (`WF(Tick)`: its
period is counted in cycles, `TimerPeripheral.tick`); and the shell's steps are
strongly fair: each tick that arrives in the waiting loop takes it out of the loop
and back, and as the period of the timer is longer than its handler, the loop gets
on between two ticks.  Nothing is assumed of user programs: they may compute for
ever.  A tick that comes while a call has interrupts masked is lost, and the code
has nothing that keeps a program's calls out of step with the timer; so
`EveryProcessRuns` promises nothing to the others while programs make system calls
for ever.

## 4. Proofs

`MachineProofs`, from `DataAssumption`, `HandlerAssumption` and
`MachineAssumption` (handlers are addresses, devices raise known interrupts other
than the fault, programs are made of instructions):

* `TypeCorrect`, `FaultsArePending`, `StrayReturns` hold for every program.  The first
  says that the state keeps its types and that at most one context waits for its return,
  no more.  The
  inductive invariant `IInv` adds `IdleFrameIsZero`: while nothing is pending the
  saved-register area is zero.  It is what makes a stray return be refused, and it
  holds because an entry always makes something pending and a return zeroes the
  area before anything else.
* `HandlersReturnToOrigin` needs a program to be `Disciplined` (no handler unmasks
  interrupts, nothing faults while masked outside a handler, nothing executes at
  address 0).  `FrameIsOrigin` and `HandlerIsolated` are proved together: a
  replaced handler keeps the frame because it was masked, and it was masked
  because a handler was pending.  The one more conjunct, `OriginIsRealOrZero`, is for
  a return to address 0, which zeroes the area and faults at once.
* `HandlersAreIsolated` asks less of the program: whatever else it does, if none of its
  handlers unmasks interrupts (`[]HandlersStayMasked`), interrupts stay masked and
  addresses untranslated while an interrupt is pending.  It says nothing of the mappings
  that the program has outside of handlers.

`KernelProofs`, from `MemoryAssumption` and `KernelAssumption`:

* `AddressSpacesAreIsolated`.  `MemoryInv` adds that every page lies below the used
  part of the pool and that `id` processes have used `id` images, so that a new
  table belongs to a process without one.  Every action but `CreateProcess` and
  `OpenDisplay` leaves memory alone.

  The rest of the module adds three layers to that invariant, from the same assumptions.
* `TablesAgree`, `DeathIsComplete`.  `ControlInv` is `MemoryInv` with the two
  properties: it needs memory because only the pool keeps process numbers from running
  out, without which a new process could take the place of another.  What a death
  leaves is closed because `Descendants` is the intersection of the closed sets
  (`DescendantsAreClosed`); that there is a task to go to is `GreatestExists`, by the
  well-foundedness of the distance to `LastPid`.
* `ProgramsAreSeparated`, `WaitingTasksCanResume`, `NoProgramStopsTheKernel`.  None of
  the three is inductive.  `FrameFits` says what is in the saved-register area in every
  kind of code: zeros while interrupts are on, a context that `CanResume` the current
  task in a handler, or zeros in the error handler after a stray return.  The kernel's
  own context can be resumed in `wait_for_process`, and one word further only
  when no process is left, which is why the timer never finds another task to save it
  for.  `KernelSurvives` therefore says that the machine stops only then and only there:
  while a process is left, nothing that programs do makes the kernel panic or halt or the
  machine double-fault.  It does not say that the machine never stops; after the last
  process died at the wrong moment, it may (`HaltsAstray`, `FaultsAstray`).
* `ScreenIsAlwaysOwners`, `KernelTypes`.  `DisplayInv` adds that numbers are not used
  again, so that a new table is not the owner's.

* `SchedulingIsInvisible`: `Kernel` implements `TimeSharing`, for programs that yield
  when they are alone or never (`YieldsAlone`; `MCKernelYield` shows what happens
  otherwise).  Each step maps to one of the abstract actions or to none; `LoneYield`
  carries the assumption from the INT to the handler.

`QfsDiskProofs` and `QfsProofs`, from `DiskAssumption` and
`QfsAssumption`: for every size of disk and of sector, any names, paths, values, counts
and number of open files, and every sequence of calls.

* The hypothesis is `Mindful`: the machine does not stop ("crash" is not among `Calls`),
  and programs mind every habit but "mix" (each of the others makes one of the
  properties fail, by the code).  `MCQfsTree` and `MCQfsStore` satisfy it.
* `StaysConsistent` is the inductive invariant.  There is a layout `L` that gives every
  place a chain can hang on its sequence of sectors: the root, the entries, and one that
  mkdir holds before there is an entry for it.  `Laid`: the sequences are linked and
  ended by the FAT, no sector occurs twice in all of them, and only those sectors are
  taken.  `Tidy`: entries are in the sectors of directories, know the first sector of
  their chain unless a writer is yet to tell them, differ in name within a directory,
  and every directory is reached from the root.  `Fine` adds the two counts of free
  sectors, `Sane` the open files (`HandleOk`: at a file, the cursor and the buffer in
  its chain, a writer alone).  The properties are not inductive by themselves: that a
  chain is freed without touching others needs all chains to be disjoint, the count to
  be right needs a chain to have no sector twice, and a directory's removal needs that
  nothing but its own entry leads to it.
* `FilesAreDisjoint`, `FreeSectorsAreCounted`, `NoSectorIsLost`, `NamesAreUnique` follow
  from it.  `DirectoryTree`, by which `NoSectorLost` finds the directories, walks as many
  rounds as there are sectors; that it reaches all of them is a counting argument
  (`TreeWalks`): each round before the last adds a directory.
* `SizesAreCovered` and `CursorsAreAtPositions` need "mix" minded as well: the parts
  `Located` and `Covered` of the invariant.  In the middle of a write, between the
  cursor's moving on and the byte's arriving, the handle is not `Located` but `Aimed`;
  an open is `Located` because the seek of "append" follows the chain to the sector of
  the last byte.
* Each call has a step (`OpenStep`, ..., `DestroyStep`), on top of a lemma about each
  operator of `QfsDisk`: `Creates`, `Finds`, `Resolves`, `FineRemoved`, `SectorGrown`.
  Chains are a recursive function, whose existence comes from the well-foundedness of
  the naturals (`WalkExists`); `PathIsChain` makes them sequences.  Loops (`Repeat`) keep
  what each turn keeps (`Iterates`).

`QfsStoreProofs`, from the same assumptions: `FileStoreIsImplemented`, `Qfs` implements
`FileStore`, for every size of disk and of sector.

* The hypothesis is `Plain`: `Mindful`, no handle both reads and writes ("mix" is minded),
  and files are made in the root directory, without mkdir, as `FileStore` has no
  directories.  `MCQfsStore` satisfies it.
* `Holds` says where a file's bytes are: in the sectors of its chain, as long as its entry
  says, or, while a handle writes it, as long as the handle knows and with the handle's
  buffer in the place of the sector the buffer is for.  The invariant `Stored` is that
  of `QfsProofs` with `Faithful`: no directory but the root, and a buffer that is not
  dirty is the sector it is for (`Cleans`).
* Each call lets every file be but one (`Keeps`), because nothing it writes is in another
  chain or another entry, which is what disjoint chains are for (`TouchesKeeps`).  What
  it does to the one is a lemma for each kind of call: an open finds the file under its
  name or makes an empty one, a read gives the bytes from the position on, turn by turn
  (`ReadSoFar`), a written byte becomes the byte at the position, also on a new sector
  whose old contents must not show, a close leaves on the disk what the handle saw.
  Names find files because they differ within the directory, and because the entry is
  the only one at its place.

`HostToolProofs`, from `DiskAssumption` and `HostAssumption` (files are sequences of bytes,
a scan lists them under paths): `AccountsForSectors`, for every size of disk and of sector,
every scan and every sequence of commands.

* The invariant is `Fine` again, between commands and between the entries of a scan
  (`Sound`), with one difference: names may repeat in a directory.  create --from puts an
  entry whose parent it could not look up into the last directory it found, and does not look
  whether the name is there.  `Tidy` then leaves out that names differ (`Repeats`); where a
  sector is does not depend on it.
* `writeFile` takes and links sectors that have no entry yet.  Between two of them
  (`Writing`) the layout has the half-written chain at the place where mkdir's sector hangs
  too, and every other chain and all entries are as they were (`Spares`).  So giving the
  chain back when the disk is full leaves the image as it was before the file, but for a
  sector that the directory may have grown by.
* The hypothesis `[][AddsFit]_toolVars` says that an add finds its slot in the first sector
  of the root directory.  Without it the theorem is false, by the code: the entry goes to
  the first sector and what was there loses its sectors (3, Met on the way).  `MCHostTool`
  satisfies it.  create --from and mkdir need no such hypothesis.

`PeripheralProofs`, about `ListMmu`, from `BasesAssumption`, `NoPageAssumption` and
`TablesAssumption`:

* `CachesAreCurrent`: `ListInv` is `CachesCurrent` with the types of the state.  It holds
  across `notify` because nothing is said of the caches while the MMU is disabled, and
  `enable` reads the table again and forgets the last page.
* `ListMmuRefinement`: `ListMmu` implements `Translation`, for any tables, with pages that
  overlap as they may (`TablesAssumption` only has their types).  A hit answers with the
  last page, which is the first that covers some other address, a miss with the first
  that covers this one.  If all pages that cover this address are mapped at one place they
  cover the other address too, so that the two are the same page (`FoundPageAnswers`); that
  there is a first one is by the well-foundedness of the naturals (`FirstCovers`).

About `TwoLevelMmu`, from no assumption: `TwoLevelMmuRefinement`, it implements
`Translation`.  `CacheCurrent` says that the cache of the enabled MMU holds what the walk
of the table in force keeps.  That a hit then answers as the walk does is arithmetic
(`MasksAgree`: what a miss keeps of a page's address, a hit keeps too) and the order of
the two levels' flags (`HitAgrees`); both are `WellFormed`, which says for which tables
the device is right.

About `BlockDevice`, from `DeviceAssumption` (the driver asks for buffers that are in
memory): `DeviceRefinement`, a call of the driver does what `Transfers` says.  At most one
promise is pending; it is for the next sector of the call, carries the words that were
in the buffer when it was made, and the sectors before it have moved (`Progress`).  The
buffer does not change meanwhile, and the sectors of a call do not overlap
(`PlacesApart`).  That a call is answered at all stays with TLC.

`HeapProofs`, from `HeapAssumption` (the heap is not at null and has room for a header;
sizes are naturals):

* `HeapSound`: `Inv` says that there is a set of addresses, those of the blocks, which
  tile the heap in the order of the list (`Tiled`) and of which the allocated ones are
  what the program has (`Owners`).  Two more parts are needed for what a walk does half
  way: what `alloc` passed by does not fit (`Searching`), and `dealloc` holds the first
  of the run of free blocks in front of it (`Merging`).  `Coalesced` says that no two
  free blocks are neighbours but where the walk has yet to come; each step has the set
  without a block, with a new one, or as it was.
* `HeapImplementsAllocator`: `Heap` implements `Allocator`.  The hard step is a refusal:
  a run of unused words lies in one free block, as free blocks have no free neighbours,
  and in what the blocks beside it keep beyond what was asked for (`Slack`).

Model-checked only: liveness; `BytesStored`, which is about crashes; `DestroyDeletesNamed`, which the code violates;
that the image is as the host's tool reported it (`ImageIsAsReported`), which is false of scans with
a skipped directory, and for others needs the paths of the whole tree; and the compiler, whose operators recurse over types, trees and code.

## 5. Not modelled

* The parser and the namespaces of QLL, the parser and the printing of assembly, the
  disassembler: they turn text into the trees that the models start from.
* Breakpoints and watchpoints of the machine (`vm.ts`), the debugger, the command
  line, the renderers, graphics, benchmarks and examples: input and output around the
  system.
* I/O errors in `Qfs`; the open-file slots together with the kernel's processes;
  deletions in the runs with crashes.
* The buffered console, and the vectors and lists of `shared/std.qll`.  What a next step
  would model (no character is lost at the buffer's limit), and prove:
  `BytesStored` across crashes, and the contents of the host's images.

The hazards of `PROJECT.json` without a property say the same at their lines.

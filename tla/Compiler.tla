------------------------------ MODULE Compiler ------------------------------
(***************************************************************************)
(* The code generator of QLL (src/src/lowlevel/compiler.ts): registers,    *)
(* calls, frames, storage and the run-time checks.                         *)
(*                                                                         *)
(* A compiler is a record `s', and an operator gives the compiler after a  *)
(* call; what the call returns, a register, is `s.r'.  An instruction is   *)
(* <<operation, dr, sr0, sr1>>; <<"ref", r, label>> and <<"const", r, n>>  *)
(* are the two constants, and <<"label", label>> marks a place.            *)
(***************************************************************************)
EXTENDS Types, Instructions

Qualified(id, args) == [id |-> id, args |-> args]
Unnamed == Qualified("", <<>>)

RET == 0
ONE == GENERIC_REGISTER_COUNT - 2
SP  == GENERIC_REGISTER_COUNT - 1
CallerSaveRegisters == 1 .. (GENERIC_REGISTER_COUNT \div 2 - 1)
CalleeSaveRegisters == GENERIC_REGISTER_COUNT \div 2 .. (GENERIC_REGISTER_COUNT - 3)

NULL_ERROR     == 7 * 2 ^ (WIDTH - 3)
BOUNDS_ERROR   == NULL_ERROR + 1
CAPACITY_ERROR == NULL_ERROR + 2

NoRegister == RET                 \* RET is never allocated
NoStorage == [id \in {} |-> 0]
Label(f) == <<f, 0>>
ReturnLabel(f) == <<f, -1>>
DefaultAllocator == Qualified("alloc", <<>>)
DefaultDeallocator == Qualified("dealloc", <<>>)

Compiler(f) ==
    [prefix |-> f, labels |-> 0, code |-> <<>>,
     free |-> CallerSaveRegisters \cup CalleeSaveRegisters, ever |-> {},
     frame |-> NoRegister, frameCount |-> 0, breaks |-> <<>>, continues |-> <<>>,
     storage |-> 0, locals |-> NoStorage, parameters |-> NoStorage, global |-> FALSE,
     failed |-> FALSE, r |-> NoRegister]

Emit(s, code) == [s EXCEPT !.code = @ \o code]
Returning(s, r) == [s EXCEPT !.r = r]
Fail(s) == [s EXCEPT !.failed = TRUE]

-----------------------------------------------------------------------------
(* Registers: the lowest free one, a caller-save one while there is any.   *)
Least(S) == CHOOSE x \in S : \A y \in S : x <= y
Allocate(s) ==
    IF s.free = {} THEN Fail(Returning(s, NoRegister))
    ELSE LET r == Least(s.free)
         IN [s EXCEPT !.r = r, !.free = @ \ {r}, !.ever = @ \cup ({r} \cap CalleeSaveRegisters)]
Deallocate(s, r) ==
    IF r \in s.free \/ r \notin CallerSaveRegisters \cup CalleeSaveRegisters THEN Fail(s)
    ELSE [s EXCEPT !.free = @ \cup {r}]

(* What is done next, with the register that was returned; and what is     *)
(* done with a register of its own.                                        *)
Then(s, Code(_, _)) == Code(s, s.r)
WithRegister(s, Code(_, _)) == Then(Allocate(s), LAMBDA a, r : Deallocate(Code(a, r), r))

InRegisterOrder(rs) == SelectSeq([i \in 1 .. GENERIC_REGISTER_COUNT |-> i - 1], LAMBDA r : r \in rs)
CalleeSave(s) == InRegisterOrder(s.ever)
CallerSave(s) == InRegisterOrder(CallerSaveRegisters \ s.free)

(* Labels, those of the loops around the code among them.                  *)
Reference(s, k) == <<s.prefix, s.labels + k>>
GenerateReferences(s, n) == [s EXCEPT !.labels = @ + n]
EnterLoopSwapped(s, breakRef, continueRef) ==
    [s EXCEPT !.breaks = Append(@, continueRef), !.continues = Append(@, breakRef)]
EnterLoop(s, breakRef, continueRef) ==
    [s EXCEPT !.breaks = Append(@, breakRef), !.continues = Append(@, continueRef)]
LeaveLoop(s) == [s EXCEPT !.breaks = Front(@), !.continues = Front(@)]

-----------------------------------------------------------------------------
(* Instructions that several operators emit.                               *)
Push(r) == <<<<"sub", SP, SP, ONE>>, <<"store", SP, r, 0>>>>
Peeked(r) == <<<<"load", r, r, 0>>>>   \* what r points at
Peek(r) == <<<<"load", r, SP, 0>>>>
Pop(r) == Peek(r) \o <<<<"add", SP, SP, ONE>>>>
PushMany(s, n) ==
    IF n = 0 THEN s
    ELSE IF n = 1 THEN Emit(s, <<<<"sub", SP, SP, ONE>>>>)
    ELSE WithRegister(s, LAMBDA a, nr : Emit(a, <<<<"const", nr, n>>, <<"sub", SP, SP, nr>>>>))
Move(s, dr, sr) == IF dr = sr THEN s ELSE Emit(s, <<<<"mov", dr, sr, 0>>>>)
Increment(s, r, n) ==
    IF n = 0 THEN s
    ELSE IF n = 1 THEN Emit(s, <<<<"add", r, r, ONE>>>>)
    ELSE WithRegister(s, LAMBDA a, nr : Emit(a, <<<<"const", nr, n>>, <<"add", r, r, nr>>>>))
PopMany(s, n) == Increment(s, SP, n)

(* Stores one word at `size' addresses, or copies that many words; the     *)
(* registers of addresses may advance.                                     *)
DynamicStore(s, dr, sr, cr) ==
    WithRegister(GenerateReferences(s, 2), LAMBDA a, loopR : WithRegister(a, LAMBDA b, endR :
      Emit(b, <<<<"ref", loopR, Reference(s, 1)>>, <<"ref", endR, Reference(s, 2)>>,
                <<"jz", 0, cr, endR>>, <<"label", Reference(s, 1)>>,
                <<"store", dr, sr, 0>>, <<"add", dr, dr, ONE>>, <<"sub", cr, cr, ONE>>,
                <<"jnz", 0, cr, loopR>>, <<"label", Reference(s, 2)>>>>)))
StaticStore(s, dr, sr, size) ==
    IF size = 0 THEN Fail(s)
    ELSE IF size = 1 THEN Emit(s, <<<<"store", dr, sr, 0>>>>)
    ELSE WithRegister(s, LAMBDA a, cr : DynamicStore(Emit(a, <<<<"const", cr, size>>>>), dr, sr, cr))

CopyWord(tr, dr, sr) == <<<<"load", tr, sr, 0>>, <<"store", dr, tr, 0>>>>
CopyWordOn(tr, dr, sr) == CopyWord(tr, dr, sr) \o <<<<"add", dr, dr, ONE>>, <<"add", sr, sr, ONE>>>>
DynamicCopy(s, dr, sr, cr) ==
    WithRegister(GenerateReferences(s, 2), LAMBDA a, loopR : WithRegister(a, LAMBDA b, endR :
      WithRegister(b, LAMBDA t, tr :
        Emit(t, <<<<"ref", loopR, Reference(s, 1)>>, <<"ref", endR, Reference(s, 2)>>,
                  <<"jz", 0, cr, endR>>, <<"label", Reference(s, 1)>>>> \o CopyWordOn(tr, dr, sr)
                \o <<<<"sub", cr, cr, ONE>>, <<"jnz", 0, cr, loopR>>, <<"label", Reference(s, 2)>>>>))))
UnrolledStaticCopy(s, dr, sr, size) ==
    WithRegister(s, LAMBDA a, tr : Emit(a, FlattenSeq([i \in 1 .. size |-> CopyWordOn(tr, dr, sr)])))
StaticCopy(s, dr, sr, size) ==
    CASE size = 0 -> Fail(s)
      [] size = 1 -> WithRegister(s, LAMBDA a, tr : Emit(a, CopyWord(tr, dr, sr)))
      [] size \in 2 .. 8 -> UnrolledStaticCopy(s, dr, sr, size)
      [] OTHER -> WithRegister(s, LAMBDA a, cr : DynamicCopy(Emit(a, <<<<"const", cr, size>>>>), dr, sr, cr))

-----------------------------------------------------------------------------
(* Run-time checks: the machine halts with the error in RET.               *)
Trap(code) == <<<<"const", RET, code>>, <<"halt", 0, 0, 0>>>>
NullCheck(s, r) ==
    WithRegister(GenerateReferences(s, 1), LAMBDA a, endR :
      Emit(a, <<<<"ref", endR, Reference(s, 1)>>, <<"jnz", 0, r, endR>>>> \o Trap(NULL_ERROR)
              \o <<<<"label", Reference(s, 1)>>>>))

(* An index is less than the length that is kept, or the number of an      *)
(* array's elements; a length is not more than the capacity.               *)
BoundsTrap(end, sr, ir, er) ==
    <<<<"lt", sr, ir, sr>>, <<"ref", er, end>>, <<"jnz", 0, sr, er>>>>
    \o Trap(BOUNDS_ERROR) \o <<<<"label", end>>>>
BoundsCheck(s, ar, ir, lengthOffset) ==
    WithRegister(GenerateReferences(s, 1), LAMBDA a, sr : WithRegister(a, LAMBDA b, er :
      Emit(Increment(Move(b, sr, ar), sr, lengthOffset),
           <<<<"load", sr, sr, 0>>>> \o BoundsTrap(Reference(s, 1), sr, ir, er))))
StaticBoundsCheck(s, ir, length) ==
    WithRegister(GenerateReferences(s, 1), LAMBDA a, sr : WithRegister(a, LAMBDA b, er :
      Emit(b, <<<<"const", sr, length>>>> \o BoundsTrap(Reference(s, 1), sr, ir, er))))
CapacityCheck(s, ar, lr) ==
    WithRegister(GenerateReferences(s, 1), LAMBDA a, sr : WithRegister(a, LAMBDA b, er :
      Emit(b, <<<<"load", sr, ar, 0>>, <<"gt", sr, lr, sr>>, <<"ref", er, Reference(s, 1)>>,
                <<"jz", 0, sr, er>>>> \o Trap(CAPACITY_ERROR) \o <<<<"label", Reference(s, 1)>>>>)))

-----------------------------------------------------------------------------
(* Calls.  While the arguments are pushed, the outermost call keeps the    *)
(* frame pointer, on top of the stack until then, in a register.           *)
SaveFramePointer(s) ==
    LET counted == [s EXCEPT !.frameCount = @ + 1]
        a == Allocate(counted)
    IN IF s.frame # NoRegister THEN counted
       ELSE Emit([a EXCEPT !.frame = a.r], Peek(a.r))
RestoreFramePointer(s) ==
    LET counted == [s EXCEPT !.frameCount = @ - 1]
    IN IF s.frame = NoRegister THEN Fail(s)
       ELSE IF counted.frameCount > 0 THEN counted
       ELSE [Deallocate(counted, s.frame) EXCEPT !.frame = NoRegister]

(* The registers a call saves: all in use but the function's address and,  *)
(* in the outermost call, the frame pointer.                               *)
SavedByCall(s, target) ==
    SelectSeq(CallerSave(s), LAMBDA r : r # target /\ ~(s.frameCount = 1 /\ r = s.frame))
PushAll(s, rs) == Emit(s, FlattenSeq([i \in DOMAIN rs |-> Push(rs[i])]))
PopAll(s, rs) == Emit(s, FlattenSeq([i \in DOMAIN rs |-> Pop(rs[i])]))

BeginCall(s, target) == LET saved == SaveFramePointer(s) IN PushAll(saved, SavedByCall(saved, target))
JumpAndReturn(s, target) ==
    Emit(GenerateReferences(s, 1),
         <<<<"ref", RET, Reference(s, 1)>>, <<"jmp", 0, target, 0>>, <<"label", Reference(s, 1)>>>>)
CallResult(s) == Then(Allocate(s), LAMBDA a, r : Returning(Move(a, r, RET), r))
Called(s, target) == Deallocate(JumpAndReturn(RestoreFramePointer(s), target), target)
EndCallKeepingOrder(s, target, saves, argSize) == CallResult(PopAll(PopMany(Called(s, target), argSize), saves))
EndCall(s, target, saves, argSize) == CallResult(PopAll(PopMany(Called(s, target), argSize), Reverse(saves)))

(* A call of one argument, a register that is given back once pushed.      *)
CallWith(s, f, sr) ==
    Then(Allocate(s), LAMBDA a, target :
      LET begun == BeginCall(Emit(a, <<<<"ref", target, Label(f)>>>>), target)
          saves == SavedByCall(SaveFramePointer(a), target)
      IN EndCall(Deallocate(Emit(begun, Push(sr)), sr), target, saves, 1))
EmitNew(s, sr) == CallWith(s, DefaultAllocator, sr)
EmitDelete(s, sr) == CallWith(s, DefaultDeallocator, sr)

-----------------------------------------------------------------------------
(* Storage of a function: parameters lie above the frame start, the last   *)
(* one lowest, and locals below it.  The initializer of a global keeps its *)
(* temporaries in the data instead.                                        *)
At(s, id, place, size) ==
    [s EXCEPT !.storage = @ + size,
              !.locals = [l \in DOMAIN @ \cup {id} |-> IF l = id THEN place ELSE s.locals[l]]]
AllocateTemporary(s, id, size) == At(s, id, s.storage, size)
AllocateLocal(s, id, size) == At(s, id, s.storage + size, size)
AllocateStorage(s, id, size) == IF s.global THEN AllocateTemporary(s, id, size) ELSE AllocateLocal(s, id, size)
FunctionCompiler(f, parameters) ==
    LET from(i) == FoldSeq(LAMBDA p, n : p.size + n, 0, SubSeq(parameters, i + 1, Len(parameters)))
        index(id) == CHOOSE i \in DOMAIN parameters : parameters[i].id = id
    IN [Compiler(f) EXCEPT !.parameters =
          [id \in {parameters[i].id : i \in DOMAIN parameters} |-> from(index(id))]]

FramePointer(s, r) == IF s.frame # NoRegister THEN Move(s, r, s.frame) ELSE Emit(s, Peek(r))
Relative(s, dr, op, offset) ==
    WithRegister(s, LAMBDA a, fr :
      Emit(FramePointer(a, fr), <<<<"const", dr, offset>>, <<op, dr, fr, dr>>>>))
AddressOfParameter(s, id, dr) == Relative(s, dr, "add", s.parameters[id] + 1)
AddressOfLocal(s, id, dr) ==
    IF s.locals[id] = 1 THEN Emit(FramePointer(s, dr), <<<<"sub", dr, dr, ONE>>>>)
    ELSE Relative(s, dr, "sub", s.locals[id])
AddressOfGlobal(s, id, dr) == Emit(s, <<<<"ref", dr, id>>>>)
TemporaryReference(s) == <<s.prefix, 1>>
AddressOfTemporary(s, id, dr) ==
    WithRegister(s, LAMBDA a, tr :
      Emit(a, <<<<"ref", tr, TemporaryReference(s)>>, <<"const", dr, s.locals[id]>>, <<"add", dr, tr, dr>>>>))

EmitIdentifier(s, id, storage, dr, dereference) ==
    LET addressed == CASE storage = "parameter" /\ id \in DOMAIN s.parameters -> AddressOfParameter(s, id, dr)
                       [] storage = "local" /\ id \in DOMAIN s.locals ->
                            IF s.global THEN AddressOfTemporary(s, id, dr) ELSE AddressOfLocal(s, id, dr)
                       [] storage = "global" -> AddressOfGlobal(s, id, dr)
                       [] storage = "function" /\ ~dereference -> AddressOfGlobal(s, id, dr)
                       [] OTHER -> Fail(s)
    IN Emit(addressed, IF dereference THEN Peeked(dr) ELSE <<>>)

(* The address of a local, in a register; storage for a value without a   *)
(* name, which is known by the next reference.                             *)
PlaceLocal(s, id) == Then(Allocate(s), LAMBDA a, r : Returning(EmitIdentifier(a, id, "local", r, FALSE), r))
PlaceAgain(s, id, r) == Returning(EmitIdentifier(s, id, "local", r, FALSE), r)
PlaceUnnamed(s, size) == PlaceLocal(AllocateStorage(GenerateReferences(s, 1), Reference(s, 1), size), Reference(s, 1))

(* An array used as a slice: a descriptor of it is built on the frame.     *)
ArrayToSlice(s, arrayReg, length) ==
    Then(PlaceUnnamed(s, SLICE_DESCRIPTOR_SIZE), LAMBDA a, sr :
      LET filled == WithRegister(Emit(a, <<<<"store", sr, arrayReg, 0>>>>), LAMBDA b, lr :
                      Emit(b, <<<<"const", lr, length>>, <<"add", sr, sr, ONE>>, <<"store", sr, lr, 0>>,
                                <<"add", sr, sr, ONE>>, <<"store", sr, lr, 0>>>>))
      IN Deallocate(PlaceAgain(filled, Reference(s, 1), sr), arrayReg))
EmitConversion(s, sourceReg, source, dest) ==
    LET from == Resolve(source, NoBindings)
        to == Resolve(dest, NoBindings)
        pointed == Resolve(from.to, NoBindings)
    IN CASE to.k = "slice" /\ from.k = "array" -> ArrayToSlice(s, sourceReg, from.length)
         [] to.k = "slice" /\ from.k = "pointer" /\ pointed.k = "array" ->
              ArrayToSlice(s, sourceReg, pointed.length)
         [] OTHER -> Returning(s, sourceReg)

-----------------------------------------------------------------------------
(* A function: the return address and the frame start are saved around the *)
(* locals and the callee-save registers.                                   *)
EmitReturn(s, sr) ==
    WithRegister(Move(s, RET, sr), LAMBDA a, r :
      Emit(a, <<<<"ref", r, ReturnLabel(s.prefix)>>, <<"jmp", 0, r, 0>>>>))
Apart(s) == [s EXCEPT !.code = <<>>]
Frame(s, r, code) == PushMany(Emit(s, code \o <<<<"mov", r, SP, 0>>>>), s.storage)
Unwound(s) == <<<<"label", ReturnLabel(s.prefix)>>, <<"load", SP, SP, 0>>>>
Prologue(s) ==
    WithRegister(Apart(s), LAMBDA a, r :
      Emit(PushAll(Frame(a, r, Push(RET)), CalleeSave(s)), Push(r)))
Epilogue(s) ==
    WithRegister(Apart(s), LAMBDA a, r : Emit(a, Unwound(s) \o Pop(r) \o <<<<"jmp", 0, r, 0>>>>))
CompiledFunction(s) ==
    <<<<"label", Label(s.prefix)>>>> \o Prologue(s).code \o s.code \o Epilogue(s).code

(* An interrupt handler has no return address: it ends with INT 0.         *)
InterruptPrologue(s) == WithRegister(Apart(s), LAMBDA a, r : Emit(Frame(a, r, <<>>), Push(r)))
InterruptEpilogue(s) ==
    WithRegister(Apart(s), LAMBDA a, r :
      Emit(a, Unwound(s) \o <<<<"const", r, 0>>, <<"int", 0, r, 0>>>>))
CompiledInterrupt(s) ==
    <<<<"label", Label(s.prefix)>>>> \o InterruptPrologue(s).code \o s.code \o InterruptEpilogue(s).code

GlobalCompiler(f) == GenerateReferences([Compiler(f) EXCEPT !.global = TRUE], 1)
TemporaryData(s) ==
    IF s.storage = 0 THEN <<>> ELSE <<<<"data", TemporaryReference(s), [i \in 1 .. s.storage |-> 0]>>>>
=============================================================================

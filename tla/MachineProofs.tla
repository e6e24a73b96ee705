--------------------------- MODULE MachineProofs ---------------------------
(***************************************************************************)
(* What the interrupt logic of the virtual machine guarantees for every    *)
(* program, every handler table and every set of devices, proved from the  *)
(* assumptions that Interrupts and Machine name.                           *)
(***************************************************************************)
EXTENDS Machine, TLAPS

USE DEF Running, hwVars

-----------------------------------------------------------------------------
(* The operations of Interrupts keep the hardware's types: an interrupt is *)
(* only dispatched through a mapped entry of the handler table, whose      *)
(* address becomes the ip.                                                 *)
LEMMA EnterTypeOK ==
  ASSUME HwTypeOK, faulting' \in BOOLEAN,
         NEW n, Mapped(n), NEW current \in Registers, NEW old \in Registers,
         Enter(n, current, old)
  PROVE  HwTypeOK'
<1>1. Handler[n] \in Nat
  BY HandlerAssumption DEF Mapped, Known
<1>2. [current EXCEPT !.ip = Handler[n]] \in Registers
  BY <1>1 DEF Registers
<1> QED
  BY <1>2 DEF Enter, HwTypeOK

LEMMA ZeroRegistersType == ZeroRegisters \in Registers
  BY DataAssumption DEF ZeroRegisters, Registers

(* A first fault is being handled afterwards, or it stopped the machine    *)
(* and left the saved-register area alone.                                 *)
LEMMA FirstFaultEffect ==
  ASSUME HwTypeOK, NEW current \in Registers, NEW old \in Registers,
         FirstFault(current, old)
  PROVE  /\ HwTypeOK'
         /\ faulting' = TRUE \/ status' = "stopped"
<1>1. CASE Mapped(FAULT) /\ faulting' = TRUE /\ Enter(FAULT, current, old)
  BY <1>1, EnterTypeOK
<1>2. CASE Stop
  BY <1>2 DEF Stop, HwTypeOK
<1> QED
  BY <1>1, <1>2 DEF FirstFault

LEMMA FaultTypeOK ==
  ASSUME HwTypeOK, Fault
  PROVE  HwTypeOK'
<1>1. CASE Stop
  BY <1>1 DEF Stop, HwTypeOK
<1>2. CASE FirstFault(regs, frame)
  BY <1>2, FirstFaultEffect DEF HwTypeOK
<1> QED
  BY <1>1, <1>2 DEF Fault

LEMMA ReturnTypeOK ==
  ASSUME HwTypeOK, Return
  PROVE  HwTypeOK'
<1>1. CASE frame.ip # 0
  BY <1>1, ZeroRegistersType DEF Return, HwTypeOK
<1>2. CASE frame.ip = 0
  BY <1>2, FirstFaultEffect, ZeroRegistersType DEF Return, HwTypeOK
<1> QED
  BY <1>1, <1>2

LEMMA DispatchTypeOK ==
  ASSUME HwTypeOK, NEW n, NEW current \in Registers, Dispatch(n, current)
  PROVE  HwTypeOK'
<1>1. CASE Known(n) /\ Enter(n, current, frame) /\ UNCHANGED faulting
  BY <1>1, EnterTypeOK DEF Dispatch, Accepts, HwTypeOK
<1>2. CASE Fault
  BY <1>2, FaultTypeOK
<1> QED
  BY <1>1, <1>2 DEF Dispatch

LEMMA NextRegistersType ==
  ASSUME HwTypeOK
  PROVE  [regs EXCEPT !.ip = @ + 1] \in Registers
  BY DEF HwTypeOK, Registers

-----------------------------------------------------------------------------
(* The inductive invariant.  TypeOK and FaultingIsPending do not need each *)
(* other, but a return must find a zero frame when nothing is pending.     *)
IdleFrameIsZero == Running /\ ~Pending => frame = ZeroRegisters

IInv ==
    /\ code \in Programs
    /\ TypeOK
    /\ FaultingIsPending
    /\ IdleFrameIsZero

LEMMA InitIInv == Init => IInv
<1> SUFFICES ASSUME Init PROVE IInv
  OBVIOUS
<1>1. regs \in Registers
  BY DataAssumption, MachineAssumption DEF Init, Registers
<1>2. TypeOK
  BY <1>1, ZeroRegistersType DEF Init, TypeOK, HwTypeOK
<1> QED
  BY <1>2 DEF Init, IInv, FaultingIsPending, IdleFrameIsZero, Pending

(* What every step that takes an interrupt does to the history variable.   *)
LEMMA TakenEffect ==
  ASSUME TypeOK, HwTypeOK', NEW current \in Registers, Taken(current)
  PROVE  TypeOK' /\ Pending'
  BY DEF TypeOK, Taken, Pending

LEMMA ReturnStep ==
  ASSUME IInv, Running, Return, origin' = IF frame.ip = 0 THEN {frame} ELSE {}
  PROVE  TypeOK' /\ FaultingIsPending' /\ IdleFrameIsZero'
<1>1. HwTypeOK'
  BY ReturnTypeOK DEF IInv, TypeOK
<1>2. TypeOK'
  BY <1>1 DEF IInv, TypeOK, HwTypeOK
<1>3. CASE frame.ip # 0
  BY <1>2, <1>3 DEF Return, Pending, FaultingIsPending, IdleFrameIsZero
<1>4. CASE frame.ip = 0
  BY <1>2, <1>4 DEF Pending, FaultingIsPending, IdleFrameIsZero
<1> QED
  BY <1>3, <1>4, <1>2

LEMMA IntStep ==
  ASSUME IInv, Running, StepInt
  PROVE  TypeOK' /\ FaultingIsPending' /\ IdleFrameIsZero'
<1> DEFINE n == Instruction.arg
           next == [regs EXCEPT !.ip = @ + 1]
<1>1. next \in Registers /\ regs \in Registers
  BY NextRegistersType DEF IInv, TypeOK, HwTypeOK
<1>2. CASE Accepts(n)
  <2>1. Dispatch(n, next)
    BY <1>2 DEF StepInt, SoftwareInterrupt, Advance, Dispatch
  <2>2. HwTypeOK'
    BY <2>1, <1>1, DispatchTypeOK DEF IInv, TypeOK
  <2>3. TypeOK' /\ Pending'
    BY <2>2, <1>1, <1>2, TakenEffect DEF StepInt, IInv
  <2> QED
    BY <2>3 DEF FaultingIsPending, IdleFrameIsZero
<1>3. CASE ~Accepts(n)
  <2>1. Advance /\ UNCHANGED origin
    BY <1>3 DEF StepInt, SoftwareInterrupt, Dispatch
  <2> QED
    BY <2>1, <1>1
    DEF Advance, IInv, TypeOK, HwTypeOK, FaultingIsPending, IdleFrameIsZero, Pending
<1> QED
  BY <1>2, <1>3

LEMMA NextIInv == IInv /\ [Next]_vars => IInv'
<1> SUFFICES ASSUME IInv, [Next]_vars PROVE IInv'
  OBVIOUS
<1>1. CASE UNCHANGED vars
  BY <1>1 DEF vars, IInv, TypeOK, HwTypeOK, FaultingIsPending, IdleFrameIsZero, Pending
<1>2. CASE Step
  <2>1. code' \in Programs /\ Running
    BY <1>2 DEF Step, IInv
  <2>2. Instruction \in Instructions
    BY MachineAssumption DEF IInv, Instruction, Bad, Instructions
  <2>3. CASE StepNop
    BY <2>1, <2>3, NextRegistersType DEF StepNop, Advance, IInv, TypeOK, HwTypeOK,
       FaultingIsPending, IdleFrameIsZero, Pending
  <2>4. CASE StepJump
    <3>1. [regs EXCEPT !.ip = Instruction.arg] \in Registers
      BY <2>2, <2>4 DEF StepJump, IInv, TypeOK, HwTypeOK, Registers, Instructions
    <3> QED
      BY <3>1, <2>1, <2>4 DEF StepJump, IInv, TypeOK, HwTypeOK,
         FaultingIsPending, IdleFrameIsZero, Pending
  <2>5. CASE StepMask
    <3>1. Instruction.arg \in BOOLEAN
      BY <2>2, <2>5 DEF StepMask, Instructions
    <3> QED
      BY <3>1, <2>1, <2>5, NextRegistersType DEF StepMask, SetMask, IInv, TypeOK, HwTypeOK,
         FaultingIsPending, IdleFrameIsZero, Pending
  <2>6. CASE StepHalt
    BY <2>1, <2>6 DEF StepHalt, Halt, IInv, TypeOK, HwTypeOK,
       FaultingIsPending, IdleFrameIsZero, Pending
  <2>7. CASE StepFault
    <3>1. HwTypeOK' /\ regs \in Registers
      BY <2>7, FaultTypeOK DEF StepFault, IInv, TypeOK, HwTypeOK
    <3>2. TypeOK' /\ Pending'
      BY <2>7, <3>1, TakenEffect DEF StepFault, IInv
    <3> QED
      BY <3>2, <2>1 DEF IInv, FaultingIsPending, IdleFrameIsZero
  <2>8. CASE StepWait
    BY <2>1, <2>8 DEF StepWait, IInv, TypeOK, HwTypeOK,
       FaultingIsPending, IdleFrameIsZero, Pending
  <2>9. CASE StepReturn
    <3>1. Return /\ origin' = IF frame.ip = 0 THEN {frame} ELSE {}
      BY <2>9 DEF StepReturn, SoftwareInterrupt
    <3> QED
      BY <3>1, <2>1, ReturnStep DEF IInv
  <2>10. CASE StepInt
    BY <2>10, <2>1, IntStep DEF IInv
  <2> QED
    BY <1>2, <2>3, <2>4, <2>5, <2>6, <2>7, <2>8, <2>9, <2>10 DEF Step
<1>3. ASSUME NEW n \in Devices, Interrupt(n)
      PROVE  IInv'
  <2>1. Dispatch(n, regs) /\ Taken(regs) /\ UNCHANGED code
    BY <1>3 DEF Interrupt, External
  <2>2. regs \in Registers /\ HwTypeOK /\ TypeOK
    BY DEF IInv, TypeOK, HwTypeOK
  <2>3. HwTypeOK'
    BY <2>1, <2>2, DispatchTypeOK
  <2>4. TypeOK' /\ Pending'
    BY <2>1, <2>2, <2>3, TakenEffect
  <2> QED
    BY <2>1, <2>4 DEF IInv, FaultingIsPending, IdleFrameIsZero
<1> QED
  BY <1>1, <1>2, <1>3 DEF Next

THEOREM SpecIInv == Spec => []IInv
  BY InitIInv, NextIInv, PTL DEF Spec

(* Type correctness, whatever the program and the handler table: what is   *)
(* dispatched to, saved and restored is always a register file, and at     *)
(* most one interrupted context waits for its return.                      *)
THEOREM TypeCorrect == Spec => []TypeOK
<1>1. IInv => TypeOK
  BY DEF IInv
<1> QED
  BY <1>1, SpecIInv, PTL

(* A fault is never forgotten nor remembered past its return, whatever the *)
(* program does with masks, software interrupts and faults.                *)
THEOREM FaultsArePending == Spec => []FaultingIsPending
<1>1. IInv => FaultingIsPending
  BY DEF IInv
<1> QED
  BY <1>1, SpecIInv, PTL

(* A return with no interrupt pending is always refused: it faults or it   *)
(* stops the machine, and never resumes a context that is over.            *)
THEOREM StrayReturns == Spec => StrayReturnRefused
<1>1. ASSUME IInv, Running, StepReturn, ~Pending
      PROVE  faulting' \/ status' = "stopped"
  <2>1. frame = ZeroRegisters /\ Return
    BY <1>1 DEF IInv, IdleFrameIsZero, StepReturn, SoftwareInterrupt
  <2>2. FirstFault(frame, ZeroRegisters)
    BY <2>1 DEF Return, ZeroRegisters
  <2> QED
    BY <2>2, <1>1, FirstFaultEffect, ZeroRegistersType DEF IInv, TypeOK, HwTypeOK
<1>2. IInv /\ [Next]_vars
        => [Running /\ StepReturn /\ ~Pending => faulting' \/ status' = "stopped"]_vars
  BY <1>1
<1> QED
  BY <1>2, SpecIInv, PTL DEF Spec, StrayReturnRefused

-----------------------------------------------------------------------------
(* Handlers of disciplined programs return to where they came from.  The   *)
(* pending context has an ip, or is the zero one a stray return left.      *)
OriginIsRealOrZero == \A o \in origin : o.ip # 0 \/ o = ZeroRegisters

DInv == IInv /\ FrameIsOrigin /\ HandlerIsolated /\ (Running => OriginIsRealOrZero)

(* Entering a handler: the registers are stored when interrupts were       *)
(* enabled, and by HandlerIsolated that is when no handler was pending.    *)
LEMMA EnterKeepsFrame ==
  ASSUME DInv, Running, NEW n, NEW current \in Registers, current.ip # 0,
         Enter(n, current, frame), Taken(current), Pending \/ enabled
  PROVE  FrameIsOrigin' /\ HandlerIsolated' /\ OriginIsRealOrZero'
<1>1. CASE Pending
  BY <1>1 DEF DInv, Enter, Taken, FrameIsOrigin, HandlerIsolated, OriginIsRealOrZero, Pending
<1>2. CASE ~Pending
  BY <1>2 DEF DInv, Enter, Taken, FrameIsOrigin, HandlerIsolated, OriginIsRealOrZero, Pending
<1> QED
  BY <1>1, <1>2

LEMMA StoppedIsFine ==
  ASSUME ~Running'
  PROVE  FrameIsOrigin' /\ HandlerIsolated' /\ (Running => OriginIsRealOrZero)'
  BY DEF FrameIsOrigin, HandlerIsolated

LEMMA FaultKeepsFrame ==
  ASSUME DInv, Running, regs.ip # 0, Fault, Taken(regs), Pending \/ enabled
  PROVE  FrameIsOrigin' /\ HandlerIsolated' /\ (Running => OriginIsRealOrZero)'
<1>1. CASE Enter(FAULT, regs, frame)
  BY <1>1, EnterKeepsFrame DEF DInv, IInv, TypeOK, HwTypeOK
<1>2. CASE Stop
  BY <1>2, StoppedIsFine DEF Stop
<1> QED
  BY <1>1, <1>2 DEF Fault, FirstFault

LEMMA ReturnKeepsFrame ==
  ASSUME DInv, Running, Return, origin' = IF frame.ip = 0 THEN {frame} ELSE {}
  PROVE  FrameIsOrigin' /\ HandlerIsolated' /\ (Running => OriginIsRealOrZero)'
<1>1. CASE frame.ip # 0
  BY <1>1 DEF Return, FrameIsOrigin, HandlerIsolated, OriginIsRealOrZero, Pending
<1>2. CASE frame.ip = 0 /\ Stop
  BY <1>2, StoppedIsFine DEF Stop
<1>3. CASE frame.ip = 0 /\ Enter(FAULT, frame, ZeroRegisters)
  <2>1. frame = ZeroRegisters
    BY <1>3 DEF DInv, FrameIsOrigin, OriginIsRealOrZero, Pending
  <2> QED
    BY <2>1, <1>3 DEF Enter, FrameIsOrigin, HandlerIsolated, OriginIsRealOrZero, Pending
<1> QED
  BY <1>1, <1>2, <1>3 DEF Return, FirstFault

LEMMA IntKeepsFrame ==
  ASSUME DInv, Disciplined, Running, StepInt
  PROVE  FrameIsOrigin' /\ HandlerIsolated' /\ (Running => OriginIsRealOrZero)'
<1> DEFINE n == Instruction.arg
           next == [regs EXCEPT !.ip = @ + 1]
<1>1. next \in Registers /\ next.ip # 0 /\ regs.ip # 0 /\ HwTypeOK
  BY NextRegistersType DEF Disciplined, DInv, IInv, TypeOK, HwTypeOK, Registers
<1>2. CASE Accepts(n)
  <2>1. Dispatch(n, next)
    BY <1>2 DEF StepInt, SoftwareInterrupt, Advance, Dispatch
  <2>2. Pending \/ enabled
    <3>1. CASE n = FAULT
      <4>1. Instruction \in Instructions /\ Instruction.op = "int"
        BY MachineAssumption DEF DInv, IInv, Instruction, Bad, Instructions, StepInt
      <4>2. Instruction = IntOp(FAULT)
        BY <4>1, <3>1 DEF IntOp, Instructions
      <4> QED
        BY <4>2 DEF Disciplined
    <3> QED
      BY <3>1, <1>2 DEF Accepts
  <2>3. CASE Known(n)
    BY <2>1, <2>2, <2>3, <1>1, <1>2, EnterKeepsFrame, StoppedIsFine DEF Dispatch, StepInt
  <2>4. CASE ~Known(n)
    BY <2>1, <2>2, <2>4, <1>1, <1>2, FaultKeepsFrame DEF Dispatch, StepInt
  <2> QED
    BY <2>3, <2>4
<1>3. CASE ~Accepts(n)
  <2>1. Advance /\ UNCHANGED origin
    BY <1>3 DEF StepInt, SoftwareInterrupt, Dispatch
  <2> QED
    BY <2>1 DEF Advance, DInv, FrameIsOrigin, HandlerIsolated, OriginIsRealOrZero, Pending
<1> QED
  BY <1>2, <1>3

LEMMA NextDInv == DInv /\ Disciplined /\ [Next]_vars => DInv'
<1> SUFFICES ASSUME DInv, Disciplined, [Next]_vars PROVE DInv'
  OBVIOUS
<1> DEFINE Goal == FrameIsOrigin' /\ HandlerIsolated' /\ (Running => OriginIsRealOrZero)'
<1> USE DEF Pending
<1>1. IInv'
  BY NextIInv DEF DInv
<1>2. CASE UNCHANGED vars
  BY <1>1, <1>2 DEF vars, DInv, FrameIsOrigin, HandlerIsolated, OriginIsRealOrZero
<1>3. CASE Step
  <2>1. Running /\ regs.ip # 0
    BY <1>3 DEF Step, Disciplined
  <2>2. Instruction \in Instructions
    BY MachineAssumption DEF DInv, IInv, Instruction, Bad, Instructions
  <2>3. ASSUME StepNop \/ StepJump \/ StepWait PROVE Goal
    BY <2>3 DEF StepNop, StepJump, StepWait, Advance,
       DInv, FrameIsOrigin, HandlerIsolated, OriginIsRealOrZero
  <2>4. ASSUME StepMask PROVE Goal
    <3>1. Pending => Instruction.arg = FALSE
      BY <2>2, <2>4, <2>1 DEF StepMask, Disciplined, Mask, Instructions
    <3> QED
      BY <3>1, <2>1, <2>4 DEF StepMask, SetMask,
         DInv, FrameIsOrigin, HandlerIsolated, OriginIsRealOrZero
  <2>5. ASSUME StepHalt PROVE Goal
    BY <2>5, StoppedIsFine DEF StepHalt, Halt
  <2>6. ASSUME StepFault PROVE Goal
    BY <2>1, <2>6, FaultKeepsFrame DEF StepFault, Disciplined
  <2>7. ASSUME StepReturn PROVE Goal
    BY <2>1, <2>7, ReturnKeepsFrame DEF StepReturn, SoftwareInterrupt
  <2>8. ASSUME StepInt PROVE Goal
    BY <2>1, <2>8, IntKeepsFrame
  <2> QED
    BY <1>1, <1>3, <2>3, <2>4, <2>5, <2>6, <2>7, <2>8 DEF Step, DInv
<1>4. ASSUME NEW n \in Devices, Interrupt(n) PROVE DInv'
  <2>1. /\ Running /\ regs.ip # 0 /\ regs \in Registers
        /\ Known(n) /\ n # FAULT
        /\ Dispatch(n, regs) /\ Taken(regs)
    BY <1>4, MachineAssumption
    DEF Interrupt, External, Disciplined, Known, DInv, IInv, TypeOK, HwTypeOK
  <2>2. enabled /\ Enter(n, regs, frame)
    BY <2>1 DEF Dispatch, Accepts
  <2> QED
    BY <1>1, <2>1, <2>2, EnterKeepsFrame DEF DInv
<1> QED
  BY <1>2, <1>3, <1>4 DEF Next

(* A handler, even one that a fault has replaced, runs masked and with     *)
(* physical addresses, and its return restores the registers of the code   *)
(* that was interrupted: for every disciplined program, as the kernel is.  *)
THEOREM HandlersReturnToOrigin ==
  Spec /\ []Disciplined => [](FrameIsOrigin /\ HandlerIsolated)
<1>1. Init => DInv
  BY InitIInv DEF Init, DInv, FrameIsOrigin, HandlerIsolated, OriginIsRealOrZero, Pending
<1>2. DInv => FrameIsOrigin /\ HandlerIsolated
  BY DEF DInv
<1> QED
  BY <1>1, <1>2, NextDInv, PTL DEF Spec

-----------------------------------------------------------------------------
(* Isolation alone asks less of a program: that no handler unmasks.        *)
HandlersStayMasked == Running /\ Pending => Instruction # Mask(TRUE)

(* Whatever is taken runs masked and untranslated, or stops the machine.   *)
LEMMA EntryIsolates ==
  ASSUME NEW n, NEW current, NEW old, Enter(n, current, old)
  PROVE  HandlerIsolated'
  BY DEF Enter, HandlerIsolated

LEMMA FaultIsolates ==
  ASSUME Fault
  PROVE  HandlerIsolated'
<1>1. CASE Enter(FAULT, regs, frame)
  BY <1>1, EntryIsolates
<1>2. CASE Stop
  BY <1>2 DEF Stop, HandlerIsolated
<1> QED
  BY <1>1, <1>2 DEF Fault, FirstFault

LEMMA DispatchIsolates ==
  ASSUME NEW n, NEW current, Dispatch(n, current)
  PROVE  HandlerIsolated'
  BY EntryIsolates, FaultIsolates DEF Dispatch

LEMMA NextIsolated ==
  ASSUME IInv, HandlerIsolated, HandlersStayMasked, [Next]_vars
  PROVE  HandlerIsolated'
<1>1. CASE UNCHANGED vars
  BY <1>1 DEF vars, HandlerIsolated, Pending
<1>2. ASSUME NEW n \in Devices, Interrupt(n)
      PROVE  HandlerIsolated'
  BY <1>2, DispatchIsolates DEF Interrupt, External
<1>3. CASE Step
  <2>1. CASE StepNop \/ StepJump \/ StepWait
    BY <1>3, <2>1 DEF Step, StepNop, StepJump, StepWait, Advance, HandlerIsolated, Pending
  <2>2. CASE StepMask
    <3>1. Instruction \in Instructions
      BY MachineAssumption DEF IInv, Instruction, Bad, Instructions
    <3>2. Pending => Instruction.arg = FALSE
      BY <1>3, <2>2, <3>1 DEF Step, StepMask, HandlersStayMasked, Mask, Instructions
    <3> QED
      BY <1>3, <2>2, <3>2 DEF Step, StepMask, SetMask, HandlerIsolated, Pending
  <2>3. CASE StepHalt
    BY <2>3 DEF StepHalt, Halt, HandlerIsolated
  <2>4. CASE StepFault
    BY <2>4, FaultIsolates DEF StepFault
  <2>5. CASE StepReturn
    <3>1. CASE frame.ip # 0
      BY <2>5, <3>1 DEF StepReturn, HandlerIsolated, Pending
    <3>2. CASE frame.ip = 0
      BY <2>5, <3>2, EntryIsolates
      DEF StepReturn, SoftwareInterrupt, Return, FirstFault, Stop, HandlerIsolated
    <3> QED
      BY <3>1, <3>2
  <2>6. CASE StepInt
    <3>1. CASE Dispatch(Instruction.arg, [regs EXCEPT !.ip = @ + 1])
      BY <3>1, DispatchIsolates
    <3>2. CASE Advance /\ ~Accepts(Instruction.arg)
      BY <1>3, <2>6, <3>2 DEF Step, StepInt, Advance, HandlerIsolated, Pending
    <3> QED
      BY <2>6, <3>1, <3>2 DEF StepInt, SoftwareInterrupt
  <2> QED
    BY <1>3, <2>1, <2>2, <2>3, <2>4, <2>5, <2>6 DEF Step
<1> QED
  BY <1>1, <1>2, <1>3 DEF Next

(* While an interrupt or a fault is pending, interrupts are masked and     *)
(* addresses physical, also when one has replaced another: for every       *)
(* program none of whose handlers unmasks, whatever else it does.          *)
THEOREM HandlersAreIsolated ==
  Spec /\ []HandlersStayMasked => []HandlerIsolated
<1>1. Init => HandlerIsolated
  BY DEF Init, HandlerIsolated, Pending
<1> QED
  BY <1>1, NextIsolated, SpecIInv, PTL DEF Spec
=============================================================================

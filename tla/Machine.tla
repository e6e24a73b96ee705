------------------------------ MODULE Machine -------------------------------
(***************************************************************************)
(* The virtual machine running an arbitrary program (VM.step and           *)
(* VM.execute, src/src/vm/vm.ts): instructions change the ip, the mask or  *)
(* fault, and peripherals raise interrupts between instructions.  What an  *)
(* instruction does to memory and to r0..r63 is left out.                  *)
(***************************************************************************)
EXTENDS Interrupts

CONSTANTS
    Programs,   \* the programs considered: functions from addresses to instructions
    Entry,      \* the address a program starts at
    Devices     \* the interrupts that peripherals raise

(* A `mask' stores to address 0x0 and a `bad' is any instruction that      *)
(* faults.                                                                 *)
Instructions ==
    [op : {"nop", "wait", "halt", "bad"}]
      \cup [op : {"jump", "int"}, arg : Nat]
      \cup [op : {"mask"}, arg : BOOLEAN]

ASSUME MachineAssumption ==
    /\ Entry \in Nat \ {0}
    /\ Devices \subseteq DOMAIN Handler \ {FAULT}
    /\ \A c \in Programs : \A a \in DOMAIN c : c[a] \in Instructions

VARIABLES
    code,       \* the program
    origin      \* history, read by no action: the registers the pending
                \* interrupt must return to, {} when none is pending

vars == <<hwVars, code, origin>>

Nop      == [op |-> "nop"]
Wait     == [op |-> "wait"]
HaltOp   == [op |-> "halt"]
Bad      == [op |-> "bad"]
Jump(a)  == [op |-> "jump", arg |-> a]
IntOp(n) == [op |-> "int", arg |-> n]
Mask(b)  == [op |-> "mask", arg |-> b]

(* An address outside the program faults like an invalid instruction.      *)
Instruction == IF regs.ip \in DOMAIN code THEN code[regs.ip] ELSE Bad

Pending == origin # {}

TypeOK ==
    /\ HwTypeOK
    /\ \A o \in origin : o \in Registers
    /\ \A o1, o2 \in origin : o1 = o2

Init ==
    /\ enabled = TRUE
    /\ faulting = FALSE
    /\ mmu = FALSE
    /\ regs = [ip |-> Entry, data |-> ZeroData]
    /\ frame = ZeroRegisters
    /\ status = "on"
    /\ code \in Programs
    /\ origin = {}

(* How the history variable follows an interrupt taken with the registers  *)
(* `current' to come back to: the first one sets it, one that replaces a   *)
(* handler leaves it, and a return clears it.                              *)
Taken(current) == origin' = IF Pending THEN origin ELSE {current}

-----------------------------------------------------------------------------
StepNop == Instruction = Nop /\ Advance /\ UNCHANGED origin

StepJump ==
    /\ Instruction.op = "jump"
    /\ regs' = [regs EXCEPT !.ip = Instruction.arg]
    /\ UNCHANGED <<enabled, faulting, mmu, frame, status, origin>>

StepMask == Instruction.op = "mask" /\ SetMask(Instruction.arg) /\ UNCHANGED origin

StepHalt == Instruction = HaltOp /\ Halt /\ UNCHANGED origin

StepFault == Instruction = Bad /\ Fault /\ Taken(regs)

(* WAIT is executed again and again: ip stays until an interrupt moves it. *)
StepWait == Instruction = Wait /\ UNCHANGED <<hwVars, origin>>

StepReturn ==
    /\ Instruction = IntOp(RETURN)
    /\ SoftwareInterrupt(RETURN)
    /\ origin' = IF frame.ip = 0 THEN {frame} ELSE {}

StepInt ==
    /\ Instruction.op = "int" /\ Instruction.arg # RETURN
    /\ SoftwareInterrupt(Instruction.arg)
    /\ IF Accepts(Instruction.arg)
       THEN Taken(IF Known(Instruction.arg) THEN [regs EXCEPT !.ip = @ + 1] ELSE regs)
       ELSE UNCHANGED origin

Step ==
    /\ Running
    /\ \/ StepNop \/ StepJump \/ StepMask \/ StepHalt
       \/ StepFault \/ StepWait \/ StepReturn \/ StepInt
    /\ UNCHANGED code

(* A peripheral raises n between two instructions.                         *)
Interrupt(n) ==
    /\ Running
    /\ External(n)
    /\ Taken(regs)
    /\ UNCHANGED code

Next == Step \/ \E n \in Devices : Interrupt(n)

(* The machine keeps executing instructions.                               *)
Fairness == WF_vars(Step)

Spec == Init /\ [][Next]_vars
FairSpec == Spec /\ Fairness

-----------------------------------------------------------------------------
(* What a program must do for its handlers to return where they came from: *)
(* no handler unmasks interrupts, nothing faults while interrupts are      *)
(* masked outside of a handler, and nothing is executed at the address of  *)
(* the enable word.                                                        *)
Disciplined ==
    Running =>
        /\ Pending => Instruction # Mask(TRUE)
        /\ ~Pending /\ ~enabled => Instruction \notin {Bad, IntOp(FAULT)}
        /\ regs.ip # 0

(* While an interrupt is pending, the saved-register area holds what the   *)
(* pending interrupt must return to, even when a fault has replaced its    *)
(* handler; and otherwise it is zero, so that a stray return is refused.   *)
(* (prepareInterrupt stores the registers only if interrupts were enabled, *)
(* and interruptRestore zeroes the slots.)                                 *)
FrameIsOrigin ==
    Running => IF Pending THEN origin = {frame} ELSE frame = ZeroRegisters

(* A handler runs masked and with physical addresses until its return.     *)
HandlerIsolated == Running /\ Pending => ~enabled /\ ~mmu

(* `faulting' is cleared by the very return that ends the fault, so a      *)
(* later fault is never mistaken for a double one.                         *)
FaultingIsPending == Running /\ faulting => Pending

(* `int 0x0' with no interrupt pending never resumes a stale context: it   *)
(* is a fault (the `invalid interrupt return' of prepareInterrupt).        *)
StrayReturnRefused ==
    [][Running /\ StepReturn /\ ~Pending
         => faulting' \/ status' = "stopped"]_vars

(* Every interrupt that is taken with an address to return to is returned  *)
(* from, or the machine stops: peripherals cannot starve a handler.        *)
HandlersReturn == (\E o \in origin : o.ip # 0) ~> (~Pending \/ ~Running)
=============================================================================

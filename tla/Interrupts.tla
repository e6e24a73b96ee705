----------------------------- MODULE Interrupts -----------------------------
(***************************************************************************)
(* The interrupt logic of the virtual machine (src/src/vm/vm.ts): the      *)
(* enable word at address 0x0, the saved-register area at 0x2, the handler *)
(* table, the `faulting' flag and the MMU switch.  The module has actions  *)
(* and no next-state relation of its own: Machine drives them with an      *)
(* arbitrary program, Kernel with the operating system.                    *)
(*                                                                         *)
(* A register file is abstracted to the instruction pointer and `data',    *)
(* which stands for r0..r63.                                               *)
(***************************************************************************)
EXTENDS Integers

CONSTANTS
    Data,       \* the values of r0..r63 that a model tells apart
    ZeroData,   \* the value of r0..r63 when all of them are zero
    Handler     \* interrupt number |-> handler address, 0x0 when unmapped

ASSUME DataAssumption == ZeroData \in Data
ASSUME HandlerAssumption ==
    /\ Handler \in [DOMAIN Handler -> Nat]
    /\ DOMAIN Handler \subseteq Nat \ {0}
    /\ \A n \in DOMAIN Handler : 1 .. n \subseteq DOMAIN Handler

VARIABLES
    enabled,    \* the word at address 0x0: interrupts are not masked
    faulting,   \* a fault has been taken and no interrupt return was made since
    mmu,        \* the MMU translates addresses
    regs,       \* the register file
    frame,      \* the register file saved at 0x2
    status      \* "on", "halted", or "stopped" by an exception of the VM

hwVars == <<enabled, faulting, mmu, regs, frame, status>>

RETURN == 0
FAULT  == 1

Registers == [ip : Nat, data : Data]
ZeroRegisters == [ip |-> 0, data |-> ZeroData]

HwTypeOK ==
    /\ enabled \in BOOLEAN
    /\ faulting \in BOOLEAN
    /\ mmu \in BOOLEAN
    /\ regs \in Registers
    /\ frame \in Registers
    /\ status \in {"on", "halted", "stopped"}

Running == status = "on"

(* An interrupt number is known when it is not above the handler count,    *)
(* and mapped when its entry is not zero.                                  *)
Known(n) == n \in DOMAIN Handler
Mapped(n) == Known(n) /\ Handler[n] # 0

-----------------------------------------------------------------------------
(* The VM throws: `double fault', `unhandled fault'.                       *)
Stop == status' = "stopped" /\ UNCHANGED <<enabled, faulting, mmu, regs, frame>>

(* Faulty variants of Enter: it saves r0..r63 and forgets ip; it stores    *)
(* the registers of a handler that a fault replaces; it leaves the MMU on. *)
Enter_ForgetsIp(n, current, old) ==
    /\ mmu' = FALSE
    /\ enabled' = FALSE
    /\ frame' = [data |-> current.data]
    /\ regs' = [current EXCEPT !.ip = Handler[n]]
    /\ UNCHANGED status

Enter_AlwaysStores(n, current, old) ==
    /\ mmu' = FALSE
    /\ enabled' = FALSE
    /\ frame' = current
    /\ regs' = [current EXCEPT !.ip = Handler[n]]
    /\ UNCHANGED status

Enter_KeepsMmu(n, current, old) ==
    /\ enabled' = FALSE
    /\ frame' = IF enabled THEN current ELSE old
    /\ regs' = [current EXCEPT !.ip = Handler[n]]
    /\ UNCHANGED <<mmu, status>>

(* The tail of prepareInterrupt: mask interrupts, switch the MMU off and   *)
(* jump to the handler.  The registers are stored only if interrupts were  *)
(* not masked; otherwise the saved-register area is left as `old'.         *)
Enter(n, current, old) ==
    /\ mmu' = FALSE
    /\ enabled' = FALSE
    /\ frame' = IF enabled THEN current ELSE old
    /\ regs' = [current EXCEPT !.ip = Handler[n]]
    /\ UNCHANGED status

(* A fault taken while none is being handled.                              *)
FirstFault(current, old) ==
    \/ /\ Mapped(FAULT)
       /\ faulting' = TRUE
       /\ Enter(FAULT, current, old)
    \/ ~Mapped(FAULT) /\ Stop

(* VM.fault, raised by the instruction in the registers.                   *)
Fault ==
    \/ faulting /\ Stop
    \/ ~faulting /\ FirstFault(regs, frame)

(* Faulty variants of Return: it forgets that a fault was being handled;   *)
(* it leaves the saved registers in place.                                 *)
Return_KeepsFaulting ==
    \/ /\ frame.ip # 0
       /\ regs' = frame
       /\ frame' = ZeroRegisters
       /\ enabled' = TRUE
       /\ mmu' = TRUE
       /\ UNCHANGED <<faulting, status>>
    \/ /\ frame.ip = 0
       /\ FirstFault(frame, ZeroRegisters)

Return_KeepsFrame ==
    \/ /\ frame.ip # 0
       /\ regs' = frame
       /\ faulting' = FALSE
       /\ enabled' = TRUE
       /\ mmu' = TRUE
       /\ UNCHANGED <<frame, status>>
    \/ /\ frame.ip = 0
       /\ FirstFault(frame, ZeroRegisters)

(* `int 0x0': the saved registers come back, their slots are zeroed, and   *)
(* a zero ip is an invalid return.                                         *)
Return ==
    \/ /\ frame.ip # 0
       /\ regs' = frame
       /\ frame' = ZeroRegisters
       /\ faulting' = FALSE
       /\ enabled' = TRUE
       /\ mmu' = TRUE
       /\ UNCHANGED status
    \/ /\ frame.ip = 0
       /\ FirstFault(frame, ZeroRegisters)

(* The instruction is done and ip moves to the next one.                   *)
Advance ==
    /\ regs' = [regs EXCEPT !.ip = @ + 1]
    /\ UNCHANGED <<enabled, faulting, mmu, frame, status>>

(* A faulty variant of Accepts: the mask is not tested.                    *)
Accepts_IgnoresMask(n) == Known(n) => Mapped(n)

(* prepareInterrupt for any other number, `current' being the registers to *)
(* save.  Only FAULT bypasses the mask.  Accepts(n) says it returns true.  *)
Accepts(n) == (enabled \/ n = FAULT) /\ (Known(n) => Mapped(n))

Dispatch(n, current) ==
    /\ Accepts(n)
    /\ \/ Known(n) /\ Enter(n, current, frame) /\ UNCHANGED faulting
       \/ ~Known(n) /\ Fault

(* The INT instruction saves the address after itself; an interrupt that   *)
(* is not accepted makes it a no-op.                                       *)
SoftwareInterrupt(n) ==
    \/ n = RETURN /\ Return
    \/ n # RETURN /\ Dispatch(n, [regs EXCEPT !.ip = @ + 1])
    \/ n # RETURN /\ ~Accepts(n) /\ Advance

(* VM.interrupt, called by a peripheral: the current ip is saved as it is. *)
(* One that is not accepted is lost.                                       *)
External(n) == n # RETURN /\ Dispatch(n, regs)

(* A store to address 0x0.                                                 *)
SetMask(b) ==
    /\ enabled' = b
    /\ regs' = [regs EXCEPT !.ip = @ + 1]
    /\ UNCHANGED <<faulting, mmu, frame, status>>

Halt == status' = "halted" /\ UNCHANGED <<enabled, faulting, mmu, regs, frame>>
=============================================================================

----------------------------- MODULE MCMachine ------------------------------
(***************************************************************************)
(* Machine for TLC: every program of two or three instructions and every   *)
(* body of two handlers over a small instruction set.  Main code is at 1..4, the   *)
(* fault handler at 5..6, the timer handler at 7..8.                       *)
(***************************************************************************)
EXTENDS Machine, TLC

MCHandler == 1 :> 5 @@ 2 :> 7 @@ 3 :> 0
MCTimer == 2

(* The handlers: an instruction and a return.  A fault in the fault        *)
(* handler is a double fault, one in the timer handler replaces it, and    *)
(* interrupt 3 has no handler.                                             *)
HandlerCode == {
    5 :> a @@ 6 :> IntOp(RETURN) @@ 7 :> b @@ 8 :> IntOp(RETURN) :
      a \in {Nop, Bad},
      b \in {Nop, Bad, IntOp(2), IntOp(FAULT), Mask(FALSE)} }

Loaded(main) == { [a \in 1 .. 3 |-> m[a]] @@ 4 :> Jump(1) @@ h :
                    m \in main, h \in HandlerCode }

(* Code that never masks interrupts may do anything else; 4 is unknown.    *)
UnmaskedMain ==
    { <<a, b, Nop>> : a, b \in
        {Nop, Wait, Bad, HaltOp, IntOp(RETURN), IntOp(FAULT), IntOp(2), IntOp(3), IntOp(4)} }

(* Code that masks interrupts, as the kernel does outside of wait, and     *)
(* does not fault.                                                         *)
MaskingMain ==
    [1 .. 3 -> {Nop, Wait, Mask(TRUE), Mask(FALSE), IntOp(2), IntOp(3)}]

MCPrograms == Loaded(UnmaskedMain) \cup Loaded(MaskingMain)
=============================================================================

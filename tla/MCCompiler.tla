------------------------------ MODULE MCCompiler ------------------------------
(***************************************************************************)
(* The programs of MCPrograms, checked, compiled, linked and run; and      *)
(* those of MCKinds, which are types alone.                                *)
(***************************************************************************)
EXTENDS MCPrograms

VARIABLE expected     \* the outcome the program must have

mcVars == <<toolchainVars, expected>>

Waits == /\ pending = <<>> /\ checked = NoStorage /\ phase = "kinds" /\ Off /\ held = {}
ProgramInit ==
    \E programs \in {Programs} : \E i \in DOMAIN programs :
      /\ expected = programs[i].expected
      /\ declared = Types0 /\ values = programs[i].values /\ assembly = programs[i].asm
      /\ Begin(<<"point", "line", "cell", "bool", "string">>) /\ Waits
OfKinds == KindsInit /\ Waits /\ expected = <<"rejected", 0>> /\ values = NoStorage /\ assembly = <<>>
MCInit == ProgramInit \/ OfKinds
MCNext == ToolchainNext /\ UNCHANGED expected
MCSpec == MCInit /\ [][MCNext]_mcVars /\ WF_mcVars(Run /\ UNCHANGED expected)

-----------------------------------------------------------------------------
Ended == phase = "rejected" \/ status \notin {"off", "running"}
Outcome ==
    CASE phase = "rejected" -> <<"rejected", 0>>
      [] status = "halt" -> <<"halt", registers[RET]>>
      [] OTHER -> <<status, 0>>

(* The machine has come to the HALT of the entry point, where main returns *)
(* to: not to one of the run-time checks.                                  *)
Returned == status = "halt" /\ ip = PROGRAM_ADDR + 14

(* A program that is accepted gives what it says, and one that is not is   *)
(* refused (typecheck and compile of src/src/lowlevel, the assembler and   *)
(* the machine together).  When main returns, the stack is as it was       *)
(* before and the register that holds one still does.  Types alone have no *)
(* `main' and are refused.                                                 *)
Computes ==
    Ended =>
    /\ Outcome = expected
    /\ Returned => registers[SP] = STACK_TOP /\ registers[ONE] = 1

(* What runs, ends: no loop that is compiled jumps back past what ends it, *)
(* and no return goes back to where the machine has been.  All of the      *)
(* programs end by their meaning, and the machine goes on while it can.    *)
Ends == status = "running" ~> status # "running"

(* Only `&&', `||' and the deletion of a pointer leave a register          *)
(* allocated (expressions.ts:1552, statements.ts:837): every other piece   *)
(* of code gives back what it took when its function is compiled.          *)
RECURSIVE ExpressionKeeps(_), StatementKeeps(_)
ExpressionKeeps(e) ==
    (e.k = "binary" /\ e.op \in {"&&", "||"}) \/ \E i \in DOMAIN e.es : ExpressionKeeps(e.es[i])
StatementKeeps(st) ==
    \/ st.k = "delete" /\ Concrete(st.es[1]).k # "slice"
    \/ \E i \in DOMAIN st.es : ExpressionKeeps(st.es[i])
    \/ \E b \in DOMAIN st.blocks : \E i \in DOMAIN st.blocks[b] : StatementKeeps(st.blocks[b][i])
RegistersReturned ==
    [][phase = "types" /\ phase' = "compiled" =>
       \A name \in held' : \E i \in DOMAIN checked[name].body : StatementKeeps(checked[name].body[i])]_mcVars
=============================================================================

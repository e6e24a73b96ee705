------------------------------ MODULE Toolchain -------------------------------
(***************************************************************************)
(* A program on its way: checked, compiled, assembled behind the entry     *)
(* point of src/bare/entrypoint.qasm, loaded and run.                      *)
(***************************************************************************)
EXTENDS LowLevel, Assembler, Cpu

VARIABLES
    assembly,    \* directives that are linked to what is compiled
    held         \* the functions that were left with a register in use

toolchainVars == <<programVars, cpuVars, assembly, held>>

(* SP is the top of memory; main's result is left in RET.                  *)
STACK_TOP == MEMORY_SIZE - 1
AfterInit == <<Qualified("_after_init", <<>>), 0>>
AfterMain == <<Qualified("_after_main", <<>>), 0>>
Entrypoint ==
    <<<<"const", SP, STACK_TOP>>, <<"const", ONE, 1>>,
      <<"ref", 0, AfterInit>>, <<"ref", 1, Label(INIT)>>, <<"jmp", 0, 1, 0>>, <<"label", AfterInit>>,
      <<"ref", 0, AfterMain>>, <<"ref", 1, Label(ENTRYPOINT)>>, <<"jmp", 0, 1, 0>>, <<"label", AfterMain>>,
      <<"halt", 0, 0, 0>>>>

AllRegisters == CallerSaveRegisters \cup CalleeSaveRegisters
Failed(bodies, initializers) ==
    (\E name \in DOMAIN bodies : bodies[name].failed) \/ \E i \in DOMAIN initializers : initializers[i].failed

(* The sources are left behind once there is a program.                    *)
CompileRefused ==
    /\ phase' = "rejected" /\ UNCHANGED <<cpuVars, held>>
CompileDone(bodies, image) ==
    /\ phase' = "compiled"
    /\ held' = {name \in DOMAIN bodies : bodies[name].free # AllRegisters}
    /\ Reset(image, PROGRAM_ADDR)
CompileAndLink(bodies, initializers) ==
    \E image \in {Assemble(Entrypoint \o Directives(bodies, initializers) \o assembly)} :
      IF Failed(bodies, initializers) \/ image = <<>> THEN CompileRefused ELSE CompileDone(bodies, image)
CompileProgram ==
    /\ phase = "types" /\ pending = <<>>
    /\ \E bodies \in {Bodies} : \E initializers \in {Initializers} : CompileAndLink(bodies, initializers)
    /\ declared' = NoStorage /\ values' = NoStorage /\ checked' = NoStorage /\ assembly' = <<>>
    /\ walked' = {} /\ UNCHANGED <<order, errors, pending>>

Run == Step /\ UNCHANGED <<programVars, assembly, held>>

ToolchainNext ==
    \/ Next /\ phase = "kinds" /\ UNCHANGED <<values, phase, pending, checked, cpuVars, assembly, held>>
    \/ (BeginTypecheck \/ Typecheck) /\ UNCHANGED <<cpuVars, assembly, held>>
    \/ CompileProgram
    \/ Run
=============================================================================

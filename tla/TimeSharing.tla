----------------------------- MODULE TimeSharing ----------------------------
(***************************************************************************)
(* What the scheduler promises to user programs: each process has a        *)
(* register file of its own, which changes only when that process executes *)
(* an instruction or gets the result of its own system call.  Switching    *)
(* processes is invisible to all of them.                                  *)
(***************************************************************************)
EXTENDS Integers

CONSTANTS Pids, Registers

VARIABLES
    live,       \* the processes
    cpu,        \* the process that has the processor, 0 for the kernel
    context,    \* the register file of each process
    calling     \* cpu is in a system call

vars == <<live, cpu, context, calling>>

Init == live = {} /\ cpu = 0 /\ context \in [Pids -> Registers] /\ calling = FALSE

(* Only the registers of the processes in S may change.                    *)
OnlyChanges(S) ==
    /\ context' \in [Pids -> Registers]
    /\ \A p \in live \ S : context'[p] = context[p]

(* The kernel starts a process.                                            *)
Start(p) ==
    /\ cpu = 0 /\ p \notin live
    /\ live' = live \cup {p}
    /\ OnlyChanges({p})
    /\ UNCHANGED <<cpu, calling>>

(* The process that has the processor executes an instruction, which may   *)
(* be a system call, and gives its result or not.                          *)
Execute ==
    /\ cpu \in live /\ ~calling
    /\ OnlyChanges({cpu})
    /\ calling' \in BOOLEAN
    /\ UNCHANGED <<live, cpu>>

(* A system call writes its result to its caller and to nobody else.       *)
Result ==
    /\ cpu \in live /\ calling
    /\ OnlyChanges({cpu})
    /\ context'[cpu].ip = context[cpu].ip
    /\ calling' = FALSE
    /\ cpu' \in live
    /\ UNCHANGED live

(* The processor goes to another process.                                  *)
Switch ==
    /\ ~calling
    /\ cpu' \in live
    /\ OnlyChanges({})
    /\ UNCHANGED <<live, calling>>

(* The process that has the processor exits, or is killed for a fault, and *)
(* takes others with it.                                                   *)
Exit ==
    /\ cpu \in live
    /\ live' \subseteq live \ {cpu}
    /\ \A p \in live' : context'[p] = context[p]
    /\ context' \in [Pids -> Registers]
    /\ cpu' \in live' \cup {0}
    /\ cpu' = 0 => live' = {}
    /\ calling' = FALSE

Next == (\E p \in Pids : Start(p)) \/ Execute \/ Result \/ Switch \/ Exit

Spec == Init /\ [][Next]_vars
=============================================================================

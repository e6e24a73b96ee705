---------------------------- MODULE Translation -----------------------------
(***************************************************************************)
(* What an MMU promises to the virtual machine (interface MMU of           *)
(* src/src/vm/mmu.ts): an access is answered from the page table in force, *)
(* as it is in memory.  There is no cache here: the two MMUs of the source *)
(* are shown to implement this module.  A table that maps one address in   *)
(* several ways may leave a choice of answers.                             *)
(***************************************************************************)
CONSTANTS
    Roots,      \* the addresses a page table may be at
    NoRoot,     \* the base address 0x0: no page table is in force
    Tables,     \* what a page table may hold
    Accesses,   \* pairs of a virtual address and the access asked for
    Says(_, _), \* the answers a table allows to an access
    Same(_)     \* the answer to an access when nothing is translated

VARIABLES
    on,         \* the MMU is enabled
    root,       \* the table in force
    tables,     \* the page table at each address
    answer      \* the last access and what it was answered

vars == <<on, root, tables, answer>>

Init ==
    /\ on = FALSE
    /\ root = NoRoot
    /\ tables \in [Roots \cup {NoRoot} -> Tables]
    /\ answer = <<>>

Translated(a) == IF on /\ root # NoRoot THEN Says(tables[root], a) ELSE {Same(a)}

Translate(a) == (\E v \in Translated(a) : answer' = <<a, v>>) /\ UNCHANGED <<on, root, tables>>
Enable  == on' = TRUE /\ UNCHANGED <<root, tables, answer>>
Disable == on' = FALSE /\ UNCHANGED <<root, tables, answer>>
Switch  == root' \in Roots \cup {NoRoot} /\ UNCHANGED <<on, tables, answer>>

(* The kernel writes a page table.                                         *)
Edit == ~on /\ tables' \in [Roots \cup {NoRoot} -> Tables] /\ UNCHANGED <<on, root, answer>>

Next == Enable \/ Disable \/ Switch \/ Edit \/ \E a \in Accesses : Translate(a)

Spec == Init /\ [][Next]_vars
=============================================================================

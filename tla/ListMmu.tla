------------------------------ MODULE ListMmu -------------------------------
(***************************************************************************)
(* ListPageTablePeripheral (src/src/vm/mmu.ts), the MMU of the virtual     *)
(* machine: a list of pages in memory, of which the MMU keeps a sorted     *)
(* copy (`pages') and the page it used last (`lastPage').                  *)
(*                                                                         *)
(* Neither copy follows the memory by itself.  The kernel writes the table *)
(* and the base address from interrupt handlers, where the MMU is disabled *)
(* (VM.prepareInterrupt), and the tests call reset().                      *)
(***************************************************************************)
EXTENDS Naturals, Sequences

CONSTANTS
    Bases,      \* addresses of page tables
    Tables,     \* the lists of pages the kernel writes
    Addresses,  \* virtual addresses
    AccessFlags, \* the accesses asked for: read, write, execute
    NoPage,     \* the null page
    Undefined   \* what translate returns when it refuses

ASSUME BasesAssumption == Bases \subseteq Nat \ {0}

VARIABLES
    memory,         \* the page table at each base address
    enabled,
    baseAddress,
    pages,
    lastPage,
    answer          \* the last access and what translate returned

listVars == <<memory, enabled, baseAddress, pages, lastPage, answer>>

Page == [virtualAddress : Nat, physicalAddress : Nat, size : Nat, flags : SUBSET AccessFlags]

ASSUME NoPageAssumption == NoPage \notin Page

Covers(p, a) == p.virtualAddress <= a /\ a < p.virtualAddress + p.size

(* Pages may overlap: add_page of the kernel checks nothing, and a display *)
(* that is closed and reopened is mapped again, often with another size.   *)
ASSUME TablesAssumption == Tables \subseteq Seq(Page) /\ Addresses \subseteq Nat

Init ==
    /\ memory \in [Bases \cup {0} -> Tables]
    /\ enabled = FALSE
    /\ baseAddress = 0
    /\ pages = <<>>
    /\ lastPage = NoPage
    /\ answer = <<>>

(* Faulty variants: the copy of the list is kept when the MMU is enabled;  *)
(* the page used last is, when it is disabled.                             *)
EnableKeepingPages ==
    /\ enabled' = TRUE
    /\ lastPage' = NoPage
    /\ UNCHANGED <<memory, baseAddress, pages, answer>>

(* enable() and reset() both read the table again.                         *)
Rebuild == pages' = memory[baseAddress] /\ lastPage' = NoPage

Enable == enabled' = TRUE /\ Rebuild /\ UNCHANGED <<memory, baseAddress, answer>>
Reset  == Rebuild /\ UNCHANGED <<memory, enabled, baseAddress, answer>>

DisableKeepingPage ==
    /\ enabled' = FALSE
    /\ UNCHANGED <<memory, baseAddress, pages, lastPage, answer>>

Disable ==
    /\ enabled' = FALSE
    /\ lastPage' = NoPage
    /\ UNCHANGED <<memory, baseAddress, pages, answer>>

(* notify(): the list is read again, the page used last is not forgotten.  *)
Notify(b) ==
    /\ ~enabled
    /\ baseAddress' = b
    /\ pages' = memory[b]
    /\ UNCHANGED <<memory, enabled, lastPage, answer>>

(* The kernel writes the table at b.                                       *)
WriteTable(b, t) ==
    /\ ~enabled
    /\ memory' = [memory EXCEPT ![b] = t]
    /\ UNCHANGED <<enabled, baseAddress, pages, lastPage, answer>>

(* The first page that covers the address, by virtual address and then by  *)
(* place: the sort is stable.                                              *)
Covering(ps, a) == {i \in DOMAIN ps : Covers(ps[i], a)}
Precedes(ps, i, j) ==
    \/ ps[i].virtualAddress < ps[j].virtualAddress
    \/ ps[i].virtualAddress = ps[j].virtualAddress /\ i <= j
First(ps, S) == CHOOSE i \in S : \A j \in S : Precedes(ps, i, j)
Find(ps, a) == IF Covering(ps, a) = {} THEN NoPage ELSE ps[First(ps, Covering(ps, a))]

Access(p, a, flag) ==
    IF p # NoPage /\ flag \in p.flags THEN p.physicalAddress + (a - p.virtualAddress) ELSE Undefined

Translating == enabled /\ baseAddress # 0
Hit(a) == lastPage # NoPage /\ Covers(lastPage, a)
Returns(a, flag, v) == answer' = <<<<a, flag>>, v>> /\ UNCHANGED <<memory, enabled, baseAddress, pages>>

TranslateIdentity(a, flag) == ~Translating /\ Returns(a, flag, a) /\ UNCHANGED lastPage

TranslateHit(a, flag) ==
    /\ Translating /\ Hit(a)
    /\ Returns(a, flag, Access(lastPage, a, flag))
    /\ UNCHANGED lastPage

TranslateMiss(a, flag) ==
    /\ Translating /\ ~Hit(a)
    /\ Returns(a, flag, Access(Find(pages, a), a, flag))
    /\ lastPage' = IF Find(pages, a) = NoPage THEN lastPage ELSE Find(pages, a)

Translate(a, flag) ==
    \/ TranslateIdentity(a, flag)
    \/ TranslateHit(a, flag)
    \/ TranslateMiss(a, flag)

Next ==
    \/ Enable \/ Disable \/ Reset
    \/ \E b \in Bases \cup {0} : Notify(b)
    \/ \E b \in Bases, t \in Tables : WriteTable(b, t)
    \/ \E a \in Addresses, flag \in AccessFlags : Translate(a, flag)

Spec == Init /\ [][Next]_listVars

-----------------------------------------------------------------------------
TypeOK ==
    /\ memory \in [Bases \cup {0} -> Tables]
    /\ enabled \in BOOLEAN
    /\ baseAddress \in Bases \cup {0}
    /\ pages \in Tables \cup {<<>>}

(* While the MMU translates, its copy of the list is the table in memory   *)
(* and the page it used last is one the list would find: the two caches of *)
(* enable, notify and translate, which no write to the table refreshes.    *)
CachesCurrent ==
    /\ enabled => pages = memory[baseAddress]
    /\ lastPage # NoPage =>
          /\ Translating
          /\ \E a \in Addresses : lastPage = Find(pages, a)

(* What a table says of an access: the first of the pages that cover the   *)
(* address answers if these are all mapped at the same place (one page, or *)
(* a mapping that is repeated); otherwise any of them may, because the one *)
(* that was used last for another address is preferred to the first.       *)
Alike(t, S) == \A i, j \in S :
    t[i].virtualAddress = t[j].virtualAddress /\ t[i].size = t[j].size
Answering(t, a) ==
    LET S == Covering(t, a)
    IN IF S # {} /\ Alike(t, S) THEN {First(t, S)} ELSE S
AnswersOf(t, access) ==
    IF Covering(t, access[1]) = {}
    THEN {Undefined}
    ELSE {Access(t[i], access[1], access[2]) : i \in Answering(t, access[1])}
AddressOf(access) == access[1]

(* The MMU implements Translation: an access is answered as the table in   *)
(* memory allows, for every order of table writes, switches, interrupts    *)
(* and accesses (mmu.ts:263-357).                                          *)

Abstract == INSTANCE Translation WITH
    Roots <- Bases, NoRoot <- 0, Tables <- Tables, Accesses <- Addresses \X AccessFlags,
    Says <- AnswersOf, Same <- AddressOf,
    on <- enabled, root <- baseAddress, tables <- memory, answer <- answer

ImplementsTranslation == Abstract!Spec
=============================================================================

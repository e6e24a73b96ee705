---------------------------- MODULE TwoLevelMmu -----------------------------
(***************************************************************************)
(* TwoLevelPageTablePeripheral (src/src/vm/mmu.ts): a table of tables of   *)
(* page entries, and a cache (`mru') of the entries found.  A virtual      *)
(* address is <<table1Index, table2Index, offset>>, an access adds the     *)
(* flag asked for.                                                         *)
(*                                                                         *)
(* A miss and a hit do not compute the same thing: a miss checks the flags *)
(* of both levels and keeps bits 10 to 29 of the entry, a hit checks those *)
(* of the page alone and keeps bits 12 and up of what the miss kept.       *)
(* WellFormed is what a table must satisfy for them to agree.              *)
(***************************************************************************)
EXTENDS Naturals

CONSTANTS
    Bases,          \* addresses of first-level tables
    Directories,    \* the tables the kernel writes, both levels
    Indexes,        \* the indexes used at either level
    Offsets,        \* the offsets used within a page
    AccessFlags,    \* the accesses asked for
    Undefined       \* what translate returns when it refuses

Present == "present"
VirtualAddresses == Indexes \X Indexes \X Offsets
PAGE == 2 ^ 12
Number(a) == (a[1] * 2 ^ 10 + a[2]) * PAGE + a[3]

VARIABLES
    memory,         \* the table at each base address
    enabled,
    baseAddress,
    mru,            \* <<table1Index, table2Index>> |-> entry, where cached
    answer

twoLevelVars == <<memory, enabled, baseAddress, mru, answer>>

Empty == [x \in {} |-> x]

(* The tables the MMU is made for: the flags of an entry of the first      *)
(* table include those of every page under it, and pages are at multiples  *)
(* of the page size below 2^30.                                            *)
WellFormed(d) ==
    \A i, j \in Indexes :
       /\ d[i].entries[j].flags \subseteq d[i].flags
       /\ d[i].entries[j].address % PAGE = 0
       /\ d[i].entries[j].address \in 0 .. 2 ^ 30 - 1

Init ==
    /\ memory \in [Bases \cup {0} -> {d \in Directories : WellFormed(d)}]
    /\ enabled = FALSE
    /\ baseAddress = 0
    /\ mru = Empty
    /\ answer = <<>>

(* A faulty variant: switching tables keeps the cache, as the list MMU's   *)
(* notify keeps the last page.                                             *)
NotifyKeepingCache(b) == baseAddress' = b /\ UNCHANGED <<memory, enabled, mru, answer>>

Enable  == enabled' = TRUE /\ mru' = Empty /\ UNCHANGED <<memory, baseAddress, answer>>
Disable == enabled' = FALSE /\ UNCHANGED <<memory, baseAddress, mru, answer>>
Reset   == mru' = Empty /\ UNCHANGED <<memory, enabled, baseAddress, answer>>
Notify(b) == baseAddress' = b /\ mru' = Empty /\ UNCHANGED <<memory, enabled, answer>>

WriteTable(b, d) ==
    /\ ~enabled /\ WellFormed(d)
    /\ memory' = [memory EXCEPT ![b] = d]
    /\ UNCHANGED <<enabled, baseAddress, mru, answer>>

MissMask(x) == (x % 2 ^ 30) - (x % 2 ^ 10)
HitMask(x) == x - (x % PAGE)
Granted(e, flag) == {Present, flag} \subseteq e.flags

Walk(d, a) == d[a[1]].entries[a[2]]
Kept(d, a) == [address |-> MissMask(Walk(d, a).address), flags |-> Walk(d, a).flags]
WalkGrants(d, a, flag) == Granted(d[a[1]], flag) /\ Granted(Walk(d, a), flag)

Miss(d, a, flag) ==
    IF WalkGrants(d, a, flag) THEN Kept(d, a).address + a[3] ELSE Undefined
HitAnswer(e, a, flag) ==
    IF Granted(e, flag) THEN HitMask(e.address) + a[3] ELSE Undefined

Translating == enabled /\ baseAddress # 0
Key(a) == <<a[1], a[2]>>
Returns(a, flag, v) == answer' = <<<<a, flag>>, v>> /\ UNCHANGED <<memory, enabled, baseAddress>>

TranslateIdentity(a, flag) == ~Translating /\ Returns(a, flag, Number(a)) /\ UNCHANGED mru

TranslateHit(a, flag) ==
    /\ Translating /\ Key(a) \in DOMAIN mru
    /\ Returns(a, flag, HitAnswer(mru[Key(a)], a, flag))
    /\ UNCHANGED mru

(* Only an access that is granted is cached.                               *)
TranslateMiss(a, flag) ==
    /\ Translating /\ Key(a) \notin DOMAIN mru
    /\ Returns(a, flag, Miss(memory[baseAddress], a, flag))
    /\ mru' = IF WalkGrants(memory[baseAddress], a, flag)
              THEN [k \in DOMAIN mru \cup {Key(a)} |->
                      IF k = Key(a) THEN Kept(memory[baseAddress], a) ELSE mru[k]]
              ELSE mru

Translate(a, flag) ==
    \/ TranslateIdentity(a, flag)
    \/ TranslateHit(a, flag)
    \/ TranslateMiss(a, flag)

Next ==
    \/ Enable \/ Disable \/ Reset
    \/ \E b \in Bases \cup {0} : Notify(b)
    \/ \E b \in Bases, d \in Directories : WriteTable(b, d)
    \/ \E a \in VirtualAddresses, flag \in AccessFlags : Translate(a, flag)

Spec == Init /\ [][Next]_twoLevelVars

-----------------------------------------------------------------------------
(* The two-level MMU implements Translation too: a cached access is        *)
(* answered as the walk through memory would answer it.                    *)
AnswersOf(d, access) == {Miss(d, access[1], access[2])}
AddressOf(access) == Number(access[1])

Abstract == INSTANCE Translation WITH
    Roots <- Bases, NoRoot <- 0, Tables <- Directories, Accesses <- VirtualAddresses \X AccessFlags,
    Says <- AnswersOf, Same <- AddressOf,
    on <- enabled, root <- baseAddress, tables <- memory, answer <- answer

TwoLevelImplementsTranslation == Abstract!Spec
=============================================================================

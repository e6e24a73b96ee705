-------------------------- MODULE PeripheralProofs --------------------------
(***************************************************************************)
(* Proofs about the peripherals of the virtual machine: the two MMUs and   *)
(* the block device with its driver.  ListMmu is extended, the others are  *)
(* instances; they have nothing in common but names of constants and       *)
(* variables, and what is proved holds whatever those are.                 *)
(*                                                                         *)
(* The list MMU: its caches are current while it translates, and so it     *)
(* answers as the page table in memory allows.  CachesCurrent is not       *)
(* inductive by itself: the type of the state and `the MMU is disabled, so *)
(* no page is kept' (both in ListInv) carry it over notify, which reads    *)
(* the list again and forgets no page.                                     *)
(***************************************************************************)
EXTENDS ListMmu, TLAPS, NaturalsInduction, WellFoundedInduction

ListInv == TypeOK /\ CachesCurrent

(* The initial state satisfies the invariant.                              *)
LEMMA ListInit == Init => ListInv
  <1> SUFFICES ASSUME Init PROVE ListInv
    OBVIOUS
  <1> USE DEF Init
  <1>1. TypeOK
    BY DEF TypeOK
  <1>2. CachesCurrent
    BY DEF CachesCurrent, Translating
  <1> QED BY <1>1, <1>2 DEF ListInv

(* Every non-empty set of natural numbers has a least element.             *)
LEMMA LeastExists ==
    ASSUME NEW S \in SUBSET Nat, S # {}
    PROVE  \E m \in S : \A n \in S : m <= n
<1> DEFINE R == OpToRel(<, Nat)
<1>1. PICK m \in S : \A n \in S : ~ (<<n, m>> \in R)
  <2>1. IsWellFoundedOn(R, Nat)
    BY NatLessThanWellFounded DEF OpToRel
  <2> HIDE DEF R
  <2> QED
    BY <2>1, WFMin
<1>2. \A n \in S : ~ (n < m)
  BY <1>1 DEF OpToRel
<1> HIDE DEF R
<1>3. \A n \in S : m <= n
  BY <1>2
<1> QED
  BY <1>3

(* The first page that covers an address exists when one covers it, covers *)
(* it and precedes the others that do.                                     *)
LEMMA FirstCovers ==
    ASSUME NEW t \in Tables \cup {<<>>}, NEW a \in Addresses, Covering(t, a) # {}
    PROVE  /\ First(t, Covering(t, a)) \in Covering(t, a)
           /\ \A j \in Covering(t, a) : Precedes(t, First(t, Covering(t, a)), j)
<1> DEFINE S == Covering(t, a)
           V == {t[i].virtualAddress : i \in S}
<1>1. t \in Seq(Page)
  <2>1. t # <<>>
    BY DEF Covering
  <2>2. t \in Tables
    BY <2>1
  <2> HIDE DEF S, V
  <2> QED BY <2>2, TablesAssumption
<1>2. S \subseteq Nat /\ \A i \in S : t[i] \in Page
  BY <1>1 DEF Covering
<1>3. V \in SUBSET Nat /\ V # {}
  BY <1>2 DEF Page
<1>4. PICK v \in V : \A w \in V : v <= w
  <2> HIDE DEF V
  <2> QED BY <1>3, LeastExists
<1> DEFINE F == {i \in S : t[i].virtualAddress = v}
<1>5. F \in SUBSET Nat /\ F # {}
  BY <1>2, <1>4
<1>6. PICK i \in F : \A j \in F : i <= j
  <2> HIDE DEF F
  <2> QED BY <1>5, LeastExists
<1>7. \A j \in S : Precedes(t, i, j)
  <2> TAKE j \in S
  <2>1. CASE j \in F
    BY <2>1, <1>6 DEF Precedes
  <2>2. CASE j \notin F
    <3>1. v <= t[j].virtualAddress /\ t[j].virtualAddress # v
      BY <2>2, <1>4
    <3>2. v \in Nat /\ t[j].virtualAddress \in Nat
      BY <1>3
    <3> QED BY <3>1, <3>2, <1>6 DEF Precedes
  <2> QED BY <2>1, <2>2
<1>8. \E k \in S : \A j \in S : Precedes(t, k, j)
  BY <1>6, <1>7
<1>9. First(t, S) \in S /\ \A j \in S : Precedes(t, First(t, S), j)
  <2> HIDE DEF S
  <2> QED BY <1>8, Zenon DEF First
<1> QED BY <1>9

(* A page found for one address may answer for every other address it      *)
(* covers: if all pages there are mapped at one place they also cover the  *)
(* first address, so that it is the first of them too.                     *)
LEMMA FoundPageAnswers ==
    ASSUME NEW t \in Tables \cup {<<>>}, NEW a \in Addresses, NEW b \in Addresses, NEW flag,
           Find(t, b) # NoPage, Covers(Find(t, b), a)
    PROVE  Access(Find(t, b), a, flag) \in AnswersOf(t, <<a, flag>>)
<1> DEFINE i == First(t, Covering(t, b))
           k == First(t, Covering(t, a))
<1>1. Covering(t, b) # {} /\ Find(t, b) = t[i]
  BY DEF Find
<1>2. i \in Covering(t, b) /\ \A j \in Covering(t, b) : Precedes(t, i, j)
  BY <1>1, FirstCovers
<1>3. i \in Covering(t, a)
  <2> HIDE DEF i
  <2> QED BY <1>1, <1>2 DEF Covering
<1>4. k \in Covering(t, a) /\ \A j \in Covering(t, a) : Precedes(t, k, j)
  BY <1>3, FirstCovers
<1> HIDE DEF i, k
<1>5. i \in Answering(t, a)
  <2>1. CASE ~Alike(t, Covering(t, a))
    BY <1>3, <2>1 DEF Answering
  <2>2. CASE Alike(t, Covering(t, a))
    <3>1. t \in Seq(Page)
      BY <1>3, TablesAssumption DEF Covering
    <3>2. i \in Nat /\ k \in Nat /\ t[i] \in Page /\ t[k] \in Page
      BY <1>3, <1>4, <3>1 DEF Covering
    <3>3. t[k].virtualAddress = t[i].virtualAddress /\ t[k].size = t[i].size
      BY <1>3, <1>4, <2>2, Zenon DEF Alike
    <3>4. k \in Covering(t, b)
      BY <1>2, <1>4, <3>3 DEF Covering, Covers
    <3>5. i <= k /\ k <= i
      BY <1>2, <1>3, <1>4, <3>2, <3>3, <3>4 DEF Precedes, Page
    <3>6. i = k
      BY <3>2, <3>5
    <3> QED BY <1>3, <2>2, <3>6 DEF Answering, k
  <2> QED BY <2>1, <2>2
<1> QED BY <1>1, <1>3, <1>5 DEF AnswersOf

-----------------------------------------------------------------------------
(* The type of the state is preserved.                                     *)
LEMMA ListStepType == ListInv /\ [Next]_listVars => TypeOK'
<1> SUFFICES ASSUME ListInv, [Next]_listVars PROVE TypeOK'
  OBVIOUS
<1> USE DEF ListInv, TypeOK
<1>1. CASE Enable
  BY <1>1 DEF Enable, Rebuild
<1>2. CASE Disable
  BY <1>2 DEF Disable
<1>3. CASE Reset
  BY <1>3 DEF Reset, Rebuild
<1>4. CASE \E b \in Bases \cup {0} : Notify(b)
  BY <1>4 DEF Notify
<1>5. CASE \E b \in Bases, t \in Tables : WriteTable(b, t)
  BY <1>5 DEF WriteTable
<1>6. CASE \E a \in Addresses, flag \in AccessFlags : Translate(a, flag)
  BY <1>6 DEF Translate, TranslateIdentity, TranslateHit, TranslateMiss, Returns
<1>7. CASE UNCHANGED listVars
  BY <1>7 DEF listVars
<1> QED BY <1>1, <1>2, <1>3, <1>4, <1>5, <1>6, <1>7 DEF Next

(* The caches stay current.                                                *)
LEMMA ListStepCaches == ListInv /\ [Next]_listVars => CachesCurrent'
<1> SUFFICES ASSUME ListInv, [Next]_listVars PROVE CachesCurrent'
  OBVIOUS
<1> USE DEF ListInv, TypeOK, CachesCurrent, Translating
<1>1. CASE Enable
  BY <1>1 DEF Enable, Rebuild
<1>2. CASE Disable
  BY <1>2 DEF Disable
<1>3. CASE Reset
  BY <1>3 DEF Reset, Rebuild
<1>4. CASE \E b \in Bases \cup {0} : Notify(b)
  BY <1>4 DEF Notify
<1>5. CASE \E b \in Bases, t \in Tables : WriteTable(b, t)
  BY <1>5 DEF WriteTable
<1>6. ASSUME NEW a \in Addresses, NEW flag \in AccessFlags, Translate(a, flag)
      PROVE CachesCurrent'
  <2>1. CASE TranslateIdentity(a, flag)
    BY <2>1 DEF TranslateIdentity, Returns
  <2>2. CASE TranslateHit(a, flag)
    BY <2>2 DEF TranslateHit, Returns
  <2>3. CASE TranslateMiss(a, flag)
    BY <2>3 DEF TranslateMiss, Returns
  <2> QED BY <1>6, <2>1, <2>2, <2>3 DEF Translate
<1>7. CASE UNCHANGED listVars
  BY <1>7 DEF listVars
<1> QED BY <1>1, <1>2, <1>3, <1>4, <1>5, <1>6, <1>7 DEF Next

(* The copies ListPageTablePeripheral keeps of the page table are current  *)
(* whenever it translates.                                                 *)
THEOREM ListMmuInvariant == Spec => []ListInv
<1>1. Init => ListInv
  BY ListInit
<1>2. ListInv /\ [Next]_listVars => ListInv'
  BY ListStepType, ListStepCaches DEF ListInv
<1> QED BY <1>1, <1>2, PTL DEF Spec

(* The caches of enable, notify and translate are current.                 *)
THEOREM CachesAreCurrent == Spec => []CachesCurrent
<1>1. ListInv => CachesCurrent
  BY DEF ListInv
<1> QED BY <1>1, ListMmuInvariant, PTL

-----------------------------------------------------------------------------
(* A hit answers as the table in memory allows.                            *)
LEMMA ListHitAgrees ==
    ASSUME ListInv, NEW a \in Addresses, NEW flag \in AccessFlags, Translating, Hit(a)
    PROVE  Access(lastPage, a, flag) \in AnswersOf(memory[baseAddress], <<a, flag>>)
<1>1. pages = memory[baseAddress] /\ pages \in Tables \cup {<<>>}
  BY DEF ListInv, TypeOK, CachesCurrent, Translating
<1>2. PICK b \in Addresses : lastPage = Find(pages, b)
  BY DEF ListInv, CachesCurrent, Hit
<1>3. Find(pages, b) # NoPage /\ Covers(Find(pages, b), a)
  BY <1>2 DEF Hit
<1>4. Access(Find(pages, b), a, flag) \in AnswersOf(pages, <<a, flag>>)
  BY <1>1, <1>3, FoundPageAnswers
<1> QED BY <1>1, <1>2, <1>4

(* So does a search of the list.                                           *)
LEMMA ListSearchAgrees ==
    ASSUME NEW t \in Tables \cup {<<>>}, NEW a \in Addresses, NEW flag
    PROVE  Access(Find(t, a), a, flag) \in AnswersOf(t, <<a, flag>>)
<1>1. CASE Covering(t, a) = {}
  BY <1>1 DEF Find, Access, AnswersOf
<1>2. CASE Covering(t, a) # {}
  <2> DEFINE i == First(t, Covering(t, a))
  <2>1. i \in Covering(t, a) /\ Find(t, a) = t[i]
    BY <1>2, FirstCovers DEF Find
  <2> HIDE DEF i
  <2>2. Covers(Find(t, a), a)
    BY <2>1 DEF Covering
  <2>3. t[i] \in Page
    BY <2>1, TablesAssumption DEF Covering
  <2> QED BY <2>1, <2>2, <2>3, NoPageAssumption, FoundPageAnswers
<1> QED BY <1>1, <1>2

(* Every access is answered as Translation answers it.                     *)
LEMMA ListTranslateRefines ==
    ASSUME ListInv, NEW a \in Addresses, NEW flag \in AccessFlags, Translate(a, flag)
    PROVE  Abstract!Translate(<<a, flag>>)
<1>1. CASE TranslateIdentity(a, flag)
  BY <1>1 DEF TranslateIdentity, Returns, Translating, Abstract!Translate, Abstract!Translated, AddressOf
<1>2. CASE TranslateHit(a, flag)
  BY <1>2, ListHitAgrees DEF TranslateHit, Returns, Translating, Abstract!Translate, Abstract!Translated
<1>3. CASE TranslateMiss(a, flag)
  <2>1. pages = memory[baseAddress] /\ pages \in Tables \cup {<<>>}
    BY <1>3 DEF TranslateMiss, Translating, ListInv, TypeOK, CachesCurrent
  <2>2. Access(Find(pages, a), a, flag) \in AnswersOf(pages, <<a, flag>>)
    BY <2>1, ListSearchAgrees
  <2> QED
    BY <1>3, <2>1, <2>2 DEF TranslateMiss, Returns, Translating, Abstract!Translate, Abstract!Translated
<1> QED BY <1>1, <1>2, <1>3 DEF Translate

(* Every step of the list MMU is a step of Translation, or changes nothing *)
(* it speaks of.                                                           *)
LEMMA ListStepRefines == ListInv /\ [Next]_listVars => [Abstract!Next]_(Abstract!vars)
<1> SUFFICES ASSUME ListInv, [Next]_listVars PROVE Abstract!Next \/ UNCHANGED Abstract!vars
  OBVIOUS
<1> USE DEF Abstract!Next, Abstract!vars
<1>1. CASE Enable
  BY <1>1 DEF Enable, Abstract!Enable
<1>2. CASE Disable
  BY <1>2 DEF Disable, Abstract!Disable
<1>3. CASE Reset
  BY <1>3 DEF Reset
<1>4. CASE \E b \in Bases \cup {0} : Notify(b)
  BY <1>4 DEF Notify, Abstract!Switch
<1>5. CASE \E b \in Bases, t \in Tables : WriteTable(b, t)
  <2>1. memory' \in [Bases \cup {0} -> Tables]
    BY <1>5 DEF WriteTable, ListInv, TypeOK
  <2> QED BY <1>5, <2>1 DEF WriteTable, Abstract!Edit
<1>6. ASSUME NEW a \in Addresses, NEW flag \in AccessFlags, Translate(a, flag)
      PROVE Abstract!Next
  BY <1>6, ListTranslateRefines
<1>7. CASE UNCHANGED listVars
  BY <1>7 DEF listVars
<1> QED BY <1>1, <1>2, <1>3, <1>4, <1>5, <1>6, <1>7 DEF Next

(* The list MMU implements Translation: whatever the order of interrupts,  *)
(* table writes, switches and accesses, an access is answered as the table *)
(* in memory allows, whichever pages of it overlap.                        *)
THEOREM ListMmuRefinement == Spec => ImplementsTranslation
<1>1. Init => Abstract!Init
  BY DEF Init, Abstract!Init
<1>2. ListInv /\ [Next]_listVars => [Abstract!Next]_(Abstract!vars)
  BY ListStepRefines
<1> QED BY <1>1, <1>2, ListMmuInvariant, PTL DEF Spec, Abstract!Spec, ImplementsTranslation
-----------------------------------------------------------------------------
(* The two-level MMU: it answers what the page table in memory says.  The  *)
(* invariant is that while the MMU is enabled the cache holds what the     *)
(* walk of the table in force keeps; it may be stale when the MMU is       *)
(* disabled, and enable empties it.                                        *)
CONSTANTS Directories, Indexes, Offsets
VARIABLE mru

Two == INSTANCE TwoLevelMmu

(* What the tables, the base address and the flag may be, and the entries  *)
(* of the cache.                                                           *)
DirectoriesOk ==
    /\ memory \in [Bases \cup {0} -> {d \in Directories : Two!WellFormed(d)}]
    /\ baseAddress \in Bases \cup {0}

CacheCurrent ==
    enabled => \A a \in Two!VirtualAddresses : Two!Key(a) \in DOMAIN mru =>
                  mru[Two!Key(a)] = Two!Kept(memory[baseAddress], a)

TwoLevelInv == DirectoriesOk /\ CacheCurrent

-----------------------------------------------------------------------------
(* The two masks agree on an address that is the start of a page: what a   *)
(* hit keeps of an entry is what a miss kept of it.                        *)
LEMMA MasksAgree ==
    ASSUME NEW x \in 0 .. 2 ^ 30 - 1, x % Two!PAGE = 0
    PROVE  Two!HitMask(Two!MissMask(x)) = Two!MissMask(x)
<1>1. 2 ^ 12 = 4096 /\ 2 ^ 10 = 1024 /\ 2 ^ 30 = 1073741824
  OBVIOUS
<1>2. x \in Nat /\ x < 1073741824 /\ x % 4096 = 0
  BY <1>1 DEF Two!PAGE
<1>3. Two!MissMask(x) = x
  <2>1. x % 1024 = 0 /\ x % 1073741824 = x
    BY <1>2
  <2> QED BY <2>1, <1>1, <1>2 DEF Two!MissMask
<1>4. Two!HitMask(x) = x
  BY <1>1, <1>2 DEF Two!HitMask, Two!PAGE
<1> QED BY <1>3, <1>4

(* A hit on an entry that is what the walk keeps answers as the walk does: *)
(* the flags of the page are among those of its table.                     *)
LEMMA TwoLevelHitAgrees ==
    ASSUME NEW d, Two!WellFormed(d), NEW a \in Two!VirtualAddresses, NEW flag
    PROVE  Two!HitAnswer(Two!Kept(d, a), a, flag) = Two!Miss(d, a, flag)
<1>1. a[1] \in Indexes /\ a[2] \in Indexes
  BY DEF Two!VirtualAddresses
<1>2. /\ Two!Walk(d, a).flags \subseteq d[a[1]].flags
      /\ Two!Walk(d, a).address % Two!PAGE = 0
      /\ Two!Walk(d, a).address \in 0 .. 2 ^ 30 - 1
  BY <1>1 DEF Two!WellFormed, Two!Walk
<1>3. Two!HitMask(Two!Kept(d, a).address) = Two!Kept(d, a).address
  BY <1>2, MasksAgree DEF Two!Kept
<1>4. Two!Granted(Two!Kept(d, a), flag) <=> Two!WalkGrants(d, a, flag)
  BY <1>2 DEF Two!Kept, Two!Granted, Two!WalkGrants
<1> QED BY <1>3, <1>4 DEF Two!HitAnswer, Two!Miss

(* What is kept does not depend on the offset within the page.             *)
LEMMA KeptByKey ==
    ASSUME NEW d, NEW a \in Two!VirtualAddresses, NEW b \in Two!VirtualAddresses, Two!Key(a) = Two!Key(b)
    PROVE  Two!Kept(d, a) = Two!Kept(d, b)
BY DEF Two!Key, Two!Kept, Two!Walk

-----------------------------------------------------------------------------
LEMMA TwoLevelStepType == TwoLevelInv /\ [Two!Next]_(Two!twoLevelVars) => DirectoriesOk'
<1> SUFFICES ASSUME TwoLevelInv, [Two!Next]_(Two!twoLevelVars) PROVE DirectoriesOk'
  OBVIOUS
<1> USE DEF TwoLevelInv, DirectoriesOk
<1>1. CASE Two!Enable \/ Two!Disable \/ Two!Reset
  BY <1>1 DEF Two!Enable, Two!Disable, Two!Reset
<1>2. CASE \E b \in Bases \cup {0} : Two!Notify(b)
  BY <1>2 DEF Two!Notify
<1>3. CASE \E b \in Bases, d \in Directories : Two!WriteTable(b, d)
  BY <1>3 DEF Two!WriteTable
<1>4. CASE \E a \in Two!VirtualAddresses, flag \in AccessFlags : Two!Translate(a, flag)
  BY <1>4 DEF Two!Translate, Two!TranslateIdentity, Two!TranslateHit, Two!TranslateMiss, Two!Returns
<1>5. CASE UNCHANGED Two!twoLevelVars
  BY <1>5 DEF Two!twoLevelVars
<1> QED BY <1>1, <1>2, <1>3, <1>4, <1>5 DEF Two!Next

(* The cache of the enabled MMU stays current: tables are written while it *)
(* is disabled, enabling it and switching tables empty the cache, and a    *)
(* miss adds what it has just read.                                        *)
LEMMA TwoLevelStepCache == TwoLevelInv /\ [Two!Next]_(Two!twoLevelVars) => CacheCurrent'
<1> SUFFICES ASSUME TwoLevelInv, [Two!Next]_(Two!twoLevelVars) PROVE CacheCurrent'
  OBVIOUS
<1>1. CASE Two!Enable \/ Two!Reset
  BY <1>1 DEF Two!Enable, Two!Reset, CacheCurrent, Two!Empty
<1>2. CASE Two!Disable
  BY <1>2 DEF Two!Disable, CacheCurrent
<1>3. CASE \E b \in Bases \cup {0} : Two!Notify(b)
  BY <1>3 DEF Two!Notify, CacheCurrent, Two!Empty
<1>4. CASE \E b \in Bases, d \in Directories : Two!WriteTable(b, d)
  BY <1>4 DEF Two!WriteTable, CacheCurrent
<1>5. ASSUME NEW a \in Two!VirtualAddresses, NEW flag \in AccessFlags, Two!Translate(a, flag)
      PROVE  CacheCurrent'
  <2>1. CASE Two!TranslateIdentity(a, flag) \/ Two!TranslateHit(a, flag)
    BY <2>1 DEF Two!TranslateIdentity, Two!TranslateHit, Two!Returns, CacheCurrent, TwoLevelInv
  <2>2. CASE Two!TranslateMiss(a, flag)
    <3>1. UNCHANGED <<memory, enabled, baseAddress>>
      BY <2>2 DEF Two!TranslateMiss, Two!Returns
    <3>2. CASE ~Two!WalkGrants(memory[baseAddress], a, flag)
      BY <2>2, <3>1, <3>2 DEF Two!TranslateMiss, CacheCurrent, TwoLevelInv
    <3>3. CASE Two!WalkGrants(memory[baseAddress], a, flag)
      <4>1. /\ DOMAIN mru' = DOMAIN mru \cup {Two!Key(a)}
            /\ mru'[Two!Key(a)] = Two!Kept(memory[baseAddress], a)
            /\ \A k \in DOMAIN mru : k # Two!Key(a) => mru'[k] = mru[k]
        BY <2>2, <3>3 DEF Two!TranslateMiss
      <4>2. SUFFICES ASSUME enabled', NEW b \in Two!VirtualAddresses, Two!Key(b) \in DOMAIN mru'
                     PROVE  mru'[Two!Key(b)] = Two!Kept(memory'[baseAddress'], b)
        BY DEF CacheCurrent
      <4>3. CASE Two!Key(b) = Two!Key(a)
        BY <3>1, <4>1, <4>3, KeptByKey
      <4>4. CASE Two!Key(b) # Two!Key(a)
        BY <3>1, <4>1, <4>2, <4>4 DEF CacheCurrent, TwoLevelInv
      <4> QED BY <4>3, <4>4
    <3> QED BY <3>2, <3>3
  <2> QED BY <1>5, <2>1, <2>2 DEF Two!Translate
<1>6. CASE UNCHANGED Two!twoLevelVars
  BY <1>6 DEF Two!twoLevelVars, CacheCurrent, TwoLevelInv
<1> QED BY <1>1, <1>2, <1>3, <1>4, <1>5, <1>6 DEF Two!Next

(* The cache of TwoLevelPageTablePeripheral is current while it is enabled.*)
THEOREM TwoLevelMmuInvariant == Two!Spec => []TwoLevelInv
<1>1. Two!Init => TwoLevelInv
  BY DEF Two!Init, TwoLevelInv, DirectoriesOk, CacheCurrent
<1>2. TwoLevelInv /\ [Two!Next]_(Two!twoLevelVars) => TwoLevelInv'
  BY TwoLevelStepType, TwoLevelStepCache DEF TwoLevelInv
<1> QED BY <1>1, <1>2, PTL DEF Two!Spec

-----------------------------------------------------------------------------
(* Every access is answered as Translation answers it.                     *)
LEMMA TwoLevelTranslateRefines ==
    ASSUME TwoLevelInv, NEW a \in Two!VirtualAddresses, NEW flag \in AccessFlags, Two!Translate(a, flag)
    PROVE  Two!Abstract!Translate(<<a, flag>>)
<1>1. CASE Two!TranslateIdentity(a, flag)
  BY <1>1 DEF Two!TranslateIdentity, Two!Returns, Two!Translating, Two!Abstract!Translate, Two!Abstract!Translated, Two!AddressOf
<1>2. CASE Two!TranslateHit(a, flag)
  <2>1. enabled /\ baseAddress # 0
    BY <1>2 DEF Two!TranslateHit, Two!Translating
  <2>2. Two!WellFormed(memory[baseAddress])
    BY DEF TwoLevelInv, DirectoriesOk
  <2>3. mru[Two!Key(a)] = Two!Kept(memory[baseAddress], a)
    BY <1>2, <2>1 DEF Two!TranslateHit, TwoLevelInv, CacheCurrent
  <2>4. Two!HitAnswer(mru[Two!Key(a)], a, flag) = Two!Miss(memory[baseAddress], a, flag)
    BY <2>2, <2>3, TwoLevelHitAgrees
  <2> QED
    BY <1>2, <2>1, <2>4 DEF Two!TranslateHit, Two!Returns, Two!Abstract!Translate, Two!Abstract!Translated, Two!AnswersOf
<1>3. CASE Two!TranslateMiss(a, flag)
  BY <1>3 DEF Two!TranslateMiss, Two!Returns, Two!Translating, Two!Abstract!Translate, Two!Abstract!Translated, Two!AnswersOf
<1> QED BY <1>1, <1>2, <1>3 DEF Two!Translate

(* Every step of the two-level MMU is a step of Translation, or changes    *)
(* nothing it speaks of.                                                   *)
LEMMA TwoLevelStepRefines == TwoLevelInv /\ [Two!Next]_(Two!twoLevelVars) => [Two!Abstract!Next]_(Two!Abstract!vars)
<1> SUFFICES ASSUME TwoLevelInv, [Two!Next]_(Two!twoLevelVars) PROVE Two!Abstract!Next \/ UNCHANGED Two!Abstract!vars
  OBVIOUS
<1> USE DEF Two!Abstract!Next, Two!Abstract!vars
<1>1. CASE Two!Enable
  BY <1>1 DEF Two!Enable, Two!Abstract!Enable
<1>2. CASE Two!Disable
  BY <1>2 DEF Two!Disable, Two!Abstract!Disable
<1>3. CASE Two!Reset
  BY <1>3 DEF Two!Reset
<1>4. CASE \E b \in Bases \cup {0} : Two!Notify(b)
  BY <1>4 DEF Two!Notify, Two!Abstract!Switch
<1>5. CASE \E b \in Bases, d \in Directories : Two!WriteTable(b, d)
  <2>1. memory' \in [Bases \cup {0} -> Directories]
    BY <1>5 DEF Two!WriteTable, TwoLevelInv, DirectoriesOk
  <2> QED BY <1>5, <2>1 DEF Two!WriteTable, Two!Abstract!Edit
<1>6. ASSUME NEW a \in Two!VirtualAddresses, NEW flag \in AccessFlags, Two!Translate(a, flag)
      PROVE Two!Abstract!Next
  BY <1>6, TwoLevelTranslateRefines
<1>7. CASE UNCHANGED Two!twoLevelVars
  BY <1>7 DEF Two!twoLevelVars
<1> QED BY <1>1, <1>2, <1>3, <1>4, <1>5, <1>6, <1>7 DEF Two!Next

(* The two-level MMU implements Translation: for tables the MMU is made    *)
(* for, a cached access is answered from the table in memory, although     *)
(* hits and misses of translate() mask and check different things.         *)
THEOREM TwoLevelMmuRefinement == Two!Spec => Two!TwoLevelImplementsTranslation
<1>1. Two!Init => Two!Abstract!Init
  BY DEF Two!Init, Two!Abstract!Init
<1>2. TwoLevelInv /\ [Two!Next]_(Two!twoLevelVars) => [Two!Abstract!Next]_(Two!Abstract!vars)
  BY TwoLevelStepRefines
<1> QED BY <1>1, <1>2, TwoLevelMmuInvariant, PTL DEF Two!Spec, Two!Abstract!Spec, Two!TwoLevelImplementsTranslation
-----------------------------------------------------------------------------
(* The block device and its driver: what a call of the driver does is what *)
(* Transfers says.  The invariant says how far the chain of promises has   *)
(* come: there is at most one, it is for the next sector of the call, and  *)
(* the sectors before it have been moved.                                  *)
CONSTANTS sectorSize, totalSectors, Contents, Calls
VARIABLES sectors, status, error, transfers, call, polling

Block == INSTANCE BlockDevice

DeviceType ==
    /\ memory \in [Addresses -> Contents]
    /\ sectors \in [Block!Lbas -> [Block!Offsets -> Contents]]
    /\ call \in Calls \cup {Block!Idle}
    /\ polling \in BOOLEAN

(* The first n sectors of a call are on both sides.                        *)
MovedSome(c, n) == \A j \in 0 .. n - 1 : Block!D!InBuffer(c, j) = sectors[c.lba + j]

(* A promise is for the i-th sector of the call.                           *)
IsFor(t, c, i) ==
    /\ t = Block!Transfer(c.command, c.lba + i, c.count - i, c.buffer + i * sectorSize)
    /\ MovedSome(c, i)

OfFlush(t) == t = Block!Transfer("flush", 0, 1, 0)

(* What the device is doing, when it is doing something.                   *)
Progress ==
    \E t \in transfers :
       /\ transfers = {t}
       /\ polling
       /\ \/ call.command = "flush" /\ OfFlush(t)
          \/ /\ call.command # "flush" /\ Block!D!Valid(call)
             /\ \E i \in 0 .. call.count - 1 : IsFor(t, call, i)

DeviceInv ==
    /\ DeviceType
    /\ call = Block!Idle => transfers = {}
    /\ transfers # {} => status = Block!BUSY /\ Progress
    /\ transfers = {} => status # Block!BUSY
    /\ call # Block!Idle /\ transfers = {} /\ status = Block!READY /\ call.command # "flush" =>
          Block!D!Moved(call)
    /\ call # Block!Idle /\ ~polling => transfers = {}

-----------------------------------------------------------------------------
(* Where the sectors of a request lie: in memory, one after the other.     *)
LEMMA Products ==
    ASSUME NEW s \in Nat \ {0}, NEW i \in Nat, NEW j \in Nat, j < i
    PROVE  j * s \in Nat /\ i * s \in Nat /\ j * s + s <= i * s
<1>1. PICK k \in Nat : i = j + 1 + k
  <2>1. i - j - 1 \in Nat /\ i = j + 1 + (i - j - 1)
    OBVIOUS
  <2> QED BY <2>1
<1>2. i * s = j * s + s + k * s
  BY <1>1
<1>3. j * s \in Nat /\ k * s \in Nat
  OBVIOUS
<1> QED BY <1>2, <1>3

LEMMA BufferInMemory ==
    ASSUME Block!DeviceAssumption, NEW c \in Calls, Block!D!Valid(c), NEW i \in 0 .. c.count - 1, NEW w \in Block!Offsets
    PROVE  /\ c.buffer + i * sectorSize \in Nat
           /\ c.buffer + i * sectorSize + w \in Addresses
           /\ c.lba + i \in Block!Lbas
<1>1. /\ sectorSize \in Nat \ {0} /\ c.buffer \in Nat /\ c.count \in Nat /\ c.lba \in Nat
      /\ totalSectors \in Nat /\ c.lba + c.count <= totalSectors
  BY DEF Block!DeviceAssumption, Block!D!Valid
<1>2. i \in Nat /\ i < c.count /\ w \in Nat /\ w < sectorSize
  BY <1>1 DEF Block!Offsets
<1>3. /\ i * sectorSize \in Nat /\ c.count * sectorSize \in Nat
      /\ i * sectorSize + sectorSize <= c.count * sectorSize
  BY <1>1, <1>2, Products
<1>4. c.buffer .. c.buffer + c.count * sectorSize - 1 \subseteq Addresses
  BY <1>1 DEF Block!DeviceAssumption
<1> HIDE DEF Block!DeviceAssumption
<1>5. PICK x \in Nat, y \in Nat : x = i * sectorSize /\ y = c.count * sectorSize
  BY <1>3
<1>6. c.buffer + x + w \in c.buffer .. c.buffer + y - 1
  BY <1>1, <1>2, <1>3, <1>5
<1> QED BY <1>1, <1>2, <1>4, <1>5, <1>6 DEF Block!Lbas

LEMMA PlacesApart ==
    ASSUME Block!DeviceAssumption, NEW i \in Nat, NEW j \in Nat, j # i, NEW w \in Block!Offsets, NEW v \in Block!Offsets
    PROVE  j * sectorSize + w # i * sectorSize + v
<1>1. sectorSize \in Nat \ {0}
  BY DEF Block!DeviceAssumption
<1>2. PICK x \in Nat, y \in Nat : x = i * sectorSize /\ y = j * sectorSize
  BY <1>1
<1>3. x + sectorSize <= y \/ y + sectorSize <= x
  <2>1. CASE j < i
    BY <1>1, <1>2, <2>1, Products
  <2>2. CASE i < j
    BY <1>1, <1>2, <2>2, Products
  <2> QED BY <2>1, <2>2
<1> QED BY <1>1, <1>2, <1>3 DEF Block!Offsets

-----------------------------------------------------------------------------
(* A sector is moved as Transfers moves it, and then one more sector of    *)
(* the call is on both sides.                                              *)
LEMMA PutMoves ==
    ASSUME Block!DeviceAssumption, DeviceType, call \in Calls, call.command # "flush", Block!D!Valid(call),
           NEW i \in 0 .. call.count - 1, NEW t, IsFor(t, call, i), Block!Put(t), UNCHANGED <<call, answer>>
    PROVE  /\ Block!D!Move(i)
           /\ memory' \in [Addresses -> Contents]
           /\ sectors' \in [Block!Lbas -> [Block!Offsets -> Contents]]
           /\ MovedSome(call, i + 1)'
           /\ call.command = "write" => memory' = memory
<1> DEFINE a == call.buffer + i * sectorSize
<1>1. /\ t.command = call.command /\ t.lba = call.lba + i /\ t.address = a
      /\ t.data = IF call.command = "write" THEN Block!DataAt(a) ELSE <<>>
      /\ MovedSome(call, i)
  BY DEF IsFor, Block!Transfer
<1>2. call.command \in {"read", "write"} /\ call.buffer \in Nat /\ call.lba \in Nat
  BY DEF Block!DeviceAssumption
<1>3. call # Block!Idle
  BY <1>2 DEF Block!Idle
<1>4. call.count \in Nat /\ i \in Nat /\ i < call.count
  BY DEF Block!DeviceAssumption
<1>5. sectorSize \in Nat \ {0} /\ 0 \in Block!Offsets
  BY DEF Block!DeviceAssumption, Block!Offsets
<1>6. a \in Nat /\ call.lba + i \in Block!Lbas /\ \A w \in Block!Offsets : a + w \in Addresses
  BY <1>5, BufferInMemory
<1>7. Block!D!Words = Block!Offsets
  BY DEF Block!D!Words, Block!Offsets
<1>8. \A x : Block!D!InBuffer(call, i)' = [w \in Block!Offsets |-> memory'[a + w]]
  BY <1>7 DEF Block!D!InBuffer
<1>9. \A j \in 0 .. i - 1 : /\ j \in Nat /\ j < i
                            /\ Block!D!InBuffer(call, j)' = [w \in Block!Offsets |-> memory'[call.buffer + j * sectorSize + w]]
                            /\ Block!D!InBuffer(call, j) = [w \in Block!Offsets |-> memory[call.buffer + j * sectorSize + w]]
  BY <1>4, <1>7 DEF Block!D!InBuffer
<1>10. ASSUME call.command = "read"
       PROVE  /\ memory' = [b \in Addresses |->
                    IF b - a \in Block!Offsets THEN sectors[call.lba + i][b - a] ELSE memory[b]]
              /\ sectors' = sectors
  BY <1>1, <1>10 DEF Block!Put
<1>11. ASSUME call.command = "write"
       PROVE  sectors' = [sectors EXCEPT ![call.lba + i] = Block!DataAt(a)] /\ memory' = memory
  BY <1>1, <1>11 DEF Block!Put
<1>12. sectors[call.lba + i] \in [Block!Offsets -> Contents]
  BY <1>6 DEF DeviceType
<1>13. CASE call.command = "read"
  <2>1. \A b \in Addresses : b \in Nat /\ (b \in Block!D!Place(call, i) <=> b - a \in Block!Offsets)
    <3>1. Block!D!Place(call, i) = {a + w : w \in Block!Offsets}
      BY <1>7 DEF Block!D!Place
    <3>2. Addresses \subseteq Nat /\ Block!Offsets \subseteq Nat
      BY DEF Block!DeviceAssumption, Block!Offsets
    <3> HIDE DEF a
    <3>3. TAKE b \in Addresses
    <3>4. b \in Nat
      BY <3>2
    <3>5. b \in Block!D!Place(call, i) => b - a \in Block!Offsets
      BY <1>6, <3>1, <3>2, <3>4
    <3>6. b - a \in Block!Offsets => a + (b - a) = b /\ a + (b - a) \in Block!D!Place(call, i)
      BY <1>6, <3>1, <3>4
    <3> QED BY <3>4, <3>5, <3>6
  <2>2. \A b \in Addresses : b - call.buffer - i * sectorSize = b - a
    <3>1. PICK x \in Nat : x = i * sectorSize
      BY <1>4, <1>5
    <3> QED BY <1>2, <2>1, <3>1
  <2>3. DOMAIN memory = Addresses
    BY DEF DeviceType
  <2>4. memory' = [b \in DOMAIN memory |->
            IF b \in Block!D!Place(call, i) THEN sectors[call.lba + i][b - call.buffer - i * sectorSize]
            ELSE memory[b]]
    BY <1>10, <1>13, <2>1, <2>2, <2>3
  <2>5. Block!D!Move(i)
    BY <1>3, <1>4, <1>10, <1>13, <2>4, Zenon DEF Block!D!Move
  <2>6. memory' \in [Addresses -> Contents]
    <3> HIDE DEF a
    <3> QED BY <1>10, <1>12, <1>13 DEF DeviceType
  <2>7. Block!D!InBuffer(call, i)' = sectors'[call.lba + i]
    <3>1. \A w \in Block!Offsets : (a + w) - a = w
      <4> HIDE DEF a
      <4> QED BY <1>6 DEF Block!Offsets
    <3>2. \A w \in Block!Offsets : memory'[a + w] = sectors[call.lba + i][w]
      <4> HIDE DEF a
      <4> QED BY <1>6, <1>10, <1>13, <3>1
    <3> HIDE DEF a
    <3> QED BY <1>8, <1>10, <1>12, <1>13, <3>2
  <2>8. ASSUME NEW j \in 0 .. i - 1
        PROVE  Block!D!InBuffer(call, j)' = sectors'[call.lba + j]
    <3> DEFINE b == call.buffer + j * sectorSize
    <3>1. j \in Nat /\ j < i /\ Block!D!Valid(call) /\ j \in 0 .. call.count - 1
      BY <1>4, <1>9, <2>8
    <3>2. b \in Nat /\ \A w \in Block!Offsets : b + w \in Addresses
      BY <1>5, <3>1, BufferInMemory
    <3>3. ASSUME NEW w \in Block!Offsets PROVE memory'[b + w] = memory[b + w]
      <4>1. b + w \in Addresses
        BY <3>2
      <4>2. (b + w) - a \notin Block!Offsets
        <5>1. SUFFICES ASSUME NEW v \in Block!Offsets, v = (b + w) - a PROVE FALSE
          OBVIOUS
        <5>2. PICK x \in Nat, y \in Nat : x = i * sectorSize /\ y = j * sectorSize
          BY <1>4, <1>5, <3>1
        <5>3. y + w # x + v
          BY <1>4, <3>1, <5>2, PlacesApart
        <5> QED BY <1>2, <5>1, <5>2, <5>3 DEF Block!Offsets
      <4> HIDE DEF a, b
      <4> QED BY <1>10, <1>13, <4>1, <4>2
    <3>4. Block!D!InBuffer(call, j)' = Block!D!InBuffer(call, j)
      BY <1>9, <2>8, <3>3
    <3> QED BY <1>1, <1>10, <1>13, <2>8, <3>4 DEF MovedSome
  <2> QED
    BY <1>2, <1>4, <1>10, <1>13, <2>5, <2>6, <2>7, <2>8 DEF MovedSome, DeviceType
<1>14. CASE call.command = "write"
  <2>1. Block!D!InBuffer(call, i) = Block!DataAt(a)
    BY <1>7 DEF Block!D!InBuffer, Block!DataAt
  <2>2. Block!D!Move(i)
    BY <1>3, <1>4, <1>11, <1>14, <2>1 DEF Block!D!Move
  <2>3. Block!DataAt(a) \in [Block!Offsets -> Contents]
    <3> HIDE DEF a
    <3> QED BY <1>6 DEF Block!DataAt, DeviceType
  <2>4. sectors' \in [Block!Lbas -> [Block!Offsets -> Contents]]
    BY <1>11, <1>14, <2>3 DEF DeviceType
  <2>5. \A x : Block!D!InBuffer(call, x)' = Block!D!InBuffer(call, x)
    BY <1>11, <1>14 DEF Block!D!InBuffer
  <2>6. sectors'[call.lba + i] = Block!DataAt(a)
    BY <1>6, <1>11, <1>14 DEF DeviceType
  <2>7. ASSUME NEW j \in 0 .. i - 1
        PROVE  Block!D!InBuffer(call, j)' = sectors'[call.lba + j]
    <3>1. call.lba + j # call.lba + i
      BY <1>2, <1>4
    <3>2. sectors'[call.lba + j] = sectors[call.lba + j]
      <4>1. call.lba + j \in Block!Lbas
        BY <1>5, <1>4, BufferInMemory
      <4> QED BY <1>11, <1>14, <3>1, <4>1 DEF DeviceType
    <3> QED BY <1>1, <2>5, <2>7, <3>2 DEF MovedSome
  <2> QED
    BY <1>2, <1>4, <1>11, <1>14, <2>1, <2>2, <2>4, <2>5, <2>6, <2>7 DEF MovedSome, DeviceType
<1> QED BY <1>2, <1>13, <1>14

-----------------------------------------------------------------------------
(* A command puts the device to work on its first sector, or is refused.   *)
LEMMA CommandKeeps == ASSUME Block!DeviceAssumption, DeviceInv, NEW c \in Calls, Block!Command(c) PROVE DeviceInv'
<1>1. /\ call = Block!Idle /\ transfers = {} /\ status # Block!BUSY /\ call' = c /\ polling' = TRUE
      /\ UNCHANGED <<memory, sectors, answer>>
  BY DEF Block!Command, DeviceInv
<1>2. /\ c.command \in {"read", "write", "flush"} /\ c.lba \in Nat /\ c.count \in Nat
      /\ c.buffer \in Nat /\ sectorSize \in Nat /\ totalSectors \in Nat
  BY DEF Block!DeviceAssumption
<1>3. c # Block!Idle
  BY <1>2 DEF Block!Idle
<1>4. DeviceType'
  BY <1>1 DEF DeviceInv, DeviceType
<1>5. CASE transfers' = transfers /\ status' = Block!ERROR
  BY <1>1, <1>3, <1>4, <1>5 DEF DeviceInv, Block!ERROR, Block!BUSY, Block!READY
<1>6. ASSUME NEW t, Block!Start(t),
             \/ c.command = "flush" /\ OfFlush(t)
             \/ c.command # "flush" /\ Block!D!Valid(c) /\ t = Block!Transfer(c.command, c.lba, c.count, c.buffer)
      PROVE  DeviceInv'
  <2>1. status' = Block!BUSY /\ transfers' = {t}
    BY <1>1, <1>6 DEF Block!Start
  <2>2. Progress'
    <3>1. CASE c.command = "flush"
      BY <1>1, <1>6, <2>1, <3>1 DEF Progress, OfFlush, Block!Transfer
    <3>2. CASE c.command # "flush"
      <4>1. 0 \in 0 .. c.count - 1
        BY <1>2, <1>6, <3>2 DEF Block!D!Valid
      <4>2. 0 * sectorSize = 0 /\ c.lba + 0 = c.lba /\ c.count - 0 = c.count /\ c.buffer + 0 = c.buffer
        BY <1>2
      <4>3. IsFor(t, c, 0)'
        <5>1. Block!Transfer(c.command, c.lba, c.count, c.buffer)' = Block!Transfer(c.command, c.lba, c.count, c.buffer)
          BY <1>1 DEF Block!Transfer, Block!DataAt
        <5>2. t = Block!Transfer(c.command, c.lba + 0, c.count - 0, c.buffer + 0 * sectorSize)'
          BY <1>6, <3>2, <4>2, <5>1
        <5> QED BY <5>2 DEF IsFor, MovedSome
      <4>4. Block!D!Valid(c)' = Block!D!Valid(c)
        BY DEF Block!D!Valid
      <4>5. Block!D!Valid(call)' /\ (IsFor(t, call, 0))'
        BY <1>1, <1>6, <3>2, <4>3, <4>4
      <4> QED BY <1>1, <1>2, <2>1, <3>2, <4>1, <4>5 DEF Progress
    <3> QED BY <3>1, <3>2
  <2> QED BY <1>1, <1>3, <1>4, <2>1, <2>2 DEF DeviceInv
<1>7. CASE c.command = "flush"
  BY <1>6, <1>7 DEF Block!Command, Block!Notify, OfFlush
<1>8. CASE c.command # "flush" /\ ~(c.lba >= totalSectors)
                /\ ~(c.count = 0 \/ c.lba + c.count > totalSectors)
  BY <1>2, <1>6, <1>8 DEF Block!Command, Block!Notify, Block!D!Valid
<1>9. CASE c.command # "flush" /\ (c.lba >= totalSectors \/ c.count = 0 \/ c.lba + c.count > totalSectors)
  BY <1>5, <1>9 DEF Block!Command, Block!Notify, Block!SetError
<1> QED BY <1>7, <1>8, <1>9

-----------------------------------------------------------------------------
(* A promise that is kept or broken belongs to the call under way.         *)
LEMMA Running ==
    ASSUME Block!DeviceAssumption, DeviceInv, NEW t \in transfers
    PROVE  /\ transfers = {t} /\ polling /\ call \in Calls /\ call # Block!Idle /\ status = Block!BUSY
           /\ \/ call.command = "flush" /\ OfFlush(t)
              \/ /\ call.command # "flush" /\ Block!D!Valid(call)
                 /\ \E i \in 0 .. call.count - 1 : IsFor(t, call, i)
<1>1. Progress /\ status = Block!BUSY
  BY DEF DeviceInv
<1>2. call # Block!Idle /\ call \in Calls
  BY DEF DeviceInv, DeviceType
<1> QED BY <1>1, <1>2 DEF Progress

(* What Transfers sees of a promise that is kept.                          *)
LEMMA ResolveStep ==
    ASSUME Block!DeviceAssumption, DeviceInv, NEW t \in transfers, Block!Resolve(t)
    PROVE  /\ DeviceInv'
           /\ \/ \E i \in 0 .. call.count - 1 : Block!D!Move(i)
              \/ UNCHANGED Block!D!transferVars
<1>1. /\ transfers = {t} /\ polling /\ call \in Calls /\ call # Block!Idle /\ status = Block!BUSY
      /\ \/ call.command = "flush" /\ OfFlush(t)
         \/ /\ call.command # "flush" /\ Block!D!Valid(call)
            /\ \E i \in 0 .. call.count - 1 : IsFor(t, call, i)
  BY Running
<1>2. Block!Put(t) /\ UNCHANGED <<call, polling, answer>>
  BY DEF Block!Resolve
<1>3. CASE call.command = "flush" /\ OfFlush(t)
  <2>1. t.command = "flush" /\ t.remaining = 1
    BY <1>3 DEF OfFlush, Block!Transfer
  <2>2. UNCHANGED <<memory, sectors>>
    BY <1>2, <2>1 DEF Block!Put
  <2>3. transfers' = {} /\ status' = Block!READY
    BY <1>1, <2>1 DEF Block!Resolve, Block!SetReady
  <2> QED BY <1>1, <1>2, <1>3, <2>2, <2>3 DEF DeviceInv, DeviceType, Block!D!transferVars, Block!READY, Block!BUSY
<1>4. ASSUME call.command # "flush", Block!D!Valid(call), NEW i \in 0 .. call.count - 1, IsFor(t, call, i)
      PROVE  DeviceInv' /\ Block!D!Move(i)
  <2>1. /\ Block!D!Move(i)
        /\ memory' \in [Addresses -> Contents]
        /\ sectors' \in [Block!Lbas -> [Block!Offsets -> Contents]]
        /\ MovedSome(call, i + 1)'
        /\ call.command = "write" => memory' = memory
    BY <1>1, <1>2, <1>4, PutMoves DEF DeviceInv
  <2>2. DeviceType'
    BY <1>2, <2>1 DEF DeviceType, DeviceInv
  <2>3. /\ call.count \in Nat /\ i \in Nat /\ i < call.count /\ t.remaining = call.count - i
        /\ call.lba \in Nat /\ call.buffer \in Nat /\ sectorSize \in Nat \ {0}
        /\ t.command = call.command /\ t.lba = call.lba + i
        /\ t.address = call.buffer + i * sectorSize
    <3>1. /\ call.count \in Nat /\ call.lba \in Nat /\ call.buffer \in Nat
          /\ sectorSize \in Nat \ {0}
      BY <1>1 DEF Block!DeviceAssumption
    <3>2. i \in Nat /\ i < call.count
      BY <3>1
    <3> QED BY <1>4, <3>1, <3>2 DEF IsFor, Block!Transfer
  <2>4. Block!D!Valid(call)'
    BY <1>2, <1>4 DEF Block!D!Valid
  <2>5. CASE t.remaining = 1
    <3>1. transfers' = {} /\ status' = Block!READY
      BY <1>1, <2>5 DEF Block!Resolve, Block!SetReady
    <3>2. 0 .. i = 0 .. call.count - 1 /\ (i + 1) - 1 = i
      BY <2>3, <2>5
    <3>3. Block!D!Moved(call)'
      BY <1>2, <2>1, <2>4, <3>2 DEF MovedSome, Block!D!Moved
    <3> QED BY <1>1, <1>2, <2>1, <2>2, <3>1, <3>3 DEF DeviceInv, Block!READY, Block!BUSY
  <2>6. CASE t.remaining # 1
    <3>1. transfers' = {Block!Following(t)} /\ status' = Block!BUSY
      BY <1>1, <2>6 DEF Block!Resolve
    <3>2. i + 1 \in 0 .. call.count - 1
      <4>1. call.count \in Nat /\ i \in Nat /\ call.count - i # 1 /\ i < call.count
        BY <2>3, <2>6
      <4> QED BY <4>1
    <3>3. /\ t.lba + 1 = call.lba + (i + 1) /\ t.remaining - 1 = call.count - (i + 1)
          /\ t.address + sectorSize = call.buffer + (i + 1) * sectorSize
      BY <2>3
    <3>4. Block!Following(t) = Block!Transfer(call.command, call.lba + (i + 1), call.count - (i + 1),
                                  call.buffer + (i + 1) * sectorSize)
      <4>1. Block!Following(t) = Block!Transfer(t.command, t.lba + 1, t.remaining - 1, t.address + sectorSize)
        BY DEF Block!Following
      <4>2. t.command = call.command
        BY <2>3
      <4> QED BY <3>3, <4>1, <4>2, Zenon
    <3>5. \A l, n, a : Block!Transfer(call.command, l, n, a)' = Block!Transfer(call.command, l, n, a)
      BY <1>2, <2>1 DEF Block!Transfer, Block!DataAt
    <3>6. Block!Following(t) = Block!Transfer(call.command, call.lba + (i + 1), call.count - (i + 1),
                                  call.buffer + (i + 1) * sectorSize)'
      <4>1. call' = call
        BY <1>2
      <4> QED BY <3>4, <3>5, <4>1, Zenon
    <3>7. PICK next : next = Block!Following(t)
      OBVIOUS
    <3>8. IsFor(next, call, i + 1)'
      BY <1>2, <2>1, <3>6, <3>7 DEF IsFor
    <3>9. Progress'
      BY <1>1, <1>2, <1>4, <2>4, <3>1, <3>2, <3>7, <3>8 DEF Progress
    <3> QED BY <1>1, <1>2, <2>1, <2>2, <3>1, <3>9 DEF DeviceInv
  <2> QED BY <2>5, <2>6
<1> QED BY <1>1, <1>3, <1>4

(* And of one that is broken: a sector may have moved.                     *)
LEMMA RejectStep ==
    ASSUME Block!DeviceAssumption, DeviceInv, NEW t \in transfers, Block!Reject(t)
    PROVE  /\ DeviceInv'
           /\ \/ \E i \in 0 .. call.count - 1 : Block!D!Move(i)
              \/ UNCHANGED Block!D!transferVars
<1>1. /\ transfers = {t} /\ polling /\ call \in Calls /\ call # Block!Idle /\ status = Block!BUSY
      /\ \/ call.command = "flush" /\ OfFlush(t)
         \/ /\ call.command # "flush" /\ Block!D!Valid(call)
            /\ \E i \in 0 .. call.count - 1 : IsFor(t, call, i)
  BY Running
<1>2. transfers' = {} /\ status' = Block!ERROR /\ UNCHANGED <<call, polling, answer>>
  BY <1>1 DEF Block!Reject, Block!SetError
<1>3. ASSUME DeviceType' PROVE DeviceInv'
  BY <1>1, <1>2, <1>3 DEF DeviceInv, Block!READY, Block!BUSY, Block!ERROR
<1>4. CASE UNCHANGED <<memory, sectors>>
  BY <1>2, <1>3, <1>4 DEF DeviceInv, DeviceType, Block!D!transferVars
<1>5. CASE t.command = "write" /\ Block!Put(t)
  <2>1. call.command # "flush"
    BY <1>1, <1>5 DEF OfFlush, Block!Transfer
  <2>2. PICK i \in 0 .. call.count - 1 : IsFor(t, call, i)
    BY <1>1, <2>1
  <2>3. Block!D!Move(i) /\ memory' \in [Addresses -> Contents] /\ sectors' \in [Block!Lbas -> [Block!Offsets -> Contents]]
    BY <1>1, <1>2, <1>5, <2>1, <2>2, PutMoves DEF DeviceInv
  <2> QED BY <1>2, <1>3, <2>3 DEF DeviceInv, DeviceType
<1> QED BY <1>4, <1>5 DEF Block!Reject

-----------------------------------------------------------------------------
(* Every step keeps the invariant and is a step of Transfers, or changes   *)
(* nothing it speaks of.                                                   *)
LEMMA Step ==
    ASSUME Block!DeviceAssumption
    PROVE  DeviceInv /\ [Block!BlockNext]_(Block!blockVars) => DeviceInv' /\ [Block!D!Next]_(Block!D!transferVars)
<1> SUFFICES ASSUME DeviceInv, [Block!BlockNext]_(Block!blockVars)
             PROVE  DeviceInv' /\ (Block!D!Next \/ UNCHANGED Block!D!transferVars)
  OBVIOUS
<1>1. ASSUME NEW c \in Calls, Block!Command(c) PROVE DeviceInv' /\ Block!D!Next
  <2>1. Block!D!Request(c)
    BY <1>1 DEF Block!Command, Block!D!Request
  <2> QED BY <1>1, <2>1, CommandKeeps DEF Block!D!Next
<1>2. ASSUME NEW a \in Addresses, NEW v \in Contents, Block!Write(a, v) PROVE DeviceInv' /\ Block!D!Next
  <2>1. DeviceType'
    BY <1>2 DEF Block!Write, DeviceInv, DeviceType
  <2>2. DeviceInv'
    BY <1>2, <2>1 DEF Block!Write, DeviceInv
  <2>3. a \in DOMAIN memory /\ memory'[a] = v
    BY <1>2 DEF Block!Write, DeviceInv, DeviceType
  <2>4. Block!D!Store(a)
    BY <1>2, <2>3 DEF Block!Write, Block!D!Store
  <2> QED BY <2>2, <2>3, <2>4 DEF Block!D!Next
<1>3. CASE Block!LeaveLoop
  <2>1. UNCHANGED Block!D!transferVars
    BY <1>3 DEF Block!LeaveLoop, Block!D!transferVars
  <2>2. transfers' = {} /\ transfers = {}
    BY <1>3 DEF Block!LeaveLoop, DeviceInv
  <2>3. Block!D!Moved(call)' = Block!D!Moved(call)
    BY <1>3 DEF Block!LeaveLoop, Block!D!Moved, Block!D!Valid, Block!D!InBuffer
  <2> QED BY <1>3, <2>1, <2>2, <2>3 DEF Block!LeaveLoop, DeviceInv, DeviceType
<1>4. CASE Block!Return
  <2>1. transfers = {} /\ transfers' = {}
    BY <1>4 DEF Block!Return, DeviceInv
  <2>2. DeviceInv'
    BY <1>4, <2>1 DEF Block!Return, DeviceInv, DeviceType
  <2>3. PICK ok \in BOOLEAN : ok <=> status = Block!READY
    OBVIOUS
  <2>4. ok /\ call.command # "flush" => Block!D!Moved(call)
    BY <1>4, <2>1, <2>3 DEF DeviceInv, Block!Return
  <2>5. answer' = ok
    BY <1>4, <2>3 DEF Block!Return
  <2>6. Block!D!Answer(ok)
    BY <1>4, <2>4, <2>5 DEF Block!Return, Block!D!Answer
  <2> QED BY <2>2, <2>6 DEF Block!D!Next
<1>5. ASSUME NEW t \in transfers, Block!Resolve(t) \/ Block!Reject(t)
      PROVE  DeviceInv' /\ (Block!D!Next \/ UNCHANGED Block!D!transferVars)
  BY <1>5, Running, ResolveStep, RejectStep DEF Block!D!Next
<1>6. CASE UNCHANGED Block!blockVars
  <2>1. Progress' = Progress /\ Block!D!Moved(call)' = Block!D!Moved(call)
    BY <1>6 DEF Block!blockVars, Progress, IsFor, OfFlush, Block!Transfer, Block!DataAt, MovedSome, Block!D!Valid, Block!D!InBuffer, Block!D!Moved
  <2> QED BY <1>6, <2>1 DEF Block!blockVars, DeviceInv, DeviceType, Block!D!transferVars
<1> QED BY <1>1, <1>2, <1>3, <1>4, <1>5, <1>6 DEF Block!BlockNext, Block!Driver, Block!Device

(* The chain of promises is where the driver's call has come to.           *)
THEOREM DeviceInvariant ==
    ASSUME Block!DeviceAssumption
    PROVE  Block!BlockSpec => []DeviceInv
<1>1. Block!BlockInit => DeviceInv
  BY DEF Block!BlockInit, DeviceInv, DeviceType, Block!READY, Block!BUSY
<1>2. DeviceInv /\ [Block!BlockNext]_(Block!blockVars) => DeviceInv'
  BY Step
<1> QED BY <1>1, <1>2, PTL DEF Block!BlockSpec

(* A call of the driver that answers true has moved its sectors and no     *)
(* others; one that answers false has touched no more (block.qll:52-105,   *)
(* notify, readSectors and writeSectors of the device).                    *)
THEOREM DeviceRefinement ==
    ASSUME Block!DeviceAssumption
    PROVE  Block!BlockSpec => Block!D!Safe
<1>1. Block!BlockInit => call = Block!Idle
  BY DEF Block!BlockInit
<1>2. DeviceInv /\ [Block!BlockNext]_(Block!blockVars) => [Block!D!Next]_(Block!D!transferVars)
  BY Step
<1> QED BY <1>1, <1>2, DeviceInvariant, PTL DEF Block!BlockSpec, Block!D!Safe
=============================================================================

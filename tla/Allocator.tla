------------------------------ MODULE Allocator ------------------------------
(***************************************************************************)
(* What a heap promises to the program that calls it: an allocation has    *)
(* words of its own until it is released, nobody else's call changes them, *)
(* and a request is refused only when no run of unused words is long       *)
(* enough.  Heap implements it.                                            *)
(***************************************************************************)
EXTENDS Integers, Functions

CONSTANTS
    Words,      \* the words of the heap
    Header,     \* words that every allocation takes in front of its own
    Slack,      \* words that a request may have to leave unused
    Sizes       \* the sizes that are asked for

VARIABLES
    live,       \* the allocations that the program has
    content,    \* the words that are the program's
    calling,    \* alloc has been called and has not answered
    request     \* the size it was last asked for

allocatorVars == <<live, content, calling, request>>

Data(l) == l.pointer .. l.pointer + l.size - 1

Extent(l) == l.pointer - Header .. l.pointer + l.size - 1

DataOf(ls) == UNION {Data(l) : l \in ls}

(* The n words from w on are unused.                                       *)
Unused(w, n) ==
    /\ w .. w + n - 1 \subseteq Words
    /\ \A l \in live : Extent(l) \cap (w .. w + n - 1) = {}

Init ==
    /\ live = {}
    /\ content = [w \in {} |-> 0]
    /\ ~calling
    /\ request \in Sizes

Call(size) ==
    /\ ~calling
    /\ calling' = TRUE
    /\ request' = size
    /\ UNCHANGED <<live, content>>

Grant(w) ==
    /\ calling
    /\ Unused(w, Header + request)
    /\ live' = live \cup {[pointer |-> w + Header, size |-> request]}
    /\ DOMAIN content' = DataOf(live')
    /\ Restrict(content', DataOf(live)) = content
    /\ calling' = FALSE
    /\ UNCHANGED request

Refuse ==
    /\ calling
    /\ ~ \E w \in Words : Unused(w, request + Slack)
    /\ calling' = FALSE
    /\ UNCHANGED <<live, content, request>>

Release(l) ==
    /\ ~calling
    /\ live' = live \ {l}
    /\ content' = Restrict(content, DataOf(live'))
    /\ UNCHANGED <<calling, request>>

Store(w) ==
    /\ ~calling
    /\ content' = [content EXCEPT ![w] = content'[w]]
    /\ UNCHANGED <<live, calling, request>>

Next ==
    \/ \E size \in Sizes : Call(size)
    \/ \E w \in Words : Grant(w)
    \/ Refuse
    \/ \E l \in live : Release(l)
    \/ \E w \in DataOf(live) : Store(w)

Spec == Init /\ [][Next]_allocatorVars
=============================================================================

----------------------------- MODULE FileStore -----------------------------
(***************************************************************************)
(* What a program may rely on when it uses the files of the root           *)
(* directory: a file is a sequence of bytes, a handle has a position in    *)
(* it, and nothing but a write by a handle on a file changes its bytes.    *)
(* There are no sectors, buffers or directory entries here; only that a    *)
(* store may be full, and then creates nothing or writes less.             *)
(***************************************************************************)
EXTENDS Integers, Sequences

CONSTANTS Names, Values, MAX_OPEN_FILES, Counts

VARIABLES
    store,      \* the bytes of each file there is
    handles,    \* the file, mode and position of each open handle
    answer      \* the call that was last made, and what it returned

fsVars == <<store, handles, answer>>

Slots == 0 .. MAX_OPEN_FILES - 1
Modes == {"read", "write", "append"}
Shut == [open |-> FALSE]

With(name, bytes) == [n \in DOMAIN store \cup {name} |-> IF n = name THEN bytes ELSE store[n]]

FInit ==
    /\ store = [n \in {} |-> <<>>]
    /\ handles = [h \in Slots |-> Shut]
    /\ answer = [call |-> "boot", result |-> 0]

Answers(call, result) == answer' = [call |-> call, result |-> result]

(* To open for writing makes a file that is not there and truncates none.  *)
OpenFile(h, name, mode) ==
    LET bytes == IF name \in DOMAIN store THEN store[name] ELSE <<>>
    IN  /\ Answers("open", h)
        /\ ~handles[h].open
        /\ name \in DOMAIN store \/ mode # "read"
        /\ handles' = [handles EXCEPT ![h] =
                [open |-> TRUE, name |-> name, mode |-> mode,
                 position |-> IF mode = "append" THEN Len(bytes) ELSE 0]]
        /\ store' = With(name, bytes)

OpenFails ==
    /\ Answers("open", -1)
    /\ UNCHANGED <<store, handles>>

CloseFile(h) ==
    /\ Answers("close", 0)
    /\ handles[h].open
    /\ handles' = [handles EXCEPT ![h] = Shut]
    /\ UNCHANGED store

ReadFile(h, count) ==
    LET bytes == store[handles[h].name]
        from == handles[h].position
        to == IF from + count < Len(bytes) THEN from + count ELSE Len(bytes)
    IN  /\ handles[h].open
        /\ Answers("read", SubSeq(bytes, from + 1, to))
        /\ handles' = [handles EXCEPT ![h].position = to]
        /\ UNCHANGED store

WriteFile(h, count, value) ==
    LET bytes == store[handles[h].name]
        from == handles[h].position
        last == IF from + count > Len(bytes) THEN from + count ELSE Len(bytes)
    IN  /\ Answers("write", count)
        /\ handles[h].open
        /\ handles[h].mode # "read"
        /\ handles' = [handles EXCEPT ![h].position = from + count]
        /\ store' = [store EXCEPT ![handles[h].name] =
                [i \in 1 .. last |-> IF i \in from + 1 .. from + count THEN value ELSE bytes[i]]]

MakeFile(name) ==
    \E call \in {"CREATE", "touch"}, made \in BOOLEAN :
        /\ Answers(call, made)
        /\ made \/ name \notin DOMAIN store
        /\ store' = IF made /\ name \notin DOMAIN store THEN With(name, <<>>) ELSE store
        /\ UNCHANGED handles

RemoveFile(name) ==
    \E call \in {"DESTROY", "rm"}, removed \in BOOLEAN :
        /\ Answers(call, removed)
        /\ removed = (name \in DOMAIN store)
        /\ store' = [n \in DOMAIN store \ {name} |-> store[n]]
        /\ UNCHANGED handles

FNext ==
    \/ \E h \in Slots, name \in Names, mode \in Modes : OpenFile(h, name, mode)
    \/ OpenFails
    \/ \E h \in Slots : CloseFile(h)
    \/ \E h \in Slots, count \in Counts : ReadFile(h, count)
    \/ \E h \in Slots, count \in Counts, value \in Values :
            \E done \in 0 .. count : WriteFile(h, done, value)
    \/ \E name \in Names : MakeFile(name) \/ RemoveFile(name)

FSpec == FInit /\ [][FNext]_fsVars
=============================================================================

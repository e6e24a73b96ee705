------------------------------- MODULE MCQfs -------------------------------
(***************************************************************************)
(* Qfs for TLC: disks of a few sectors of two cells, and the names, calls  *)
(* and habits of each question.  Neither the driver nor the store tells    *)
(* one name, or one value, from another, so that both are symmetric.       *)
(***************************************************************************)
EXTENDS QfsStore

CONSTANTS a, b, x, y

RootFiles == {<<n>> : n \in Names}
FileCalls == {"open", "close", "read", "write", "CREATE", "DESTROY"}

Alike == Permutations(Names) \cup Permutations(Values)

(* What the last call answered is of no account to the next: the states    *)
(* that differ in it are taken as one, and every step is still checked.    *)
But_answer == <<disk, free_sectors, open_files>>
=============================================================================

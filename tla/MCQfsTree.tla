----------------------------- MODULE MCQfsTree -----------------------------
(***************************************************************************)
(* Qfs for TLC where the state of a store is not followed: directories in  *)
(* directories, crashes, and the programs that do not mind their habits.   *)
(***************************************************************************)
EXTENDS Qfs

CONSTANTS a, b, c, x

RootFiles == {<<n>> : n \in Names}
TreeFiles == {<<a>>, <<b>>, <<c>>, <<a, b>>}
TreeDirs == {<<a>>, <<a, b>>}

(* The states that differ in the last answer only are taken as one.        *)
But_answer == <<disk, stored, writes, free_sectors, open_files>>

CrashFiles == {<<b>>, <<c>>, <<a, b>>}
CrashDirs == {<<a>>}
CrashCalls == {"crash", "open", "close", "write", "mkdir"}

RootCalls == {"CREATE", "DESTROY"}

TreeCalls == {"open", "close", "read", "write", "mkdir", "touch", "rm", "CREATE", "DESTROY"}
=============================================================================

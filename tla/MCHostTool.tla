---------------------------- MODULE MCHostTool ----------------------------
(***************************************************************************)
(* HostTool for TLC: a disk of a few sectors of two cells; d is the long   *)
(* name, and the root directory has room for two names.                    *)
(***************************************************************************)
EXTENDS HostTool

CONSTANTS a, b, c, d, x, y

File(path, data) == Report(path, FALSE, data)
Dir(path) == Report(path, TRUE, <<>>)

Short == <<ByteCell(x)>>
Long == <<ByteCell(x), ByteCell(y), ByteCell(y)>>
SomeFiles == {<<>>, Short, <<ByteCell(y), ByteCell(x)>>, Long}

SomeDirs == {<<a>>, <<a, b>>, <<a, a>>, <<a, c>>, <<a, b, a>>, <<b, a>>}

(* An empty directory, a tree that extends a directory, one that may not   *)
(* fit, and one with files that are skipped.                               *)
PlainTrees ==
    { <<>>,
      <<File(<<a>>, Long), File(<<b>>, Short)>>,
      <<Dir(<<a>>), File(<<a, a>>, Short), Dir(<<a, b>>), File(<<a, d>>, Short), File(<<a, c>>, Long), File(<<b>>, <<>>)>>,
      <<Dir(<<b>>), Dir(<<b, b>>), File(<<b, b, a>>, Long), File(<<b, a>>, Long), File(<<a>>, Long)>> }
=============================================================================

------------------------------ MODULE Assembler ------------------------------
(***************************************************************************)
(* The assembler (src/src/assembly/assembly.ts): labels get their          *)
(* addresses, then directives become words, all of the data after all of   *)
(* the code.  A directive is a tuple whose first entry says what it is:    *)
(* a label, data, one of the two constants, or an operation.               *)
(***************************************************************************)
EXTENDS Instructions

CONSTANT PROGRAM_ADDR

IsData(d) == d[1] = "data"
Words(d) ==
    CASE d[1] = "label" -> 0
      [] d[1] = "data"  -> Len(d[3])
      [] d[1] \in {"ref", "const"} -> 2
      [] OTHER -> 1
Named(d) == IF d[1] = "label" THEN <<d[2]>> ELSE IF d[1] = "data" THEN <<d[2]>> ELSE <<>>

(* The data comes last, behind two halts.                                  *)
Halts == <<<<"halt", 0, 0, 0>>, <<"halt", 0, 0, 0>>>>
Placed(directives) ==
    SelectSeq(directives, LAMBDA d : ~IsData(d)) \o Halts \o SelectSeq(directives, IsData)

(* The labels with the places they stand for.                              *)
Preassemble(directives) ==
    FoldLeft(LAMBDA done, d : [ip |-> done.ip + Words(d),
                               labels |-> done.labels \o [i \in DOMAIN Named(d) |-> <<Named(d)[i], done.ip>>]],
             [ip |-> 0, labels |-> <<>>], directives).labels
Names(labels) == [i \in DOMAIN labels |-> labels[i][1]]
AddressTable(labels) ==
    [name \in ToSet(Names(labels)) |-> PROGRAM_ADDR + labels[CHOOSE i \in DOMAIN labels : labels[i][1] = name][2]]

ReferredTo(directives) == {d[3] : d \in {d \in ToSet(directives) : d[1] = "ref"}}

AssembleConstant(dr, n) == <<Encode("constant", dr, 0, 0), n>>
AssembleDirective(d, table) ==
    CASE d[1] = "label" -> <<>>
      [] d[1] = "data"  -> d[3]
      [] d[1] = "ref"   -> AssembleConstant(d[2], table[d[3]])
      [] d[1] = "const" -> AssembleConstant(d[2], d[3])
      [] OTHER          -> <<Encode(d[1], d[2], d[3], d[4])>>
AssembleAll(directives, table) ==
    FlattenSeq([i \in DOMAIN directives |-> AssembleDirective(directives[i], table)]) \o <<0, 0>>

(* No words, where a label is there twice or one referred to is not there. *)
AssembleLabelled(placed, labels) ==
    IF IsInjective(Names(labels)) /\ ReferredTo(placed) \subseteq ToSet(Names(labels))
    THEN AssembleAll(placed, AddressTable(labels))
    ELSE <<>>
Assemble(directives) == AssembleLabelled(Placed(directives), Preassemble(Placed(directives)))
=============================================================================

------------------------------- MODULE Kinds --------------------------------
(***************************************************************************)
(* The check of type declarations (kindcheck of src/src/lowlevel/types.ts  *)
(* and the KindChecker of src/src/lowlevel/typechecker.ts): the            *)
(* declarations of a program are walked one after the other, and a type    *)
(* may refer to itself only through a struct and a pointer.                *)
(***************************************************************************)
EXTENDS Types

CONSTANT MAX_INSTANTIATION_DEPTH

VARIABLES
    order,    \* the declarations still to be checked
    walked,   \* the nodes of names and instantiations already looked up
    errors    \* what was reported

kindVars == <<declared, order, walked, errors>>

(* The identifiers being defined, by what was passed through since:        *)
(* nothing (`directs'), a struct, a pointer, or both (`visiteds').         *)
SharedKindchecker(id) ==
    [visiteds |-> {}, structs |-> {}, pointers |-> {}, vars |-> {}, depth |-> 0,
     directs |-> {id} \cup (DOMAIN declared \ ToSet(order))]
Kindchecker(id) ==
    [visiteds |-> {}, structs |-> {}, pointers |-> {}, directs |-> {id}, vars |-> {}, depth |-> 0]
ThroughStruct(kc) ==
    [kc EXCEPT !.visiteds = @ \cup kc.pointers, !.structs = @ \cup kc.directs, !.pointers = {}, !.directs = {}]
ThroughPointer(kc) ==
    [kc EXCEPT !.visiteds = @ \cup kc.structs, !.structs = {}, !.pointers = @ \cup kc.directs, !.directs = {}]
Visit(kc, id) == [kc EXCEPT !.directs = @ \cup {id}]
IsInvalid(kc, id) == id \in kc.structs \cup kc.pointers \cup kc.directs
IsRecursive(kc, id) == id \in kc.visiteds

-----------------------------------------------------------------------------
(* `st' has the nodes walked and the errors so far; a node is the path to  *)
(* a type from its declaration.  The names of a template's copy (Copied)   *)
(* were looked up in the template.                                         *)
Copied == <<"copied">>
Child(node, i) == IF node = Copied THEN Copied ELSE Append(node, i)
Report(e, st) == [st EXCEPT !.errors = @ \cup {e}]
Walk(node, st) == [st EXCEPT !.walked = @ \cup {node}]

(* A name that stands for itself has no type: looking for it never ends.   *)
RECURSIVE Endless(_, _)
Endless(t, ids) ==
    CASE t.k = "name" -> t.id \in ids \/ Endless(DeclaredType(t.id), ids \cup {t.id})
      [] t.k = "inst" -> t.id \in ids \/ Endless(Instantiated(t), ids \cup {t.id})
      [] t.k = "dot"  -> Endless(t.type, ids) \/ Endless(EvaluateDot(t, NoBindings), ids)
      [] OTHER        -> FALSE
(* Nor has a type variable, which is never given one.                      *)
Unresolved(t, kc) == (t.k = "name" /\ t.id \in kc.vars) \/ Endless(t, {})

RECURSIVE Kindcheck(_, _, _, _)
KindcheckAll(ts, node, kc, st) ==
    FoldLeftDomain(LAMBDA s, i : Kindcheck(ts[i], Child(node, i), kc, s), st, ts)

KindcheckDuplicates(id, st) ==
    IF Cardinality(TypeVariables(id)) = Len(declared[id].vars) THEN st
    ELSE Report(<<"duplicate variables", id>>, st)
KindcheckBody(id, kc, st) ==
    Kindcheck(declared[id].type, <<id>>, [kc EXCEPT !.vars = @ \cup TypeVariables(id)],
              KindcheckDuplicates(id, st))

KindcheckName(t, node, kc, st) ==
    CASE node = Copied \/ node \in st.walked \/ t.id \in kc.vars -> st
      [] ~Known(t.id)           -> Report(<<"unknown", t.id>>, Walk(node, st))
      [] IsInvalid(kc, t.id)    -> Report(<<"recursive", t.id>>, Walk(node, st))
      [] IsRecursive(kc, t.id)  -> Walk(node, st)
      [] OTHER -> KindcheckBody(t.id, Visit(kc, t.id), Walk(node, st))

(* The copy a template makes for an instantiation is checked too, unless   *)
(* too many instantiations led to it.                                      *)
Instantiate(t, kc, st) ==
    CASE Len(declared[t.id].vars) # Len(t.args) -> Report(<<"arguments", t.id>>, st)
      [] kc.depth + 2 > MAX_INSTANTIATION_DEPTH -> Report(<<"instantiations", t.id>>, st)
      [] OTHER -> Kindcheck(Instantiated(t), Copied,
                            [Kindchecker(t.id) EXCEPT !.vars = kc.vars, !.depth = kc.depth + 2], st)

KindcheckInst(t, node, kc, st) ==
    IF node # Copied /\ node \in st.walked THEN st
    ELSE LET named == KindcheckName(Name(t.id), Child(node, 0), kc, st)
             checked == KindcheckAll(t.args, node, kc, named)
         IN IF ~Known(t.id) \/ declared[t.id].vars = <<>>
            THEN Report(<<"not a template", t.id>>, Walk(node, checked))
            ELSE Instantiate(t, kc, Walk(node, checked))

KindcheckDot(t, node, kc, st) ==
    LET checked == Kindcheck(t.type, Child(node, 1), kc, st)
    IN CASE Unresolved(t.type, kc) -> Report(<<"crash", t.id>>, checked)
         [] Resolve(t.type, NoBindings).k # "struct" -> Report(<<"not a struct", t.id>>, checked)
         [] ~Contains(MemberNames(Resolve(t.type, NoBindings)), t.id) -> Report(<<"no member", t.id>>, checked)
         [] OTHER -> checked

KindcheckFunction(t, node, kc, st) ==
    KindcheckAll(t.args, node, ThroughPointer(kc),
                 Kindcheck(t.returns, Child(node, 0), ThroughPointer(kc), st))

(* A member is compared with void once it is checked: that ends the        *)
(* program when its type has no end or is a template's variable.           *)
KindcheckMember(m, node, kc, st) ==
    LET checked == Kindcheck(m.type, node, kc, st)
    IN CASE Unresolved(m.type, kc) -> Report(<<"crash", m.id>>, checked)
         [] IsConvertibleTo(m.type, VoidType) -> Report(<<"void", m.id>>, checked)
         [] OTHER -> checked
KindcheckStruct(t, node, kc, st) ==
    FoldLeftDomain(LAMBDA s, i : KindcheckMember(t.members[i], Child(node, i), ThroughStruct(kc), s),
                   st, t.members)

Kindcheck(t, node, kc, st) ==
    CASE t.k = "name"     -> KindcheckName(t, node, kc, st)
      [] t.k = "inst"     -> KindcheckInst(t, node, kc, st)
      [] t.k = "dot"      -> KindcheckDot(t, node, kc, st)
      [] t.k \in {"slice", "pointer"} ->
           Kindcheck(IF t.k = "slice" THEN t.of ELSE t.to, Child(node, 1), ThroughPointer(kc), st)
      [] t.k = "array"    -> Kindcheck(t.of, Child(node, 1), kc, st)
      [] t.k = "struct"   -> KindcheckStruct(t, node, kc, st)
      [] t.k = "function" -> KindcheckFunction(t, node, kc, st)
      [] OTHER            -> st

-----------------------------------------------------------------------------
Crashed == \E e \in errors : e[1] = "crash"
Accepted == order = <<>> /\ errors = {}

(* One declaration of the program is checked.                              *)
KindcheckDeclaration(id) ==
    /\ ~Crashed
    /\ order # <<>> /\ Head(order) = id
    /\ \E st \in {KindcheckBody(id, Kindchecker(id), [walked |-> walked, errors |-> errors])} :
         walked' = st.walked /\ errors' = st.errors
    /\ order' = Tail(order)
    /\ UNCHANGED declared

Begin(ids) == order = ids /\ walked = {} /\ errors = {}
Next == \E id \in DOMAIN declared : KindcheckDeclaration(id)

-----------------------------------------------------------------------------
(* The references of a type, with what each passes through on the way: a   *)
(* struct, a pointer or both.                                              *)
RECURSIVE References(_, _)
References(t, through) ==
    CASE t.k = "name" -> {<<t.id, through>>}
      [] t.k = "inst" -> {<<t.id, through>>} \cup UNION {References(t.args[i], through) : i \in DOMAIN t.args}
      [] t.k = "dot" -> References(t.type, through)
      [] t.k = "pointer" -> References(t.to, through \cup {"pointer"})
      [] t.k = "slice" -> References(t.of, through \cup {"pointer"})
      [] t.k = "array" -> References(t.of, through)
      [] t.k = "struct" -> UNION {References(t.members[i].type, through \cup {"struct"}) : i \in DOMAIN t.members}
      [] t.k = "function" -> References(t.returns, through \cup {"pointer"}) \cup
                             UNION {References(t.args[i], through \cup {"pointer"}) : i \in DOMAIN t.args}
      [] OTHER -> {}

(* What `step' reaches from `from'.                                        *)
Reached(from, step(_)) ==
    LET grown[n \in Nat] == IF n = 0 THEN from
                            ELSE grown[n - 1] \cup UNION {step(x) : x \in grown[n - 1]}
    IN grown[8]
Referred(id) ==
    Reached(References(declared[id].type, {}),
            LAMBDA x : IF Known(x[1]) THEN References(declared[x[1]].type, x[2]) ELSE {})

(* A type reported as recursive does refer to itself, on a way that does   *)
(* not pass through both a struct and a pointer.                           *)
RecursionInvalid ==
    \A e \in errors : e[1] = "recursive" =>
      \E through \in SUBSET {"struct", "pointer"} :
        <<e[2], through>> \in Referred(e[2]) /\ through # {"struct", "pointer"}
=============================================================================

------------------------------ MODULE MCKinds -------------------------------
(***************************************************************************)
(* Programs of two types, A and B, and a template T, each one of several   *)
(* bodies, declared in either order.                                       *)
(***************************************************************************)
EXTENDS Kinds

Plain(t) == [vars |-> <<>>, type |-> t]
m(id, t) == Member(id, t)

ABodies ==
    {ByteType, Name("B"), Pointer(Name("A")), Slice(Name("B")), Array(Name("B"), 2),
     Struct(<<m("x", Name("B"))>>), Struct(<<m("x", Pointer(Name("B"))), m("y", Name("B"))>>),
     Struct(<<m("x", VoidType)>>), Dot(Name("B"), "x"), Function(<<Name("A")>>, Name("B"))}
BBodies ==
    {IntType, Name("A"), Name("C"), Struct(<<m("x", Name("A"))>>), Struct(<<m("x", Pointer(Name("A"))), m("y", ByteType)>>),
     Inst("T", <<Name("A")>>), Inst("T", <<Name("A"), ByteType>>), Pointer(Inst("T", <<Name("B")>>)),
     Struct(<<m("pointer", Pointer(Name("A"))), m("length", ByteType), m("capacity", ByteType)>>)}
TBodies ==
    {Slice(Name("V")), Struct(<<m("x", Pointer(Name("V"))), m("y", Pointer(Name("V")))>>),
     Function(<<Name("V")>>, Name("V")), Struct(<<m("x", Name("V"))>>), Pointer(Inst("T", <<Name("V")>>))}

KindsInit ==
    /\ declared \in {[A |-> Plain(a), B |-> Plain(b), T |-> [vars |-> vs, type |-> t]] :
                       a \in ABodies, b \in BBodies, t \in TBodies, vs \in {<<"V">>, <<"V", "V">>}}
    /\ \E ids \in {<<"A", "B", "T">>, <<"B", "A", "T">>, <<"T", "B", "A">>} : Begin(ids)

-----------------------------------------------------------------------------
(* The types whose size a type's own size is computed from.                *)
RECURSIVE Needs(_)
Needs(t) ==
    CASE t.k = "name" -> {t.id}
      [] t.k = "inst" -> Needs(Instantiated(t))
      [] t.k = "array" -> Needs(t.of)
      [] t.k = "struct" -> UNION {Needs(t.members[i].type) : i \in DOMAIN t.members}
      [] OTHER -> {}

Contained(id) ==
    Reached(Needs(declared[id].type), LAMBDA x : IF Known(x) THEN Needs(declared[x].type) ELSE {})
Sound == DOMAIN declared = {"A", "B", "T"} /\ \A id \in DOMAIN declared : id \notin Contained(id) /\ ~Endless(Name(id), {})
Shapes ==
    {Name("A"), Name("B"), ByteType, IntType, Pointer(Name("A")), Pointer(ByteType), Pointer(Name("B")),
     Slice(Name("A")), Slice(ByteType), Array(ByteType, 2), Array(ByteType, 3), Struct(<<m("x", Name("B"))>>),
     Struct(<<m("x", Pointer(Name("B"))), m("y", Pointer(Name("A")))>>), Pointer(Array(Name("A"), 2)), Inst("T", <<ByteType>>),
     Function(<<Name("A")>>, Name("B")), Function(<<ByteType>>, ByteType)}
RECURSIVE Holds(_, _)
Holds(t, class) ==
    LET r == Resolve(t, NoBindings)
    IN r.k = class \/ (r.k = "struct" /\ \E i \in DOMAIN r.members : Holds(r.members[i].type, class))

(* A value of one type taken as one of another, as arguments, assignments  *)
(* and casts allow, has the words of the other.  Excepted are arrays taken *)
(* as slices, which need a conversion, and the members of struct types.    *)
ConvertedFits ==
    Accepted /\ Sound /\ (\A id \in DOMAIN declared : declared[id].type.k # "dot") =>
    \A t, u \in Shapes :
      /\ IsConvertibleTo(t, u)
      /\ Holds(u, "slice") => ~Holds(t, "array") /\ Resolve(t, NoBindings).k # "pointer"
      => Size(t) = Size(u)

(* The arguments inferred for a template make it the type expected.        *)
InferredFits ==
    Accepted /\ Sound =>
    \A t \in Shapes : \A args \in Infer("T", t) : IsConvertibleTo(t, Inst("T", args))
=============================================================================

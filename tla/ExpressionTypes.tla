--------------------------- MODULE ExpressionTypes ---------------------------
(***************************************************************************)
(* The typechecking of expressions (typecheck of the classes of            *)
(* src/src/lowlevel/expressions.ts).                                       *)
(*                                                                         *)
(* An expression is a node: its class `k', its operator or name `op', a    *)
(* number `n', a type and the expressions `es' in it, None where there is  *)
(* none.  Checking gives the node back with its type `t', whether it is    *)
(* `ok', the declarations it refers to, in order (`refs') and, of a name,  *)
(* what it stands for.  The context has the names in scope; `want' is the type the *)
(* place of the expression asks for, NoType when it asks for none.         *)
(***************************************************************************)
EXTENDS Compiler

VARIABLE values     \* the functions and globals in force, by identifier

NoType == Builtin("<none>")
BoolType == Name("bool")

Node(k, op, n, type, es) ==
    [k |-> k, op |-> op, n |-> n, type |-> type, es |-> es, t |-> NoType, ok |-> TRUE,
     refs |-> <<>>, storage |-> "none", name |-> <<Unnamed, 0>>]
None == Node("none", "", 0, NoType, <<>>)
Given(e) == e.k # "none"

Id(id)          == Node("name", id, 0, NoType, <<>>)
IdOf(id, types) == Node("name", id, 0, Inst(id, types), <<>>)
Num(n)          == Node("int", "", n, NoType, <<>>)
Float(n)        == Node("float", "", n, NoType, <<>>)
Bool(n)         == Node("bool", "", n, NoType, <<>>)
Char(n)         == Node("char", "", n, NoType, <<>>)
Text(ns)        == Node("string", ns, 0, NoType, <<>>)
List(es)        == Node("array", "", 0, NoType, es)
Repeat(e, n)    == Node("repeat", "", n, NoType, <<e>>)
StructOf(t, ids, es) == Node("struct", ids, 0, t, es)
Void            == Node("void", "", 0, NoType, <<>>)
Null            == Node("null", "", 0, NoType, <<>>)
Sizeof(t)       == Node("sizeof", "", 0, t, <<>>)
New(t, e)       == Node("new", "", 0, t, <<e>>)
NewArray(t, n, e) == Node("newarray", "=", 0, t, <<n, e>>)
NewEllipsis(t, n, e) == Node("newarray", "...", 0, t, <<n, e>>)
Cast(t, e)      == Node("cast", "safe", 0, t, <<e>>)
Unsafe(t, e)    == Node("cast", "unsafe", 0, t, <<e>>)
Bin(op, a, b)   == Node("binary", op, 0, NoType, <<a, b>>)
Un(op, e)       == Node("unary", op, 0, NoType, <<e>>)
Call(f, as)     == Node("call", "", 0, NoType, <<f>> \o as)
Field(e, id)    == Node("dot", id, 0, NoType, <<e>>)
Arrow(e, id)    == Node("arrow", id, 0, NoType, <<e>>)
Index(e, i)     == Node("index", "safe", 0, NoType, <<e, i>>)
UnsafeIndex(e, i) == Node("index", "unsafe", 0, NoType, <<e, i>>)
Sliced(e, lo, hi) == Node("slice", "", 0, NoType, <<e, lo, hi>>)
Cond(c, a, b)   == Node("conditional", "", 0, NoType, <<c, a, b>>)

Concrete(e) == Resolve(e.t, NoBindings)
IsNumericLiteral(e) ==
    e.k = "int" \/ (e.k = "unary" /\ e.op \in {"-", "+"} /\ e.es[1].k = "int")
Assignable(e) ==
    \/ e.k \in {"name", "dot", "arrow", "index"}
    \/ e.k = "unary" /\ e.op = "*"
    \/ e.k = "unary" /\ e.op = "len" /\ Concrete(e.es[1]).k # "array"

(* The node of type `t', its parts checked to be `es'.                     *)
Typed(e, es, t, ok) ==
    [e EXCEPT !.es = es, !.t = t, !.ok = ok /\ \A i \in DOMAIN es : es[i].ok,
              !.refs = FlattenSeq([i \in DOMAIN es |-> es[i].refs])]
Leaf(e, t) == Typed(e, <<>>, t, TRUE)

(* A generic type's copy: every type in it is substituted.                 *)
RECURSIVE SubstituteExpression(_, _)
SubstituteExpression(e, table) ==
    [e EXCEPT !.type = Substitute(@, table), !.t = Substitute(@, table),
              !.es = [i \in DOMAIN @ |-> SubstituteExpression(@[i], table)]]

-----------------------------------------------------------------------------
(* A name: a local or parameter, else a declared function or global.  The  *)
(* name of a template stays open (Template) until a call decides what it   *)
(* is instantiated with; a copy of one is known by the type it then has.   *)
Template(id) == [k |-> "template", id |-> id]
FunctionType(d) == Function([i \in DOMAIN d.params |-> d.params[i].t], d.returns)
Table(d, args) == [v \in ToSet(d.vars) |-> args[CHOOSE i \in DOMAIN args : d.vars[i] = v]]
InstanceName(id, t) == Qualified(id, IF values[id].vars = <<>> THEN <<>> ELSE <<t>>)
RefersTo(e, name, args) == [e EXCEPT !.name = <<name, 0>>, !.refs = <<[name |-> name, args |-> args]>>]
Instance(e, id, args) ==
    LET t == Substitute(FunctionType(values[id]), Table(values[id], args))
    IN RefersTo([Leaf(e, t) EXCEPT !.storage = "function"], InstanceName(id, t), args)
CheckDeclared(e, d, args) ==
    CASE d.k = "function" /\ Len(d.vars) = Len(args) -> Instance(e, e.op, args)
      [] d.k = "function" /\ args = <<>> -> Leaf(e, Template(e.op))
      [] d.k = "global" /\ args = <<>> ->
           RefersTo([Leaf(e, d.t) EXCEPT !.storage = "global"], Qualified(e.op, <<>>), <<>>)
      [] OTHER -> Typed(e, <<>>, ErrorType, FALSE)
CheckName(e, ctx) ==
    LET args == IF e.type.k = "inst" THEN e.type.args ELSE <<>>
        local == ctx.names[e.op]
    IN IF e.op \in DOMAIN ctx.names
       THEN [Typed(e, <<>>, local.t, args = <<>>) EXCEPT !.storage = local.storage, !.name = local.name]
       ELSE IF e.op \in DOMAIN values THEN CheckDeclared(e, values[e.op], args)
       ELSE Typed(e, <<>>, ErrorType, FALSE)

(* Literals.  A number has any numeric type that is asked for.             *)
CheckInt(e, want) == Leaf(e, IF Numeric(want) THEN want ELSE ByteType)
CheckFloat(e) == Leaf(e, FloatType)
CheckBool(e, want) == Leaf(e, IF Numeric(want) THEN want ELSE BoolType)
CheckString(e) == Leaf(e, Array(ByteType, Len(e.op)))
CheckVoid(e, want) == Leaf(e, IF IsConvertibleTo(want, VoidType) THEN want ELSE VoidType)
CheckNull(e, want) ==
    Typed(e, <<>>, IF want = NoType THEN ErrorType ELSE want, Resolve(want, NoBindings).k \in {"pointer", "slice"})
CheckSizeof(e) == Leaf(e, ByteType)

RECURSIVE Check(_, _, _)
CheckAll(es, ctx) == [i \in DOMAIN es |-> Check(es[i], ctx, NoType)]

(* The type of the elements where an array or slice is asked for.          *)
Wanted(want) == LET t == Resolve(want, NoBindings) IN IF t.k \in {"array", "slice"} THEN t.of ELSE NoType
ElementFits(want) == want = NoType \/ Wanted(want) # NoType
TypedArray(e, es, want, element) ==
    IF es = <<>> THEN Typed(e, es, Slice(element), element # NoType)
    ELSE Typed(e, es, Array(element, Len(es)),
               ElementFits(want) /\ \A i \in DOMAIN es : IsConvertibleTo(element, es[i].t))
CheckArray(e, es, want) ==
    TypedArray(e, es, want, IF Wanted(want) = NoType /\ es # <<>> THEN es[1].t ELSE Wanted(want))
CheckRepeat(e, element, want) ==
    LET asked == Resolve(want, NoBindings)
    IN Typed(e, <<element>>, Array(IF Wanted(want) # NoType THEN Wanted(want) ELSE element.t, e.n),
             /\ ElementFits(want)
             /\ asked.k = "array" => asked.length = e.n
             /\ Wanted(want) # NoType => IsConvertibleTo(element.t, Wanted(want)))

(* The members given are e.op; the parts become one for every member of    *)
(* the type, None for one that is not given.                               *)
CheckMembers(e, ctx, ms) ==
    LET given(id) == CHOOSE i \in DOMAIN e.op : e.op[i] = id
    IN [i \in DOMAIN ms |-> IF ~Contains(e.op, ms[i].id) THEN None
                            ELSE Check(e.es[given(ms[i].id)], ctx, ms[i].type)]
TypedStruct(e, es, ms) ==
    Typed(e, es, e.type,
          /\ IsInjective(e.op) /\ ToSet(e.op) \subseteq {ms[i].id : i \in DOMAIN ms}
          /\ \A i \in DOMAIN es : Given(es[i]) => IsConvertibleTo(es[i].t, ms[i].type))
CheckStruct(e, ctx, t) ==
    IF t.k # "struct" THEN Typed(e, <<>>, ErrorType, FALSE)
    ELSE TypedStruct(e, CheckMembers(e, ctx, t.members), t.members)

(* Allocation; that of an array type is a NewArray of its length.          *)
Asked(e) == IF e.op = "..." THEN Wanted(e.type) ELSE e.type
CheckNewArray(e, t, size, init) ==
    Typed(e, <<size, init>>, IF t.k = "slice" THEN Slice(t.of) ELSE ErrorType,
          t.k = "slice" /\ Numeric(size.t) /\ (Given(init) => IsEqualTo(init.t, Asked(e))))
CheckNew(e, t, init) ==
    IF t.k = "array" THEN Typed(e, <<init>>, ErrorType, FALSE)
    ELSE Typed(e, <<init>>, Pointer(e.type), Given(init) => IsEqualTo(e.type, init.t))

(* A cast converts between numbers and floats, and takes words for other   *)
(* words when it is unsafe.  `op' becomes what it has to do.               *)
CheckCast(e, part, from, to) ==
    LET does(op, ok) == [Typed(e, <<part>>, e.type, ok) EXCEPT !.op = op]
    IN CASE IsConvertibleTo(e.type, part.t) -> does("nothing", TRUE)
         [] IsFloat(e.type) /\ IsWord(from) -> does("itof", TRUE)
         [] IsWord(to) /\ IsFloat(part.t) -> does("ftoi", TRUE)
         [] IsWord(to) /\ IsWord(from) -> does("nothing", e.op = "unsafe")
         [] IsWord(to) /\ from.k = "slice" -> does("pointer", e.op = "unsafe")
         [] IsWord(from) /\ to.k = "array" -> does("nothing", e.op = "unsafe")
         [] OTHER -> does("nothing", FALSE)

-----------------------------------------------------------------------------
(* A numeric literal on the left takes its type from the right.            *)
Arithmetic == {"+", "-", "*", "/"}
IntegerOnly == {"%", "|", "&", "<<", ">>"}
Logical == {"&&", "||"}
LiteralFirst(e, ctx, want, r) == <<Check(e.es[1], ctx, IF Numeric(r.t) THEN r.t ELSE want), r>>
LeftFirst(e, ctx, l) == <<l, Check(e.es[2], ctx, l.t)>>
CheckOperands(e, ctx, want) ==
    IF IsNumericLiteral(e.es[1]) THEN LiteralFirst(e, ctx, want, Check(e.es[2], ctx, want))
    ELSE LeftFirst(e, ctx, Check(e.es[1], ctx, want))
OperandFits(op, t) ==
    CASE op \in IntegerOnly -> Integral(t)
      [] op \in Logical -> BooleanTest(t)
      [] OTHER -> Numeric(t) \/ (op \in {"==", "!="} /\ Resolve(t, NoBindings).k = "pointer")
CheckBinary(e, es) ==
    Typed(e, es, IF e.op \in Arithmetic \cup IntegerOnly \cup Logical THEN es[1].t ELSE BoolType,
          /\ \A i \in 1 .. 2 : OperandFits(e.op, es[i].t)
          /\ IsEqualTo(es[1].t, es[2].t))

CheckUnary(e, part, c) ==
    LET is(t, ok) == Typed(e, <<part>>, t, ok)
        signed(numeric) == is(IF numeric THEN part.t ELSE ByteType, numeric)
    IN CASE e.op \in {"+", "-"} -> signed(Numeric(part.t))
         [] e.op = "!" -> is(BoolType, BooleanTest(part.t))
         [] e.op = "*" -> is(IF c.k = "pointer" THEN c.to ELSE ErrorType, c.k = "pointer")
         [] e.op = "&" -> is(Pointer(part.t), ~IsConvertibleTo(part.t, VoidType) /\ Assignable(part))
         [] OTHER -> is(ByteType, c.k \in {"array", "slice"} \/ SliceLike(c, NoBindings))

(* A call.  That of a template infers what it is instantiated with from    *)
(* the arguments and from the type the place asks for.                     *)
ExpectedOf(args, want) ==
    Function([i \in DOMAIN args |-> args[i].t], IF want = NoType THEN Var("returned") ELSE want)
InstanceCall(e, instance, args) ==
    [Typed(e, <<instance>> \o args, instance.t.returns, TRUE) EXCEPT
       !.refs = FlattenSeq([i \in DOMAIN args |-> args[i].refs]) \o instance.refs]
InferredCall(e, f, args, found) ==
    IF found = {} THEN Typed(e, <<f>> \o args, ErrorType, FALSE)
    ELSE InstanceCall(e, Instance(f, f.t.id, CHOOSE types \in found : TRUE), args)
CheckTemplateCall(e, f, args, want) ==
    InferredCall(e, f, args,
      InferTemplate(values[f.t.id].vars, FunctionType(values[f.t.id]), ExpectedOf(args, want)))

ArgumentType(t, i) == IF i \in DOMAIN t.args THEN t.args[i] ELSE NoType
CheckArguments(e, ctx, t) == [i \in 1 .. Len(e.es) - 1 |-> Check(e.es[i + 1], ctx, ArgumentType(t, i))]
TypedCall(e, f, args, t) ==
    Typed(e, <<f>> \o args, t.returns,
          Len(args) = Len(t.args) /\ \A i \in DOMAIN args : IsConvertibleTo(args[i].t, ArgumentType(t, i)))
CallOf(e, f, ctx, want, t) ==
    CASE f.t.k = "template" -> CheckTemplateCall(e, f, CheckAll(Tail(e.es), ctx), want)
      [] t.k = "function" -> TypedCall(e, f, CheckArguments(e, ctx, t), t)
      [] OTHER -> Typed(e, <<f>>, ErrorType, FALSE)
CheckCall(e, f, ctx, want) == CallOf(e, f, ctx, want, IF f.t.k = "template" THEN f.t ELSE Concrete(f))

(* Members and elements; `n' becomes the offset, or the size of one.       *)
MemberAt(e, part, t) ==
    IF t.k # "struct" \/ ~Contains(MemberNames(t), e.op) THEN Typed(e, <<part>>, ErrorType, FALSE)
    ELSE [Typed(e, <<part>>, MemberOf(t, e.op), TRUE) EXCEPT !.n = Offset(t, e.op)]
CheckArrow(e, part, t) ==
    IF t.k # "pointer" THEN Typed(e, <<part>>, ErrorType, FALSE)
    ELSE MemberAt(e, part, Resolve(t.to, NoBindings))
Elements(t) ==
    CASE t.k \in {"array", "slice"} -> t.of
      [] t.k = "pointer" -> t.to
      [] OTHER -> ErrorType
CheckIndex(e, es, t) ==
    [Typed(e, es, Elements(t), /\ t.k \in {"array", "slice"} \/ (t.k = "pointer" /\ e.op = "unsafe")
                               /\ Numeric(es[2].t))
       EXCEPT !.n = Size(Elements(t))]
CheckSlice(e, es, t) ==
    [Typed(e, es, Slice(Elements(t)), /\ t.k \in {"array", "slice"}
                                      /\ \A i \in 2 .. 3 : Given(es[i]) => Numeric(es[i].t))
       EXCEPT !.n = Size(Elements(t))]
CheckConditional(e, es) == Typed(e, es, es[2].t, BooleanTest(es[1].t) /\ IsEqualTo(es[2].t, es[3].t))

(* An expression: its parts first, each with the type its place asks for.  *)
OnPart(e, part) ==
    CASE e.k = "cast"  -> CheckCast(e, part, Concrete(part), Resolve(e.type, NoBindings))
      [] e.k = "unary" -> CheckUnary(e, part, Concrete(part))
      [] e.k = "dot"   -> MemberAt(e, part, Concrete(part))
      [] e.k = "arrow" -> CheckArrow(e, part, Concrete(part))
OnParts(e, es) ==
    CASE e.k = "index" -> CheckIndex(e, es, Concrete(es[1]))
      [] e.k = "slice" -> CheckSlice(e, es, Concrete(es[1]))
      [] e.k = "conditional" -> CheckConditional(e, es)
WantedOfPart(e, want) ==
    CASE e.k = "cast" -> IF Numeric(e.type) THEN NoType ELSE e.type
      [] e.k = "unary" /\ e.op \in {"+", "-"} -> want
      [] OTHER -> NoType
Check(e, ctx, want) ==
    CASE e.k = "none"     -> None
      [] e.k = "name"     -> CheckName(e, ctx)
      [] e.k = "int"      -> CheckInt(e, want)
      [] e.k = "float"    -> CheckFloat(e)
      [] e.k = "bool"     -> CheckBool(e, want)
      [] e.k = "char"     -> Leaf(e, ByteType)
      [] e.k = "string"   -> CheckString(e)
      [] e.k = "void"     -> CheckVoid(e, want)
      [] e.k = "null"     -> CheckNull(e, want)
      [] e.k = "sizeof"   -> CheckSizeof(e)
      [] e.k = "array"    -> CheckArray(e, CheckAll(e.es, ctx), want)
      [] e.k = "repeat"   -> CheckRepeat(e, Check(e.es[1], ctx, Wanted(want)), want)
      [] e.k = "struct"   -> CheckStruct(e, ctx, Resolve(e.type, NoBindings))
      [] e.k = "new"      -> CheckNew(e, Resolve(e.type, NoBindings), Check(e.es[1], ctx, e.type))
      [] e.k = "newarray" -> CheckNewArray(e, Resolve(e.type, NoBindings), Check(e.es[1], ctx, NoType),
                                           Check(e.es[2], ctx, Asked(e)))
      [] e.k = "binary"   -> CheckBinary(e, CheckOperands(e, ctx, want))
      [] e.k = "call"     -> CheckCall(e, Check(e.es[1], ctx, NoType), ctx, want)
      [] e.k \in {"cast", "unary", "dot", "arrow"} ->
           OnPart(e, Check(e.es[1], ctx, WantedOfPart(e, want)))
      [] e.k \in {"index", "slice", "conditional"} -> OnParts(e, CheckAll(e.es, ctx))
=============================================================================

------------------------------- MODULE Types --------------------------------
(***************************************************************************)
(* The types of QLL (src/src/lowlevel/types.ts): which types are equal or  *)
(* convertible, what they resolve to, and how many words they take.        *)
(*                                                                         *)
(* A type is a record whose `k' is its class; a name is known by its       *)
(* declaration, and `declared' are the type declarations in force.         *)
(***************************************************************************)
EXTENDS Naturals, Sequences, FiniteSets, SequencesExt

CONSTANT MaxDepth    \* nested calls of isUnifiableWith before the stack ends

VARIABLE declared    \* identifier |-> [vars, type]

Builtin(b) == [k |-> "builtin", builtin |-> b]
ByteType  == Builtin("byte")
IntType   == Builtin("int")
FloatType == Builtin("float")
VoidType  == Builtin("void")
ErrorType == Builtin("<error>")

Name(id) == [k |-> "name", id |-> id]
Var(v) == [k |-> "var", v |-> v]
Inst(id, args) == [k |-> "inst", id |-> id, args |-> args]
Dot(t, id) == [k |-> "dot", type |-> t, id |-> id]
Pointer(t) == [k |-> "pointer", to |-> t]
Array(t, n) == [k |-> "array", of |-> t, length |-> n]
Slice(t) == [k |-> "slice", of |-> t]
Member(id, t) == [id |-> id, type |-> t]
Struct(ms) == [k |-> "struct", members |-> ms]
Function(as, r) == [k |-> "function", args |-> as, returns |-> r]

Known(id) == id \in DOMAIN declared
DeclaredType(id) == IF Known(id) THEN declared[id].type ELSE ErrorType
MemberOf(t, id) == t.members[CHOOSE i \in DOMAIN t.members : t.members[i].id = id].type
MemberNames(t) == [i \in DOMAIN t.members |-> t.members[i].id]

-----------------------------------------------------------------------------
(* substitute(): a name in the table is replaced, any other type is copied *)
(* around its parts.                                                       *)
RECURSIVE Substitute(_, _)
SubstituteAll(ts, table) == [i \in DOMAIN ts |-> Substitute(ts[i], table)]
SubstituteName(t, table) == IF t.id \in DOMAIN table THEN table[t.id] ELSE t
SubstituteInst(t, table) == [t EXCEPT !.args = SubstituteAll(@, table)]
SubstituteDot(t, table) == [t EXCEPT !.type = Substitute(@, table)]
SubstitutePointer(t, table) == [t EXCEPT !.to = Substitute(@, table)]
SubstituteElement(t, table) == [t EXCEPT !.of = Substitute(@, table)]
SubstituteStruct(t, table) ==
    [t EXCEPT !.members = [i \in DOMAIN @ |-> [@[i] EXCEPT !.type = Substitute(@, table)]]]
SubstituteFunction(t, table) ==
    [t EXCEPT !.args = SubstituteAll(@, table), !.returns = Substitute(@, table)]
Substitute(t, table) ==
    CASE t.k = "name"     -> SubstituteName(t, table)
      [] t.k = "inst"     -> SubstituteInst(t, table)
      [] t.k = "dot"      -> SubstituteDot(t, table)
      [] t.k = "pointer"  -> SubstitutePointer(t, table)
      [] t.k \in {"array", "slice"} -> SubstituteElement(t, table)
      [] t.k = "struct"   -> SubstituteStruct(t, table)
      [] t.k = "function" -> SubstituteFunction(t, table)
      [] OTHER            -> t

(* A template is its type with its variables replaced by the arguments.    *)
TypeVariables(id) == ToSet(declared[id].vars)
Argument(id, v, args) == args[CHOOSE i \in DOMAIN args : declared[id].vars[i] = v]
Instantiated(t) ==
    IF Len(declared[t.id].vars) # Len(t.args) THEN ErrorType
    ELSE Substitute(declared[t.id].type, [v \in TypeVariables(t.id) |-> Argument(t.id, v, t.args)])

-----------------------------------------------------------------------------
(* evaluate() removes what is structure of the type expression only, bound *)
(* variables, members of a struct type and instantiations; resolve()       *)
(* removes names too, but not the one a variable or a member stands for.   *)
RECURSIVE Evaluate(_, _), Resolve(_, _)
EvaluateVar(t, env) == IF t.v \in DOMAIN env THEN Evaluate(env[t.v], env) ELSE t
TypeOfMember(t, id) ==
    IF t.k # "struct" \/ ~Contains(MemberNames(t), id) THEN ErrorType ELSE MemberOf(t, id)
EvaluateDot(t, env) == Evaluate(TypeOfMember(Resolve(t.type, env), t.id), env)
Evaluate(t, env) ==
    CASE t.k = "var"  -> EvaluateVar(t, env)
      [] t.k = "inst" -> Evaluate(Instantiated(t), env)
      [] t.k = "dot"  -> EvaluateDot(t, env)
      [] OTHER        -> t

Resolve(t, env) ==
    CASE t.k = "name" -> Resolve(DeclaredType(t.id), env)
      [] t.k = "inst" -> Resolve(Instantiated(t), env)
      [] OTHER        -> Evaluate(t, env)

SLICE_DESCRIPTOR_SIZE == 3

RECURSIVE Size(_), SizeStruct(_)
SizeArray(t) == t.length * Size(t.of)
SizeStruct(ms) == IF ms = <<>> THEN 0 ELSE Size(Head(ms).type) + SizeStruct(Tail(ms))
Size(t) ==
    CASE t.k = "name"   -> Size(DeclaredType(t.id))
      [] t.k = "inst"   -> Size(Instantiated(t))
      [] t.k = "array"  -> SizeArray(t)
      [] t.k = "slice"  -> SLICE_DESCRIPTOR_SIZE
      [] t.k = "struct" -> SizeStruct(t.members)
      [] OTHER          -> 1

(* The offset of a member: the sizes of those before it.                   *)
Offset(t, id) ==
    LET i == CHOOSE i \in DOMAIN t.members : t.members[i].id = id
    IN SizeStruct(SubSeq(t.members, 1, i - 1))

-----------------------------------------------------------------------------
(* isUnifiableWith: the bindings of type variables under which t unifies   *)
(* with u, none when it does not.  It is not symmetric: an array unifies   *)
(* with a slice, and a pointer to an array does too.  `u' has its own      *)
(* variable bound, `c' has the bindings, the depth and whether names are   *)
(* compared by identity (nominal).                                         *)
NoBindings == [v \in {} |-> ErrorType]
Bind(env, v, t) == [w \in DOMAIN env \cup {v} |-> IF w = v THEN t ELSE env[w]]

RECURSIVE Unify(_, _, _)
Again(t, u, c, envs) ==
    UNION {Unify(t, u, [c EXCEPT !.env = env, !.depth = @ + 1]) : env \in envs}
When(p, c) == IF p THEN {c.env} ELSE {}
Scalar(u, c) == IF c.nominal THEN Evaluate(u, c.env) ELSE Resolve(u, c.env)

(* Two structs of a slice's shape: the first member is a pointer, the      *)
(* other two are bytes.                                                    *)
SliceLike(t, env) ==
    /\ t.k = "struct"
    /\ MemberNames(t) = <<"pointer", "length", "capacity">>
    /\ Resolve(t.members[1].type, env).k = "pointer"
UnifyDescriptor(t, of, c) ==
    IF ~SliceLike(t, c.env) THEN {}
    ELSE Again(t.members[3].type, ByteType, c, Again(t.members[2].type, ByteType, c,
           Again(Resolve(t.members[1].type, c.env).to, of, c, {c.env})))

UnifyBuiltin(t, scalar, c) ==
    When(t = ErrorType \/ t = scalar \/ (~c.nominal /\ t = Resolve(scalar, c.env)), c)

UnifyVar(t, u, c) ==
    IF t.v \in DOMAIN c.env THEN Again(Evaluate(t, c.env), u, c, {c.env})
    ELSE {IF u = t THEN c.env ELSE Bind(c.env, t.v, u)}

UnifyName(t, scalar, c) ==
    IF ~Known(t.id) \/ scalar = t THEN {c.env}
    ELSE IF c.nominal THEN {}
    ELSE Again(DeclaredType(t.id), Resolve(scalar, c.env), c, {c.env})

UnifyPointer(t, pointed, s, c) ==
    CASE s.k = "pointer" -> Again(t.to, s.to, c, {c.env})
      [] s.k = "slice" /\ pointed.k = "array" -> Again(pointed.of, s.of, c, {c.env})
      [] OTHER -> {}

UnifyArrayOfAnyLength(t, s, c) ==
    IF s.k \in {"slice", "array"} THEN Again(t.of, s.of, c, {c.env}) ELSE {}
UnifyArray(t, s, c) ==
    IF s.k = "slice" \/ (s.k = "array" /\ s.length = t.length) THEN Again(t.of, s.of, c, {c.env}) ELSE {}

UnifySlice(t, s, c) ==
    CASE s.k = "slice" -> Again(t.of, s.of, c, {c.env})
      [] s.k = "struct" -> UnifyDescriptor(s, t.of, c)
      [] OTHER -> {}

(* Parts, one after the other: each under the bindings of those before.    *)
RECURSIVE UnifyAll(_, _, _, _)
UnifyAll(ts, us, c, envs) ==
    IF ts = <<>> THEN envs ELSE UnifyAll(Tail(ts), Tail(us), c, Again(Head(ts), Head(us), c, envs))
MemberTypes(t) == [i \in DOMAIN t.members |-> t.members[i].type]
UnifyStruct(t, s, c) ==
    CASE s.k = "struct" /\ MemberNames(s) = MemberNames(t) -> UnifyAll(MemberTypes(t), MemberTypes(s), c, {c.env})
      [] s.k = "slice" -> UnifyDescriptor(t, s.of, c)
      [] OTHER -> {}

UnifyFunction(t, f, c) ==
    IF f.k # "function" \/ Len(f.args) # Len(t.args) THEN {}
    ELSE UnifyAll(f.args, t.args, c, Again(t.returns, f.returns, c, {c.env}))

RebindVariable(t, u, c) == [c EXCEPT !.env = Bind(@, u.v, t)]

(* Every class but three first binds a variable it is compared with.       *)
BindVariable(t, u, c) == IF u.v \in DOMAIN c.env THEN c ELSE [c EXCEPT !.env = Bind(@, u.v, t)]

Binds(t, u) == u.k = "var" /\ t.k \notin {"var", "dot", "inst"}
Bound(t, u, c) == IF Binds(t, u) THEN BindVariable(t, u, c) ELSE c
Compared(t, u, c) == IF Binds(t, u) THEN c.env[u.v] ELSE u
UnifyClass(t, u, c) ==
    CASE t.k = "builtin"     -> UnifyBuiltin(t, Evaluate(u, c.env), c)
      [] t.k = "var"         -> UnifyVar(t, u, c)
      [] t.k = "name"        -> UnifyName(t, Evaluate(u, c.env), c)
      [] t.k \in {"inst", "dot"} -> Again(Evaluate(t, c.env), u, c, {c.env})
      [] t.k = "pointer"     -> UnifyPointer(t, Resolve(t.to, c.env), Scalar(u, c), c)
      [] t.k = "array"       -> UnifyArray(t, Scalar(u, c), c)
      [] t.k = "slice"       -> UnifySlice(t, Scalar(u, c), c)
      [] t.k = "struct"      -> UnifyStruct(t, Resolve(u, c.env), c)
      [] t.k = "function"    -> UnifyFunction(t, Resolve(u, c.env), c)
UnifyOnce(t, u, c) == UnifyClass(t, Compared(t, u, c), c)
Unify(t, u, c) == IF c.depth > MaxDepth THEN {} ELSE UnifyOnce(t, u, Bound(t, u, c))

IsEqualTo(t, u) == Unify(t, u, [nominal |-> TRUE, env |-> NoBindings, depth |-> 0]) # {}
IsConvertibleTo(t, u) == Unify(t, u, [nominal |-> FALSE, env |-> NoBindings, depth |-> 0]) # {}

(* What may be tested by an `if', computed with, and how it is compared.   *)
IsWord(r) == r.k \in {"pointer", "function"} \/ (r.k = "builtin" /\ r # FloatType)
Integral(t) == IsWord(Resolve(t, NoBindings))
BooleanTest(t) == Integral(t) \/ t.k = "slice"
Numeric(t) == \E b \in {ByteType, IntType, FloatType} : IsConvertibleTo(t, b)
IsFloat(t) == IsConvertibleTo(t, FloatType)
IsSigned(t) == IsConvertibleTo(t, IntType)

(* The type arguments a template is given where a type is expected.        *)
InferTemplate(vars, type, expected) ==
    LET open == Substitute(type, [v \in ToSet(vars) |-> Var(v)])
        solved(env) == \A v \in ToSet(vars) : Evaluate(Var(v), env).k # "var"
    IN {[i \in DOMAIN vars |-> Evaluate(Var(vars[i]), env)] :
          env \in {env \in Unify(expected, open, [nominal |-> FALSE, env |-> NoBindings, depth |-> 0]) :
                     solved(env)}}
Infer(id, expected) == InferTemplate(declared[id].vars, declared[id].type, expected)
=============================================================================

------------------------------- MODULE LowLevel -------------------------------
(***************************************************************************)
(* A program (src/src/lowlevel/lowlevel.ts): its types are checked, then   *)
(* its globals and functions and, one after the other, the copies of the   *)
(* templates they call; what is live of it is compiled.                    *)
(***************************************************************************)
EXTENDS Kinds, Statements

VARIABLES
    phase,      \* "kinds", "types", "compiling", or what it ended with
    pending,    \* the declarations still to be checked, with what led to them
    checked     \* those checked, by qualified name

programVars == <<kindVars, values, phase, pending, checked>>

Declared(k, at, vars, params, returns, body, t, e, tags) ==
    [k |-> k, at |-> at, vars |-> vars, params |-> params, returns |-> returns, body |-> body,
     t |-> t, e |-> e, tags |-> tags]
Parameter(id, t) == [id |-> id, t |-> t]
FunctionDeclaration(at, vars, params, returns, body, tags) ==
    Declared("function", at, vars, params, returns, body, NoType, None, tags)
GlobalDeclaration(at, t, e, tags) == Declared("global", at, <<>>, <<>>, NoType, <<>>, t, e, tags)

(* `main' is where the program starts; a pre-declaration has no body.      *)
ENTRYPOINT == Qualified("main", <<>>)
Builtins == [bool |-> [vars |-> <<>>, type |-> ByteType], string |-> [vars |-> <<>>, type |-> Slice(ByteType)]]
Predeclared(d) == ".extern" \in d.tags
Interrupt(d) == ".interrupt" \in d.tags

-----------------------------------------------------------------------------
(* The types a declaration is written with are checked first.              *)
Signature(d) == IF d.k = "global" THEN d.t ELSE FunctionType(d)
SignatureErrors(d, vars) ==
    Kindcheck(Signature(d), <<"signature">>, [Kindchecker("") EXCEPT !.directs = {}, !.vars = vars],
              [walked |-> {}, errors |-> {}]).errors
CheckedDeclaration(d, params, returns, body, e, refs, ok) ==
    [d EXCEPT !.params = params, !.returns = returns, !.body = body, !.e = e] @@ [refs |-> refs, ok |-> ok]

GlobalScope == [names |-> NoStorage, depth |-> 0, loop |-> FALSE, returns |-> NoType]
CheckedGlobal(d, e) ==
    CheckedDeclaration(d, <<>>, NoType, <<>>, e, e.refs,
                       IF Given(e) THEN e.ok /\ IsConvertibleTo(e.t, d.t) ELSE Predeclared(d))
CheckGlobal(d) == CheckedGlobal(d, Check(d.e, GlobalScope, d.t))

FunctionScope(params, returns) ==
    FoldLeft(LAMBDA ctx, p : SetName(ctx, p.id, p.t, "parameter"),
             [names |-> NoStorage, depth |-> 1, loop |-> FALSE, returns |-> returns], params)
InterruptFits(d, returns) == Interrupt(d) => d.params = <<>> /\ IsConvertibleTo(returns, VoidType)
CheckedBody(d, params, returns, sts) ==
    CheckedDeclaration(d, params, returns, sts, None, FlattenSeq([i \in DOMAIN sts |-> sts[i].refs]),
      /\ IsInjective([i \in DOMAIN params |-> params[i].id])
      /\ \A i \in DOMAIN sts : sts[i].ok
      /\ IsConvertibleTo(returns, VoidType) \/ BlockReturns(sts)
      /\ InterruptFits(d, returns)
      /\ d.vars # <<>> => \A i \in DOMAIN params : ~IsConvertibleTo(params[i].t, VoidType))
CheckBody(d, params, returns, body) ==
    CheckedBody(d, params, returns, CheckBlock(body, FunctionScope(params, returns)))

(* A template is checked as a copy of it is made, its variables replaced.  *)
CopyOf(params, table) == [i \in DOMAIN params |-> [params[i] EXCEPT !.t = Substitute(@, table)]]
CheckCopy(d, table) ==
    CheckBody(d, CopyOf(d.params, table), Substitute(d.returns, table),
              [i \in DOMAIN d.body |-> SubstituteStatement(d.body[i], table)])
CheckFunction(d, args) ==
    IF Predeclared(d) THEN CheckedDeclaration(d, d.params, d.returns, <<>>, None, <<>>, TRUE)
    ELSE CheckCopy(d, Table(d, args))
CheckDeclaration(d, args) == IF d.k = "global" THEN CheckGlobal(d) ELSE CheckFunction(d, args)

-----------------------------------------------------------------------------
(* Checking: a copy is made once for every type a template is used with,   *)
(* when it is first referred to, and not too deep.                         *)
Waiting(name, args, depth) == [name |-> name, args |-> args, depth |-> depth]
InOrder(k) ==
    LET ids == {id \in DOMAIN values : values[id].k = k}
        before(id) == {other \in ids : values[other].at < values[id].at}
    IN [i \in 1 .. Cardinality(ids) |-> CHOOSE id \in ids : Cardinality(before(id)) = i - 1]
Untemplated(ids) == SelectSeq(ids, LAMBDA id : values[id].vars = <<>>)
Declarations == Untemplated(InOrder("global") \o InOrder("function"))
Instances(c, depth) ==
    LET made == SelectSeq(c.refs, LAMBDA ref : ref.args # <<>>)
    IN [i \in DOMAIN made |-> Waiting(made[i].name, made[i].args, depth + 1)]

BeginTypecheck ==
    /\ phase = "kinds" /\ (order = <<>> \/ Crashed)
    /\ IF errors = {} /\ \A id \in DOMAIN values : SignatureErrors(values[id], ToSet(values[id].vars)) = {}
       THEN /\ phase' = "types"
            /\ pending' = [i \in DOMAIN Declarations |-> Waiting(Qualified(Declarations[i], <<>>), <<>>, 0)]
       ELSE phase' = "rejected" /\ UNCHANGED pending
    /\ UNCHANGED <<kindVars, values, checked>>

TypecheckAgain(w) ==
    /\ w.name \in DOMAIN checked /\ w.depth <= MAX_INSTANTIATION_DEPTH
    /\ pending' = Tail(pending) /\ UNCHANGED <<phase, checked>>
TypecheckTooDeep(w) ==
    /\ w.depth > MAX_INSTANTIATION_DEPTH
    /\ phase' = "rejected" /\ UNCHANGED <<pending, checked>>
TypecheckFirst(w) ==
    /\ w.name \notin DOMAIN checked /\ w.depth <= MAX_INSTANTIATION_DEPTH
    /\ \E c \in {CheckDeclaration(values[w.name.id], w.args)} :
         IF c.ok
         THEN /\ pending' = Instances(c, w.depth) \o Tail(pending)
              /\ checked' = [n \in DOMAIN checked \cup {w.name} |-> IF n = w.name THEN c ELSE checked[n]]
              /\ UNCHANGED phase
         ELSE phase' = "rejected" /\ UNCHANGED <<pending, checked>>
Typecheck ==
    /\ phase = "types" /\ pending # <<>>
    /\ \E w \in {Head(pending)} : TypecheckAgain(w) \/ TypecheckTooDeep(w) \/ TypecheckFirst(w)
    /\ UNCHANGED <<kindVars, values>>

-----------------------------------------------------------------------------
(* Live is what is run or exported, what the globals are initialized with, *)
(* and what that refers to.                                                *)
Refers(name) == IF name \in DOMAIN checked THEN {ref.name : ref \in ToSet(checked[name].refs)} ELSE {}
RECURSIVE Propagate(_)
Propagate(live) ==
    LET linked == live \cup UNION {Refers(name) : name \in live}
    IN IF linked = live THEN live ELSE Propagate(linked)
InitiallyLive ==
    UNION {Refers(name) : name \in {name \in DOMAIN checked : checked[name].k = "global"}}
    \cup {name \in DOMAIN checked : name = ENTRYPOINT \/ ".export" \in checked[name].tags}
LiveFunctions == {name \in Propagate(InitiallyLive) : name \in DOMAIN checked /\ checked[name].k = "function"}

(* A function.  A result in memory has a parameter of its own, the first.  *)
ParameterOf(p) == [id |-> <<Qualified(p.id, <<>>), -1>>, size |-> Size(p.t)]
Parameters(c) ==
    (IF InMemory(c.returns) THEN <<[id |-> <<Qualified("$return", <<>>), 0>>, size |-> 1]>> ELSE <<>>)
    \o [i \in DOMAIN c.params |-> ParameterOf(c.params[i])]
FunctionBody(name, c) == CompileBlock(FunctionCompiler(name, Parameters(c)), c.body)

(* A global.  A string that is an array and a constant are its data.       *)
RECURSIVE IsConstant(_)
IsConstant(e) ==
    \/ e.k \in {"int", "float", "bool", "void", "null", "sizeof"}
    \/ e.k = "cast" /\ IsConstant(e.es[1])
RECURSIVE ConstantOf(_)
ConstantOf(e) ==
    CASE e.k = "float" -> floatToInt(e.n)
      [] e.k \in {"void", "null"} -> 0
      [] e.k = "sizeof" -> Size(Resolve(e.type, NoBindings))
      [] e.k = "cast" -> ConstantOf(e.es[1])
      [] OTHER -> e.n
IsText(c) == c.e.k = "string" /\ Resolve(c.t, NoBindings).k = "array"
GlobalData(name, c) ==
    CASE Predeclared(c) \/ ~Given(c.e) -> <<>>
      [] IsText(c) -> <<<<"data", <<name, 0>>, c.e.op>>>>
      [] IsConstant(c.e) -> <<<<"data", <<name, 0>>, <<ConstantOf(c.e)>>>>>>
      [] OTHER -> <<<<"data", <<name, 0>>, [i \in 1 .. Size(c.t) |-> 0]>>>>
GlobalValue(s, name, c) ==
    Then(Allocate(s), LAMBDA a, r :
      Then(EmitConversion(Emit(a, <<<<"ref", r, <<name, 0>>>>>>), s.r, c.e.t, c.t), LAMBDA part, pr :
        IF pr = s.r THEN Store(part, r, s.r, c.t) ELSE Deallocate(StaticCopy(part, r, pr, Size(c.t)), pr)))
InitializeGlobal(name, c) == GlobalValue(Compile(GlobalCompiler(name), c.e, FALSE), name, c)
Initializer(name) ==
    LET c == checked[name]
    IN IF ~Given(c.e) \/ IsText(c) \/ IsConstant(c.e) THEN GlobalCompiler(name) ELSE InitializeGlobal(name, c)

(* The function that initializes the globals, their temporaries behind it. *)
INIT == Qualified("_init", <<>>)
GlobalInit(ss) ==
    <<<<"label", Label(INIT)>>>> \o Push(RET) \o FlattenSeq([i \in DOMAIN ss |-> ss[i].code])
    \o Pop(1) \o <<<<"jmp", 0, 1, 0>>>> \o FlattenSeq([i \in DOMAIN ss |-> TemporaryData(ss[i])])

(* What is compiled: the compilers of the globals' initializers and of the *)
(* functions, and the directives they leave.                               *)
GlobalNames == [i \in DOMAIN InOrder("global") |-> Qualified(InOrder("global")[i], <<>>)]
Initializers == [i \in DOMAIN GlobalNames |-> Initializer(GlobalNames[i])]
Bodies == [name \in {name \in LiveFunctions : ~Predeclared(checked[name])} |-> FunctionBody(name, checked[name])]
CompiledDeclaration(bodies, name) ==
    IF Interrupt(checked[name]) THEN CompiledInterrupt(bodies[name]) ELSE CompiledFunction(bodies[name])
Directives(bodies, initializers) ==
    LET functions == FoldSet(LAMBDA name, code : CompiledDeclaration(bodies, name) \o code, <<>>, DOMAIN bodies)
        datas == [i \in DOMAIN GlobalNames |-> GlobalData(GlobalNames[i], checked[GlobalNames[i]])]
    IN GlobalInit(initializers) \o functions \o FlattenSeq(datas)
=============================================================================

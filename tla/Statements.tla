----------------------------- MODULE Statements ------------------------------
(***************************************************************************)
(* The typechecking and the code of statements                             *)
(* (src/src/lowlevel/statements.ts).  A statement is a node: its class     *)
(* `k', an identifier, a type, its expressions `es' and its blocks, each a *)
(* sequence of statements.                                                 *)
(***************************************************************************)
EXTENDS Expressions

Statement(k, id, type, es, blocks) ==
    [k |-> k, id |-> id, type |-> type, es |-> es, blocks |-> blocks, ok |-> TRUE, refs |-> <<>>,
     name |-> <<Unnamed, 0>>]
VarDeclared(id, t, e) == Statement("var", id, t, <<e>>, <<>>)
VarInferred(id, e)  == Statement("var", id, NoType, <<e>>, <<>>)
Assign(place, e)    == Statement("assignment", "", NoType, <<place, e>>, <<>>)
Do(e)               == Statement("expression", "", NoType, <<e>>, <<>>)
If(c, a, b)         == Statement("if", "", NoType, <<c>>, <<a, b>>)
For(i, c, u, b)     == Statement("for", "", NoType, <<c>>, <<<<i>>, <<u>>, b>>)
While(c, b)         == Statement("while", "", NoType, <<c>>, <<b>>)
Return(e)           == Statement("return", "", NoType, <<e>>, <<>>)
Break               == Statement("break", "", NoType, <<>>, <<>>)
Continue            == Statement("continue", "", NoType, <<>>, <<>>)
Delete(e)           == Statement("delete", "", NoType, <<e>>, <<>>)
Nested(b)           == Statement("block", "", NoType, <<>>, <<b>>)

RECURSIVE SubstituteStatement(_, _)
SubstituteStatement(st, table) ==
    [st EXCEPT !.type = Substitute(@, table), !.es = [i \in DOMAIN @ |-> SubstituteExpression(@[i], table)],
               !.blocks = [i \in DOMAIN @ |-> [j \in DOMAIN @[i] |-> SubstituteStatement(@[i][j], table)]]]

-----------------------------------------------------------------------------
(* Checking gives a statement back, and the context after it.  A name is   *)
(* known by its identifier and the depth of its scope.                     *)
Scope(ctx) == [ctx EXCEPT !.depth = @ + 1]
InLoop(ctx) == [ctx EXCEPT !.loop = TRUE]
LocalName(id, ctx) == <<Qualified(id, <<>>), -ctx.depth>>
Redefined(id, ctx) == id \in DOMAIN ctx.names /\ ctx.names[id].name = LocalName(id, ctx)
SetName(ctx, id, t, storage) ==
    [ctx EXCEPT !.names = [x \in DOMAIN @ \cup {id} |->
        IF x = id THEN [t |-> t, storage |-> storage, name |-> LocalName(id, ctx)] ELSE ctx.names[x]]]

Checked(st, es, blocks, ok) ==
    LET ofParts == [i \in DOMAIN es |-> es[i].refs]
        ofBlocks == [i \in DOMAIN FlattenSeq(blocks) |-> FlattenSeq(blocks)[i].refs]
    IN [st EXCEPT !.es = es, !.blocks = blocks, !.refs = FlattenSeq(ofParts \o ofBlocks),
                  !.ok = /\ ok /\ \A i \in DOMAIN es : es[i].ok
                         /\ \A i \in DOMAIN blocks : \A j \in DOMAIN blocks[i] : blocks[i][j].ok]
After(st, ctx) == [st |-> st, ctx |-> ctx]

(* A statement's expressions are checked before what is in its blocks; the *)
(* value of an assignment after its place.                                 *)
WantedBy(st, ctx) ==
    CASE st.k = "var"    -> st.type
      [] st.k = "return" -> ctx.returns
      [] OTHER           -> NoType
CheckSecond(st, ctx, e) == IF st.k = "assignment" THEN <<e, Check(st.es[2], ctx, e.t)>> ELSE <<e>>
CheckExpressions(st, ctx) ==
    IF st.es = <<>> THEN <<>> ELSE CheckSecond(st, ctx, Check(st.es[1], ctx, WantedBy(st, ctx)))

RECURSIVE CheckSequence(_, _)
CheckBlock(sts, ctx) == CheckSequence(sts, Scope(ctx)).sts

Declares(st, ctx, e, t) ==
    After([Checked(st, <<e>>, <<>>, /\ st.type = NoType \/ ~Given(e) \/ IsConvertibleTo(e.t, st.type)
                                    /\ ~Redefined(st.id, ctx))
             EXCEPT !.type = t, !.name = LocalName(st.id, ctx)],
          SetName(ctx, st.id, t, "local"))
CheckVar(st, ctx, e) == Declares(st, ctx, e, IF st.type # NoType THEN Evaluate(st.type, NoBindings) ELSE e.t)
CheckAssignment(st, place, e) ==
    Checked(st, <<place, e>>, <<>>, IsConvertibleTo(e.t, place.t) /\ Assignable(place))
CheckIf(st, ctx, c) == Checked(st, <<c>>, [i \in 1 .. 2 |-> CheckBlock(st.blocks[i], ctx)], BooleanTest(c.t))
CheckForBody(st, c, first, update) ==
    Checked(st, <<c>>, <<first, update.sts, CheckBlock(st.blocks[3], InLoop(update.ctx))>>, BooleanTest(c.t))
CheckFor(st, first, c) == CheckForBody(st, c, first.sts, CheckSequence(st.blocks[2], first.ctx))
CheckWhile(st, ctx, c) ==
    Checked(st, <<c>>, <<CheckBlock(st.blocks[1], InLoop(ctx))>>, BooleanTest(c.t))
CheckReturn(st, ctx, e) ==
    [Checked(st, <<e>>, <<>>, IsConvertibleTo(IF Given(e) THEN e.t ELSE VoidType, ctx.returns)) EXCEPT
       !.type = ctx.returns]
CheckDelete(st, e, t) ==
    Checked(st, <<e>>, <<>>, t.k \in {"pointer", "array", "slice"} /\ (t.k = "slice" => Assignable(e)))

(* The condition of a `for' is in the scope of what comes before it.       *)
Begun(st, ctx) ==
    IF st.k = "for" THEN CheckSequence(st.blocks[1], Scope(ctx)) ELSE [sts |-> <<>>, ctx |-> ctx]
CheckKind(st, ctx, begun, es) ==
    CASE st.k = "assignment" -> CheckAssignment(st, es[1], es[2])
      [] st.k = "expression" -> Checked(st, es, <<>>, TRUE)
      [] st.k = "if"         -> CheckIf(st, ctx, es[1])
      [] st.k = "for"        -> CheckFor(st, begun, es[1])
      [] st.k = "while"      -> CheckWhile(st, ctx, es[1])
      [] st.k = "return"     -> CheckReturn(st, ctx, es[1])
      [] st.k \in {"break", "continue"} -> Checked(st, es, <<>>, ctx.loop)
      [] st.k = "delete"     -> CheckDelete(st, es[1], Concrete(es[1]))
      [] st.k = "block"      -> Checked(st, es, <<CheckBlock(st.blocks[1], ctx)>>, TRUE)
CheckChecked(st, ctx, begun, es) ==
    IF st.k = "var" THEN CheckVar(st, ctx, es[1]) ELSE After(CheckKind(st, ctx, begun, es), ctx)
CheckBegun(st, ctx, begun) == CheckChecked(st, ctx, begun, CheckExpressions(st, begun.ctx))
CheckStatement(st, ctx) == CheckBegun(st, ctx, Begun(st, ctx))

Following(st, rest) == [sts |-> <<st>> \o rest.sts, ctx |-> rest.ctx]
CheckRest(c, sts) == Following(c.st, CheckSequence(sts, c.ctx))
CheckSequence(sts, ctx) ==
    IF sts = <<>> THEN [sts |-> <<>>, ctx |-> ctx] ELSE CheckRest(CheckStatement(Head(sts), ctx), Tail(sts))

(* Whether a statement surely returns.                                     *)
RECURSIVE Returns(_)
BlockReturns(sts) == \E i \in DOMAIN sts : Returns(sts[i])
Returns(st) ==
    \/ st.k = "return"
    \/ st.k \in {"if", "block"} /\ \A i \in DOMAIN st.blocks : BlockReturns(st.blocks[i])

-----------------------------------------------------------------------------
RECURSIVE CompileBlock(_, _)

VarZero(s, st) ==
    WithRegister(s, LAMBDA a, r : WithRegister(a, LAMBDA b, zeroR :
      StaticStore(Emit(EmitIdentifier(b, st.name, "local", r, FALSE), <<<<"const", zeroR, 0>>>>),
                  r, zeroR, Size(st.type))))
VarValue(s, st) ==
    WithRegister(s, LAMBDA a, r :
      Then(EmitConversion(EmitIdentifier(a, st.name, "local", r, FALSE), s.r, st.es[1].t, st.type),
           LAMBDA part, pr : Deallocate(Store(part, r, pr, st.type), pr)))
StoreVar(s, st) == AllocateStorage(s, st.name, Size(st.type))

AssignIn(s, e, r, t) == Deallocate(Deallocate(Store(AssignmentCheck(s, e, r, s.r), r, s.r, t), r), s.r)
AssignmentValue(s, st, r) == AssignIn(Converted(s, st.es[2], st.es[1].t), st.es[1], r, st.es[1].t)
CompileAssignment(s, st) == AssignmentValue(Value(s, st.es[2]), st, s.r)
CompileExpressionKeeping(s) == s
CompileExpression(s) == Deallocate(s, s.r)

IfRight(s, st, cr, r, end) ==
    Deallocate(Deallocate(Emit(CompileBlock(s, st.blocks[2]), <<<<"label", end>>>>), cr), r)
IfLeft(s, st, cr, r, else, end) ==
    IfRight(Otherwise(CompileBlock(s, st.blocks[1]), r, else, end), st, cr, r, end)
IfBranched(s, st, cr, else, end) == IfLeft(s, st, cr, s.r, else, end)
CompileIf(s, st) ==
    IfBranched(Branch(s, "jz", s.r, Concrete(st.es[1]), 2), st, s.r, Reference(s, 1), Reference(s, 2))

(* A loop tests its condition at the top; `continue' goes to the update.   *)
LoopTest(s, r, t, end) ==
    Then(TestRegister(s, s.r, t), LAMBDA tested, tr :
      Returning(FreeTest(JumpOn(tested, "jz", tr, r, end), tr, s.r), s.r))
LoopEnd(s, r, top, end) == Emit(s, <<<<"ref", r, top>>, <<"jmp", 0, r, 0>>, <<"label", end>>>>)
LoopUpdate(s, update, next) == IF update = <<>> THEN s ELSE CompileBlock(Emit(s, <<<<"label", next>>>>), update)
LoopBody(s, body, end, next) == LeaveLoop(CompileBlock(EnterLoop(s, end, next), body))
LoopTested(s, body, update, r, top, next, end) ==
    Deallocate(Deallocate(LoopEnd(LoopUpdate(LoopBody(s, body, end, next), update, next), r, top, end), s.r), r)
CompileLoop(s, e, body, update, top, next, end) ==
    LoopTested(LoopTest(Value(Emit(s, <<<<"label", top>>>>), e), s.r, Concrete(e), end),
               body, update, s.r, top, next, end)
ForBegun(s, st) ==
    CompileLoop(Allocate(GenerateReferences(s, 3)), st.es[1], st.blocks[3], st.blocks[2],
                Reference(s, 1), Reference(s, 2), Reference(s, 3))
CompileFor(s, st) == ForBegun(CompileBlock(s, st.blocks[1]), st)
CompileWhile(s, st) ==
    CompileLoop(Allocate(GenerateReferences(s, 2)), st.es[1], st.blocks[1], <<>>,
                Reference(s, 1), Reference(s, 1), Reference(s, 2))
CompileJump(s, refs) ==
    IF refs = <<>> THEN Fail(s)
    ELSE WithRegister(s, LAMBDA a, r : Emit(a, <<<<"ref", r, Last(refs)>>, <<"jmp", 0, r, 0>>>>))

(* A result in memory is copied to where the caller asked for it.          *)
ReturnInMemory(s, r, t) ==
    WithRegister(s, LAMBDA a, dr :
      WithRegister(EmitIdentifier(a, <<Qualified("$return", <<>>), 0>>, "parameter", dr, TRUE), LAMBDA b, saved :
        Move(StaticCopy(Move(b, saved, dr), dr, r, Size(t)), r, saved)))
ReturnWord(s, r, t) == Deallocate(EmitReturn(IF InMemory(t) THEN ReturnInMemory(s, r, t) ELSE s, r), r)
ReturnVoid(s) == Then(Constant(s, 0), LAMBDA part, r : Deallocate(EmitReturn(part, r), r))
ReturnValue(s, e, t) == Then(Converted(s, e, t), LAMBDA part, r : ReturnWord(part, r, t))

(* A deleted slice becomes null; its register is given back, that of a     *)
(* pointer is, and what the call leaves is not.                            *)
DeleteSlice(s, dr) ==
    Then(Allocate(s), LAMBDA a, pr :
      Then(EmitDelete(Emit(a, <<<<"load", pr, dr, 0>>>>), pr), LAMBDA deleted, result :
        Deallocate(WithRegister(Deallocate(deleted, pr), LAMBDA b, zeroR :
          StoreDescriptor(Emit(b, <<<<"const", zeroR, 0>>>>), dr, zeroR, zeroR, zeroR)), dr)))
CompileDelete(s, t) == IF t.k = "slice" THEN DeleteSlice(s, s.r) ELSE EmitDelete(s, s.r)

(* What is done with the value of the first expression.                    *)
CompileGiven(s, st) ==
    CASE st.k = "var"        -> VarValue(s, st)
      [] st.k = "assignment" -> CompileAssignment(s, st)
      [] st.k = "expression" -> CompileExpression(s)
      [] st.k = "if"         -> CompileIf(s, st)
      [] st.k = "return"     -> ReturnValue(s, st.es[1], st.type)
      [] st.k = "delete"     -> CompileDelete(s, Concrete(st.es[1]))
CompileWith(s, st) ==
    IF Given(st.es[1]) THEN CompileGiven(Compile(s, st.es[1], st.k = "assignment"), st)
    ELSE IF st.k = "var" THEN VarZero(s, st) ELSE ReturnVoid(s)
CompileStatement(s, st) ==
    CASE st.k = "for"        -> CompileFor(s, st)
      [] st.k = "while"      -> CompileWhile(s, st)
      [] st.k = "break"      -> CompileJump(s, s.breaks)
      [] st.k = "continue"   -> CompileJump(s, s.continues)
      [] st.k = "block"      -> CompileBlock(s, st.blocks[1])
      [] OTHER -> CompileWith(IF st.k = "var" THEN StoreVar(s, st) ELSE s, st)
CompileBlock(s, sts) == IF sts = <<>> THEN s ELSE CompileBlock(CompileStatement(s, Head(sts)), Tail(sts))
=============================================================================

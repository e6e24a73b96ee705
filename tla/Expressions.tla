----------------------------- MODULE Expressions -----------------------------
(***************************************************************************)
(* The code of expressions (compile of the classes of                      *)
(* src/src/lowlevel/expressions.ts).  The register a value is left in is   *)
(* `r' of the compiler; a value of several words is left in memory and its *)
(* address in the register, as is a place to be assigned to (`lvalue').    *)
(***************************************************************************)
EXTENDS ExpressionTypes

Word(t) == Integral(t) \/ IsFloat(t)
Dereferences(e, lvalue) == ~lvalue /\ Word(Concrete(e))
Loaded(s, r, when) == IF when THEN Emit(s, Peeked(r)) ELSE s
InMemory(t) == ~Word(t) /\ ~IsConvertibleTo(t, VoidType)

(* Stores a value of type `t' at the address in `dr'.                      *)
Store(s, dr, sr, t) == IF Word(t) THEN StaticStore(s, dr, sr, 1) ELSE StaticCopy(s, dr, sr, Size(t))
Constant(s, n) == Then(Allocate(s), LAMBDA a, r : Emit(a, <<<<"const", r, n>>>>))

CompileName(s, e, load) ==
    Then(Allocate(s), LAMBDA a, r :
      Returning(EmitIdentifier(a, e.name, e.storage, r, e.storage # "function" /\ load), r))

RECURSIVE Compile(_, _, _)

(* The code of an expression, or of zero for one that is not given.        *)
Value(s, e) == Compile(s, e, FALSE)
ValueOrZero(s, e) == IF Given(e) THEN Value(s, e) ELSE Constant(s, 0)
Converted(s, e, t) == EmitConversion(s, s.r, e.t, t)

(* The parts of a literal are stored one after the other in the frame; one *)
(* that is not given is zero.  Storing a few words at once has moved `ri'  *)
(* behind them.                                                            *)
PartValue(s, e, t) == IF Given(e) THEN Converted(Value(s, e), e, t) ELSE Constant(s, 0)
StorePart(s, ri, e, t) ==
    Deallocate(IF Given(e) THEN Store(s, ri, s.r, t) ELSE StaticStore(s, ri, s.r, Size(t)), s.r)
CompilePart(s, ri, e, t, last) ==
    LET ahead == (Given(e) /\ Word(t)) \/ Size(t) <= 1
    IN Increment(StorePart(PartValue(s, e, t), ri, e, t), ri, IF ahead /\ ~last THEN Size(t) ELSE 0)
RECURSIVE CompileParts(_, _, _, _)
CompileParts(s, ri, es, ts) ==
    IF es = <<>> THEN Deallocate(s, ri)
    ELSE CompileParts(CompilePart(s, ri, Head(es), Head(ts), Len(es) = 1), ri, Tail(es), Tail(ts))
PartsFrom(s, r, id, es, ts) ==
    Returning(CompileParts(Move(EmitIdentifier(s, id, "local", r, FALSE), s.r, r), s.r, es, ts), r)
LiteralIn(s, id, es, ts) == PartsFrom(Allocate(s), s.r, id, es, ts)
CompileLiteral(s, es, ts) ==
    LiteralIn(Allocate(AllocateStorage(GenerateReferences(s, 1), Reference(s, 1),
                                       FoldSeq(LAMBDA t, n : Size(t) + n, 0, ts))),
              Reference(s, 1), es, ts)
PartsOf(e) ==
    CASE e.k = "string" -> [i \in DOMAIN e.op |-> [Num(e.op[i]) EXCEPT !.t = ByteType]]
      [] e.k = "repeat" -> [i \in 1 .. e.n |-> e.es[1]]
      [] OTHER -> e.es
PartTypes(t, n) == IF t.k = "struct" THEN MemberTypes(t) ELSE [i \in 1 .. n |-> t.of]
CompileParted(s, e, es) == CompileLiteral(s, es, PartTypes(Concrete(e), Len(es)))
CompileSizeof(s, e) == Constant(s, Size(Resolve(e.type, NoBindings)))

-----------------------------------------------------------------------------
(* Allocation: the words a call of the allocator gives are initialized, to *)
(* zero when there is nothing to initialize them with.  Storing several    *)
(* words moves `dr', which is saved.                                       *)
Initialize(s, e, dr, init) ==
    IF Integral(e.type) \/ ~Given(e.es[1]) THEN StaticStore(s, dr, init, Size(e.type))
    ELSE StaticCopy(s, dr, init, Size(e.type))
InitializeMany(s, e, dr, init) ==
    WithRegister(s, LAMBDA a, saved : Move(Initialize(Move(a, saved, dr), e, dr, init), dr, saved))
InitializeNew(s, e, dr, init) ==
    IF Size(e.type) > 1 THEN InitializeMany(s, e, dr, init) ELSE StaticStore(s, dr, init, 1)
NewInitialized(s, e, dr) == Returning(Deallocate(InitializeNew(s, e, dr, s.r), s.r), dr)
NewAllocated(s, e) == NewInitialized(ValueOrZero(s, e.es[1]), e, s.r)
CompileNew(s, e) == NewAllocated(Then(Constant(s, Size(e.type)), EmitNew), e)

Scaled(s, dr, sr, size) ==
    IF size <= 1 THEN Move(s, dr, sr)
    ELSE WithRegister(s, LAMBDA a, r : Emit(a, <<<<"const", r, size>>, <<"mul", dr, sr, r>>>>))
StoreDescriptor(s, sliceR, pr, lr, cr) ==
    Emit(s, <<<<"store", sliceR, pr, 0>>, <<"add", sliceR, sliceR, ONE>>, <<"store", sliceR, lr, 0>>,
              <<"add", sliceR, sliceR, ONE>>, <<"store", sliceR, cr, 0>>>>)

(* The same element is copied to every place, until as many are as `cr'.   *)
CopyElement(s, d, src, c, er, size) ==
    Increment(StaticCopy(Emit(s, <<<<"mov", src, er, 0>>>>), d, src, size), c, 1)
StructuralEllipsis(s, dr, er, cr, size) ==
    WithRegister(GenerateReferences(s, 1), LAMBDA a, loopR : WithRegister(a, LAMBDA b, d :
      WithRegister(b, LAMBDA f, src : WithRegister(f, LAMBDA g, c : WithRegister(g, LAMBDA h, t :
        Emit(CopyElement(Emit(h, <<<<"ref", loopR, Reference(s, 1)>>, <<"const", c, 0>>, <<"mov", d, dr, 0>>,
                                   <<"label", Reference(s, 1)>>>>), d, src, c, er, size),
             <<<<"eq", t, c, cr>>, <<"jz", 0, t, loopR>>>>))))))

FillNewArray(s, e, hr, er, sizeReg, cr) ==
    CASE ~Given(e.es[2]) \/ (e.op = "..." /\ Integral(Concrete(e).of)) -> DynamicStore(s, hr, er, sizeReg)
      [] Given(e.es[2]) /\ e.op = "..." /\ ~Integral(Concrete(e).of) ->
           StructuralEllipsis(s, hr, er, cr, Size(Concrete(e).of))
      [] OTHER -> DynamicCopy(s, hr, er, sizeReg)

(* The slice of an allocation that failed is zero; else its words are      *)
(* given their values.                                                     *)
StoreNull(s, sliceR, zeroR, endR, init) ==
    Emit(StaticStore(s, sliceR, zeroR, SLICE_DESCRIPTOR_SIZE), <<<<"jmp", 0, endR, 0>>, <<"label", init>>>>)
NullSlice(s, hr, sliceR) ==
    WithRegister(GenerateReferences(s, 2), LAMBDA a, endR : WithRegister(a, LAMBDA b, initR :
      Then(Allocate(b), LAMBDA c, zeroR :
        Returning(StoreNull(Emit(c, <<<<"const", zeroR, 0>>, <<"ref", endR, Reference(s, 1)>>,
                                      <<"ref", initR, Reference(s, 2)>>, <<"jnz", 0, hr, initR>>>>),
                            sliceR, zeroR, endR, Reference(s, 2)), zeroR))))
StoreElements(s, e, cr, hr, sizeR, sliceR) ==
    WithRegister(s, LAMBDA a, saved :
      StoreDescriptor(Deallocate(FillNewArray(Move(a, saved, hr), e, hr, s.r, sizeR, cr), s.r),
                      sliceR, saved, cr, cr))
FillSlice(s, e, cr, hr, sizeR, sliceR) ==
    Deallocate(StoreElements(ValueOrZero(s, e.es[2]), e, cr, hr, sizeR, sliceR), s.r)
NewSlice(s, e, cr, hr, sizeR, id) ==
    PlaceAgain(Emit(FoldLeft(Deallocate, FillSlice(NullSlice(s, hr, s.r), e, cr, hr, sizeR, s.r), <<sizeR, hr, cr>>),
                    <<<<"label", Reference(s, 1)>>>>), id, s.r)
MeasureArray(s, e, cr, hr) ==
    NewSlice(PlaceUnnamed(Scaled(s, s.r, cr, Size(Concrete(e).of)), SLICE_DESCRIPTOR_SIZE),
             e, cr, hr, s.r, Reference(s, 1))
ArrayAllocated(s, e, cr) == MeasureArray(Allocate(s), e, cr, s.r)
AllocateArray(s, e) ==
    ArrayAllocated(Then(Allocate(s), LAMBDA a, total : EmitNew(Scaled(a, total, s.r, Size(Concrete(e).of)), total)),
                   e, s.r)
CompileNewArray(s, e) == AllocateArray(Value(s, e.es[1]), e)

CastWord(s, op) ==
    Emit(s, CASE op = "nothing" -> <<>> [] op = "pointer" -> Peeked(s.r) [] OTHER -> <<<<op, s.r, s.r, 0>>>>)
CompileCast(s, e) == CastWord(Value(s, e.es[1]), e.op)
-----------------------------------------------------------------------------
(* A condition: a slice is tested by its pointer.                          *)
TestRegister(s, r, t) ==
    IF t.k = "slice" THEN Then(Allocate(s), LAMBDA a, tr : Emit(a, <<<<"load", tr, r, 0>>>>)) ELSE Returning(s, r)
FreeTest(s, tr, r) == IF tr # r THEN Deallocate(s, tr) ELSE s
JumpOn(s, jump, tested, r, to) == Emit(s, <<<<"ref", r, to>>, <<jump, 0, tested, r>>>>)
Branch(s, jump, cr, t, references) ==
    Then(TestRegister(s, cr, t), LAMBDA tested, tr :
      Then(Allocate(GenerateReferences(tested, references)), LAMBDA a, r :
        Returning(FreeTest(JumpOn(a, jump, tr, r, Reference(s, 1)), tr, cr), r)))
Otherwise(s, r, else, end) == Emit(s, <<<<"ref", r, end>>, <<"jmp", 0, r, 0>>, <<"label", else>>>>)

(* The register of the jump is not given back.                             *)
LogicalRight(s, lr, end) == Returning(Deallocate(Emit(Move(s, lr, s.r), <<<<"label", end>>>>), s.r), lr)
LogicalLeft(s, e, jump) ==
    LogicalRight(Value(Branch(s, jump, s.r, Concrete(e.es[1]), 1), e.es[2]), s.r, Reference(s, 1))
CompileAnd(s, e) == LogicalLeft(Value(s, e.es[1]), e, "jz")
CompileOr(s, e) == LogicalLeft(Value(s, e.es[1]), e, "jnz")

Operations ==
    [int |-> [op \in {"+", "-", "*", "/", "%", "|", "&", "<<", ">>", "==", "!=", "<", ">", "<=", ">="} |->
                CASE op = "+" -> "add" [] op = "-" -> "sub" [] op = "*" -> "mul" [] op = "/" -> "div"
                  [] op = "%" -> "mod" [] op = "|" -> "or" [] op = "&" -> "and" [] op = "<<" -> "shl"
                  [] op = ">>" -> "shr" [] op = "==" -> "eq" [] op = "!=" -> "neq"
                  [] op \in {"<", ">="} -> "lt" [] op \in {">", "<="} -> "gt"],
     float |-> [op \in {"+", "-", "*", "/", "==", "!=", "<", ">", "<=", ">="} |->
                CASE op = "+" -> "fadd" [] op = "-" -> "fsub" [] op = "*" -> "fmul" [] op = "/" -> "fdiv"
                  [] op \in {"==", "!="} -> "feq" [] op \in {"<", ">="} -> "flt" [] op \in {">", "<="} -> "fgt"],
     sint |-> [op \in {"/", "%", ">>", "<", ">", "<=", ">="} |->
                CASE op = "/" -> "sdiv" [] op = "%" -> "smod" [] op = ">>" -> "sar"
                  [] op \in {"<", ">="} -> "slt" [] op \in {">", "<="} -> "sgt"]]
Operation(op, t, float) ==
    IF float THEN Operations.float[op]
    ELSE IF op \in DOMAIN Operations.sint /\ IsSigned(t) THEN Operations.sint[op]
    ELSE Operations.int[op]

(* <= and >= are the opposite comparisons, and != of floats that of ==,    *)
(* compared with zero.                                                     *)
Inverted(s, r) ==
    Returning(WithRegister(s, LAMBDA a, zeroR : Emit(a, <<<<"const", zeroR, 0>>, <<"eq", r, r, zeroR>>>>)), r)
Finished(s, op, float) == IF op \in {"<=", ">="} \/ (op = "!=" /\ float) THEN Inverted(s, s.r) ELSE s
Operated(s, op, t, lr, rr, float) ==
    Deallocate(Deallocate(Finished(Emit(s, <<<<Operation(op, t, float), s.r, lr, rr>>>>), op, float), lr), rr)
OperandsGiven(s, op, t, lr) == Operated(Allocate(s), op, t, lr, s.r, IsFloat(t))
LeftGiven(s, e) == OperandsGiven(Value(s, e.es[2]), e.op, Concrete(e.es[1]), s.r)
CompileBinary(s, e) ==
    CASE e.op = "&&" -> CompileAnd(s, e)
      [] e.op = "||" -> CompileOr(s, e)
      [] OTHER -> LeftGiven(Value(s, e.es[1]), e)

CompileNegate(s, t) ==
    Returning(WithRegister(s, LAMBDA a, zeroR :
      Emit(a, <<<<"const", zeroR, 0>>, <<IF IsFloat(t) THEN "fsub" ELSE "sub", s.r, zeroR, s.r>>>>)), s.r)
CompileNot(s, t) ==
    Then(Allocate(Loaded(s, s.r, t.k = "slice")), LAMBDA a, dr :
      Deallocate(Emit(a, <<<<"const", dr, 0>>, <<"eq", dr, dr, s.r>>>>), s.r))
PlaceIn(s, r, offset, load) == Returning(Loaded(Increment(s, r, offset), r, load), r)
Measures(e) == e.op \in {"len", "cap"} /\ Concrete(e.es[1]).k = "array"
OnUnary(s, e, load) ==
    CASE e.op \in {"+", "&"} -> s
      [] e.op = "-" -> CompileNegate(s, Concrete(e.es[1]))
      [] e.op = "!" -> CompileNot(s, Concrete(e.es[1]))
      [] e.op = "*" -> PlaceIn(NullCheck(s, s.r), s.r, 0, load)
      [] e.op = "cap" -> PlaceIn(s, s.r, 2, load)
      [] e.op = "len" -> PlaceIn(s, s.r, 1, load)
CompileUnary(s, e, load) ==
    IF Measures(e) THEN Constant(s, Concrete(e.es[1]).length)
    ELSE OnUnary(Compile(s, e.es[1], e.op = "&"), e, load)

(* A slice's length may be set up to its capacity.                         *)
AssignmentCheck(s, e, lr, vr) ==
    IF e.k # "unary" \/ e.op # "len" \/ Concrete(e.es[1]).k # "slice" THEN s
    ELSE WithRegister(s, LAMBDA a, ar : CapacityCheck(Emit(a, <<<<"add", ar, lr, ONE>>>>), ar, vr))

-----------------------------------------------------------------------------
(* A call: a result in memory has storage of the caller, whose address is  *)
(* the first argument.                                                     *)
PushReturnDestination(s, t) ==
    Then(PlaceUnnamed(s, Size(t)), LAMBDA a, r : Deallocate(Emit(a, Push(r)), r))
PushStructure(s, r, t) ==
    WithRegister(PushMany(s, Size(t)), LAMBDA a, sp : StaticCopy(Move(a, sp, SP), sp, r, Size(t)))
PushPart(s, t) == Deallocate(IF Word(t) THEN Emit(s, Push(s.r)) ELSE PushStructure(s, s.r, t), s.r)
RECURSIVE PushArguments(_, _, _)
PushArguments(s, es, ts) ==
    IF es = <<>> THEN s
    ELSE PushArguments(PushPart(Converted(Value(s, Head(es)), Head(es), Head(ts)), Head(ts)), Tail(es), Tail(ts))
CallSaving(s, e, t, target, inMemory, saves) ==
    EndCall(PushArguments(IF inMemory THEN PushReturnDestination(s, t.returns) ELSE s, Tail(e.es), t.args),
            target, saves, FoldSeq(LAMBDA a, n : Size(a) + n, IF inMemory THEN 1 ELSE 0, t.args))
CallChecked(s, e, t, target) ==
    CallSaving(BeginCall(s, target), e, t, target, InMemory(t.returns), SavedByCall(SaveFramePointer(s), target))
CallTarget(s, e) == CallChecked(NullCheck(s, s.r), e, Concrete(e.es[1]), s.r)
CompileCall(s, e) == CallTarget(Value(s, e.es[1]), e)

(* Places in a value.                                                      *)
CompileDot(s, e, load) == PlaceIn(s, s.r, e.n, load)
CompileArrow(s, e, load) == PlaceIn(NullCheck(s, s.r), s.r, e.n, load)

IndexCheck(s, e, er, ir) ==
    LET t == Concrete(e.es[1])
    IN CASE e.op = "unsafe" -> NullCheck(s, er)
         [] e.op = "safe" /\ t.k = "array" -> StaticBoundsCheck(s, ir, t.length)
         [] OTHER -> BoundsCheck(s, er, ir, 1)
ElementAt(s, e, r, ir) ==
    Emit(Loaded(Scaled(IndexCheck(s, e, r, ir), ir, ir, e.n), r, Concrete(e.es[1]).k = "slice"),
         <<<<"add", r, r, ir>>>>)
IndexGiven(s, e, load, r) == Returning(Deallocate(Loaded(ElementAt(s, e, r, s.r), r, load), s.r), r)
CompileIndex(s, e, load) == IndexGiven(Value(s, e.es[2]), e, load, s.r)

(* The part of an array or slice from lo to hi: no bound is checked.  What *)
(* is done with the whole knows its first word, length and capacity.       *)
OnWhole(s, e, er, Code(_, _, _, _)) ==
    IF Concrete(e.es[1]).k = "array"
    THEN WithRegister(s, LAMBDA a, len : Code(Emit(a, <<<<"const", len, Concrete(e.es[1]).length>>>>), er, len, len))
    ELSE WithRegister(s, LAMBDA a, p : WithRegister(a, LAMBDA b, cap : WithRegister(b, LAMBDA c, len :
           Code(Emit(c, <<<<"load", p, er, 0>>, <<"add", er, er, ONE>>, <<"load", len, er, 0>>,
                          <<"add", er, er, ONE>>, <<"load", cap, er, 0>>>>), p, len, cap))))
Top(s, e, hi, len) ==
    IF Given(e.es[3]) THEN Returning(s, hi) ELSE Then(Allocate(s), LAMBDA a, r : Emit(a, <<<<"mov", r, len, 0>>>>))
PartOf(s, e, lo, hi, er, pr, lr, cr) ==
    OnWhole(s, e, er, LAMBDA whole, p, len, cap : Then(Top(whole, e, hi, len), LAMBDA t, top :
      LET measured == Emit(t, <<<<"sub", lr, top, lo>>, <<"sub", cr, cap, lo>>>>)
      IN Deallocate(Emit(Scaled(measured, lo, lo, e.n), <<<<"add", pr, p, lo>>>>), top)))
WholeGiven(s, e, lo, hi, pr, lr, cr) == Deallocate(Deallocate(PartOf(s, e, lo, hi, s.r, pr, lr, cr), lo), s.r)
HighGiven(s, e, lo, pr, lr, cr) == WholeGiven(Value(s, e.es[1]), e, lo, s.r, pr, lr, cr)
LowGiven(s, e, pr, lr, cr) == HighGiven(IF Given(e.es[3]) THEN Value(s, e.es[3]) ELSE s, e, s.r, pr, lr, cr)
Described(s, pr, lr, cr) ==
    Then(PlaceUnnamed(s, SLICE_DESCRIPTOR_SIZE), LAMBDA placed, sr :
      PlaceAgain(FoldLeft(Deallocate, StoreDescriptor(placed, sr, pr, lr, cr), <<pr, lr, cr>>),
                  Reference(s, 1), sr))
PartIn(s, e, pr, lr, cr) == Described(LowGiven(ValueOrZero(s, e.es[2]), e, pr, lr, cr), pr, lr, cr)
CapacityIn(s, e, pr, lr) == PartIn(s, e, pr, lr, s.r)
LengthIn(s, e, pr) == CapacityIn(Allocate(s), e, pr, s.r)
PointerIn(s, e) == LengthIn(Allocate(s), e, s.r)
CompileSlice(s, e) == PointerIn(Allocate(s), e)

(* Both values are left in the register of the condition.                  *)
ElseGiven(s, cr, taken, end) ==
    Returning(FoldLeft(Deallocate, Emit(Move(s, cr, s.r), <<<<"label", end>>>>), taken \o <<s.r>>), cr)
ThenGiven(s, e, cr, r, else, end) ==
    ElseGiven(Value(Otherwise(Move(s, cr, s.r), r, else, end), e.es[3]), cr, <<r, s.r>>, end)
Branched(s, e, cr, else, end) == ThenGiven(Value(s, e.es[2]), e, cr, s.r, else, end)
CompileConditional(s, e) ==
    Branched(Branch(s, "jz", s.r, Concrete(e.es[1]), 2), e, s.r, Reference(s, 1), Reference(s, 2))

CompileClass(s, e, load) ==
    CASE e.k = "name"     -> CompileName(s, e, load)
      [] e.k \in {"int", "bool", "char"} -> Constant(s, e.n)
      [] e.k = "float"    -> Constant(s, floatToInt(e.n))
      [] e.k \in {"void", "null"} -> Constant(s, 0)
      [] e.k \in {"string", "array", "repeat", "struct"} -> CompileParted(s, e, PartsOf(e))
      [] e.k = "sizeof"   -> CompileSizeof(s, e)
      [] e.k = "new"      -> CompileNew(s, e)
      [] e.k = "newarray" -> CompileNewArray(s, e)
      [] e.k = "cast"     -> CompileCast(s, e)
      [] e.k = "binary"   -> CompileBinary(s, e)
      [] e.k = "unary"    -> CompileUnary(s, e, load)
      [] e.k = "call"     -> CompileCall(s, e)
      [] e.k = "dot"      -> CompileDot(Value(s, e.es[1]), e, load)
      [] e.k = "arrow"    -> CompileArrow(Value(s, e.es[1]), e, load)
      [] e.k = "index"    -> CompileIndex(Value(s, e.es[1]), e, load)
      [] e.k = "slice"    -> CompileSlice(s, e)
      [] e.k = "conditional" -> CompileConditional(Value(s, e.es[1]), e)
Compile(s, e, lvalue) == CompileClass(s, e, Dereferences(e, lvalue))
=============================================================================

------------------------------ MODULE MCPrograms ------------------------------
(***************************************************************************)
(* Programs with what they must give, by the meaning of QLL (docs/qll.md): *)
(* pairs of expressions under every operator, then each construct where    *)
(* something else is alive around it, and what is refused or stopped.      *)
(***************************************************************************)
EXTENDS MCKinds, Toolchain

HEAP == 820      \* the words from here to FULL are handed out
FULL == 850

P(id, t) == Parameter(id, t)
V(id, e) == VarInferred(id, e)
D(id, t, e) == VarDeclared(id, t, e)
point == Name("point")
line == Name("line")
bytes == Slice(ByteType)
cell(t) == Inst("cell", <<t>>)
Point(a, b) == StructOf(point, <<"x", "y">>, <<Num(a), Num(b)>>)
Calls(id, es) == Call(Id(id), es)
Plus(a, b) == Bin("+", a, b)
Unary(op, id) == Un(op, Id(id))
At0(id, n) == Index(Id(id), Num(n))
Fld(id, f) == Field(Id(id), f)
Step1(id) == Assign(Id(id), Plus(Id(id), Num(1)))
Upto(id, n, body) == For(V(id, Num(0)), Bin("<", Id(id), Num(n)), Step1(id), body)
When1(c, body) == If(c, body, <<>>)
Flag(c) == Cond(c, Num(1), Num(0))
Digits(es) == FoldLeft(LAMBDA n, e : Plus(Bin("*", n, Num(10)), e), es[1], Tail(es))

Types0 ==
    [point |-> Plain(Struct(<<m("x", ByteType), m("y", ByteType)>>)),
     line |-> Plain(Struct(<<m("a", point), m("b", point)>>)),
     cell |-> [vars |-> <<"V">>, type |-> Struct(<<m("value", Pointer(Name("V"))), m("n", ByteType)>>)],
     bool |-> Builtins.bool, string |-> Builtins.string]

(* Functions the programs use.  The allocator takes back only what it gave *)
(* last.                                                                   *)
F(at, params, returns, body) == FunctionDeclaration(at, <<>>, params, returns, body, {})
Exported(at, params, returns, body) == FunctionDeclaration(at, <<>>, params, returns, body, {".export"})
Template1(at, params, returns, body) == FunctionDeclaration(at, <<"V">>, params, returns, body, {})
Library ==
    [twice |-> F(21, <<P("n", ByteType)>>, ByteType, <<Return(Plus(Id("n"), Id("n")))>>),
     minus |-> F(22, <<P("a", ByteType), P("b", ByteType)>>, ByteType, <<Return(Bin("-", Id("a"), Id("b")))>>),
     flip  |-> F(23, <<P("p", point)>>, point,
                 <<Return(StructOf(point, <<"y", "x">>, <<Fld("p", "x"), Fld("p", "y")>>))>>),
     bump  |-> F(24, <<P("p", point)>>, ByteType,
                 <<Assign(Fld("p", "x"), Num(9)), Return(Plus(Fld("p", "x"), Fld("p", "y")))>>),
     total |-> F(25, <<P("s", bytes)>>, ByteType,
                 <<D("t", ByteType, None),
                   For(V("i", Num(0)), Bin("<", Id("i"), Unary("len", "s")), Step1("i"),
                       <<Assign(Id("t"), Plus(Id("t"), Index(Id("s"), Id("i"))))>>),
                   Return(Id("t"))>>),
     fib   |-> F(26, <<P("n", ByteType)>>, ByteType,
                 <<When1(Bin("<", Id("n"), Num(2)), <<Return(Id("n"))>>),
                   Return(Plus(Calls("fib", <<Bin("-", Id("n"), Num(1))>>), Calls("fib", <<Bin("-", Id("n"), Num(2))>>)))>>),
     first |-> Template1(27, <<P("c", cell(Name("V")))>>, Name("V"), <<Return(Un("*", Fld("c", "value")))>>),
     none  |-> Template1(28, <<>>, Pointer(Name("V")), <<Return(Null)>>),
     down  |-> Template1(29, <<P("v", Name("V")), P("n", ByteType)>>, ByteType,
                 <<If(Bin("==", Id("n"), Num(0)), <<Return(Num(0))>>,
                      <<Return(Plus(Num(1), Calls("down", <<Id("v"), Bin("-", Id("n"), Num(1))>>)))>>)>>),
     grow  |-> Template1(30, <<P("v", Name("V"))>>, ByteType, <<Return(Calls("grow", <<Unary("&", "v")>>))>>)]
Allocator ==
    [heap    |-> GlobalDeclaration(1, ByteType, Num(HEAP), {}),
     alloc   |-> Exported(31, <<P("n", ByteType)>>, ByteType,
                   <<V("p", Id("heap")), When1(Bin(">", Plus(Id("p"), Id("n")), Num(FULL)), <<Return(Num(0))>>),
                     Assign(Id("heap"), Plus(Id("heap"), Id("n"))), Return(Id("p"))>>),
     dealloc |-> Exported(32, <<P("p", ByteType)>>, VoidType, <<Assign(Id("heap"), Id("p"))>>)]

Main(body) == FunctionDeclaration(99, <<>>, <<>>, ByteType, body, {})
Program(values0, asm, expected) == [values |-> values0, asm |-> asm, expected |-> expected]
Using(decls, body, expected) == Program(decls @@ [main |-> Main(body)] @@ Library, <<>>, expected)
Gives(body, n) == Using(NoStorage, body, <<"halt", n>>)
GivesOf(decls, body, n) == Using(decls, body, <<"halt", n>>)
Allocating(body, n) == GivesOf(Allocator, body, n)
Refuses(body) == Using(NoStorage, body, <<"rejected", 0>>)
RefusesOf(decls, body) == Using(decls, body, <<"rejected", 0>>)
Faults(body) == Using(NoStorage, body, <<"fault", 0>>)
NoLibrary(decls, asm, expected) == Program(decls, asm, expected)

-----------------------------------------------------------------------------
(* Every value with every other.                                           *)
Locals ==
    <<V("x", Num(5)), V("p", Point(1, 2)), D("a", Array(ByteType, 3), List(<<Num(4), Num(5), Num(6)>>)),
      D("s", bytes, Id("a")), V("q", Unary("&", "p")), D("n", IntType, Num(7))>>
x == Id("x")
Atoms ==
    <<<<x, 5>>, <<Fld("p", "y"), 2>>, <<At0("a", 1), 5>>, <<At0("s", 2), 6>>,
      <<Arrow(Id("q"), "x"), 1>>, <<Calls("twice", <<x>>), 10>>, <<Unary("len", "s"), 3>>,
      <<Cond(Bin(">", x, Num(3)), Num(7), Num(8)), 7>>, <<Field(Calls("flip", <<Id("p")>>), "x"), 2>>,
      <<Calls("minus", <<Calls("twice", <<x>>), Calls("minus", <<x, Num(1)>>)>>), 6>>,
      <<Calls("total", <<Sliced(Id("s"), Num(1), None)>>), 11>>>>
Ops == <<"+", "-", "*", "/", "%", "|", "&", "<<", ">>", "==", "!=", "<", ">", "<=", ">=">>
AsBit(b) == IF b THEN 1 ELSE 0
Apply(op, a, b) ==
    CASE op = "+" -> a + b [] op = "-" -> Unsigned(a - b) [] op = "*" -> a * b [] op = "/" -> a \div b
      [] op = "%" -> a % b [] op = "|" -> Bits("or", a, b) [] op = "&" -> Bits("and", a, b)
      [] op = "<<" -> Unsigned(a * 2 ^ b) [] op = ">>" -> a \div 2 ^ b [] op = "==" -> AsBit(a = b)
      [] op = "!=" -> AsBit(a # b) [] op = "<" -> AsBit(a < b) [] op = ">" -> AsBit(a > b)
      [] op = "<=" -> AsBit(a <= b) [] op = ">=" -> AsBit(a >= b)
Pair(i, j) ==
    LET op == Ops[((i + 3 * j) % Len(Ops)) + 1]
    IN Gives(Locals \o <<Return(Bin(op, Atoms[i][1], Atoms[j][1]))>>, Apply(op, Atoms[i][2], Atoms[j][2]))
Pairs == [k \in 1 .. Len(Atoms) * Len(Atoms) |-> Pair(((k - 1) \div Len(Atoms)) + 1, ((k - 1) % Len(Atoms)) + 1)]

-----------------------------------------------------------------------------
(* Statements.                                                             *)
Flow ==
    <<Gives(<<V("t", Num(0)),
              Upto("i", 9, <<When1(Bin("==", Id("i"), Num(3)), <<Continue>>), When1(Bin("==", Id("i"), Num(6)), <<Break>>),
                             Assign(Id("t"), Plus(Id("t"), Id("i")))>>),
              Return(Id("t"))>>, 12),
      Gives(<<V("n", Num(6)), V("t", Num(0)),
              While(Bin("!=", Id("n"), Num(1)),
                    <<If(Bin("==", Bin("%", Id("n"), Num(2)), Num(0)), <<Assign(Id("n"), Bin("/", Id("n"), Num(2)))>>,
                         <<Assign(Id("n"), Plus(Bin("*", Num(3), Id("n")), Num(1)))>>),
                      Step1("t"), When1(Bin(">", Id("t"), Num(20)), <<Break>>)>>),
              Return(Id("t"))>>, 8),
      Gives(<<V("t", Num(0)),
              Upto("i", 3, <<Upto("j", 3, <<When1(Bin("==", Id("j"), Id("i")), <<Break>>), Step1("t")>>)>>),
              Return(Id("t"))>>, 3),
      Gives(<<V("x", Num(1)), V("y", Num(0)), Nested(<<V("x", Num(7))>>),
              Nested(<<V("x", Num(2)), Assign(Id("y"), x)>>),
              While(Bool(1), <<V("y", x), Break>>), Return(Digits(<<x, Id("y")>>))>>, 12),
      Gives(<<V("i", Num(0)), While(Bin("<", Id("i"), Num(4)), <<Step1("i"), Continue, Step1("i")>>),
              Do(Calls("twice", <<Id("i")>>)), Return(Id("i"))>>, 4),
      Gives(<<Return(Calls("fib", <<Num(5)>>))>>, 5),
      Gives(<<D("r", Pointer(point), Null),
              If(Bin("&&", Bin("!=", Id("r"), Null), Bin("==", Arrow(Id("r"), "x"), Num(1))),
                 <<Return(Num(1))>>, <<Return(Num(2))>>)>>, 2),
      Gives(<<D("r", Pointer(point), Null), D("s", bytes, Null),
              Return(Digits(<<Flag(Bin("||", Un("!", Id("s")), Bin("==", Field(Un("*", Id("r")), "x"), Num(1)))),
                              Flag(Bin("||", Id("s"), Id("s")))>>))>>, 10)>>

(* Values of several words.                                                *)
Values ==
    <<Gives(<<D("l", line, StructOf(line, <<"a", "b">>, <<Point(1, 2), Point(3, 4)>>)), D("k", line, Id("l")),
              Assign(Field(Fld("k", "a"), "x"), Num(9)), Assign(Fld("k", "b"), Fld("l", "a")),
              Return(Digits(<<Field(Fld("l", "a"), "x"), Field(Fld("k", "a"), "x"), Field(Fld("k", "b"), "y"),
                              Field(Fld("l", "b"), "y")>>))>>, 1924),
      Gives(<<V("l", StructOf(line, <<"b">>, <<Point(3, 4)>>)), D("z", point, None),
              Return(Digits(<<Field(Fld("l", "a"), "y"), Field(Fld("l", "b"), "x"), Fld("z", "y")>>))>>, 30),
      Gives(<<D("ps", Array(point, 2), Repeat(Point(1, 2), 2)), V("i", Num(1)),
              Assign(Index(Id("ps"), Id("i")), Calls("flip", <<At0("ps", 0)>>)),
              Return(Digits(<<Field(At0("ps", 0), "x"), Field(Index(Id("ps"), Id("i")), "x")>>))>>, 12),
      Gives(<<D("s", Name("string"), Text(<<97, 98, 99>>)), D("t", Array(ByteType, 3), Text(<<65, 66, 67>>)),
              Return(Digits(<<Unary("len", "s"), Bin("-", At0("s", 1), Char(97)), Bin("-", At0("t", 2), Char(65)),
                              Unary("len", "t")>>))>>, 3123),
      Gives(<<D("a", Array(ByteType, 10), Repeat(Num(3), 10)), D("c", Array(ByteType, 10), Id("a")),
              Assign(At0("c", 4), Num(5)), D("s", bytes, Unary("&", "c")),
              Return(Plus(Bin("*", Calls("total", <<Id("s")>>), Num(100)), Calls("total", <<Id("a")>>)))>>, 3230),
      Gives(<<V("p", Point(1, 2)), Return(Digits(<<Calls("bump", <<Id("p")>>), Fld("p", "x")>>))>>, 111),
      Gives(<<V("p", Point(1, 2)),
              V("r", Calls("minus", <<Field(Calls("flip", <<Id("p")>>), "x"), Field(Calls("flip", <<Id("p")>>), "y")>>)),
              Return(Digits(<<Field(Calls("flip", <<Calls("flip", <<Id("p")>>)>>), "y"), Id("r")>>))>>, 21),
      Gives(<<D("f", Function(<<ByteType>>, ByteType), Id("twice")), Return(Call(Id("f"), <<Num(4)>>))>>, 8),
      Gives(<<D("a", Array(ByteType, 4), List(<<Num(4), Num(5), Num(6), Num(7)>>)),
              V("s", Sliced(Id("a"), Num(1), Num(3))), V("t", Sliced(Id("s"), None, Num(1))),
              Return(Digits(<<Calls("total", <<Id("s")>>), Calls("total", <<Id("t")>>), Unary("cap", "s"), Unary("cap", "t")>>))>>,
            11533),
      Gives(<<D("ps", Array(point, 3), List(<<Point(1, 2), Point(3, 4), Point(5, 6)>>)), V("s", Sliced(Id("ps"), Num(1), None)),
              V("r", Unary("&", "s")), V("u", Un("&", At0("ps", 0))),
              Return(Digits(<<Field(At0("s", 1), "x"), Field(Index(Un("*", Id("r")), Num(0)), "y"),
                              Field(UnsafeIndex(Id("u"), Num(1)), "x"), Sizeof(line)>>))>>, 5434),
      Gives(<<D("a", Array(ByteType, 3), List(<<Num(4), Num(5), Num(6)>>)), D("s", bytes, Id("a")),
              Assign(Unary("len", "s"), Num(2)),
              Return(Digits(<<Calls("total", <<Id("s")>>), Unary("cap", "s")>>))>>, 93)>>

(* Numbers of three kinds.                                                 *)
seven == D("n", IntType, Num(7))
Numbers ==
    <<Gives(<<seven, Return(Unsafe(ByteType, Cast(IntType, Bin("*", Cast(FloatType, Id("n")), Float(2)))))>>, 14),
      Gives(<<D("f", FloatType, Float(3)), D("g", FloatType, Un("-", Bin("/", Bin("-", Id("f"), Float(13)), Float(2)))),
              Return(Digits(<<Flag(Bin("<=", Id("f"), Id("g"))), Flag(Bin("!=", Id("f"), Id("g"))), Flag(Bin(">", Id("f"), Id("g"))),
                              Flag(Bin("==", Plus(Id("f"), Float(2)), Id("g")))>>))>>, 1101),
      Gives(<<D("m", IntType, Un("-", Num(7))),
              Return(Unsafe(ByteType, Bin("-", Bin("/", Id("m"), Num(2)), Plus(Bin("%", Id("m"), Num(2)), Bin(">>", Id("m"), Num(1))))))>>, 2),
      Gives(<<D("m", IntType, Un("-", Num(7))), V("u", Un("-", Num(7))),
              Return(Digits(<<Flag(Bin("<", Id("m"), Num(0))), Flag(Bin("<", Id("u"), Num(3))), Flag(Bin(">=", Id("m"), Num(0))),
                              Un("+", Num(4))>>))>>, 1004)>>

(* The heap: what was deleted is handed out again, not cleared.            *)
Heap ==
    <<Allocating(<<V("q", New(point, Point(1, 2))), V("w", New(ByteType, Num(7))), V("t", Arrow(Id("q"), "y")),
                   Delete(Id("w")), Delete(Id("q")), V("z", New(point, None)), V("e", New(ByteType, None)),
                   Return(Digits(<<Id("t"), Arrow(Id("z"), "x"), Arrow(Id("z"), "y"), Unary("*", "e")>>))>>, 2000),
      Allocating(<<V("s", NewEllipsis(bytes, Num(3), Num(5))), V("t", Calls("total", <<Id("s")>>)), Delete(Id("s")),
                   V("z", NewArray(bytes, Num(3), None)), V("u", NewArray(bytes, Num(2), List(<<Num(3), Num(4)>>))),
                   Return(Digits(<<Id("t"), Calls("total", <<Id("z")>>), Calls("total", <<Id("u")>>), Unary("len", "s")>>))>>, 15070),
      Allocating(<<V("s", NewEllipsis(Slice(point), Num(2), Point(1, 2))),
                   Return(Digits(<<Field(At0("s", 0), "y"), Field(At0("s", 1), "x"), Unary("len", "s"), Unary("cap", "s")>>))>>, 2122),
      Allocating(<<V("n", Num(60)), V("s", NewArray(bytes, Id("n"), None)),
                   If(Id("s"), <<Return(Num(1))>>, <<Return(Plus(Num(2), Unary("len", "s")))>>)>>, 2)>>

(* Templates and their copies, and globals.                                *)
Templates ==
    <<Gives(<<V("x", Num(5)), V("p", Point(1, 2)),
              D("c", cell(ByteType), StructOf(cell(ByteType), <<"value", "n">>, <<Unary("&", "x"), Num(1)>>)),
              V("d", StructOf(cell(point), <<"value">>, <<Unary("&", "p")>>)),
              Return(Digits(<<Calls("first", <<Id("c")>>), Field(Calls("first", <<Id("d")>>), "y"),
                              Call(IdOf("first", <<ByteType>>), <<Id("c")>>)>>))>>, 525),
      Gives(<<D("r", Pointer(point), Calls("none", <<>>)), Return(Flag(Bin("==", Id("r"), Null)))>>, 1),
      Gives(<<Return(Plus(Calls("down", <<Num(1), Num(2)>>), Calls("down", <<Point(1, 2), Num(1)>>)))>>, 3),
      GivesOf([g |-> GlobalDeclaration(1, ByteType, Cast(ByteType, Num(5)), {}),
               h |-> GlobalDeclaration(2, ByteType, Calls("twice", <<Id("g")>>), {}),
               t |-> GlobalDeclaration(3, Name("string"), Text(<<1, 2>>), {}),
               u |-> GlobalDeclaration(4, Array(ByteType, 3), Text(<<7, 8, 9>>), {}),
               p |-> GlobalDeclaration(5, point, Calls("flip", <<Point(3, 4)>>), {}),
               f |-> GlobalDeclaration(6, ByteType, Sizeof(line), {})],
              <<Assign(Id("g"), Plus(Id("g"), Calls("total", <<Id("t")>>))),
                Return(Digits(<<Id("g"), Bin("-", Id("h"), Num(5)), At0("u", 2), Plus(Fld("p", "x"), Id("f"))>>))>>, 8598)>>

(* What a program is stopped for while it runs.                            *)
Traps ==
    <<Gives(<<D("r", Pointer(ByteType), Null), Return(Unary("*", "r"))>>, NULL_ERROR),
      Gives(<<D("r", Pointer(point), Null), Return(Arrow(Id("r"), "x"))>>, NULL_ERROR),
      Gives(<<D("f", Function(<<ByteType>>, ByteType), None), Return(Call(Id("f"), <<Num(4)>>))>>, NULL_ERROR),
      Gives(<<D("r", Pointer(ByteType), Null), Assign(UnsafeIndex(Id("r"), Num(1)), Num(2)), Return(Num(1))>>, NULL_ERROR),
      Gives(Locals \o <<V("i", Num(3)), Return(Index(Id("a"), Id("i")))>>, BOUNDS_ERROR),
      Gives(Locals \o <<Assign(Index(Id("s"), Bin("-", x, Num(2))), Num(1)), Return(Num(1))>>, BOUNDS_ERROR),
      Gives(Locals \o <<V("t", Sliced(Id("s"), Num(1), None)), Return(At0("t", 2))>>, BOUNDS_ERROR),
      Gives(Locals \o <<Assign(Unary("len", "s"), Num(2)), Return(At0("s", 2))>>, BOUNDS_ERROR),
      Gives(Locals \o <<Assign(Unary("len", "s"), Num(4)), Return(Num(1))>>, CAPACITY_ERROR),
      Faults(<<V("y", Num(1)), V("r", Unary("&", "y")), Return(UnsafeIndex(Id("r"), Num(5000)))>>),
      Faults(<<V("y", Num(1)), V("r", Unary("&", "y")), Assign(UnsafeIndex(Id("r"), Num(5000)), Num(2)), Return(Num(1))>>),
      Faults(<<D("f", Function(<<>>, ByteType), Unsafe(Function(<<>>, ByteType), Num(5000))), Return(Call(Id("f"), <<>>))>>)>>

(* Other code: a function in assembly, an interrupt handler, and WAIT.     *)
Asm(id, code) == <<<<"label", Label(Qualified(id, <<>>))>>>> \o code
External(returns) == FunctionDeclaration(5, <<>>, <<>>, returns, <<>>, {".extern"})
Probe ==
    Asm("probe", <<<<"mov", 1, RET, 0>>, <<"const", 2, 0>>, <<"not", 2, 2, 0>>, <<"const", 3, 2>>, <<"rjmp", 0, 3, 0>>,
                   <<"halt", 0, 0, 0>>, <<"nop", 0, 0, 0>>, <<"rjz", 0, 2, 3>>, <<"rjnz", 0, 2, 3>>, <<"halt", 0, 0, 0>>,
                   <<"const", 4, 7>>, <<"utof", 4, 4, 0>>, <<"ftoi", 4, 4, 0>>, <<"and", RET, 2, 4>>, <<"jmp", 0, 1, 0>>>>)
Linked ==
    <<NoLibrary([probe |-> External(ByteType), main |-> Main(<<V("t", Num(3)), Return(Plus(Calls("probe", <<>>), Id("t")))>>)],
                Probe, <<"halt", 10>>),
      NoLibrary([idle |-> External(VoidType), main |-> Main(<<Do(Calls("idle", <<>>)), Return(Num(1))>>)],
                Asm("idle", <<<<"wait", 0, 0, 0>>>>), <<"wait", 0>>),
      NoLibrary([twice |-> Library.twice,
                 main |-> FunctionDeclaration(99, <<>>, <<>>, VoidType, <<V("t", Num(3)), Do(Calls("twice", <<Id("t")>>))>>, {".interrupt"})],
                <<>>, <<"int", 0>>),
      NoLibrary([gone |-> External(ByteType), main |-> Main(<<Return(Calls("gone", <<>>))>>)], <<>>, <<"rejected", 0>>),
      NoLibrary([probe |-> External(ByteType), main |-> Main(<<Return(Calls("probe", <<>>))>>)], Probe \o Probe, <<"rejected", 0>>)>>

(* What is refused.                                                        *)
RECURSIVE Deep(_)
Deep(n) == IF n = 0 THEN x ELSE Plus(x, Deep(n - 1))
Refused ==
    <<Refuses(<<Return(Point(1, 2))>>), Refuses(<<V("y", Num(1))>>), Refuses(<<Return(Id("nowhere"))>>),
      Refuses(<<When1(Bool(1), <<Return(Num(1))>>)>>), Refuses(<<Break, Return(Num(1))>>),
      Refuses(<<V("y", Num(1)), V("y", Num(2)), Return(Num(1))>>), Refuses(<<Return(Calls("minus", <<Num(1)>>))>>),
      Refuses(<<Return(Calls("twice", <<Point(1, 2)>>))>>), Refuses(<<Return(Calls("grow", <<Num(1)>>))>>),
      Refuses(<<Assign(Num(1), Num(2)), Return(Num(1))>>), Refuses(<<D("n", IntType, Num(1)), Return(Cast(ByteType, Id("n")))>>),
      Refuses(<<V("q", New(point, None)), Return(Arrow(Id("q"), "x"))>>),
      Refuses(<<V("x", Num(1)), Return(Deep(31))>>), Gives(<<V("x", Num(1)), Return(Deep(20))>>, 21),
      RefusesOf([odd |-> F(19, <<P("n", Name("nowhere"))>>, ByteType, <<Return(Num(1))>>)], <<Return(Num(1))>>),
      RefusesOf([odd |-> F(19, <<P("n", ByteType), P("n", ByteType)>>, ByteType, <<Return(Num(1))>>)], <<Return(Num(1))>>),
      RefusesOf([g |-> GlobalDeclaration(1, ByteType, Point(1, 2), {})], <<Return(Num(1))>>),
      RefusesOf([odd |-> FunctionDeclaration(10, <<>>, <<P("n", ByteType)>>, VoidType, <<>>, {".interrupt"})], <<Return(Num(1))>>),
      RefusesOf([odd |-> Template1(19, <<P("v", Name("V"))>>, ByteType, <<Return(Num(1))>>)],
                <<Return(Call(IdOf("odd", <<VoidType>>), <<Void>>))>>)>>

Programs == Pairs \o Flow \o Values \o Numbers \o Heap \o Templates \o Traps \o Linked \o Refused
=============================================================================

--------------------------------- MODULE Cpu ---------------------------------
(***************************************************************************)
(* The instructions of the virtual machine (step of src/src/vm/vm.ts),     *)
(* with the MMU off and no debugger.  What an INT and a fault do then is   *)
(* the subject of Interrupts: here the program stops with them.            *)
(***************************************************************************)
EXTENDS Instructions

LOCAL INSTANCE Bitwise

CONSTANT MEMORY_SIZE

VARIABLES ip, registers, memory,
          status     \* "off", "running", or what it stopped with

cpuVars == <<ip, registers, memory, status>>

Addresses == 0 .. MEMORY_SIZE - 1
Off == ip = 0 /\ registers = <<>> /\ memory = <<>> /\ status = "off"
Reset(image, base) ==
    /\ ip' = base
    /\ registers' = [r \in 0 .. GENERIC_REGISTER_COUNT - 1 |-> 0]
    /\ memory' = [a \in Addresses |-> IF a - base + 1 \in DOMAIN image THEN image[a - base + 1] ELSE 0]
    /\ status' = "running"

-----------------------------------------------------------------------------
(* What an operation gives, of the words in its source registers.          *)
If01(p) == IF p THEN 1 ELSE 0
Shift(w) == IF w % 32 < WIDTH THEN w % 32 ELSE WIDTH
Quotient(a, b) ==
    CASE b = 0 -> 0
      [] a < 0 /\ b # 0 -> IF b < 0 THEN (-a) \div (-b) ELSE -((-a) \div b)
      [] a >= 0 /\ b # 0 -> IF b < 0 THEN -(a \div (-b)) ELSE a \div b
Remainder(a, b) == IF b = 0 THEN 0 ELSE a - b * Quotient(a, b)

IntegerOperation(op, a, b) ==
    CASE op = "add" -> Unsigned(a + b)
      [] op = "sub" -> Unsigned(a - b)
      [] op = "mul" -> Unsigned(a * b)
      [] op = "div" -> Quotient(a, b)
      [] op = "mod" -> Remainder(a, b)
Bits(op, a, b) ==
    CASE op = "and" -> a & b
      [] op = "or"  -> a | b
      [] op = "not" -> 2 ^ WIDTH - 1 - a
      [] op = "shl" -> Unsigned(a * 2 ^ Shift(b))
      [] op = "shr" -> a \div 2 ^ Shift(b)
Comparison(op, a, b) ==
    CASE op = "eq"  -> If01(a = b)
      [] op = "neq" -> If01(a # b)
      [] op = "lt"  -> If01(a < b)
      [] op = "gt"  -> If01(a > b)
FloatArithmetic(op, a, b) ==
    CASE op = "fadd" -> floatToInt(a + b)
      [] op = "fsub" -> floatToInt(a - b)
      [] op = "fmul" -> floatToInt(a * b)
      [] op = "fdiv" -> floatToInt(Quotient(a, b))
FloatComparison(op, a, b) ==
    CASE op = "feq" -> If01(a = b)
      [] op = "flt" -> If01(a < b)
      [] op = "fgt" -> If01(a > b)
Conversion(op, w) ==
    CASE op = "itof" -> floatToInt(Signed(w))
      [] op = "utof" -> floatToInt(w)
      [] op = "ftoi" -> Unsigned(intToFloat(w))
SignedOperation(op, a, b) ==
    CASE op = "slt"  -> If01(a < b)
      [] op = "sgt"  -> If01(a > b)
      [] op = "sdiv" -> Unsigned(Quotient(a, b))
      [] op = "smod" -> Unsigned(Remainder(a, b))
      [] op = "sar"  -> Unsigned(a \div 2 ^ Shift(b))

Result(op, a, b) ==
    CASE op = "mov" -> a
      [] op \in {"add", "sub", "mul", "div", "mod"} -> IntegerOperation(op, a, b)
      [] op \in {"and", "or", "not", "shl", "shr"} -> Bits(op, a, b)
      [] op \in {"eq", "neq", "lt", "gt"} -> Comparison(op, a, b)
      [] op \in {"fadd", "fsub", "fmul", "fdiv"} -> FloatArithmetic(op, intToFloat(a), intToFloat(b))
      [] op \in {"feq", "flt", "fgt"} -> FloatComparison(op, intToFloat(a), intToFloat(b))
      [] op \in {"itof", "utof", "ftoi"} -> Conversion(op, a)
      [] op \in {"slt", "sgt", "sdiv", "smod"} -> SignedOperation(op, Signed(a), Signed(b))
      [] op = "sar" -> SignedOperation(op, Signed(a), b)
Computing ==
    {"mov", "add", "sub", "mul", "div", "mod", "and", "or", "not", "shl", "shr", "eq", "neq", "lt", "gt",
     "fadd", "fsub", "fmul", "fdiv", "feq", "flt", "fgt", "itof", "utof", "ftoi", "slt", "sgt", "sdiv", "smod", "sar"}

-----------------------------------------------------------------------------
(* One instruction.                                                        *)
Stop(why) == status' = why /\ UNCHANGED <<ip, registers, memory>>
Running == status = "running"
Fetched == ip \in Addresses /\ IsValid(memory[ip])
Instruction == Decode(memory[ip])
Executes(ops) == Running /\ Fetched /\ Instruction.operation \in ops
Advance(n) == ip' = ip + n
Set(r, w) == registers' = [registers EXCEPT ![r] = w]

StepUnfetched == Running /\ ~Fetched /\ Stop("fault")
StepStop == Executes({"halt", "wait", "int"}) /\ Stop(Instruction.operation)
StepNop == Executes({"nop"}) /\ Advance(1) /\ UNCHANGED <<registers, memory, status>>
StepLoad ==
    /\ Executes({"load"})
    /\ \E a \in {registers[Instruction.sr0]} :
         IF a \in Addresses
         THEN Set(Instruction.dr, memory[a]) /\ Advance(1) /\ UNCHANGED <<memory, status>>
         ELSE Stop("fault")
StepStore ==
    /\ Executes({"store"})
    /\ \E a \in {registers[Instruction.dr]} :
         IF a \in Addresses
         THEN /\ memory' = [memory EXCEPT ![a] = registers[Instruction.sr0]]
              /\ Advance(1) /\ UNCHANGED <<registers, status>>
         ELSE Stop("fault")
StepConstant ==
    /\ Executes({"constant"})
    /\ IF ip + 1 \in Addresses
       THEN Set(Instruction.dr, memory[ip + 1]) /\ Advance(2) /\ UNCHANGED <<memory, status>>
       ELSE Stop("fault")
StepCompute ==
    /\ Executes(Computing)
    /\ \E i \in {Instruction} :
         Set(i.dr, Result(i.operation, registers[i.sr0], registers[i.sr1]))
    /\ Advance(1) /\ UNCHANGED <<memory, status>>

Taken(op, w) == op \in {"jmp", "rjmp"} \/ (op \in {"jz", "rjz"} /\ w = 0) \/ (op \in {"jnz", "rjnz"} /\ w # 0)
Target(i) == registers[IF i.operation \in {"jmp", "rjmp"} THEN i.sr0 ELSE i.sr1]
StepJump ==
    /\ Executes({"jmp", "jz", "jnz"})
    /\ \E i \in {Instruction} :
         IF Taken(i.operation, registers[i.sr0]) THEN ip' = Target(i) ELSE Advance(1)
    /\ UNCHANGED <<registers, memory, status>>
StepRelativeJump ==
    /\ Executes({"rjmp", "rjz", "rjnz"})
    /\ \E i \in {Instruction} :
         IF Taken(i.operation, registers[i.sr0]) THEN ip' = Unsigned(ip + Signed(Target(i))) ELSE Advance(1)
    /\ UNCHANGED <<registers, memory, status>>

Step ==
    \/ StepUnfetched \/ StepStop \/ StepNop \/ StepLoad \/ StepStore \/ StepConstant
    \/ StepCompute \/ StepJump \/ StepRelativeJump
=============================================================================

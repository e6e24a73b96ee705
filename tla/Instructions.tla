----------------------------- MODULE Instructions -----------------------------
(***************************************************************************)
(* The words of the machine: numbers of WIDTH bits, floats and encoded     *)
(* instructions (src/src/vm/instructions.ts).  A float is a whole number,  *)
(* in a word that is not the number's own.                                 *)
(***************************************************************************)
EXTENDS Integers, Sequences, SequencesExt

CONSTANTS
    GENERIC_REGISTER_COUNT,    \* 64 in the machine
    WIDTH                      \* bits of a number, 32 in the machine

ASSUME RegisterAssumption == GENERIC_REGISTER_COUNT \in Nat /\ GENERIC_REGISTER_COUNT >= 8
ASSUME WidthAssumption == WIDTH \in {7, 9, 11, 13, 15}

Unsigned(n) == n % 2 ^ WIDTH
Signed(w) == IF w >= 2 ^ (WIDTH - 1) THEN w - 2 ^ WIDTH ELSE w
floatToInt(f) == Unsigned(3 * f)
intToFloat(w) == Signed(Unsigned(w * ((2 ^ WIDTH + 1) \div 3)))

specifications ==
    <<"halt", "int", "load", "store", "mov", "constant", "add", "sub", "mul", "div", "mod",
      "and", "or", "not", "shl", "shr", "eq", "neq", "lt", "gt", "jmp", "jz", "jnz", "nop", "wait",
      "fadd", "fsub", "fmul", "fdiv", "feq", "flt", "fgt", "itof", "utof", "ftoi",
      "rjmp", "rjz", "rjnz", "slt", "sgt", "sdiv", "smod", "sar">>
Number == [op \in ToSet(specifications) |-> (CHOOSE i \in DOMAIN specifications : specifications[i] = op) - 1]

Byte(word, i) == (word \div 2 ^ (8 * i)) % 256
IsValid(word) == Byte(word, 3) < Len(specifications)
Encode(op, dr, sr0, sr1) == Number[op] * 2 ^ 24 + dr * 2 ^ 16 + sr0 * 2 ^ 8 + sr1
Decode(word) ==
    [operation |-> specifications[Byte(word, 3) + 1], dr |-> Byte(word, 2), sr0 |-> Byte(word, 1), sr1 |-> Byte(word, 0)]
=============================================================================

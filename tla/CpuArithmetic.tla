--------------------------- MODULE CpuArithmetic ---------------------------
(***************************************************************************)
(* The data path of the IA-32 interpreter (libs/cpu): the flag calculators *)
(* and the ALU, shift, multiply, divide, extension and condition code      *)
(* executors, as functions of their operands.  A doubleword has WordBits   *)
(* bits, a byte ByteBits and a nibble NibbleBits, in place of 32, 8 and 4, *)
(* so that every operand can be tried; all three keep their roles (the     *)
(* shift count is taken modulo WordBits, parity is that of the low byte).  *)
(*                                                                         *)
(* The only step picks an instruction form and its operands, and the       *)
(* invariants compare what the executor computes for it with the           *)
(* arithmetic the instruction is defined by.                               *)
(***************************************************************************)
EXTENDS Integers, FiniteSets, FiniteSetsExt

CONSTANTS WordBits, ByteBits, NibbleBits

Word == 0 .. (2 ^ WordBits - 1)

\* The bits an operand of size 1 (byte) or 4 (doubleword) has.
Bits(size) == IF size = 1 THEN ByteBits ELSE WordBits

Wrap(x, bits) == x % (2 ^ bits)

Bit(x, i) == (x \div 2 ^ i) % 2

Negative(x, bits) == Bit(x, bits - 1) = 1

Signed(x, bits) == IF Negative(x, bits) THEN x - 2 ^ bits ELSE x

BitOp(Op(_, _), a, b) ==
    MapThenSumSet(LAMBDA i : 2 ^ i * Op(Bit(a, i), Bit(b, i)), 0 .. (WordBits - 1))

Low(x, bits) == x % (2 ^ bits)

CalculateParity(x) ==
    Cardinality({i \in 0 .. (ByteBits - 1) : Bit(x, i) = 1}) % 2 = 0

(***************************************************************************)
(* flags.hpp.  cf |-> c is passed in where the instruction keeps CF.       *)
(***************************************************************************)
FlagsOf(cf, af, of, res, bits) ==
    [cf |-> cf, af |-> af, of |-> of, zf |-> res = 0,
     sf |-> Negative(res, bits), pf |-> CalculateParity(res)]

\* Mutant: the sum of two operands of unlike signs may overflow too.
AdcFlagsAnySign(a, b, cin) ==
    LET sum == a + b + cin
        res == Wrap(sum, WordBits)
    IN  FlagsOf(sum >= 2 ^ WordBits,
              Low(a, NibbleBits) + Low(b, NibbleBits) + cin >= 2 ^ NibbleBits,
              Negative(a, WordBits) # Negative(res, WordBits),
              res, WordBits)

CalculateAdcFlags(a, b, cin) ==
    LET sum == a + b + cin
        res == Wrap(sum, WordBits)
    IN  FlagsOf(sum >= 2 ^ WordBits,
              Low(a, NibbleBits) + Low(b, NibbleBits) + cin >= 2 ^ NibbleBits,
              /\ Negative(a, WordBits) = Negative(b, WordBits)
              /\ Negative(a, WordBits) # Negative(res, WordBits),
              res, WordBits)

CalculateAddFlags(a, b) ==
    LET sum == a + b
        res == Wrap(sum, WordBits)
    IN  FlagsOf(sum >= 2 ^ WordBits,
              Low(a, NibbleBits) + Low(b, NibbleBits) >= 2 ^ NibbleBits,
              /\ Negative(a, WordBits) # Negative(res, WordBits)
              /\ Negative(b, WordBits) # Negative(res, WordBits),
              res, WordBits)

CalculateSbbFlags(a, b, cin) ==
    LET res == Wrap(a - b - cin, WordBits)
    IN  FlagsOf(a < b + cin,
              Low(a, NibbleBits) < Low(b, NibbleBits) + cin,
              /\ Negative(a, WordBits) # Negative(b, WordBits)
              /\ Negative(a, WordBits) # Negative(res, WordBits),
              res, WordBits)

\* CalculateSubFlags (doublewords) and CalculateSubFlags8 (bytes).
CalculateSubFlags(a, b, bits) ==
    LET res == Wrap(a - b, bits)
    IN  FlagsOf(a < b,
              Low(a, NibbleBits) < Low(b, NibbleBits),
              /\ Negative(a, bits) # Negative(b, bits)
              /\ Negative(a, bits) # Negative(res, bits),
              res, bits)

CalculateIncFlags(a, cf) ==
    FlagsOf(cf, Low(a, NibbleBits) = 2 ^ NibbleBits - 1, a = 2 ^ (WordBits - 1) - 1,
          Wrap(a + 1, WordBits), WordBits)

CalculateDecFlags(a, cf) ==
    FlagsOf(cf, Low(a, NibbleBits) = 0, a = 2 ^ (WordBits - 1),
          Wrap(a - 1, WordBits), WordBits)

CalculateLogicFlags(res) == FlagsOf(FALSE, FALSE, FALSE, res, WordBits)

(***************************************************************************)
(* executor_alu.cpp.  The flags are those of a doubleword whatever the     *)
(* operands' size; the result is cut to the operand by Operand::Write.     *)
(***************************************************************************)
AluOps == {"Add", "Adc", "Sub", "Sbb", "Cmp", "Inc", "Dec", "And", "Or", "Xor", "Test"}

WriteBack(op) == op \notin {"Cmp", "Test"}

AluResult(op, a, b, cf) ==
    LET cin == IF cf THEN 1 ELSE 0
        And2(x, y) == x * y
        Or2(x, y) == x + y - x * y
        Xor2(x, y) == (x + y) % 2
        logic == CASE op \in {"And", "Test"} -> BitOp(And2, a, b)
                   [] op = "Or" -> BitOp(Or2, a, b)
                   [] op = "Xor" -> BitOp(Xor2, a, b)
                   [] OTHER -> 0
    IN  CASE op = "Add" -> [out |-> a + b, flags |-> CalculateAddFlags(a, b)]
          [] op = "Adc" -> [out |-> a + b + cin, flags |-> CalculateAdcFlags(a, b, cin)]
          [] op \in {"Sub", "Cmp"} -> [out |-> a - b, flags |-> CalculateSubFlags(a, b, WordBits)]
          [] op = "Sbb" -> [out |-> a - b - cin, flags |-> CalculateSbbFlags(a, b, cin)]
          [] op = "Inc" -> [out |-> a + 1, flags |-> CalculateIncFlags(a, cf)]
          [] op = "Dec" -> [out |-> a - 1, flags |-> CalculateDecFlags(a, cf)]
          [] OTHER -> [out |-> logic, flags |-> CalculateLogicFlags(logic)]

(***************************************************************************)
(* executor_shift.cpp, with the old CF and OF for the flags it leaves.     *)
(***************************************************************************)
ShiftOps == {"Shl", "Shr", "Sar", "Rol", "Ror"}

Untouched(v, cf, of) ==
    [out |-> v, cf |-> cf, of |-> of, touched |-> FALSE, arith |-> FALSE]

\* The bit that leaves last; a byte can be shifted by more than its bits.
ShiftOut(op, v, count, bits) ==
    CASE op = "Shl" -> count <= bits /\ Bit(v, bits - count) = 1
      [] op = "Shr" -> count <= bits /\ Bit(v, count - 1) = 1
      [] op = "Sar" -> IF count <= bits THEN Bit(v, count - 1) = 1 ELSE Negative(v, bits)

ShiftValue(op, v, count, bits) ==
    CASE op = "Shl" -> IF count < bits THEN Wrap(v * 2 ^ count, bits) ELSE 0
      [] op = "Shr" -> IF count < bits THEN v \div 2 ^ count ELSE 0
      [] op = "Sar" -> IF count < bits THEN Wrap(Signed(v, bits) \div 2 ^ count, bits)
                       ELSE IF Negative(v, bits) THEN 2 ^ bits - 1 ELSE 0

RotateValue(op, v, cnt, bits) ==
    IF op = "Rol" THEN Wrap(v * 2 ^ cnt, bits) + v \div 2 ^ (bits - cnt)
                  ELSE v \div 2 ^ cnt + Wrap(v * 2 ^ (bits - cnt), bits)

ShiftResult(op, v, rawcount, bits, oldcf, oldof) ==
    LET count == rawcount % WordBits
        cnt == count % bits
        top(x) == Bit(x, bits - 1) = 1
        res == IF op \in {"Rol", "Ror"} THEN RotateValue(op, v, cnt, bits)
               ELSE ShiftValue(op, v, count, bits)
        cf == CASE op = "Rol" -> Bit(res, 0) = 1
                [] op = "Ror" -> top(res)
                [] OTHER -> ShiftOut(op, v, count, bits)
        of == CASE op \in {"Shl", "Rol"} -> top(res) # cf
                [] op = "Shr" -> top(v)
                [] op = "Sar" -> FALSE
                [] op = "Ror" -> top(res) # (Bit(res, bits - 2) = 1)
    IN  IF count = 0 \/ (op \in {"Rol", "Ror"} /\ cnt = 0) THEN Untouched(v, oldcf, oldof)
        ELSE [out |-> res, cf |-> cf, of |-> IF count = 1 THEN of ELSE oldof,
              touched |-> TRUE, arith |-> op \notin {"Rol", "Ror"}]

(***************************************************************************)
(* executor_muldiv.cpp.  C++ division truncates towards zero; TLA+'s       *)
(* rounds down.                                                            *)
(***************************************************************************)
DivideError == [error |-> TRUE, eax |-> 0, edx |-> 0]

Quotient(eax, edx) == [error |-> FALSE, eax |-> eax, edx |-> edx]

Truncated(n, d) ==
    LET Abs(x) == IF x < 0 THEN 0 - x ELSE x
        q == Abs(n) \div Abs(d)
    IN  IF (n < 0) = (d < 0) THEN q ELSE 0 - q

MulResult(eax, src) ==
    LET product == eax * src
    IN  [eax |-> Wrap(product, WordBits), edx |-> product \div 2 ^ WordBits,
         overflow |-> product \div 2 ^ WordBits # 0]

\* The one-operand form; the others keep the low half alone.
ImulResult(eax, src) ==
    LET product == Signed(eax, WordBits) * Signed(src, WordBits)
        low == Wrap(product, WordBits)
    IN  [eax |-> low, edx |-> Wrap(product, 2 * WordBits) \div 2 ^ WordBits,
         overflow |-> product # Signed(low, WordBits)]

DivResult(eax, edx, divisor) ==
    LET dividend == edx * 2 ^ WordBits + eax
    IN  IF divisor = 0 THEN DivideError
        ELSE IF dividend \div divisor >= 2 ^ WordBits THEN DivideError
        ELSE Quotient(dividend \div divisor, dividend % divisor)

IdivResult(eax, edx, src) ==
    LET divisor == Signed(src, WordBits)
        dividend == Signed(edx * 2 ^ WordBits + eax, 2 * WordBits)
        quotient == Truncated(dividend, divisor)
        half == 2 ^ (WordBits - 1)
    IN  IF divisor = 0 THEN DivideError
        ELSE IF dividend = 0 - 2 ^ (2 * WordBits - 1) /\ divisor = -1 THEN DivideError
        ELSE IF quotient < 0 - half \/ quotient >= half THEN DivideError
        ELSE Quotient(Wrap(quotient, WordBits), Wrap(dividend - quotient * divisor, WordBits))

(***************************************************************************)
(* executor_bit_ext.cpp and the condition codes of instruction.hpp.        *)
(***************************************************************************)
Movzx(src, bits) == Low(src, bits)

Movsx(src, bits) == Wrap(Signed(Low(src, bits), bits), WordBits)

\* BT: a register's bit, the count taken modulo its width, or a bit of the string of
\* words that starts at the operand's address and goes on in both directions.
BtRegister(v, count) == Bit(v, count % WordBits)

BtMemory(words, count) ==
    LET offset == Signed(count, WordBits)
    IN  Bit(words[offset \div WordBits], offset % WordBits)

Cdq(eax) == IF Negative(eax, WordBits) THEN 2 ^ WordBits - 1 ELSE 0

Conditions == {"O", "NO", "B", "NB", "Z", "NZ", "BE", "NBE",
               "S", "NS", "P", "NP", "L", "NL", "LE", "NLE"}

EvaluateCondition(cond, f) ==
    CASE cond = "O" -> f.of          [] cond = "NO" -> ~f.of
      [] cond = "B" -> f.cf          [] cond = "NB" -> ~f.cf
      [] cond = "Z" -> f.zf          [] cond = "NZ" -> ~f.zf
      [] cond = "BE" -> f.cf \/ f.zf [] cond = "NBE" -> ~f.cf /\ ~f.zf
      [] cond = "S" -> f.sf          [] cond = "NS" -> ~f.sf
      [] cond = "P" -> f.pf          [] cond = "NP" -> ~f.pf
      [] cond = "L" -> f.sf # f.of   [] cond = "NL" -> f.sf = f.of
      [] cond = "LE" -> f.zf \/ f.sf # f.of
      [] cond = "NLE" -> ~f.zf /\ f.sf = f.of

Setcc(cond, f) == IF EvaluateCondition(cond, f) THEN 1 ELSE 0

(***************************************************************************)
(* One instruction per state.                                              *)
(***************************************************************************)
VARIABLE form

\* The forms the decoder produces: the ALU on doublewords, and TEST on a byte.
Forms ==
    [kind : {"alu"}, op : AluOps, size : {4}, a : Word, b : Word, cf : BOOLEAN]
    \cup [kind : {"alu"}, op : {"Test"}, size : {1}, a : 0 .. (2 ^ ByteBits - 1),
          b : 0 .. (2 ^ ByteBits - 1), cf : BOOLEAN]
    \cup [kind : {"shift"}, op : ShiftOps, size : {1, 4}, a : Word, b : Word, cf : BOOLEAN]
    \cup [kind : {"divide"}, op : {"Div", "Idiv"}, size : {4}, a : Word, b : Word \X Word,
          cf : {FALSE}]
    \cup [kind : {"multiply"}, op : {"Mul", "Imul"}, size : {4}, a : Word, b : Word,
          cf : {FALSE}]
    \cup [kind : {"bit"}, op : {"Movzx", "Movsx", "Bt"}, size : {1, 4}, a : Word, b : Word,
          cf : {FALSE}]

Idle == [kind |-> "none"]

ArithInit == form = Idle

Execute ==
    /\ form = Idle
    /\ form' \in {f \in Forms : f.kind = "shift" => f.a < 2 ^ Bits(f.size)}

ArithSpec == ArithInit /\ [][Execute]_form

----------------------------------------------------------------------------

\* What the instruction computes over the integers: the unsigned and the signed sum.
Exact(op, x, y, cin) ==
    CASE op \in {"Add", "Adc", "Inc"} -> x + y + cin
      [] op \in {"Sub", "Sbb", "Cmp", "Dec"} -> x - y - cin

\* After CMP a, b every condition code a compiler uses to compare decides as the
\* integers do: B and BE on the unsigned values, L and LE on the signed ones.
ConditionsCompare ==
    LET f == AluResult("Cmp", form.a, form.b, form.cf).flags
        a == Signed(form.a, WordBits)
        b == Signed(form.b, WordBits)
    IN  /\ Setcc("B", f) = IF form.a < form.b THEN 1 ELSE 0
        /\ EvaluateCondition("NBE", f) = (form.a > form.b)
        /\ EvaluateCondition("L", f) = (a < b)
        /\ EvaluateCondition("LE", f) = (a <= b)
        /\ EvaluateCondition("NLE", f) = (a > b)
        /\ EvaluateCondition("Z", f) = (a = b)

\* CF and OF are the overflow of the unsigned and of the signed result (INC and DEC
\* keep CF), and ZF and SF tell its value, for every operand and carry-in; after CMP
\* the condition codes that compare decide as the integers do.
FlagsTellTheArithmetic ==
    form.kind = "alu" /\ form.op \notin {"And", "Or", "Xor", "Test"} =>
        LET r == AluResult(form.op, form.a, form.b, form.cf)
            one == form.op \in {"Inc", "Dec"}
            y == IF one THEN 1 ELSE form.b
            cin == IF form.op \in {"Adc", "Sbb"} /\ form.cf THEN 1 ELSE 0
            u == Exact(form.op, form.a, y, cin)
            s == Exact(form.op, Signed(form.a, WordBits), Signed(y, WordBits), cin)
            out == Wrap(r.out, WordBits)
        IN  /\ r.flags.cf = IF one THEN form.cf ELSE u \notin Word
            /\ r.flags.of = (s # Signed(out, WordBits))
            /\ r.flags.zf = (out = 0) /\ r.flags.sf = (Signed(out, WordBits) < 0)
            /\ form.op = "Cmp" => ConditionsCompare

\* A shift or a rotate by n is n shifts or rotates by one, result and carry: what
\* the cases for counts at and beyond a byte's width have to come to.
ShiftsCompose ==
    form.kind = "shift" =>
        LET bits == Bits(form.size)
            Shift(v, n, cf) == ShiftResult(form.op, v, n, bits, cf, FALSE)
            chain[n \in 0 .. (WordBits - 1)] ==
                IF n = 0 THEN [out |-> form.a, cf |-> form.cf]
                ELSE Shift(chain[n - 1].out, 1, chain[n - 1].cf)
            r == Shift(form.a, form.b, form.cf)
        IN  /\ r.out = chain[form.b % WordBits].out
            /\ r.touched => r.cf = chain[form.b % WordBits].cf

\* DIV and IDIV raise #DE exactly when no quotient of the register's width exists,
\* the boundary -2^31 included, and leave quotient and remainder otherwise; after CDQ
\* that is a zero divisor or the one overflow, -2^31 by -1.
DivideIsExact ==
    form.kind = "divide" =>
        LET d == IF form.op = "Div" THEN form.a ELSE Signed(form.a, WordBits)
            wide == form.b[2] * 2 ^ WordBits + form.b[1]
            n == IF form.op = "Div" THEN wide ELSE Signed(wide, 2 * WordBits)
            Value(x) == IF form.op = "Div" THEN x ELSE Signed(x, WordBits)
            Abs(x) == IF x < 0 THEN 0 - x ELSE x
            Fits(q, r) == n = q * d + r /\ Abs(r) < Abs(d) /\ (r = 0 \/ (r < 0) = (n < 0))
            res == IF form.op = "Div" THEN DivResult(form.b[1], form.b[2], form.a)
                                      ELSE IdivResult(form.b[1], form.b[2], form.a)
        IN  /\ IF res.error THEN ~\E q, r \in Word : Fits(Value(q), Value(r))
               ELSE Fits(Value(res.eax), Value(res.edx))
            /\ form.op = "Idiv" /\ form.b[2] = Cdq(form.b[1]) =>
                   res.error = (d = 0 \/ (d = -1 /\ form.b[1] = 2 ^ (WordBits - 1)))

\* MUL and IMUL leave the whole product in EDX:EAX, say by CF and OF whether the low
\* half alone is the product, and DIV or IDIV by the same operand takes it back.
MultiplyIsUndone ==
    form.kind = "multiply" =>
        LET r == IF form.op = "Mul" THEN MulResult(form.a, form.b)
                                    ELSE ImulResult(form.a, form.b)
            back == IF form.op = "Mul" THEN DivResult(r.eax, r.edx, form.b)
                                       ELSE IdivResult(r.eax, r.edx, form.b)
            high == IF form.op = "Mul" THEN 0 ELSE Cdq(r.eax)
        IN  /\ r.overflow = (r.edx # high)
            /\ form.b # 0 => ~back.error /\ back.eax = form.a /\ back.edx = 0

\* Two words around the operand's address, told apart by their bits.
Around == [w \in -(2 ^ WordBits) .. 2 ^ WordBits |-> IF w = 0 THEN form.a ELSE Wrap(w, WordBits)]

\* Extensions keep the number a byte stands for, and BT on memory tests the bit the
\* register form tests in the word a signed count leads to, also before the operand.
ExtensionsKeepTheValue ==
    form.kind = "bit" =>
        LET bits == Bits(form.size)
            offset == Signed(form.b, WordBits)
        IN  CASE form.op = "Movzx" -> Movzx(form.a, bits) = form.a % 2 ^ bits
              [] form.op = "Movsx" ->
                     Signed(Movsx(form.a, bits), WordBits) = Signed(form.a % 2 ^ bits, bits)
              [] form.op = "Bt" ->
                     \E w \in DOMAIN Around :
                         /\ w * WordBits <= offset /\ offset < (w + 1) * WordBits
                         /\ BtMemory(Around, form.b) = BtRegister(Around[w], form.b)

\* The arithmetic of the interpreter is that of the integers, for every operand: the
\* flags of ADD to CMP, shifts and rotates by any count, products, quotients and
\* extensions.
ArithmeticIsExact ==
    /\ FlagsTellTheArithmetic /\ ShiftsCompose /\ DivideIsExact /\ MultiplyIsUndone
    /\ ExtensionsKeepTheValue

=============================================================================

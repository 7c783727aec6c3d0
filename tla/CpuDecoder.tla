----------------------------- MODULE CpuDecoder -----------------------------
(***************************************************************************)
(* The instruction decoder of the IA-32 interpreter (libs/cpu, decoder.cpp *)
(* and its TryDecode helpers) over real byte values: prefixes, the opcode  *)
(* tables, ModR/M and SIB, displacements and immediates, and the errors in *)
(* the order the code meets them.                                          *)
(*                                                                         *)
(* stream is what can be fetched at EIP: the byte after its last one does  *)
(* not fetch.  Displacements, immediates and branch offsets stay the bytes *)
(* they are read from, and an effective address stays the sum of its terms,*)
(* since no property here adds them up.  Cycle costs are left out.         *)
(***************************************************************************)
EXTENDS Integers, Sequences

CONSTANTS Streams      \* the byte sequences to decode
VARIABLE stream

MaxLength == 15

(***************************************************************************)
(* InstructionStream: reading count bytes after the first n.               *)
(***************************************************************************)
\* Mutant: the sixteenth byte is refused rather than the fifteenth passed.
ReadLong(s, n, count) ==
    IF n + count <= MaxLength + 1 /\ n + count <= Len(s) THEN "ok"
    ELSE IF Len(s) <= MaxLength THEN "fetch" ELSE "InvalidOpcode"

\* NextByte checks the limit before it fetches.
Read(s, n, count) ==
    IF n + count <= MaxLength /\ n + count <= Len(s) THEN "ok"
    ELSE IF Len(s) < MaxLength THEN "fetch" ELSE "InvalidOpcode"

Bytes(s, n, count) == SubSeq(s, n + 1, n + count)

None == [kind |-> "none"]
Reg(r, size) == [kind |-> "reg", reg |-> r, size |-> size]
Imm(bytes, size) == [kind |-> "imm", bytes |-> bytes, size |-> size]
Mem(base, index, scale, disp, size) ==
    [kind |-> "mem", base |-> base, index |-> index, scale |-> scale, disp |-> disp,
     size |-> size]

NoRegister == 8      \* no base or no index register

(***************************************************************************)
(* ParseModRm at position n: an error, or the r/m operand, the reg field   *)
(* and the position after it.                                              *)
(***************************************************************************)
ParseModRm(s, n, size) ==
    LET modrm == s[n + 1]
        mod == modrm \div 64
        reg == (modrm \div 8) % 8
        rm == modrm % 8
        sib == s[n + 2]
        hasSib == mod # 3 /\ rm = 4
        base == IF hasSib THEN sib % 8 ELSE rm
        index == IF hasSib THEN (sib \div 8) % 8 ELSE 4
        at == n + (IF hasSib THEN 2 ELSE 1)
        baseless == mod = 0 /\ base = 5
        disp == CASE mod = 1 -> 1
                  [] mod = 2 \/ baseless -> 4
                  [] OTHER -> 0
        Failed(e) == [status |-> e, operand |-> None, reg |-> 0, next |-> n]
    IN  IF Read(s, n, 1) # "ok" THEN Failed(Read(s, n, 1))
        ELSE IF mod = 3
             THEN [status |-> "ok", operand |-> Reg(rm, size), reg |-> reg, next |-> n + 1]
        ELSE IF hasSib /\ Read(s, n + 1, 1) # "ok" THEN Failed(Read(s, n + 1, 1))
        ELSE IF Read(s, at, disp) # "ok" THEN Failed(Read(s, at, disp))
        ELSE [status |-> "ok", reg |-> reg, next |-> at + disp,
              operand |-> Mem(IF baseless THEN NoRegister ELSE base,
                              IF index = 4 THEN NoRegister ELSE index,
                              IF index = 4 THEN 0 ELSE sib \div 64,
                              Bytes(s, at, disp), size)]

(***************************************************************************)
(* The opcode tables.  An entry gives the instruction, the shape of its    *)
(* operands, their size, and how many immediate bytes it has.              *)
(***************************************************************************)
OpcodeEntry(id, shape, size, imm) == [id |-> id, shape |-> shape, size |-> size, imm |-> imm]

NoEntry == OpcodeEntry("Unknown", "none", 4, 0)

\* ADD, OR, ADC, SBB, AND, SUB, XOR, CMP: the order of group 1's reg field, and of
\* the rows of eight opcodes the two-operand forms start at.
AluNames == <<"Add", "Or", "Adc", "Sbb", "And", "Sub", "Xor", "Cmp">>

\* TryDecodeShift
ShiftEntry(op) ==
    CASE op \in {\hC0, \hC1} -> OpcodeEntry("group2", "rm", IF op = \hC0 THEN 1 ELSE 4, 1)
      [] op \in {\hD0, \hD1} -> OpcodeEntry("group2", "rmone", IF op = \hD0 THEN 1 ELSE 4, 0)
      [] op \in {\hD2, \hD3} -> OpcodeEntry("group2", "rmcl", IF op = \hD2 THEN 1 ELSE 4, 0)
      [] OTHER -> NoEntry

\* TryDecodeString
StringEntry(op) ==
    CASE op = \hFC -> OpcodeEntry("Cld", "none", 4, 0)
      [] op = \hFD -> OpcodeEntry("Std", "none", 4, 0)
      [] op \in {\hA4, \hA5} -> OpcodeEntry("Movs", "none", IF op = \hA4 THEN 1 ELSE 4, 0)
      [] op \in {\hA6, \hA7} -> OpcodeEntry("Cmps", "none", IF op = \hA6 THEN 1 ELSE 4, 0)
      [] op \in {\hAA, \hAB} -> OpcodeEntry("Stos", "none", IF op = \hAA THEN 1 ELSE 4, 0)
      [] op \in {\hAC, \hAD} -> OpcodeEntry("Lods", "none", IF op = \hAC THEN 1 ELSE 4, 0)
      [] op \in {\hAE, \hAF} -> OpcodeEntry("Scas", "none", IF op = \hAE THEN 1 ELSE 4, 0)
      [] OTHER -> NoEntry

\* TryDecodeMulDiv
MulDivEntry(op) ==
    CASE op = \h69 -> OpcodeEntry("Imul", "regrm", 4, 4)
      [] op = \h6B -> OpcodeEntry("Imul", "regrm", 4, 1)
      [] OTHER -> NoEntry

\* TryDecodeBitExt
BitExtEntry(op) == IF op = \h99 THEN OpcodeEntry("Cdq", "none", 4, 0) ELSE NoEntry

\* TryDecodeAtomic
AtomicEntry(op) ==
    CASE op \in \h91 .. \h97 -> OpcodeEntry("Xchg", "eaxreg", 4, 0)
      [] op \in {\h86, \h87} -> OpcodeEntry("Xchg", "rmreg", IF op = \h86 THEN 1 ELSE 4, 0)
      [] OTHER -> NoEntry

\* TryDecodeAlu: op r/m,r at 1, op r,r/m at 3, op EAX,imm at 5 of each row
AluEntry(op) ==
    CASE op < \h40 /\ op % 8 = 1 -> OpcodeEntry(AluNames[op \div 8 + 1], "rmreg", 4, 0)
      [] op < \h40 /\ op % 8 = 3 -> OpcodeEntry(AluNames[op \div 8 + 1], "regrm", 4, 0)
      [] op < \h40 /\ op % 8 = 5 -> OpcodeEntry(AluNames[op \div 8 + 1], "eax", 4, 4)
      [] op = \h85 -> OpcodeEntry("Test", "rmreg", 4, 0)
      [] op = \hA9 -> OpcodeEntry("Test", "eax", 4, 4)
      [] op \in {\hF6, \hF7} -> OpcodeEntry("group3", "rm", IF op = \hF6 THEN 1 ELSE 4, 0)
      [] op = \h81 -> OpcodeEntry("group1", "rm", 4, 4)
      [] op = \h83 -> OpcodeEntry("group1", "rm", 4, 1)
      [] OTHER -> NoEntry

\* TryDecodeData: moves, then the stack
MoveEntry(op) ==
    CASE op = \h90 -> OpcodeEntry("Nop", "none", 4, 0)
      [] op = \hF4 -> OpcodeEntry("Hlt", "none", 4, 0)
      [] op \in \hB8 .. \hBF -> OpcodeEntry("Mov", "reg", 4, 4)
      [] op = \h89 -> OpcodeEntry("Mov", "rmreg", 4, 0)
      [] op = \h8B -> OpcodeEntry("Mov", "regrm", 4, 0)
      [] op = \hC7 -> OpcodeEntry("group11", "rm", 4, 4)
      [] op = \hA1 -> OpcodeEntry("Mov", "load", 4, 4)
      [] op = \hA3 -> OpcodeEntry("Mov", "store", 4, 4)
      [] op = \h8D -> OpcodeEntry("Lea", "regrm", 4, 0)
      [] OTHER -> NoEntry

StackEntry(op) ==
    CASE op \in \h50 .. \h57 -> OpcodeEntry("Push", "reg", 4, 0)
      [] op = \h68 -> OpcodeEntry("Push", "imm", 4, 4)
      [] op = \h6A -> OpcodeEntry("Push", "imm", 4, 1)
      [] op \in \h58 .. \h5F -> OpcodeEntry("Pop", "reg", 4, 0)
      [] op = \h9C -> OpcodeEntry("Pushf", "none", 4, 0)
      [] op = \h9D -> OpcodeEntry("Popf", "none", 4, 0)
      [] OTHER -> NoEntry

\* The rest of Decode: calls and jumps, then the other forms
TransferEntry(op) ==
    CASE op = \hE8 -> OpcodeEntry("Call", "imm", 4, 4)
      [] op = \hC3 -> OpcodeEntry("Ret", "none", 4, 0)
      [] op = \hC2 -> OpcodeEntry("Ret", "imm", 4, 2)
      [] op = \hEB -> OpcodeEntry("Jmp", "imm", 4, 1)
      [] op = \hE9 -> OpcodeEntry("Jmp", "imm", 4, 4)
      [] op = \hFF -> OpcodeEntry("group5", "rm", 4, 0)
      [] OTHER -> NoEntry

OtherEntry(op) ==
    CASE op \in \h40 .. \h47 -> OpcodeEntry("Inc", "reg", 4, 0)
      [] op \in \h48 .. \h4F -> OpcodeEntry("Dec", "reg", 4, 0)
      [] op = \h8F -> OpcodeEntry("group1a", "rm", 4, 0)
      [] op \in \h70 .. \h7F -> OpcodeEntry("Jcc", "imm", 4, 1)
      [] op = \hFA -> OpcodeEntry("Cli", "none", 4, 0)
      [] op = \hFB -> OpcodeEntry("Sti", "none", 4, 0)
      [] op = \hCF -> OpcodeEntry("Iret", "none", 4, 0)
      [] op = \hCD -> OpcodeEntry("Int", "imm", 4, 1)
      [] OTHER -> NoEntry

\* After 0x0F: Jcc rel32 and TryDecodeTwoByteExtended
TwoByteEntry(op) ==
    CASE op \in \h80 .. \h8F -> OpcodeEntry("Jcc", "imm", 4, 4)
      [] op \in {\hB6, \hB7} -> OpcodeEntry("Movzx", "regrm", IF op = \hB6 THEN 1 ELSE 2, 0)
      [] op \in {\hBE, \hBF} -> OpcodeEntry("Movsx", "regrm", IF op = \hBE THEN 1 ELSE 2, 0)
      [] op = \hA3 -> OpcodeEntry("Bt", "rmreg", 4, 0)
      [] op = \hBA -> OpcodeEntry("group8", "rm", 4, 1)
      [] op \in \h90 .. \h9F -> OpcodeEntry("Setcc", "rm", 1, 0)
      [] op = \hAF -> OpcodeEntry("Imul", "regrm", 4, 0)
      [] op \in {\hB0, \hB1} -> OpcodeEntry("Cmpxchg", "rmreg", IF op = \hB0 THEN 1 ELSE 4, 0)
      [] OTHER -> NoEntry

\* The helpers are tried in this order.
OneByteEntry(op) ==
    LET found == SelectSeq(<<ShiftEntry(op), StringEntry(op), MulDivEntry(op), BitExtEntry(op),
                             AtomicEntry(op), AluEntry(op), MoveEntry(op), StackEntry(op),
                             TransferEntry(op), OtherEntry(op)>>,
                           LAMBDA e : e # NoEntry)
    IN  IF found = <<>> THEN NoEntry ELSE Head(found)

Groups == {"group1", "group1a", "group2", "group3", "group5", "group8", "group11"}

\* The instruction a group's reg field selects, or the error the field gets.
GroupId(group, reg) ==
    LET table ==
          CASE group = "group1" -> AluNames
            [] group = "group2" -> <<"Rol", "Ror", "UnsupportedFeature", "UnsupportedFeature",
                                     "Shl", "Shr", "Shl", "Sar">>
            [] group = "group3" -> <<"Test", "UnsupportedFeature", "UnsupportedFeature",
                                     "UnsupportedFeature", "Mul", "Imul", "Div", "Idiv">>
            [] group = "group5" -> <<"Inc", "Dec", "Call", "InvalidOpcode", "Jmp",
                                     "InvalidOpcode", "Push", "InvalidOpcode">>
            [] group = "group8" -> [r \in 1 .. 8 |-> IF r = 5 THEN "Bt" ELSE "UnsupportedFeature"]
            [] OTHER -> [r \in 1 .. 8 |-> IF r # 1 THEN "InvalidOpcode"
                                           ELSE IF group = "group11" THEN "Mov" ELSE "Pop"]
    IN  table[reg + 1]

Errors == {"fetch", "InvalidOpcode", "UnsupportedFeature"}

\* Only TEST of group 3 has an immediate.
ImmediateLength(e, id) ==
    IF e.id = "group3" /\ id = "Test" THEN e.size ELSE e.imm

(***************************************************************************)
(* Decode: prefixes, then the entry's operands, then the checks finalize   *)
(* makes on the prefixes.                                                  *)
(***************************************************************************)
Error(code) == [status |-> code]

RepPrefix == \hF3
RepnePrefix == \hF2
LockPrefix == \hF0
OpSizePrefix == \h66
AddrSizePrefix == \h67

Prefixes == {RepPrefix, RepnePrefix, LockPrefix, OpSizePrefix, AddrSizePrefix,
             \h2E, \h36, \h3E, \h26, \h64, \h65}

\* How many prefixes the stream starts with.
PrefixCount(s) ==
    LET notPrefix == {i \in 1 .. Len(s) : s[i] \notin Prefixes}
    IN  IF notPrefix = {} THEN Len(s)
        ELSE (CHOOSE i \in notPrefix : \A j \in notPrefix : i <= j) - 1

Repeatable == {"Movs", "Stos", "Lods", "Cmps", "Scas"}
Lockable == {"Cmpxchg", "Xchg", "Add", "Sub", "And", "Or", "Xor", "Inc", "Dec"}

\* What finalize says of an instruction after these prefixes.
Finalize(id, prefixes) ==
    IF prefixes \cap {RepPrefix, RepnePrefix} # {} /\ id \notin Repeatable
    THEN "UnsupportedFeature"
    ELSE IF LockPrefix \in prefixes /\ id \notin Lockable THEN "InvalidOpcode"
    ELSE "ok"

\* The instruction of an entry whose opcode ends at n, op being its last byte.
Operands(s, prefixes, op, n, e) ==
    LET modrm == e.shape \in {"rm", "rmone", "rmcl", "rmreg", "regrm"}
        m == ParseModRm(s, n, e.size)
        id == IF e.id \in Groups THEN GroupId(e.id, m.reg) ELSE e.id
        at == IF modrm THEN m.next ELSE n
        size == ImmediateLength(e, id)
        imm == IF size = 0 THEN None
               ELSE Imm(Bytes(s, at, size), IF e.id \in {"group2", "group8"} THEN 1 ELSE e.size)
        reg == Reg(m.reg, IF e.id \in {"Movzx", "Movsx"} THEN 4 ELSE e.size)
        opreg == Reg(op % 8, 4)
        ops == CASE e.shape = "none" -> <<None, None, None>>
                 [] e.shape = "reg" -> <<opreg, imm, None>>
                 [] e.shape = "eaxreg" -> <<Reg(0, 4), opreg, None>>
                 [] e.shape = "eax" -> <<Reg(0, 4), imm, None>>
                 [] e.shape = "imm" -> <<imm, None, None>>
                 [] e.shape = "load" -> <<Reg(0, 4), Mem(NoRegister, NoRegister, 0, imm.bytes, 4), None>>
                 [] e.shape = "store" -> <<Mem(NoRegister, NoRegister, 0, imm.bytes, 4), Reg(0, 4), None>>
                 [] e.shape = "rm" -> <<m.operand, imm, None>>
                 [] e.shape = "rmone" -> <<m.operand, Imm(<<1>>, 1), None>>
                 [] e.shape = "rmcl" -> <<m.operand, Reg(1, 1), None>>
                 [] e.shape = "rmreg" -> <<m.operand, reg, None>>
                 [] e.shape = "regrm" -> <<reg, m.operand, imm>>
    IN  IF modrm /\ m.status # "ok" THEN Error(m.status)
        ELSE IF id \in Errors THEN Error(id)
        ELSE IF id = "Lea" /\ m.operand.kind # "mem" THEN Error("InvalidOpcode")
        ELSE IF Read(s, at, size) # "ok" THEN Error(Read(s, at, size))
        ELSE IF Finalize(id, prefixes) # "ok" THEN Error(Finalize(id, prefixes))
        ELSE [status |-> "ok", id |-> id, length |-> at + size, ops |-> ops, size |-> e.size,
              condition |-> op % 16, rep |-> RepPrefix \in prefixes,
              repne |-> RepnePrefix \in prefixes, lock |-> LockPrefix \in prefixes]

Decode(s) ==
    LET n == PrefixCount(s)
        prefixes == {s[i] : i \in 1 .. n}
        escape == s[n + 1] = \h0F
        at == n + (IF escape THEN 2 ELSE 1)
        entry == IF escape THEN TwoByteEntry(s[at]) ELSE OneByteEntry(s[at])
    IN  IF Read(s, n, 1) # "ok" THEN Error(Read(s, n, 1))
        ELSE IF {RepPrefix, RepnePrefix} \subseteq prefixes THEN Error("InvalidOpcode")
        ELSE IF AddrSizePrefix \in prefixes THEN Error("UnsupportedFeature")
        ELSE IF OpSizePrefix \in prefixes THEN Error("UnsupportedFeature")
        ELSE IF Read(s, n, at - n) # "ok" THEN Error(Read(s, n + 1, 1))
        ELSE IF entry = NoEntry THEN Error("InvalidOpcode")
        ELSE Operands(s, prefixes, s[at], at, entry)

(***************************************************************************)
(* One stream per behaviour.                                               *)
(***************************************************************************)
DecoderInit == stream = <<>>

Fetch == stream = <<>> /\ stream' \in Streams

DecoderSpec == DecoderInit /\ [][Fetch]_stream

----------------------------------------------------------------------------

\* An instruction is at most fifteen bytes and is decided by exactly its bytes: cut
\* short anywhere it does not decode (the cut byte does not fetch), and whatever
\* follows it, up to the end of the executable page, changes nothing.
InstructionIsItsBytes ==
    \A d \in {Decode(stream)} :
        stream # <<>> /\ d.status = "ok" =>
            /\ d.length \in 1 .. MaxLength
            /\ \A bytes \in {SubSeq(stream, 1, n) : n \in 0 .. d.length} :
                   IF Len(bytes) < d.length THEN Decode(bytes).status = "fetch"
                                            ELSE Decode(bytes) = d

=============================================================================

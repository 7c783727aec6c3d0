------------------------------ MODULE CpuStep ------------------------------
(***************************************************************************)
(* The IA-32 interpreter's step (libs/cpu, cpu.cpp and the executors):     *)
(* interrupt boundary, decode, execute, commit; gates, frames and IRET;    *)
(* repeated string instructions; and what a step that faults leaves.       *)
(*                                                                         *)
(* An address counts doublewords and every instruction is one unit long,   *)
(* so a push moves ESP by one.  CpuDecoder and CpuArithmetic have the      *)
(* bytes and the arithmetic: here code maps an address to the decoded      *)
(* instruction, an address outside it does not fetch, and the flags are    *)
(* those that steer control (ZF, IF, TF, DF), kept in one word because     *)
(* frames store them.  A run with a budget (Cpu::RunWithBudget) is a       *)
(* sequence of Steps, its end falling after any of them.                   *)
(***************************************************************************)
EXTENDS Integers, Sequences

CONSTANTS
    Systems,        \* the machines to run, a sequence of [code, idt, limit, paged, services, start]
    Readable,       \* the addresses a read is allowed at
    Writable,       \* the addresses a write is allowed at
    Stack,          \* the addresses the guest uses as its stack
    IrqCode,        \* the code addresses of the interrupt handlers
    AckOf,          \* device register address -> the interrupt line a write clears
    GpuVector, UsbVector, HleVector,
    MaxRaises, MaxResets

\* What Decode gives: an InstructionId, or the two ways it refuses the bytes.
Instructions ==
    {"Nop", "Hlt", "Mov", "Push", "Pop", "Pushf", "Popf", "Call", "Ret", "Dec", "Cmp", "Div",
     "Std", "Cld", "Movs", "Stos", "Lods", "Cmps", "Scas", "Xchg", "Cmpxchg", "Jmp", "Jcc",
     "Cli", "Sti", "Iret", "Int", "Unknown", "Unsupported"}

MachineFields == {"gpr", "eip", "cs", "fl", "mem", "irq", "pf"}

ASSUME CpuAssumption ==
    \A k \in DOMAIN Systems :
        /\ \A a \in DOMAIN Systems[k].code : Systems[k].code[a].id \in Instructions
        /\ DOMAIN Systems[k].start = MachineFields

VARIABLES
    sys,            \* the machine chosen, one of Systems
    m,              \* [gpr, eip, cs, fl, mem, irq, pf]: context, memory, lines, last page fault
    lifecycle,
    exception,      \* last_exception_
    report,         \* the exception of the last faulting StepOutcome
    plain,          \* the same program run without an interrupt source
    raises, resets

cpuVars == <<sys, m, lifecycle, exception, report, plain, raises, resets>>

ZF == 1
TF == 2
IF_ == 4
DF == 8

Flag(e, f) == (e \div f) % 2 = 1
SetFlag(e, f, on) == IF Flag(e, f) = on THEN e ELSE IF on THEN e + f ELSE e - f

NoException == [vector |-> "none", eip |-> 0]
Raised(vector, eip) == [vector |-> vector, eip |-> eip]
NoPageFault == -1

(***************************************************************************)
(* Results.  err is the error code an executor returns; the machine in a   *)
(* failed result is the context and memory as the failure left them.       *)
(***************************************************************************)
Result(s, err, branched, next, halted, exc) ==
    [s |-> s, err |-> err, branched |-> branched, next |-> next, halted |-> halted, exc |-> exc]

Fall(s) == Result(s, "none", FALSE, 0, FALSE, NoException)
Branch(s, target) == Result(s, "none", TRUE, target, FALSE, NoException)
Halt(s) == Result(s, "none", FALSE, 0, TRUE, NoException)
Fail(s, err) == Result(s, err, FALSE, 0, FALSE, NoException)
Except(s, vector) == Result(s, "none", FALSE, 0, FALSE, Raised(vector, s.eip))

\* A memory access the space refuses; VirtualMemory remembers where.
Denied(s, a) == Fail([s EXCEPT !.pf = a], "memory")

Gpr(s, r) == s.gpr[r]
SetGpr(s, r, v) == [s EXCEPT !.gpr[r] = v]

\* mem.Write32 where it is allowed; a device register clears its line.
Store(s, a, v) ==
    IF a \in DOMAIN AckOf THEN [s EXCEPT !.irq = @ \ {AckOf[a]}] ELSE [s EXCEPT !.mem[a] = v]

(***************************************************************************)
(* Operand::Read and Operand::Write.                                       *)
(***************************************************************************)
CanRead(op) == op.kind = "mem" => op.at \in Readable
CanWrite(op) == op.kind = "mem" => op.at \in Writable

ReadOp(s, op) ==
    CASE op.kind = "reg" -> Gpr(s, op.at)
      [] op.kind = "imm" -> op.at
      [] op.kind = "mem" -> s.mem[op.at]

WriteOp(s, op, v) == IF op.kind = "reg" THEN SetGpr(s, op.at, v) ELSE Store(s, op.at, v)

(***************************************************************************)
(* The executors.  Mov stands for every instruction that reads one operand *)
(* and writes another (MOV, LEA, MOVZX, MOVSX, CDQ, SETcc); Dec and Cmp    *)
(* for the ALU, shift and bit test instructions: read, write, then flags.  *)
(***************************************************************************)
ExecuteData(s, i) ==
    IF ~CanRead(i.src) THEN Denied(s, i.src.at)
    ELSE IF ~CanWrite(i.dst) THEN Denied(s, i.dst.at)
    ELSE Fall(WriteOp(s, i.dst, ReadOp(s, i.src)))

ExecuteAlu(s, i) ==
    LET a == ReadOp(s, i.dst)
        out == IF i.id = "Dec" THEN a - 1 ELSE a - ReadOp(s, i.src)
        written == IF i.id = "Dec" THEN WriteOp(s, i.dst, out) ELSE s
    IN  IF ~CanRead(i.dst) THEN Denied(s, i.dst.at)
        ELSE IF i.id = "Cmp" /\ ~CanRead(i.src) THEN Denied(s, i.src.at)
        ELSE IF i.id = "Dec" /\ ~CanWrite(i.dst) THEN Denied(s, i.dst.at)
        ELSE Fall([written EXCEPT !.fl = SetFlag(@, ZF, out = 0)])

\* DIV and IDIV as far as control goes: a zero divisor is an exception, not an error.
ExecuteDiv(s, i) ==
    IF ~CanRead(i.src) THEN Denied(s, i.src.at)
    ELSE IF ReadOp(s, i.src) = 0 THEN Except(s, "DE")
    ELSE Fall(SetGpr(s, "eax", Gpr(s, "eax") \div ReadOp(s, i.src)))

\* Mutant: PUSH and CALL lower ESP before the write that may fail.
PushEarly(s, v) ==
    LET sp == Gpr(s, "esp") - 1
    IN  IF sp \notin Writable THEN Denied(SetGpr(s, "esp", sp), sp)
        ELSE Fall(SetGpr(Store(s, sp, v), "esp", sp))

PushWord(s, v) ==
    LET sp == Gpr(s, "esp") - 1
    IN  IF sp \notin Writable THEN Denied(s, sp) ELSE Fall(SetGpr(Store(s, sp, v), "esp", sp))

ExecuteStack(s, i) ==
    LET sp == Gpr(s, "esp")
        up == SetGpr(s, "esp", sp + 1)
    IN  CASE i.id = "Push" ->
              IF ~CanRead(i.src) THEN Denied(s, i.src.at) ELSE PushWord(s, ReadOp(s, i.src))
          [] i.id = "Pushf" -> PushWord(s, s.fl)
          [] i.id = "Call" ->
              LET r == PushWord(s, s.eip + 1)
              IN  IF r.err # "none" THEN r ELSE Branch(r.s, i.target)
          [] i.id = "Pop" ->
              IF sp \notin Readable THEN Denied(s, sp)
              ELSE IF ~CanWrite(i.dst) THEN Denied(s, i.dst.at)
              ELSE Fall(SetGpr(WriteOp(s, i.dst, s.mem[sp]), "esp", sp + 1))
          [] i.id = "Popf" ->
              IF sp \notin Readable THEN Denied(s, sp) ELSE Fall([up EXCEPT !.fl = s.mem[sp]])
          [] i.id = "Ret" ->
              IF sp \notin Readable THEN Denied(s, sp) ELSE Branch(up, s.mem[sp])

\* One element of a string instruction: the memory accesses, then ESI and EDI.
StringElement(s, i) ==
    LET step == IF Flag(s.fl, DF) THEN -1 ELSE 1
        src == Gpr(s, "esi")
        dst == Gpr(s, "edi")
        reads == CASE i.id = "Movs" -> {src}
                   [] i.id = "Lods" -> {src}
                   [] i.id = "Cmps" -> {src, dst}
                   [] i.id = "Scas" -> {dst}
                   [] i.id = "Stos" -> {}
        value == IF i.id \in {"Movs", "Lods"} THEN s.mem[src] ELSE Gpr(s, "eax")
        equal == IF i.id = "Cmps" THEN s.mem[src] = s.mem[dst] ELSE value = s.mem[dst]
        wrote == CASE i.id \in {"Movs", "Stos"} -> Store(s, dst, value)
                   [] i.id = "Lods" -> SetGpr(s, "eax", value)
                   [] OTHER -> [s EXCEPT !.fl = SetFlag(@, ZF, equal)]
        esi == IF i.id \in {"Stos", "Scas"} THEN src ELSE src + step
        edi == IF i.id = "Lods" THEN dst ELSE dst + step
    IN  IF ~(reads \subseteq Readable)
        THEN Denied(s, IF src \in reads \ Readable THEN src ELSE dst)
        ELSE IF i.id \in {"Movs", "Stos"} /\ dst \notin Writable THEN Denied(s, dst)
        ELSE Fall([wrote EXCEPT !.gpr["esi"] = esi, !.gpr["edi"] = edi])

\* With a repeat prefix a step does one element, counts ECX down, and stays on the
\* instruction while there is more to do.
ExecuteString(s, i) ==
    LET r == StringElement(s, i)
        ecx == Gpr(s, "ecx") - 1
        counted == SetGpr(r.s, "ecx", ecx)
        zf == Flag(r.s.fl, ZF)
        done == i.id \in {"Cmps", "Scas"} /\ ((i.rep = "rep" /\ ~zf) \/ (i.rep = "repne" /\ zf))
    IN  IF i.rep # "no" /\ Gpr(s, "ecx") = 0 THEN Fall(s)
        ELSE IF r.err # "none" \/ i.rep = "no" THEN r
        ELSE IF ecx > 0 /\ ~done THEN Branch(counted, s.eip)
        ELSE Fall(counted)

\* CMPXCHG sets the flags before the write that may fail.
ExecuteAtomic(s, i) ==
    LET dest == ReadOp(s, i.dst)
        src == ReadOp(s, i.src)
        equal == Gpr(s, "eax") = dest
        flagged == [s EXCEPT !.fl = SetFlag(@, ZF, equal)]
    IN  IF ~CanRead(i.dst) THEN Denied(s, i.dst.at)
        ELSE IF i.id = "Xchg"
             THEN IF ~CanWrite(i.dst) THEN Denied(s, i.dst.at)
                  ELSE Fall(WriteOp(WriteOp(s, i.dst, src), i.src, dest))
        ELSE IF ~equal THEN Fall(SetGpr(flagged, "eax", dest))
        ELSE IF ~CanWrite(i.dst) THEN Denied(flagged, i.dst.at)
        ELSE Fall(WriteOp(flagged, i.dst, src))

ExecuteBranch(s, i) ==
    IF i.id = "Jmp" \/ Flag(s.fl, ZF) = i.when THEN Branch(s, i.target) ELSE Fall(s)

(***************************************************************************)
(* Gates.  The frame's words go to memory one by one, EFLAGS first; ESP,   *)
(* CS, EIP and the flags change once all of them are written.  No caller   *)
(* passes an error code, so a frame has three words.                       *)
(***************************************************************************)
WriteWord(r, a, v) ==
    IF r.err # "none" THEN r
    ELSE IF a \notin Writable THEN Denied(r.s, a)
    ELSE Fall(Store(r.s, a, v))

PushFrame(s, return) ==
    LET sp == Gpr(s, "esp")
        flags == WriteWord(Fall(s), sp - 1, s.fl)
        all == WriteWord(WriteWord(flags, sp - 2, s.cs), sp - 3, return)
    IN  IF all.err # "none" THEN all ELSE Fall(SetGpr(all.s, "esp", sp - 3))

\* Mutant: an interrupt returns past the instruction it came before, the way INT does.
DeliverGatePast(s, vector, software, return) ==
    LET gate == sys.idt[vector]
        framed == PushFrame(s, IF software THEN return ELSE return + 1)
        entered == [framed.s EXCEPT !.cs = gate.selector, !.eip = gate.offset]
    IN  IF vector > sys.limit THEN Fail(s, "GeneralProtection")
        ELSE IF framed.err # "none" THEN framed
        ELSE Fall([entered EXCEPT !.fl = SetFlag(SetFlag(@, IF_, FALSE), TF, FALSE)])

DeliverGate(s, vector, software, return) ==
    LET gate == sys.idt[vector]
        framed == PushFrame(s, return)
        entered == [framed.s EXCEPT !.cs = gate.selector, !.eip = gate.offset]
    IN  IF vector > sys.limit THEN Fail(s, "GeneralProtection")
        ELSE IF ~gate.readable THEN Denied(s, vector)
        ELSE IF ~gate.present THEN Fail(s, "SegmentNotPresent")
        ELSE IF gate.type \notin {"interrupt", "trap"} THEN Fail(s, "GeneralProtection")
        ELSE IF software /\ s.cs % 4 > gate.dpl THEN Fail(s, "GeneralProtection")
        ELSE IF framed.err # "none" THEN framed
        ELSE IF gate.type = "trap" THEN Fall(entered)
        ELSE Fall([entered EXCEPT !.fl = SetFlag(SetFlag(@, IF_, FALSE), TF, FALSE)])

ExecuteIret(s) ==
    LET sp == Gpr(s, "esp")
        frame == {sp, sp + 1, sp + 2}
        returned == [SetGpr(s, "esp", sp + 3) EXCEPT !.eip = s.mem[sp], !.cs = s.mem[sp + 1],
                                                     !.fl = s.mem[sp + 2]]
    IN  IF ~(frame \subseteq Readable)
        THEN Denied(s, CHOOSE a \in frame \ Readable : \A b \in frame \ Readable : a <= b)
        ELSE IF s.mem[sp + 1] % 4 # s.cs % 4 THEN Fail(s, "GeneralProtection")
        ELSE Branch(returned, returned.eip)

\* The session's trap handler: it moves EIP past the INT before it dispatches, and a
\* service the registry has not is an error.
TrapHandler(s) ==
    LET past == [s EXCEPT !.eip = @ + 1]
    IN  IF Gpr(s, "eax") \in sys.services THEN Branch(SetGpr(past, "eax", 0), past.eip)
        ELSE Fail(past, "UnsupportedFeature")

ExecuteInterruptInstruction(s, i) ==
    LET r == DeliverGate(s, i.vector, TRUE, s.eip + 1)
    IN  CASE i.id = "Cli" -> Fall([s EXCEPT !.fl = SetFlag(@, IF_, FALSE)])
          [] i.id = "Sti" -> Fall([s EXCEPT !.fl = SetFlag(@, IF_, TRUE)])
          [] i.id = "Iret" -> ExecuteIret(s)
          [] i.id = "Int" /\ i.vector = HleVector -> TrapHandler(s)
          [] OTHER -> IF r.err # "none" THEN r ELSE Branch(r.s, r.s.eip)

\* Executor::Execute
Dispatch(s, i) ==
    CASE i.id = "Nop" -> Fall(s)
      [] i.id = "Hlt" -> Halt(s)
      [] i.id = "Mov" -> ExecuteData(s, i)
      [] i.id \in {"Push", "Pop", "Pushf", "Popf", "Call", "Ret"} -> ExecuteStack(s, i)
      [] i.id \in {"Dec", "Cmp"} -> ExecuteAlu(s, i)
      [] i.id = "Div" -> ExecuteDiv(s, i)
      [] i.id = "Std" -> Fall([s EXCEPT !.fl = SetFlag(@, DF, TRUE)])
      [] i.id = "Cld" -> Fall([s EXCEPT !.fl = SetFlag(@, DF, FALSE)])
      [] i.id \in {"Movs", "Stos", "Lods", "Cmps", "Scas"} -> ExecuteString(s, i)
      [] i.id \in {"Xchg", "Cmpxchg"} -> ExecuteAtomic(s, i)
      [] i.id \in {"Jmp", "Jcc"} -> ExecuteBranch(s, i)
      [] i.id \in {"Cli", "Sti", "Iret", "Int"} -> ExecuteInterruptInstruction(s, i)

(***************************************************************************)
(* One instruction: decode, execute, deliver its exception, commit EIP.    *)
(***************************************************************************)
Decoded(s) == IF s.eip \in DOMAIN sys.code THEN sys.code[s.eip] ELSE [id |-> "unfetchable"]

\* The errors Decode and Execute give: "Unknown" is an opcode outside the subset,
\* "Unsupported" a form of a known one.
RunInstruction(s) ==
    LET i == Decoded(s)
    IN  CASE i.id = "unfetchable" -> Denied(s, s.eip)
          [] i.id = "Unknown" -> Fail(s, "InvalidOpcode")
          [] i.id = "Unsupported" -> Fail(s, "UnsupportedFeature")
          [] OTHER -> Dispatch(s, i)

Commit(s, r) ==
    IF r.branched THEN [r.s EXCEPT !.eip = r.next] ELSE [r.s EXCEPT !.eip = s.eip + 1]

\* The vector of #DE
DivideVector == 0

\* The effect of an instruction with result r on a machine s, exceptions delivered
\* through the IDT.
InstructionOutcome(s, r) ==
    LET gate == DeliverGate(r.s, DivideVector, FALSE, r.exc.eip)
    IN  IF r.err # "none" THEN [s |-> r.s, to |-> "Faulted", err |-> r.err]
        ELSE IF r.exc # NoException
             THEN IF sys.limit >= 0 /\ gate.err = "none"
                  THEN [s |-> gate.s, to |-> "Running", err |-> "none"]
                  ELSE [s |-> IF sys.limit >= 0 THEN gate.s ELSE s, to |-> "Faulted", err |-> "exception"]
        ELSE [s |-> Commit(s, r), to |-> IF r.halted THEN "Halted" ELSE "Running", err |-> "none"]

\* The exception an error becomes: a page fault the memory remembers, else the one
\* already recorded, else one for the error.
Classified(s, err) ==
    IF sys.paged /\ s.pf # NoPageFault THEN Raised("PF", s.eip)
    ELSE IF exception # NoException THEN exception
    ELSE Raised(IF err = "InvalidOpcode" THEN "UD" ELSE "GP", s.eip)

(***************************************************************************)
(* The interrupt controller: the GPU's line before the USB controller's.   *)
(***************************************************************************)
HasPendingInterrupt == m.irq # {}

AcknowledgeInterrupt == IF "gpu" \in m.irq THEN GpuVector ELSE UsbVector

AtBoundary == HasPendingInterrupt /\ Flag(m.fl, IF_)

\* StepGeneric at an interrupt boundary
StepInterrupt ==
    /\ lifecycle = "Running" /\ AtBoundary
    /\ LET r == DeliverGate(m, AcknowledgeInterrupt, FALSE, m.eip)
       IN  /\ m' = r.s
           /\ lifecycle' = IF r.err = "none" THEN "Running" ELSE "Faulted"
           /\ report' = IF r.err = "none" THEN report ELSE exception
    /\ UNCHANGED <<sys, exception, plain, raises, resets>>

\* StepGeneric otherwise; the plain machine follows outside the interrupt handlers.
StepInstruction ==
    /\ lifecycle = "Running" /\ ~AtBoundary
    /\ \E r \in {RunInstruction(m)}, p \in {RunInstruction(plain)} :
       \E o \in {InstructionOutcome(m, r)} :
           /\ m' = o.s
           /\ lifecycle' = o.to
           /\ exception' = CASE o.err \in {"none", "exception"} /\ r.exc # NoException -> r.exc
                             [] o.err \in {"none", "UnsupportedFeature"} -> exception
                             [] OTHER -> Classified([m EXCEPT !.pf = r.s.pf], o.err)
           /\ report' = CASE o.to # "Faulted" -> report
                          [] o.err = "UnsupportedFeature" -> NoException
                          [] OTHER -> exception'
           /\ plain' = IF m.eip \in IrqCode THEN plain
                       ELSE [InstructionOutcome(plain, p).s EXCEPT !.irq = {}]
    /\ UNCHANGED <<sys, raises, resets>>

\* A device asserts its line between two slices.
RaiseLine(line) ==
    /\ raises < MaxRaises /\ line \notin m.irq
    /\ m' = [m EXCEPT !.irq = @ \cup {line}]
    /\ raises' = raises + 1
    /\ UNCHANGED <<sys, lifecycle, exception, report, plain, resets>>

\* Cpu::Reset, and the embedder's new start: memory, its last page fault and the
\* devices' lines stay.
Reset ==
    /\ resets < MaxResets /\ lifecycle # "Running"
    /\ m' = [sys.start EXCEPT !.mem = m.mem, !.irq = m.irq, !.pf = m.pf]
    /\ plain' = [m' EXCEPT !.irq = {}]
    /\ lifecycle' = "Running" /\ exception' = NoException /\ report' = NoException
    /\ resets' = resets + 1
    /\ UNCHANGED <<sys, raises>>

\* The k-th machine about to execute its first instruction.
PowerOn(k) ==
    /\ sys = Systems[k]
    /\ m = sys.start /\ plain = sys.start
    /\ lifecycle = "Running" /\ exception = NoException /\ report = NoException
    /\ raises = 0 /\ resets = 0

CpuInit == \E k \in DOMAIN Systems : PowerOn(k)

CpuNext == StepInterrupt \/ StepInstruction \/ (\E line \in {"gpu", "usb"} : RaiseLine(line)) \/ Reset

CpuSpec == CpuInit /\ [][CpuNext]_cpuVars

----------------------------------------------------------------------------

\* Interrupts are invisible to the program they interrupt, whichever instruction or
\* repeated string element they fall before and however they nest: outside the
\* handlers the context and the memory (but for the dead words under ESP) are those of
\* the run without an interrupt source.
InterruptsAreInvisible ==
    lifecycle # "Faulted" /\ m.eip \notin IrqCode =>
        /\ m.gpr = plain.gpr /\ m.eip = plain.eip /\ m.cs = plain.cs /\ m.fl = plain.fl
        /\ \A a \in DOMAIN m.mem :
               (a \in Stack /\ a < Gpr(m, "esp")) \/ m.mem[a] = plain.mem[a]

\* The steps whose failure leaves more than the fault: a gate's frame, CMPXCHG's
\* flags, and the EIP of a call no service answers.
LeavesPart(i) ==
    i.id \in {"Div", "Cmpxchg", "Int"}

\* "faults sem mutação parcial": an instruction that faults leaves registers, flags,
\* EIP and memory as they were before its step, a repeated string instruction as they
\* were before its current element.
FaultLeavesNoTrace ==
    [][lifecycle = "Running" /\ lifecycle' = "Faulted" /\ ~AtBoundary /\ ~LeavesPart(Decoded(m))
          => [m' EXCEPT !.pf = NoPageFault] = [m EXCEPT !.pf = NoPageFault]]_cpuVars

\* No fault, the refusal of an interrupt's or an exception's gate included, touches a
\* register, the flags (but CMPXCHG's) or EIP (but INT's), and what it leaves in memory
\* is at most the first two words of a frame, both under ESP.
FaultKeepsContext ==
    [][lifecycle = "Running" /\ lifecycle' = "Faulted" =>
          /\ m'.gpr = m.gpr /\ m'.cs = m.cs
          /\ (AtBoundary \/ Decoded(m).id # "Int") => m'.eip = m.eip
          /\ (AtBoundary \/ Decoded(m).id # "Cmpxchg") => m'.fl = m.fl
          /\ \A a \in DOMAIN m.mem :
                 a \notin {Gpr(m, "esp") - 1, Gpr(m, "esp") - 2} => m'.mem[a] = m.mem[a]]_cpuVars

\* "nenhuma escrita parcial ou alteração de contexto permanece" when a write of an
\* interrupt's frame fails.  Violated: DeliverGate writes the words one by one and
\* does not take the first back when a later one is refused.
FrameIsTransactional ==
    [][lifecycle = "Running" /\ lifecycle' = "Faulted" /\ AtBoundary
          => m'.mem = m.mem /\ m'.gpr = m.gpr]_cpuVars

\* "a CPU produz #UD no EIP da instrução": the exception a fault reports is the
\* faulting instruction's own.  Violated: a #DE that was delivered stays in
\* last_exception_, and a later invalid opcode is reported with it.
ReportIsCurrent ==
    lifecycle = "Faulted" /\ report # NoException => report.eip = m.eip

=============================================================================

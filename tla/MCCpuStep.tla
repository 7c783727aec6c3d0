----------------------------- MODULE MCCpuStep -----------------------------
(***************************************************************************)
(* Machines for CpuStep.  Data is at 0..4 (address 4 is read-only), the    *)
(* stack at 6..13 under a guard word at 5, the devices' acknowledge        *)
(* registers at 20 and 21.  The handlers save EAX, acknowledge their       *)
(* device, disturb the flags and return.                                   *)
(***************************************************************************)
EXTENDS CpuStep

R(r) == [kind |-> "reg", at |-> r]
I(v) == [kind |-> "imm", at |-> v]
M(a) == [kind |-> "mem", at |-> a]

Op(id) == [id |-> id]
Two(id, dst, src) == [id |-> id, dst |-> dst, src |-> src]
One(id, op) == [id |-> id, dst |-> op, src |-> op]
Str(id, rep) == [id |-> id, rep |-> rep]
To(id, target) == [id |-> id, target |-> target, when |-> FALSE]
IntN(vector) == [id |-> "Int", vector |-> vector]

At(base, program) == [a \in base .. (base + Len(program) - 1) |-> program[a - base + 1]]

Merge(f, g) == [a \in DOMAIN f \cup DOMAIN g |-> IF a \in DOMAIN f THEN f[a] ELSE g[a]]

Handler(base, ack) ==
    At(base, <<One("Push", R("eax")), Two("Mov", R("eax"), I(7)), Two("Mov", M(ack), R("eax")),
               Two("Cmp", R("eax"), I(7)), One("Pop", R("eax")), Op("Iret")>>)

MCIrqCode == 60 .. 75

\* The divide handler at 50 gives the divisor a value and returns to the DIV; the
\* software interrupt's handler at 54 only returns.
Handlers ==
    Merge(Merge(Handler(60, 20), Handler(70, 21)),
          Merge(At(50, <<Two("Mov", R("ecx"), I(1)), Op("Iret")>>), At(54, <<Op("Iret")>>)))

Gate(offset, type, selector) ==
    [offset |-> offset, type |-> type, selector |-> selector, dpl |-> 0, present |-> TRUE,
     readable |-> TRUE]

Idt(type) ==
    <<Gate(60, type, 8), Gate(70, type, 8), Gate(54, "trap", 8)>>

WithDivide(idt) == [v \in 0 .. 3 |-> IF v = 0 THEN Gate(50, "interrupt", 8) ELSE idt[v]]

Start(esp, cs) ==
    [gpr |-> [r \in {"eax", "ecx", "esp", "esi", "edi"} |->
                CASE r = "eax" -> 2 [] r = "ecx" -> 2 [] r = "esp" -> esp
                  [] r = "esi" -> 0 [] r = "edi" -> 2],
     eip |-> 0, cs |-> cs, fl |-> IF_, mem |-> [a \in (0 .. 13) |-> IF a < 4 THEN a + 1 ELSE 0],
     irq |-> {}, pf |-> NoPageFault]

System(program, idt, limit, paged, esp, cs) ==
    [code |-> Merge(At(0, program), Handlers), idt |-> idt, limit |-> limit, paged |-> paged,
     services |-> {0, 1}, start |-> Start(esp, cs)]

\* Copy, scan, branch, stack and call, software interrupt, divide error, exchange.
Strings == <<Str("Movs", "rep"), Two("Mov", R("edi"), I(0)), Two("Mov", R("ecx"), I(3)),
             Str("Scas", "repne"), To("Jcc", 0), One("Push", R("ecx")), One("Pop", R("esi")),
             Op("Std"), Two("Mov", R("edi"), I(1)), Two("Mov", R("ecx"), I(2)),
             Str("Stos", "rep"), Op("Cld"), Str("Lods", "no"), Op("Hlt")>>

Calls == <<Op("Pushf"), Op("Cli"), To("Call", 8), Op("Popf"), IntN(3), Two("Mov", R("eax"), I(1)),
           IntN(9), To("Jmp", 10),
           Two("Xchg", M(1), R("eax")), Op("Ret"),
           Two("Cmpxchg", M(2), R("ecx")), Op("Sti"), Op("Nop"), Op("Hlt")>>

Divide == <<Two("Mov", R("ecx"), I(0)), One("Div", R("ecx")), One("Dec", R("ecx")),
            Str("Cmps", "rep"), Op("Unknown")>>

\* Instructions whose access is refused.
Refused == <<<<One("Push", R("eax")), One("Push", R("eax")), Op("Pushf"), To("Call", 0)>>,
             <<Two("Mov", R("edi"), I(3)), Str("Stos", "rep")>>,
             <<Two("Mov", M(4), R("eax"))>>, <<Two("Xchg", M(4), R("eax"))>>,
             <<Two("Mov", R("eax"), I(0)), Two("Cmpxchg", M(4), R("eax"))>>,
             <<One("Dec", M(4))>>, <<One("Pop", M(4))>>, <<Op("Unsupported")>>,
             <<Two("Mov", R("edi"), I(3)), Str("Movs", "rep"), Op("Hlt")>>,
             <<Two("Mov", R("eax"), I(5)), IntN(9)>>, <<IntN(3)>>, <<Op("Iret")>>>>

Running(p, type) == System(p, WithDivide(Idt(type)), 3, FALSE, 14, 8)

MCSystems ==
    [i \in DOMAIN Refused |-> System(Refused[i], WithDivide(Idt("interrupt")), 3, TRUE, 8, 8)]
    \o <<Running(Strings, "interrupt"), Running(Strings, "trap"), Running(Calls, "interrupt"),
         Running(Calls, "trap"), Running(Divide, "interrupt"), Running(Divide, "trap"),
         System(Divide, WithDivide(Idt("interrupt")), -1, FALSE, 14, 8),
         System(Strings, WithDivide(Idt("interrupt")), 3, FALSE, 8, 8),
         System(Calls, WithDivide([Idt("interrupt") EXCEPT ![2].present = FALSE]), 3, FALSE, 14, 11),
         System(Calls, WithDivide([Idt("trap") EXCEPT ![1].readable = FALSE, ![2].type = "task"]),
                3, FALSE, 14, 8)>>

MCReadable == 0 .. 13
MCWritable == {0, 1, 2, 3} \cup (6 .. 13) \cup {20, 21}
MCStack == 6 .. 13
MCAckOf == [a \in {20, 21} |-> IF a = 20 THEN "gpu" ELSE "usb"]

=============================================================================

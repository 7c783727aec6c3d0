---------------------------- MODULE MCCpuDecoder ----------------------------
(***************************************************************************)
(* Streams for CpuDecoder: every opcode of both tables, after no prefix,   *)
(* after each prefix that matters, and after nine segment overrides (which *)
(* put the fifteen byte limit inside the longest forms), followed by a     *)
(* ModR/M byte of each addressing form and by enough bytes for the rest.   *)
(***************************************************************************)
EXTENDS CpuDecoder

Overrides(n) == [i \in 1 .. n |-> \h2E]

MCPrefixes == {<<>>, <<\hF3>>, <<\hF0>>, <<\h66>>, <<\hF2, \hF3>>, Overrides(9)}

Opcodes == {<<op>> : op \in 0 .. 255 \ ({\h0F} \cup Prefixes)} \cup {<<\h0F, op>> : op \in 0 .. 255}

\* Register; [EAX]; [disp32]; [base+disp8]; SIB; SIB without base; SIB+disp32; and the
\* reg fields 4 and 7 of the groups.
ModRms == {<<\hC1>>, <<\h00>>, <<\h05>>, <<\h41>>, <<\h04, \h88>>, <<\h04, \h25>>,
           <<\h84, \h63>>, <<\hE0>>, <<\h79>>}

MCStreams ==
    {p \o o \o m \o <<\h10, \h20, \h30, \h40, \h50, \h60, \h70, \h80>> :
        p \in MCPrefixes, o \in Opcodes, m \in ModRms}
    \cup {Overrides(n) \o <<\h90>> : n \in 13 .. 16}

=============================================================================

--------------------------- MODULE GpuPushbuffer ---------------------------
(***************************************************************************)
(* The NV2A pushbuffer processor and the device it draws on: decoding,      *)
(* validation, application and budgets of a submission, the 2D and 3D       *)
(* drawing state kept between submissions, the two surfaces and the         *)
(* interrupt registers.                                                     *)
(*                                                                         *)
(* A packet is [op, first, same, vals]: method offsets first, first + 4,    *)
(* ..., or first each time when same holds.  A method that only stores its  *)
(* value is a latch; the methods that read the latches draw.  A triangle    *)
(* that is rasterised shades the whole surface: GpuRaster has the coverage. *)
(* A submission runs under the session mutex, so no other call interleaves  *)
(* with its steps.                                                          *)
(***************************************************************************)
EXTENDS Integers, Sequences, FiniteSets

CONSTANTS
    Width, Height, \* the dimensions of the surfaces
    Buffers,       \* the pushbuffers in guest memory: sequences of packets
    Limits,        \* PushbufferBudgets, a record with the fields of NoStats
    MaxDraw,       \* the largest vertex count ValidateFetch accepts
    MaxCalls       \* bound: submissions in a behaviour

VARIABLES
    gpu,           \* Nv2aDevice: surfaces, sequence, frames, fault, registers
    pb,            \* PushbufferProcessor: object, latches, stats, unsupported
    submission,    \* the submission in progress
    dropped,       \* history: drawing methods whose failure was ignored
    calls

gpuVars == <<gpu, pb, submission, dropped, calls>>

kMethodSetObject == 0
kMethodClearColor == \h120
kMethodClearSurface == \h124
kMethodRectX == \h140
kMethodRectY == \h144
kMethodRectW == \h148
kMethodRectH == \h14C
kMethodRectColor == \h150
kMethodRectDraw == \h154
kMethodFlip == \h180
kMethod3dVertexOffset == \h1680
kMethod3dIndexAddress == \h16AC
kMethod3dVertexFormat == \h1740
kMethod3dIndexFormat == \h1760
kMethod3dBeginEnd == \h17FC
kMethod3dDrawArrays == \h1808
kMethod3dDrawElements32 == \h1818
kMethod3dDrawElements16 == \h181C
kMethod3dTextureOffset == \h1B00
kMethod3dTextureFormat == \h1B04
kMethod3dTextureControl == \h1B0C
kMethod3dTextureSize == \h1B14

Draws == {kMethod3dDrawArrays, kMethod3dDrawElements32, kMethod3dDrawElements16}
Effects == Draws \cup {kMethodSetObject, kMethodClearSurface, kMethodRectDraw, kMethodFlip}
Classes == {"Kelvin3D", "Synthetic2D"}

\* The latches the drawing methods read, with the values they start from: the
\* member initialisers of the processor, its 3D context and texture stage 0.
InitialLatches ==
    [m \in {kMethodClearColor, kMethodRectX, kMethodRectY, kMethodRectW, kMethodRectH,
            kMethodRectColor} |->
       CASE m = kMethodClearColor -> "black" [] m = kMethodRectColor -> "white" [] OTHER -> 0]
InitialContext ==
    [m \in {kMethod3dVertexOffset, kMethod3dIndexAddress, kMethod3dVertexFormat,
            kMethod3dIndexFormat, kMethod3dBeginEnd, kMethod3dTextureOffset,
            kMethod3dTextureFormat, kMethod3dTextureControl, kMethod3dTextureSize} |->
       CASE m = kMethod3dBeginEnd -> "Triangles"
         [] m \in {kMethod3dVertexOffset, kMethod3dTextureControl} -> "disabled"
         [] m = kMethod3dTextureSize -> "empty"
         [] m \in {kMethod3dIndexAddress, kMethod3dTextureOffset} -> "mapped"
         [] OTHER -> "none"]

Pixels == (0..(Width - 1)) \X (0..(Height - 1))
Plain(color) == [p \in Pixels |-> color]
NoStats == [words |-> 0, packets |-> 0, methods |-> 0, jumps |-> 0, vertices |-> 0,
            triangles |-> 0]

Least(S) == CHOOSE x \in S : \A y \in S : x <= y
Greatest(S) == CHOOSE x \in S : \A y \in S : x >= y

\* The method offset parameter i of a packet goes to.
Method(p, i) == IF p.same THEN p.first ELSE p.first + 4 * (i - 1)

\* The words a packet takes in its buffer.
Words(p) == IF p.op = "Method" THEN 1 + Len(p.vals) ELSE 1
TotalWords(b) ==
    LET sum[i \in 0..Len(b)] == IF i = 0 THEN 0 ELSE sum[i - 1] + Words(b[i])
    IN  sum[Len(b)]

Coordinates == {kMethodRectX, kMethodRectY, kMethodRectW, kMethodRectH}

\* PushbufferPacket.  A parameter is a word: where the code computes with it, as
\* a coordinate or as a count of vertices, it is a number.
IsPacket(p) ==
    \/ p.op = "Unknown"
    \/ p.op = "Jump" /\ p.target \in Nat \ {0}
    \/ /\ p.op = "Method" /\ p.first \in Nat /\ p.same \in BOOLEAN /\ Len(p.vals) \in Nat
       /\ \A i \in 1..Len(p.vals) : Method(p, i) \in Coordinates \cup Draws => p.vals[i] \in Nat

\* There are finitely many pushbuffers, with a method packet among them.  A budget
\* of no vertices at all would refuse every submission.
ASSUME GpuAssumption ==
    /\ Width \in Nat /\ Height \in Nat
    /\ IsFiniteSet(Buffers)
    /\ \A b \in Buffers : /\ Len(b) \in Nat /\ DOMAIN b = 1..Len(b)
                          /\ \A i \in 1..Len(b) : IsPacket(b[i])
    /\ \E b \in Buffers : \E i \in 1..Len(b) : b[i].op = "Method"
    /\ Limits \in [DOMAIN NoStats -> Nat] /\ Limits.vertices > 0

-----------------------------------------------------------------------------
(* Drawing.                                                                 *)

\* VertexFetcher::ValidateFetch: ranges are checked against the 4 GiB space
\* and the indices are read; the vertices are not.
ValidateFetch(c, indexed, n) ==
    IF n > MaxDraw THEN "LimitReached"
    ELSE IF c[kMethod3dVertexOffset] = "disabled" \/ c[kMethod3dVertexFormat] = "none"
         THEN "InvalidState"
    ELSE IF c[kMethod3dVertexFormat] = "strideTooSmall" THEN "InvalidArgument"
    ELSE IF indexed /\ c[kMethod3dIndexFormat] = "none" THEN "InvalidField"
    ELSE IF indexed /\ c[kMethod3dIndexAddress] = "unmapped" THEN "UnmappedAddress"
    ELSE IF c[kMethod3dVertexOffset] = "beyond4G" THEN "OutOfBounds"
    ELSE "None"

\* TextureSampler::ValidateStage for stage 0.
ValidateStage(c) ==
    IF c[kMethod3dTextureControl] = "disabled" THEN "None"
    ELSE IF c[kMethod3dTextureSize] = "empty" THEN "InvalidArgument"
    ELSE IF c[kMethod3dTextureFormat] = "none" THEN "UnsupportedTextureFormat"
    ELSE IF c[kMethod3dTextureOffset] = "beyond4G" THEN "OutOfBounds"
    ELSE "None"

Primitives == {"Triangles", "TriangleStrip", "TriangleFan"}

\* Nv2a3dContext::ValidateDraw.
ValidateDraw(c, indexed, n) ==
    LET fetch == ValidateFetch(c, indexed, n)
    IN  IF c[kMethod3dBeginEnd] \notin Primitives THEN "UnsupportedFeature"
        ELSE IF n < 3 \/ (c[kMethod3dBeginEnd] = "Triangles" /\ n % 3 # 0)
             THEN "InvalidArgument"
        ELSE IF fetch # "None" THEN fetch
        ELSE ValidateStage(c)

\* VertexFetcher::FetchAndAssemble: the number of triangles, or 0 and an error
\* when a vertex or an index is not in mapped memory.
FetchAndAssemble(c, indexed, n) ==
    LET ok == /\ c[kMethod3dVertexOffset] # "unmapped"
              /\ indexed => c[kMethod3dIndexAddress] # "unmapped"
    IN  [ok |-> ok,
         triangles |-> IF ~ok THEN 0
                       ELSE IF c[kMethod3dBeginEnd] = "Triangles" THEN n \div 3 ELSE n - 2]

\* Nv2a3dContext::Draw: a texel in unmapped memory ends the draw after the
\* pixels before it were written (RasterizeTriangle, SampleNearest).
Draw(c, indexed, n, surface) ==
    LET f    == FetchAndAssemble(c, indexed, n)
        torn == /\ c[kMethod3dTextureControl] = "enabled"
                /\ c[kMethod3dTextureOffset] = "partlyMapped"
    IN  IF ~f.ok THEN [surface |-> surface, ok |-> FALSE, triangles |-> 0]
        ELSE IF torn THEN [surface |-> [surface EXCEPT ![<<0, 0>>] = "shaded"],
                           ok |-> FALSE, triangles |-> 0]
        ELSE [surface |-> Plain("shaded"), ok |-> TRUE, triangles |-> f.triangles]

\* GpuSurface::FillRect.
FillRect(surface, l) ==
    LET ok == /\ l[kMethodRectX] + l[kMethodRectW] <= Width
              /\ l[kMethodRectY] + l[kMethodRectH] <= Height
    IN  [ok |-> ok,
         surface |-> [p \in Pixels |->
             IF /\ ok
                /\ l[kMethodRectX] <= p[1] /\ p[1] < l[kMethodRectX] + l[kMethodRectW]
                /\ l[kMethodRectY] <= p[2] /\ p[2] < l[kMethodRectY] + l[kMethodRectH]
             THEN l[kMethodRectColor] ELSE surface[p]]]

\* Nv2aDevice::Flip: the front surface becomes a copy of the back surface,
\* whose own sequence number nothing ever advances, and is then incremented.
Flip(g) == [g EXCEPT !.front = g.back, !.seq = g.backSeq + 1, !.frames = @ + 1,
                     !.intr = @ \cup {"flip"}]

-----------------------------------------------------------------------------
(* Validation and application of a packet.                                  *)

\* Mutant: a rectangle is checked as it stood before the packet.
StagedBeforePacket(p, i, m) == pb.latch[m]

\* The value a latch will have when method i of the packet is applied.
Staged(p, i, m) ==
    LET set == {j \in 1..(i - 1) : Method(p, j) = m}
    IN  IF set = {} THEN pb.latch[m] ELSE p.vals[Greatest(set)]

\* What ValidatePacket says of method i: rectangles against the staged
\* coordinates, draws against the 3D context from before the packet.
MethodError(p, i) ==
    LET m == Method(p, i)
        v == p.vals[i]
    IN  IF m = kMethodSetObject
        THEN IF v \in Classes THEN "None" ELSE "UnsupportedFeature"
        ELSE IF m = kMethodRectDraw
        THEN IF \/ Staged(p, i, kMethodRectX) + Staged(p, i, kMethodRectW) > Width
                \/ Staged(p, i, kMethodRectY) + Staged(p, i, kMethodRectH) > Height
             THEN "OutOfBounds" ELSE "None"
        ELSE IF m \in Draws THEN ValidateDraw(pb.ctx, m # kMethod3dDrawArrays, v)
        ELSE IF m \in Effects \cup DOMAIN pb.latch \cup DOMAIN pb.ctx THEN "None"
        ELSE "UnsupportedFeature"

\* ValidatePacket: the position of the first method in error, or 0.
ValidatePacket(p) ==
    LET bad == {i \in 1..Len(p.vals) : MethodError(p, i) # "None"}
    IN  IF bad = {} THEN 0 ELSE Least(bad)

\* The fault ExecutePacket records for a validation error.
FaultOf(e) ==
    CASE e = "OutOfBounds" -> "InvalidCoordinates"
      [] e = "UnsupportedFeature" -> "UnknownMethod"
      [] e = "UnsupportedTextureFormat" -> "UnsupportedTextureFormat"
      [] e = "LimitReached" -> "BudgetExhausted"
      [] e = "InvalidState" -> "InvalidState"
      [] OTHER -> "UnknownOpcode"

\* One iteration of ApplyPacket on the state s = [gpu, pb, dropped].  The
\* results of FillRect and of Draw are not looked at.
ApplyMethod(s, m, v) ==
    LET t    == [s EXCEPT !.pb.stats.methods = @ + 1]
        fill == FillRect(s.gpu.back, s.pb.latch)
        draw == Draw(s.pb.ctx, m # kMethod3dDrawArrays, v, s.gpu.back)
    IN  IF m = kMethodSetObject THEN [t EXCEPT !.pb.object = v]
        ELSE IF m = kMethodClearSurface
        THEN [t EXCEPT !.gpu.back = Plain(s.pb.latch[kMethodClearColor])]
        ELSE IF m = kMethodRectDraw
        THEN [t EXCEPT !.gpu.back = fill.surface,
                       !.dropped = IF fill.ok THEN @ ELSE @ \cup {"rect"}]
        ELSE IF m = kMethodFlip THEN [t EXCEPT !.gpu = Flip(@)]
        ELSE IF m \in Draws
        THEN [t EXCEPT !.gpu.back = draw.surface,
                       !.pb.stats.vertices = @ + v,
                       !.pb.stats.triangles = @ + draw.triangles,
                       !.dropped = IF draw.ok THEN @ ELSE @ \cup {"draw"}]
        ELSE IF m \in DOMAIN s.pb.latch THEN [t EXCEPT !.pb.latch[m] = v]
        ELSE [t EXCEPT !.pb.ctx[m] = v]

\* ApplyPacket for the first n methods.
ApplyPacket(s, p, n) ==
    LET after[i \in 0..n] ==
          IF i = 0 THEN s ELSE ApplyMethod(after[i - 1], Method(p, i), p.vals[i])
    IN  after[n]

\* RecordUnsupportedMethod is called where ValidatePacket meets a class or a
\* method it does not know.
RecordUnsupported(u, p, i) ==
    IF i # 0 /\ MethodError(p, i) = "UnsupportedFeature" /\ Method(p, i) \notin Draws
    THEN u + 1 ELSE u

\* Mutant: methods are validated and applied one after the other.
ExecutePacketInTurn(s, p) ==
    LET i == ValidatePacket(p)
    IN  IF i = 0 THEN [st |-> ApplyPacket(s, p, Len(p.vals)), error |-> "None"]
        ELSE [st |-> [ApplyPacket(s, p, i - 1) EXCEPT !.gpu.fault = FaultOf(MethodError(p, i)),
                          !.pb.unsupported = RecordUnsupported(@, p, i)],
              error |-> MethodError(p, i)]

\* ExecutePacket: all methods are validated, then all are applied.
ExecutePacket(s, p) ==
    LET i == ValidatePacket(p)
    IN  IF i = 0 THEN [st |-> ApplyPacket(s, p, Len(p.vals)), error |-> "None"]
        ELSE [st |-> [s EXCEPT !.gpu.fault = FaultOf(MethodError(p, i)),
                               !.pb.unsupported = RecordUnsupported(@, p, i)],
              error |-> MethodError(p, i)]

-----------------------------------------------------------------------------
(* A submission: one step per iteration of the loop.                        *)

Idle == [active |-> FALSE, buf |-> <<>>, pc |-> 0, left |-> 0, visited |-> {},
         error |-> "None"]

\* MachineSession::ExecutePushbuffer calls ExecuteFromMemory on a buffer.
ExecutePushbuffer(b, wordCount) ==
    /\ ~submission.active /\ calls < MaxCalls
    /\ submission' = [Idle EXCEPT !.active = TRUE, !.buf = b, !.pc = 1, !.left = wordCount]
    /\ calls' = calls + 1
    /\ UNCHANGED <<gpu, pb, dropped>>

\* Mutant: the vertices drawn are not held against their budget.
CheckBudgetWithoutVertices(st) ==
    \E f \in DOMAIN NoStats \ {"vertices", "triangles"} : st[f] >= Limits[f]

\* CheckBudgetExhausted, on counters that no caller resets.
CheckBudgetExhausted(st) == \E f \in DOMAIN NoStats : st[f] >= Limits[f]

\* The end of a submission, with the fault it sets, if any.
Return(fault, error) ==
    /\ submission' = [Idle EXCEPT !.error = error]
    /\ gpu' = IF fault = "None" THEN gpu ELSE [gpu EXCEPT !.fault = fault]

\* DecodeFromMemory: the error of the packet at the current address; memory
\* behind the buffer is not mapped.
DecodeError ==
    IF submission.pc > Len(submission.buf) THEN "UnmappedAddress"
    ELSE IF submission.buf[submission.pc].op = "Unknown" THEN "InvalidField"
    ELSE IF Words(submission.buf[submission.pc]) > submission.left THEN "TruncatedData"
    ELSE "None"

Counted(p) == [pb.stats EXCEPT !.words = @ + Words(p), !.packets = @ + 1,
                               !.jumps = IF p.op = "Jump" THEN @ + 1 ELSE @]

\* The body of the loop for a jump, which counts as one word of the buffer.
TakeJump(p) ==
    /\ pb' = [pb EXCEPT !.stats = Counted(p)]
    /\ IF Counted(p).jumps > Limits.jumps \/ p.target \in submission.visited
       THEN Return("BudgetExhausted", "LimitReached")
       ELSE /\ submission' = [submission EXCEPT !.pc = p.target, !.left = @ - 1,
                                  !.visited = @ \cup {p.target}]
            /\ UNCHANGED gpu
    /\ UNCHANGED dropped

\* The body of the loop for a method packet.
RunPacket(p) ==
    LET r == ExecutePacket([gpu |-> gpu, dropped |-> dropped,
                            pb |-> [pb EXCEPT !.stats = Counted(p)]], p)
    IN  /\ gpu' = r.st.gpu /\ pb' = r.st.pb /\ dropped' = r.st.dropped
        /\ submission' = IF r.error = "None"
                  THEN [submission EXCEPT !.pc = @ + 1, !.left = @ - Words(p)]
                  ELSE [Idle EXCEPT !.error = r.error]

\* One iteration of ExecuteFromMemory.
ExecuteFromMemory ==
    /\ submission.active
    /\ IF submission.left = 0 THEN Return("None", "None") /\ UNCHANGED <<pb, dropped>>
       ELSE IF CheckBudgetExhausted(pb.stats)
       THEN Return("BudgetExhausted", "LimitReached") /\ UNCHANGED <<pb, dropped>>
       ELSE IF DecodeError # "None"
       THEN /\ Return(IF DecodeError = "TruncatedData" THEN "PushbufferTruncated" ELSE "None",
                      DecodeError)
            /\ UNCHANGED <<pb, dropped>>
       ELSE LET p == submission.buf[submission.pc]
            IN  IF p.op = "Jump" THEN TakeJump(p) ELSE RunPacket(p)
    /\ UNCHANGED calls

\* GpuRegisterFile::Write of the video interrupt register: one clears.
WriteVideoIntr ==
    /\ ~submission.active /\ gpu.intr # {}
    /\ gpu' = [gpu EXCEPT !.intr = {}]
    /\ UNCHANGED <<pb, submission, dropped, calls>>

\* Nv2aDevice::Read or Write of a register the file does not list, or with a
\* width it does not support: only the fault changes.
BadRegisterAccess ==
    /\ ~submission.active
    /\ \E f \in {"UnknownRegister", "MisalignedRegisterAccess"} :
          gpu' = [gpu EXCEPT !.fault = f]
    /\ UNCHANGED <<pb, submission, dropped, calls>>

GpuInit ==
    /\ gpu = [back |-> Plain("blank"), front |-> Plain("blank"), backSeq |-> 0, seq |-> 0, frames |-> 0,
              fault |-> "None", intr |-> {}]
    /\ pb = [object |-> "Kelvin3D", latch |-> InitialLatches, ctx |-> InitialContext,
             stats |-> NoStats, unsupported |-> 0]
    /\ submission = Idle
    /\ dropped = {}
    /\ calls = 0

GpuNext ==
    \/ \E b \in Buffers : \E n \in {TotalWords(b), TotalWords(b) - 1} : ExecutePushbuffer(b, n)
    \/ ExecuteFromMemory
    \/ WriteVideoIntr
    \/ BadRegisterAccess

GpuSpec == GpuInit /\ [][GpuNext]_gpuVars

-----------------------------------------------------------------------------
(* Properties.                                                              *)

Drawing(g, p) == <<g.back, g.front, g.frames, p.object, p.latch, p.ctx>>

\* A packet that is refused leaves no trace: the step in which a submission
\* ends in an error changes no pixel, latch or frame count, even when the
\* methods before the offending one were in order (ExecutePacket validates the
\* whole packet before it applies any of it).
RejectedPacketLeavesNoTrace ==
    [][ submission.active /\ submission'.error # "None" => Drawing(gpu', pb') = Drawing(gpu, pb) ]_gpuVars

\* Every rectangle of an accepted packet is drawn: what ValidatePacket foresees
\* of the coordinates is what FillRect meets, whatever earlier packets, earlier
\* submissions and the methods before it left in the latches.
AcceptedRectsAreDrawn == "rect" \notin dropped

\* The vertices a packet draws.
Vertices(p) ==
    LET sum[i \in 0..Len(p.vals)] ==
          IF i = 0 THEN 0 ELSE sum[i - 1] + (IF Method(p, i) \in Draws THEN p.vals[i] ELSE 0)
    IN  sum[Len(p.vals)]

\* All submissions together exceed a budget by less than one packet, however
\* they jump and whatever they draw (CheckBudgetExhausted heads the loop).
WorkStaysInBudget ==
    LET packets == {p \in UNION {{b[i] : i \in DOMAIN b} : b \in Buffers} : p.op = "Method"}
        longest == Greatest({Words(p) : p \in packets})
    IN  /\ pb.stats.words < Limits.words + longest
        /\ pb.stats.methods < Limits.methods + longest
        /\ pb.stats.vertices < Limits.vertices + Greatest({Vertices(p) : p \in packets})
        /\ pb.stats.jumps <= Limits.jumps
        /\ pb.stats.packets <= Limits.packets

\* A frame is never published under the sequence number of an earlier one: the
\* front surface's number grows with every flip (Nv2aDevice::Flip).  Violated: the
\* number is the back surface's plus one, and nothing advances the back surface's.
FrameSequenceGrows == [][gpu'.frames > gpu.frames => gpu'.seq > gpu.seq]_gpuVars

\* A draw that was validated is drawn in full: no draw of an accepted packet
\* fails once it is applied (ValidateDraw before Draw).  Violated: ValidateDraw sees
\* the context as it stood before the packet.
AcceptedDrawsAreDrawn == "draw" \notin dropped
=============================================================================

--------------------------- MODULE DevicesProofs ---------------------------
(***************************************************************************)
(* Theorems about the devices.                                             *)
(*                                                                         *)
(* GpuPushbuffer: a packet that is refused leaves no trace, every          *)
(* rectangle of an accepted packet is drawn, and no budget is exceeded by  *)
(* a whole packet.                                                         *)
(*                                                                         *)
(* UsbHost, for every budget and every content of the lists: the gamepad's *)
(* reports reach the guest in order.                                       *)
(***************************************************************************)
EXTENDS GpuPushbuffer, UsbHost, FiniteSetTheorems, SequenceTheorems, WellFoundedInduction, TLAPS

-----------------------------------------------------------------------------
(* Numbers and finite sets of them.                                         *)

\* A set of numbers that is not empty has a least element.
LEMMA LeastElement ==
    ASSUME NEW T \in SUBSET Nat, T # {}
    PROVE  \E n \in T : \A m \in T : n <= m
<1> DEFINE R == {ss \in Nat \X Nat : ss[1] < ss[2]}
<1>1. IsWellFoundedOn(R, Nat)
  BY NatLessThanWellFounded DEF OpToRel
<1> HIDE DEF R
<1>2. PICK n \in T : \A m \in T : ~(<<m, n>> \in R)
  BY <1>1, WFMin, Zenon
<1>3. \A m \in T : ~(m < n)
  BY <1>2, Zenon DEF R
<1> QED
  BY <1>3

\* A set of numbers that holds 0, and with a number below n the next, holds all up to n.
LEMMA Induction ==
    ASSUME NEW n \in Nat, NEW T, 0 \in T, \A i \in 0 .. n : i \in T /\ i < n => i + 1 \in T
    PROVE  \A i \in 0 .. n : i \in T
<1> DEFINE F == {i \in 0 .. n : i \notin T}
<1>1. ASSUME F # {} PROVE FALSE
  <2> F \in SUBSET Nat
    OBVIOUS
  <2>1. PICK m \in F : \A k \in F : m <= k
    BY <1>1, LeastElement, Zenon
  <2>2. m \in 0 .. n /\ m # 0 /\ m - 1 \in 0 .. n /\ m - 1 \notin F
    BY <2>1
  <2>3. m - 1 \in T /\ m - 1 < n /\ (m - 1) + 1 = m
    BY <2>1, <2>2
  <2> QED
    BY <2>1, <2>3
<1> QED
  BY <1>1

\* Least is the least element.
LEMMA LeastFacts ==
    ASSUME NEW T \in SUBSET Nat, T # {}
    PROVE  Least(T) \in T
BY LeastElement, Zenon DEF Least

\* A finite set of numbers that is not empty has a greatest element.
LEMMA GreatestFacts ==
    ASSUME NEW T \in SUBSET Nat, IsFiniteSet(T), T # {}
    PROVE  Greatest(T) \in T /\ \A x \in T : x <= Greatest(T)
<1>1. PICK n \in Nat : ExistsSurjection(1 .. n, T)
  BY FS_NatSurjection
<1>2. PICK f \in Surjection(1 .. n, T) : TRUE
  BY <1>1 DEF ExistsSurjection
<1>3. f \in [1 .. n -> T] /\ \A x \in T : \E i \in 1 .. n : f[i] = x
  BY <1>2, Zenon DEF Surjection
<1>n1. \A i \in 1 .. n : f[i] \in Nat
  <2> TAKE i \in 1 .. n
  <2>1. f[i] \in T
    BY <1>3
  <2> QED
    BY <2>1, Zenon
<1> DEFINE K == {k \in 0 .. n : k = 0 \/ \E j \in 1 .. k : \A i \in 1 .. k : f[i] <= f[j]}
<1>4. 0 \in K
  OBVIOUS
<1>5. ASSUME NEW k \in 0 .. n, k \in K, k < n PROVE k + 1 \in K
  <2>0. k + 1 \in 1 .. n /\ f[k + 1] \in Nat /\ \A i \in 1 .. k + 1 : f[i] \in Nat
    <3>1. k + 1 \in 1 .. n /\ \A i \in 1 .. k + 1 : i \in 1 .. n
      BY <1>5
    <3> QED
      BY <1>n1, <3>1
  <2>1. CASE k = 0
    <3>1. \A i \in 1 .. k + 1 : f[i] <= f[1]
      BY <2>0, <2>1
    <3> QED
      BY <2>0, <2>1, <3>1
  <2>2. CASE k # 0
    <3>1. PICK j \in 1 .. k : \A i \in 1 .. k : f[i] <= f[j]
      BY <1>5, <2>2
    <3>2. f[j] \in Nat
      BY <2>0
    <3>3. CASE f[k + 1] <= f[j]
      <4>1. \A i \in 1 .. k + 1 : f[i] <= f[j]
        BY <3>1, <3>3
      <4> QED
        BY <2>0, <4>1
    <3>4. CASE f[j] <= f[k + 1]
      <4>1. \A i \in 1 .. k + 1 : f[i] <= f[k + 1]
        <5> TAKE i \in 1 .. k + 1
        <5>1. i \in 1 .. k \/ i = k + 1
          OBVIOUS
        <5> QED
          BY <2>0, <3>1, <3>2, <3>4, <5>1
      <4> QED
        BY <2>0, <4>1
    <3>5. f[k + 1] <= f[j] \/ f[j] <= f[k + 1]
      BY <2>0, <3>2
    <3> HIDE DEF K
    <3> QED
      BY <3>3, <3>4, <3>5
  <2> QED
    BY <2>1, <2>2
<1>6. n \in K
  <2> HIDE DEF K
  <2>1. \A k \in 0 .. n : k \in K /\ k < n => k + 1 \in K
    BY <1>5
  <2>2. \A k \in 0 .. n : k \in K
    BY <1>4, <2>1, Induction
  <2> QED
    BY <2>2
<1>7. n # 0
  <2>1. PICK x \in T : TRUE
    BY Zenon
  <2>2. PICK i \in 1 .. n : f[i] = x
    BY <1>3
  <2> QED
    BY <2>2
<1>8. PICK j \in 1 .. n : \A i \in 1 .. n : f[i] <= f[j]
  BY <1>6, <1>7
<1>9. f[j] \in T /\ \A x \in T : f[j] >= x
  <2>1. f[j] \in T
    BY <1>3
  <2>2. ASSUME NEW x \in T PROVE f[j] >= x
    <3>1. PICK i \in 1 .. n : f[i] = x
      BY <1>3
    <3>2. x \in Nat /\ f[j] \in Nat /\ x <= f[j]
      BY <1>8, <2>1, <3>1, Zenon
    <3> QED
      BY <3>2
  <2> QED
    BY <2>1, <2>2
<1>10. \E y \in T : \A x \in T : y >= x
  BY <1>9, Zenon
<1>11. Greatest(T) \in T /\ \A x \in T : Greatest(T) >= x
  BY <1>10, Zenon DEF Greatest
<1> QED
  BY <1>11

-----------------------------------------------------------------------------
(* The packets in guest memory.                                             *)

MethodPackets == {p \in UNION {{b[i] : i \in DOMAIN b} : b \in Buffers} : p.op = "Method"}

\* What GpuAssumption says of a method packet.
LEMMA PacketFacts ==
    ASSUME NEW p \in MethodPackets
    PROVE  /\ p.op = "Method" /\ p.first \in Nat /\ p.same \in BOOLEAN /\ Len(p.vals) \in Nat
           /\ \A i \in 1 .. Len(p.vals) : Method(p, i) \in Coordinates \cup Draws => p.vals[i] \in Nat
<1>1. p.op = "Method" /\ \E b \in Buffers : \E i \in DOMAIN b : p = b[i]
  BY Zenon DEF MethodPackets
<1>2. IsPacket(p)
  BY <1>1, GpuAssumption
<1> QED
  BY <1>1, <1>2 DEF IsPacket

\* A packet of a buffer that is neither a jump nor unknown is a method packet.
LEMMA MethodPacket ==
    ASSUME NEW b \in Buffers, NEW i \in 1 .. Len(b), b[i].op # "Unknown", b[i].op # "Jump"
    PROVE  b[i] \in MethodPackets
<1>1. IsPacket(b[i]) /\ i \in DOMAIN b
  BY GpuAssumption
<1>2. b[i].op = "Method"
  BY <1>1 DEF IsPacket
<1>3. b[i] \in {b[j] : j \in DOMAIN b}
  BY <1>1, Zenon
<1>4. {b[j] : j \in DOMAIN b} \in {{c[j] : j \in DOMAIN c} : c \in Buffers}
  BY Zenon
<1> QED
  BY <1>2, <1>3, <1>4, Zenon DEF MethodPackets

\* There are finitely many method packets, and there is one.
LEMMA PacketsFinite == IsFiniteSet(MethodPackets) /\ MethodPackets # {}
<1> DEFINE Of(b) == {b[i] : i \in DOMAIN b}
           S == {Of(b) : b \in Buffers}
<1>1. IsFiniteSet(S)
  <2> DEFINE g == [b \in Buffers |-> Of(b)]
  <2> HIDE DEF Of
  <2>1. g \in Surjection(Buffers, S)
    BY Zenon DEF Surjection
  <2>2. IsFiniteSet(Buffers)
    BY GpuAssumption
  <2> HIDE DEF g, S
  <2> QED
    BY <2>1, <2>2, FS_Surjection
<1>2. ASSUME NEW T \in S PROVE IsFiniteSet(T)
  <2>1. PICK b \in Buffers : T = Of(b)
    BY Zenon
  <2>2. Len(b) \in Nat /\ DOMAIN b = 1 .. Len(b)
    BY GpuAssumption
  <2> DEFINE g == [i \in 1 .. Len(b) |-> b[i]]
  <2>3. g \in Surjection(1 .. Len(b), T)
    BY <2>1, <2>2, Zenon DEF Surjection
  <2>4. IsFiniteSet(1 .. Len(b))
    BY <2>2, FS_Interval
  <2> HIDE DEF g
  <2> QED
    BY <2>3, <2>4, FS_Surjection
<1>3. IsFiniteSet(UNION S)
  <2> HIDE DEF S
  <2> QED
    BY <1>1, <1>2, FS_UNION
<1>4. MethodPackets \in SUBSET UNION S
  BY Zenon DEF MethodPackets
<1>5. IsFiniteSet(MethodPackets)
  <2> HIDE DEF S
  <2> QED
    BY <1>3, <1>4, FS_Subset
<1>6. MethodPackets # {}
  <2>0. PICK b \in Buffers : \E i \in 1 .. Len(b) : b[i].op = "Method"
    BY GpuAssumption
  <2>1. PICK i \in 1 .. Len(b) : b[i].op = "Method"
    BY <2>0
  <2>2. b[i].op # "Unknown" /\ b[i].op # "Jump"
    BY <2>1
  <2>3. b[i] \in MethodPackets
    BY <2>2, MethodPacket
  <2> QED
    BY <2>3
<1> QED
  BY <1>5, <1>6

\* The words of a method packet: its header and its parameters.
LEMMA WordsFacts ==
    ASSUME NEW p \in MethodPackets
    PROVE  Words(p) \in Nat /\ Words(p) = 1 + Len(p.vals)
BY PacketFacts DEF Words

\* No packet is longer than the longest.
LEMMA LongestFacts ==
    /\ Greatest({Words(p) : p \in MethodPackets}) \in Nat \ {0}
    /\ \A p \in MethodPackets : Words(p) <= Greatest({Words(q) : q \in MethodPackets})
<1> DEFINE W == {Words(p) : p \in MethodPackets}
           g == [p \in MethodPackets |-> Words(p)]
<1>1. W \in SUBSET Nat /\ W # {} /\ 0 \notin W
  BY WordsFacts, PacketFacts, PacketsFinite
<1>2. g \in Surjection(MethodPackets, W)
  BY Zenon DEF Surjection
<1>3. \A p \in MethodPackets : Words(p) \in W
  BY Zenon
<1> HIDE DEF W, g
<1>4. IsFiniteSet(W)
  BY <1>2, PacketsFinite, FS_Surjection
<1>5. Greatest(W) \in W /\ \A x \in W : x <= Greatest(W)
  BY <1>1, <1>4, GreatestFacts
<1>6. Greatest(W) \in Nat \ {0} /\ \A p \in MethodPackets : Words(p) <= Greatest(W)
  BY <1>1, <1>3, <1>5, Zenon
<1> QED
  BY <1>6 DEF W

-----------------------------------------------------------------------------
(* The recursive functions of the model have the values they are given.     *)

\* Sums of numbers: the function that Vertices defines exists.
LEMMA SumExists ==
    ASSUME NEW n \in Nat, NEW w
    PROVE  \E f : f = [i \in 0 .. n |-> IF i = 0 THEN 0 ELSE f[i - 1] + w[i]]
<1> DEFINE Turn(f, i) == IF i = 0 THEN 0 ELSE f[i - 1] + w[i]
           T == {k \in 0 .. n : \E f : f = [i \in 0 .. k |-> Turn(f, i)]}
<1>1. 0 \in T
  <2> DEFINE f == [i \in 0 .. 0 |-> 0]
  <2>1. \A i \in 0 .. 0 : Turn(f, i) = 0
    OBVIOUS
  <2>2. f = [i \in 0 .. 0 |-> Turn(f, i)]
    BY <2>1
  <2> HIDE DEF f, Turn
  <2> QED
    BY <2>2
<1>2. ASSUME NEW k \in 0 .. n, k \in T, k < n PROVE k + 1 \in T
  <2>1. PICK f : f = [i \in 0 .. k |-> Turn(f, i)]
    BY <1>2
  <2> DEFINE g == [i \in 0 .. k + 1 |-> IF i = k + 1 THEN Turn(f, k + 1) ELSE f[i]]
  <2>2. ASSUME NEW i \in 0 .. k + 1 PROVE g[i] = Turn(g, i)
    <3>1. CASE i = k + 1
      <4>1. g[i - 1] = f[i - 1] /\ g[i] = Turn(f, i)
        BY <3>1
      <4> QED
        BY <4>1
    <3>2. CASE i # k + 1
      <4>1. i \in 0 .. k /\ g[i] = f[i] /\ (i # 0 => i - 1 \in 0 .. k /\ g[i - 1] = f[i - 1])
        BY <3>2
      <4>2. f[i] = Turn(f, i)
        BY <2>1, <4>1
      <4> QED
        BY <4>1, <4>2
    <3> QED
      BY <3>1, <3>2
  <2>3. g = [i \in 0 .. k + 1 |-> g[i]]
    OBVIOUS
  <2> HIDE DEF g, Turn
  <2>4. g = [i \in 0 .. k + 1 |-> Turn(g, i)]
    BY <2>2, <2>3
  <2> QED
    BY <1>2, <2>4
<1>3. n \in T
  <2> HIDE DEF T
  <2>1. \A k \in 0 .. n : k \in T /\ k < n => k + 1 \in T
    BY <1>2
  <2>2. \A k \in 0 .. n : k \in T
    BY <1>1, <2>1, Induction
  <2> QED
    BY <2>2
<1> QED
  BY <1>3

\* The vertices drawn by method i of a packet, and by its first i methods.
DrawnBy(p, i) == IF Method(p, i) \in Draws THEN p.vals[i] ELSE 0
Drawn(p) ==
    CHOOSE f : f = [i \in 0 .. Len(p.vals) |-> IF i = 0 THEN 0 ELSE f[i - 1] + DrawnBy(p, i)]

LEMMA VerticesFacts ==
    ASSUME NEW p \in MethodPackets
    PROVE  /\ Drawn(p)[0] = 0
           /\ \A i \in 1 .. Len(p.vals) :
                 DrawnBy(p, i) \in Nat /\ Drawn(p)[i] = Drawn(p)[i - 1] + DrawnBy(p, i)
           /\ \A i \in 0 .. Len(p.vals) : Drawn(p)[i] \in Nat
           /\ Vertices(p) = Drawn(p)[Len(p.vals)]
<1> DEFINE n == Len(p.vals)
           w == [i \in 1 .. n |-> DrawnBy(p, i)]
           D == Drawn(p)
<1>0. n \in Nat
  BY PacketFacts
<1>1. ASSUME NEW i \in 1 .. n PROVE DrawnBy(p, i) \in Nat
  BY PacketFacts DEF DrawnBy
<1>2. \E f : f = [i \in 0 .. n |-> IF i = 0 THEN 0 ELSE f[i - 1] + DrawnBy(p, i)]
  <2> HIDE DEF n
  <2>1. PICK f : f = [i \in 0 .. n |-> IF i = 0 THEN 0 ELSE f[i - 1] + w[i]]
    <3> HIDE DEF w
    <3> QED
      BY <1>0, SumExists, Zenon
  <2>2. \A i \in 0 .. n : i # 0 => w[i] = DrawnBy(p, i)
    BY <1>0
  <2> HIDE DEF w
  <2>3. f = [i \in 0 .. n |-> IF i = 0 THEN 0 ELSE f[i - 1] + DrawnBy(p, i)]
    BY <2>1, <2>2, Zenon
  <2> QED
    BY <2>3, Zenon
<1>3. D = [i \in 0 .. n |-> IF i = 0 THEN 0 ELSE D[i - 1] + DrawnBy(p, i)]
  BY <1>2, Zenon DEF Drawn
<1>4. Vertices(p) = D[n]
  BY Zenon DEF Vertices, Drawn, DrawnBy
<1> HIDE DEF n, D
<1>5. D[0] = 0 /\ \A i \in 1 .. n : D[i] = D[i - 1] + DrawnBy(p, i)
  <2>1. D[0] = 0
    BY <1>0, <1>3
  <2>2. ASSUME NEW i \in 1 .. n PROVE D[i] = D[i - 1] + DrawnBy(p, i)
    <3>1. i \in 0 .. n /\ i # 0
      BY <1>0
    <3> QED
      BY <1>3, <3>1, Zenon
  <2> QED
    BY <2>1, <2>2
<1> DEFINE T == {k \in 0 .. n : D[k] \in Nat}
<1>6. 0 \in T
  BY <1>0, <1>5
<1>7. ASSUME NEW k \in 0 .. n, k \in T, k < n PROVE k + 1 \in T
  <2>1. k + 1 \in 1 .. n /\ (k + 1) - 1 = k /\ D[k] \in Nat
    BY <1>0, <1>7
  <2>2. D[k + 1] = D[k] + DrawnBy(p, k + 1) /\ DrawnBy(p, k + 1) \in Nat
    BY <1>1, <1>5, <2>1
  <2> QED
    BY <2>1, <2>2
<1>8. \A k \in 0 .. n : D[k] \in Nat
  <2>1. \A k \in 0 .. n : k \in T /\ k < n => k + 1 \in T
    BY <1>7
  <2> HIDE DEF T
  <2>2. \A k \in 0 .. n : k \in T
    BY <1>0, <1>6, <2>1, Induction
  <2> QED
    BY <2>2 DEF T
<1> QED
  BY <1>1, <1>4, <1>5, <1>8 DEF n, D

-----------------------------------------------------------------------------
(* One method.                                                              *)

GpuFields == {"back", "front", "backSeq", "seq", "frames", "fault", "intr"}
PbFields == {"object", "latch", "ctx", "stats", "unsupported"}
LatchMethods == {kMethodClearColor, kMethodRectX, kMethodRectY, kMethodRectW, kMethodRectH,
                 kMethodRectColor}

\* The fields of the state ApplyPacket works on.
Shaped(s) ==
    /\ DOMAIN s = {"gpu", "pb", "dropped"}
    /\ DOMAIN s.gpu = GpuFields /\ DOMAIN s.pb = PbFields
    /\ DOMAIN s.pb.stats = DOMAIN NoStats
    /\ DOMAIN s.pb.latch = LatchMethods

\* No method that acts is a latch, and no draw is one of the other methods that act.
LEMMA MethodsDiffer ==
    /\ LatchMethods \cap Effects = {} /\ Coordinates \subseteq LatchMethods
    /\ {kMethodSetObject, kMethodClearSurface, kMethodRectDraw, kMethodFlip} \cap Draws = {}
    /\ {kMethodSetObject, kMethodClearSurface, kMethodRectDraw, kMethodFlip} \cap LatchMethods = {}
    /\ Draws \cap LatchMethods = {}
    /\ kMethodRectDraw \notin {kMethodSetObject, kMethodClearSurface, kMethodFlip}
BY DEF LatchMethods, Effects, Coordinates, Draws, kMethodSetObject, kMethodClearColor,
       kMethodClearSurface, kMethodRectX, kMethodRectY, kMethodRectW, kMethodRectH,
       kMethodRectColor, kMethodRectDraw, kMethodFlip, kMethod3dDrawArrays,
       kMethod3dDrawElements32, kMethod3dDrawElements16

LEMMA StatFields ==
    DOMAIN NoStats = {"words", "packets", "methods", "jumps", "vertices", "triangles"}
BY DEF NoStats

\* What a method does to the counters and the latches, and when it drops a rectangle.
Applied(s, m, v, u) ==
    /\ Shaped(u)
    /\ u.pb.stats.words = s.pb.stats.words /\ u.pb.stats.packets = s.pb.stats.packets
    /\ u.pb.stats.jumps = s.pb.stats.jumps /\ u.pb.stats.methods = s.pb.stats.methods + 1
    /\ u.pb.stats.vertices = IF m \in Draws THEN s.pb.stats.vertices + v ELSE s.pb.stats.vertices
    /\ u.pb.latch = IF m \in LatchMethods THEN [s.pb.latch EXCEPT ![m] = v] ELSE s.pb.latch
    /\ "rect" \in u.dropped =>
          "rect" \in s.dropped \/ (m = kMethodRectDraw /\ ~FillRect(s.gpu.back, s.pb.latch).ok)

LEMMA ApplyMethodFacts ==
    ASSUME NEW s, Shaped(s), NEW m, NEW v
    PROVE  Applied(s, m, v, ApplyMethod(s, m, v))
<1> DEFINE t == [s EXCEPT !.pb.stats.methods = @ + 1]
           fill == FillRect(s.gpu.back, s.pb.latch)
           draw == Draw(s.pb.ctx, m # kMethod3dDrawArrays, v, s.gpu.back)
           u == ApplyMethod(s, m, v)
<1>1. /\ Shaped(t) /\ t.pb.latch = s.pb.latch /\ t.dropped = s.dropped
      /\ t.pb.stats.words = s.pb.stats.words /\ t.pb.stats.packets = s.pb.stats.packets
      /\ t.pb.stats.jumps = s.pb.stats.jumps /\ t.pb.stats.methods = s.pb.stats.methods + 1
      /\ t.pb.stats.vertices = s.pb.stats.vertices
  BY StatFields DEF Shaped, PbFields
<1>2. u = IF m = kMethodSetObject THEN [t EXCEPT !.pb.object = v]
          ELSE IF m = kMethodClearSurface
          THEN [t EXCEPT !.gpu.back = Plain(s.pb.latch[kMethodClearColor])]
          ELSE IF m = kMethodRectDraw
          THEN [t EXCEPT !.gpu.back = fill.surface,
                         !.dropped = IF fill.ok THEN @ ELSE @ \cup {"rect"}]
          ELSE IF m = kMethodFlip THEN [t EXCEPT !.gpu = Flip(@)]
          ELSE IF m \in Draws
          THEN [t EXCEPT !.gpu.back = draw.surface,
                         !.pb.stats.vertices = @ + v,
                         !.pb.stats.triangles = @ + draw.triangles,
                         !.dropped = IF draw.ok THEN @ ELSE @ \cup {"draw"}]
          ELSE IF m \in DOMAIN s.pb.latch THEN [t EXCEPT !.pb.latch[m] = v]
          ELSE [t EXCEPT !.pb.ctx[m] = v]
  BY Zenon DEF ApplyMethod
<1>3. DOMAIN s.pb.latch = LatchMethods
  BY DEF Shaped
<1> HIDE DEF t, fill, draw, u
<1>4. CASE m = kMethodSetObject
  <2>1. u = [t EXCEPT !.pb.object = v]
    BY <1>2, <1>4
  <2>2. m \notin Draws /\ m \notin LatchMethods
    BY <1>4, MethodsDiffer
  <2> QED
    BY <1>1, <2>1, <2>2 DEF Applied, Shaped, PbFields, u
<1>5. CASE m # kMethodSetObject /\ m = kMethodClearSurface
  <2>1. u = [t EXCEPT !.gpu.back = Plain(s.pb.latch[kMethodClearColor])]
    BY <1>2, <1>5
  <2>2. m \notin Draws /\ m \notin LatchMethods
    BY <1>5, MethodsDiffer
  <2> QED
    BY <1>1, <2>1, <2>2 DEF Applied, Shaped, PbFields, u
<1>6. CASE m \notin {kMethodSetObject, kMethodClearSurface} /\ m = kMethodRectDraw
  <2>1. u = [t EXCEPT !.gpu.back = fill.surface,
                      !.dropped = IF fill.ok THEN @ ELSE @ \cup {"rect"}]
    BY <1>2, <1>6
  <2>2. m \notin Draws /\ m \notin LatchMethods
    BY <1>6, MethodsDiffer
  <2>3. "rect" \in u.dropped => "rect" \in s.dropped \/ ~fill.ok
    BY <1>1, <2>1 DEF Shaped
  <2>4. Shaped(u) /\ u.pb = t.pb
    BY <1>1, <2>1 DEF Shaped
  <2> QED
    BY <1>1, <1>6, <2>2, <2>3, <2>4 DEF Applied, u, fill
<1>7. CASE m \notin {kMethodSetObject, kMethodClearSurface, kMethodRectDraw} /\ m = kMethodFlip
  <2>1. u = [t EXCEPT !.gpu = Flip(@)]
    BY <1>2, <1>7
  <2>2. m \notin Draws /\ m \notin LatchMethods
    BY <1>7, MethodsDiffer
  <2>3. DOMAIN Flip(t.gpu) = DOMAIN t.gpu
    BY DEF Flip
  <2>4. Shaped(u) /\ u.pb = t.pb /\ u.dropped = t.dropped
    BY <1>1, <2>1, <2>3 DEF Shaped
  <2> QED
    BY <1>1, <2>2, <2>4 DEF Applied, u
<1> DEFINE Others == {kMethodSetObject, kMethodClearSurface, kMethodRectDraw, kMethodFlip}
<1>8. CASE m \notin Others /\ m \in Draws
  <2>1. u = [t EXCEPT !.gpu.back = draw.surface,
                      !.pb.stats.vertices = @ + v,
                      !.pb.stats.triangles = @ + draw.triangles,
                      !.dropped = IF draw.ok THEN @ ELSE @ \cup {"draw"}]
    BY <1>2, <1>8
  <2>2. m \notin LatchMethods
    BY <1>8, MethodsDiffer
  <2>3. "rect" \in u.dropped => "rect" \in s.dropped
    BY <1>1, <2>1 DEF Shaped
  <2>4. Shaped(u) /\ u.pb.latch = t.pb.latch
    BY <1>1, <2>1, StatFields DEF Shaped, PbFields
  <2>5. /\ u.pb.stats.words = t.pb.stats.words /\ u.pb.stats.packets = t.pb.stats.packets
        /\ u.pb.stats.jumps = t.pb.stats.jumps /\ u.pb.stats.methods = t.pb.stats.methods
        /\ u.pb.stats.vertices = t.pb.stats.vertices + v
    BY <1>1, <2>1, StatFields DEF Shaped, PbFields
  <2> QED
    BY <1>1, <1>8, <2>2, <2>3, <2>4, <2>5 DEF Applied, u
<1>9. CASE m \notin Others \cup Draws /\ m \in LatchMethods
  <2>1. u = [t EXCEPT !.pb.latch[m] = v]
    BY <1>2, <1>3, <1>9
  <2>2. Shaped(u) /\ u.pb.latch = [t.pb.latch EXCEPT ![m] = v] /\ u.dropped = t.dropped
        /\ u.pb.stats = t.pb.stats
    BY <1>1, <2>1 DEF Shaped, PbFields
  <2> QED
    BY <1>1, <1>9, <2>2 DEF Applied, u
<1>10. CASE m \notin Others \cup Draws \cup LatchMethods
  <2>1. u = [t EXCEPT !.pb.ctx[m] = v]
    BY <1>2, <1>3, <1>10
  <2>2. Shaped(u) /\ u.pb.latch = t.pb.latch /\ u.dropped = t.dropped /\ u.pb.stats = t.pb.stats
    BY <1>1, <2>1 DEF Shaped, PbFields
  <2> QED
    BY <1>1, <1>10, <2>2 DEF Applied, u
<1> QED
  BY <1>4, <1>5, <1>6, <1>7, <1>8, <1>9, <1>10 DEF u

\* ApplyPacket's loop: f gives the state after each number of methods.
IsLoop(f, s, p, n) ==
    f = [i \in 0 .. n |->
           IF i = 0 THEN s ELSE ApplyMethod(f[i - 1], Method(p, i), p.vals[i])]

\* There is such a function.
LEMMA LoopExists ==
    ASSUME NEW s, NEW p, NEW n \in Nat
    PROVE  \E f : IsLoop(f, s, p, n)
<1> DEFINE Turn(f, i) == IF i = 0 THEN s ELSE ApplyMethod(f[i - 1], Method(p, i), p.vals[i])
           T == {k \in 0 .. n : \E f : f = [i \in 0 .. k |-> Turn(f, i)]}
<1>1. 0 \in T
  <2> DEFINE f == [i \in 0 .. 0 |-> s]
  <2>1. \A i \in 0 .. 0 : Turn(f, i) = s
    OBVIOUS
  <2>2. f = [i \in 0 .. 0 |-> Turn(f, i)]
    BY <2>1
  <2> HIDE DEF f, Turn
  <2> QED
    BY <2>2
<1>2. ASSUME NEW k \in 0 .. n, k \in T, k < n PROVE k + 1 \in T
  <2>1. PICK f : f = [i \in 0 .. k |-> Turn(f, i)]
    BY <1>2
  <2> DEFINE g == [i \in 0 .. k + 1 |-> IF i = k + 1 THEN Turn(f, k + 1) ELSE f[i]]
  <2>2. ASSUME NEW i \in 0 .. k + 1 PROVE g[i] = Turn(g, i)
    <3>1. CASE i = k + 1
      <4>1. g[i - 1] = f[i - 1] /\ g[i] = Turn(f, i)
        BY <3>1
      <4> QED
        BY <4>1
    <3>2. CASE i # k + 1
      <4>1. i \in 0 .. k /\ g[i] = f[i] /\ (i # 0 => i - 1 \in 0 .. k /\ g[i - 1] = f[i - 1])
        BY <3>2
      <4>2. f[i] = Turn(f, i)
        BY <2>1, <4>1
      <4> QED
        BY <4>1, <4>2
    <3> QED
      BY <3>1, <3>2
  <2>3. g = [i \in 0 .. k + 1 |-> g[i]]
    OBVIOUS
  <2> HIDE DEF g, Turn
  <2>4. g = [i \in 0 .. k + 1 |-> Turn(g, i)]
    BY <2>2, <2>3
  <2> QED
    BY <1>2, <2>4
<1>3. n \in T
  <2> HIDE DEF T
  <2>1. \A k \in 0 .. n : k \in T /\ k < n => k + 1 \in T
    BY <1>2
  <2>2. \A k \in 0 .. n : k \in T
    BY <1>1, <2>1, Induction
  <2> QED
    BY <2>2
<1>4. PICK f : f = [i \in 0 .. n |-> Turn(f, i)]
  BY <1>3
<1>5. IsLoop(f, s, p, n)
  BY <1>4, Zenon DEF IsLoop
<1> QED
  BY <1>5

-----------------------------------------------------------------------------
(* A packet that is accepted.                                               *)

\* ValidatePacket's staging, method by method: it does to its copy of the latches what
\* ApplyPacket will do to them.
LEMMA StagedFacts ==
    ASSUME NEW p, NEW m
    PROVE  /\ Staged(p, 1, m) = pb.latch[m]
           /\ \A i \in Nat \ {0} :
                 Staged(p, i + 1, m) = IF Method(p, i) = m THEN p.vals[i] ELSE Staged(p, i, m)
<1>1. Staged(p, 1, m) = pb.latch[m]
  BY DEF Staged
<1>2. ASSUME NEW i \in Nat \ {0}
      PROVE  Staged(p, i + 1, m) = IF Method(p, i) = m THEN p.vals[i] ELSE Staged(p, i, m)
  <2> DEFINE set == {j \in 1 .. i : Method(p, j) = m}
  <2>1. 1 .. (i + 1) - 1 = 1 .. i
    OBVIOUS
  <2>2. Staged(p, i + 1, m) = IF set = {} THEN pb.latch[m] ELSE p.vals[Greatest(set)]
    BY <2>1, Zenon DEF Staged
  <2>3. CASE Method(p, i) = m
    <3>1. i \in set /\ \A y \in set : y \in Nat /\ i >= y
      BY <2>3
    <3> HIDE DEF set
    <3>2. Greatest(set) \in set /\ \A y \in set : Greatest(set) >= y
      BY <3>1, Zenon DEF Greatest
    <3>3. Greatest(set) = i
      <4>1. Greatest(set) \in Nat /\ i >= Greatest(set)
        BY <3>1, <3>2, Zenon
      <4>2. Greatest(set) >= i
        BY <3>1, <3>2, Zenon
      <4> QED
        BY <4>1, <4>2
    <3> QED
      BY <2>2, <2>3, <3>1, <3>3
  <2>4. CASE Method(p, i) # m
    <3>1. set = {j \in 1 .. (i - 1) : Method(p, j) = m}
      BY <2>4
    <3>2. Staged(p, i, m) = IF set = {} THEN pb.latch[m] ELSE p.vals[Greatest(set)]
      BY <3>1, Zenon DEF Staged
    <3> QED
      BY <2>2, <2>4, <3>2
  <2> QED
    BY <2>3, <2>4
<1> QED
  BY <1>1, <1>2

\* A packet without an error has none in any method.
LEMMA AllValid ==
    ASSUME NEW p \in MethodPackets, ValidatePacket(p) = 0, NEW i \in 1 .. Len(p.vals)
    PROVE  MethodError(p, i) = "None"
<1> DEFINE bad == {j \in 1 .. Len(p.vals) : MethodError(p, j) # "None"}
<1>1. ValidatePacket(p) = IF bad = {} THEN 0 ELSE Least(bad)
  BY Zenon DEF ValidatePacket
<1>2. bad \in SUBSET Nat /\ 0 \notin bad
  BY PacketFacts
<1>3. bad = {}
  <2> HIDE DEF bad
  <2> QED
    BY <1>1, <1>2, LeastFacts
<1> QED
  BY <1>3

\* The state after i methods of a packet p that was accepted, s being the one before.
AfterMethods(s, p, i, u) ==
    /\ Shaped(u)
    /\ \A m \in LatchMethods : u.pb.latch[m] = Staged(p, i + 1, m)
    /\ \A m \in Coordinates : u.pb.latch[m] \in Nat
    /\ "rect" \notin u.dropped
    /\ u.pb.stats.words = s.pb.stats.words /\ u.pb.stats.packets = s.pb.stats.packets
    /\ u.pb.stats.jumps = s.pb.stats.jumps
    /\ u.pb.stats.methods = s.pb.stats.methods + i
    /\ u.pb.stats.vertices = s.pb.stats.vertices + Drawn(p)[i]

\* A rectangle drawn in an accepted packet is the one that was validated.
LEMMA RectFits ==
    ASSUME NEW p \in MethodPackets, ValidatePacket(p) = 0, NEW i \in 1 .. Len(p.vals),
           Method(p, i) = kMethodRectDraw,
           NEW u, \A m \in LatchMethods : u.pb.latch[m] = Staged(p, i, m),
           \A m \in Coordinates : u.pb.latch[m] \in Nat
    PROVE  FillRect(u.gpu.back, u.pb.latch).ok
<1> DEFINE l == u.pb.latch
<1>1. MethodError(p, i) = "None"
  BY AllValid
<1>2. kMethodRectDraw # kMethodSetObject
  BY MethodsDiffer
<1>3. ~ (\/ Staged(p, i, kMethodRectX) + Staged(p, i, kMethodRectW) > Width
         \/ Staged(p, i, kMethodRectY) + Staged(p, i, kMethodRectH) > Height)
  BY <1>1, <1>2 DEF MethodError
<1>4. \A m \in Coordinates : l[m] = Staged(p, i, m) /\ l[m] \in Nat
  BY MethodsDiffer
<1>5. /\ l[kMethodRectX] = Staged(p, i, kMethodRectX) /\ l[kMethodRectX] \in Nat
      /\ l[kMethodRectY] = Staged(p, i, kMethodRectY) /\ l[kMethodRectY] \in Nat
      /\ l[kMethodRectW] = Staged(p, i, kMethodRectW) /\ l[kMethodRectW] \in Nat
      /\ l[kMethodRectH] = Staged(p, i, kMethodRectH) /\ l[kMethodRectH] \in Nat
  BY <1>4, Zenon DEF Coordinates
<1> HIDE DEF l
<1>6. /\ l[kMethodRectX] + l[kMethodRectW] <= Width
      /\ l[kMethodRectY] + l[kMethodRectH] <= Height
  BY <1>3, <1>5, GpuAssumption, SMTT(30)
<1> QED
  BY <1>6 DEF FillRect, l

\* One method more.
LEMMA MethodStep ==
    ASSUME NEW p \in MethodPackets, ValidatePacket(p) = 0, NEW i \in 1 .. Len(p.vals),
           NEW s, s.pb.stats.methods \in Nat, s.pb.stats.vertices \in Nat,
           NEW u, AfterMethods(s, p, i - 1, u)
    PROVE  AfterMethods(s, p, i, ApplyMethod(u, Method(p, i), p.vals[i]))
<1> DEFINE m == Method(p, i)
           v == p.vals[i]
           x == ApplyMethod(u, m, v)
<1>0. i \in Nat \ {0} /\ (i - 1) + 1 = i /\ i - 1 \in 0 .. Len(p.vals)
  BY PacketFacts
<1>1. Applied(u, m, v, x)
  BY ApplyMethodFacts, Zenon DEF AfterMethods
<1>2. \A a \in LatchMethods : u.pb.latch[a] = Staged(p, i, a)
  BY <1>0 DEF AfterMethods
<1>c1. \A a \in Coordinates : u.pb.latch[a] \in Nat
  BY DEF AfterMethods
<1>3. v \in Nat \/ m \notin Coordinates \cup Draws
  BY PacketFacts
<1>4. "rect" \notin x.dropped
  <2>1. m = kMethodRectDraw => FillRect(u.gpu.back, u.pb.latch).ok
    BY <1>2, <1>c1, RectFits
  <2> QED
    BY <1>1, <2>1 DEF Applied, AfterMethods
<1>5. DrawnBy(p, i) \in Nat /\ Drawn(p)[i] = Drawn(p)[i - 1] + DrawnBy(p, i)
      /\ Drawn(p)[i - 1] \in Nat
  BY <1>0, VerticesFacts
<1>6. DrawnBy(p, i) = IF m \in Draws THEN v ELSE 0
  BY DEF DrawnBy
<1>7. u.pb.stats.vertices = s.pb.stats.vertices + Drawn(p)[i - 1]
      /\ u.pb.stats.methods = s.pb.stats.methods + (i - 1)
  BY DEF AfterMethods
<1>8. DOMAIN u.pb.latch = LatchMethods
  BY DEF AfterMethods, Shaped
<1> HIDE DEF m, v, x
<1>9. x.pb.stats.vertices = s.pb.stats.vertices + Drawn(p)[i]
  <2>1. x.pb.stats.vertices = IF m \in Draws THEN u.pb.stats.vertices + v ELSE u.pb.stats.vertices
    BY <1>1, Zenon DEF Applied
  <2> QED
    BY <1>5, <1>6, <1>7, <2>1
<1>10. x.pb.stats.methods = s.pb.stats.methods + i
  <2>1. x.pb.stats.methods = u.pb.stats.methods + 1
    BY <1>1, Zenon DEF Applied
  <2> QED
    BY <1>0, <1>7, <2>1
<1>11. ASSUME NEW a \in LatchMethods PROVE x.pb.latch[a] = Staged(p, i + 1, a)
  <2>1. Staged(p, i + 1, a) = IF m = a THEN v ELSE Staged(p, i, a)
    <3>0. \A j \in Nat \ {0} :
             Staged(p, j + 1, a) = IF Method(p, j) = a THEN p.vals[j] ELSE Staged(p, j, a)
      BY StagedFacts, Zenon
    <3>1. Staged(p, i + 1, a) = IF Method(p, i) = a THEN p.vals[i] ELSE Staged(p, i, a)
      BY <1>0, <3>0, Zenon
    <3> QED
      BY <3>1, Zenon DEF m, v
  <2>2. x.pb.latch[a] = IF m = a THEN v ELSE u.pb.latch[a]
    BY <1>1, <1>8 DEF Applied
  <2> QED
    BY <1>2, <2>1, <2>2
<1>12. ASSUME NEW a \in Coordinates PROVE x.pb.latch[a] \in Nat
  <2>1. a \in LatchMethods
    BY MethodsDiffer
  <2>2. x.pb.latch[a] = IF m = a THEN v ELSE u.pb.latch[a]
    BY <1>1, <1>8, <2>1 DEF Applied
  <2> QED
    BY <1>3, <1>c1, <2>2
<1>13. /\ Shaped(x) /\ x.pb.stats.words = s.pb.stats.words
       /\ x.pb.stats.packets = s.pb.stats.packets /\ x.pb.stats.jumps = s.pb.stats.jumps
  BY <1>1 DEF Applied, AfterMethods
<1>14. AfterMethods(s, p, i, x)
  BY <1>4, <1>9, <1>10, <1>11, <1>12, <1>13 DEF AfterMethods
<1> QED
  BY <1>14 DEF x, m, v


\* All the methods of an accepted packet.
LEMMA PacketApplied ==
    ASSUME NEW p \in MethodPackets, ValidatePacket(p) = 0,
           NEW s, Shaped(s), s.pb.latch = pb.latch, "rect" \notin s.dropped,
           \A m \in Coordinates : pb.latch[m] \in Nat,
           s.pb.stats.methods \in Nat, s.pb.stats.vertices \in Nat
    PROVE  AfterMethods(s, p, Len(p.vals), ApplyPacket(s, p, Len(p.vals)))
<1> DEFINE n == Len(p.vals)
           after == CHOOSE f : IsLoop(f, s, p, n)
<1>0. n \in Nat
  BY PacketFacts
<1>1. ApplyPacket(s, p, n) = after[n]
  BY Zenon DEF ApplyPacket, IsLoop
<1>2. IsLoop(after, s, p, n)
  BY <1>0, LoopExists, Zenon
<1>3. after = [i \in 0 .. n |->
                 IF i = 0 THEN s ELSE ApplyMethod(after[i - 1], Method(p, i), p.vals[i])]
  BY <1>2, Zenon DEF IsLoop
<1> HIDE DEF n, after
<1>4. after[0] = s
  BY <1>0, <1>3
<1>5. ASSUME NEW i \in 1 .. n
      PROVE  after[i] = ApplyMethod(after[i - 1], Method(p, i), p.vals[i])
  <2>1. i \in 0 .. n /\ i # 0
    BY <1>0
  <2> QED
    BY <1>3, <2>1, Zenon
<1> DEFINE T == {k \in 0 .. n : AfterMethods(s, p, k, after[k])}
<1>6. 0 \in T
  <2>1. \A m \in LatchMethods : s.pb.latch[m] = Staged(p, 0 + 1, m)
    BY StagedFacts
  <2>2. Drawn(p)[0] = 0
    BY VerticesFacts
  <2>3. s.pb.stats.methods = s.pb.stats.methods + 0
        /\ s.pb.stats.vertices = s.pb.stats.vertices + Drawn(p)[0]
    BY <2>2
  <2>4. \A m \in Coordinates : s.pb.latch[m] \in Nat
    OBVIOUS
  <2>5. AfterMethods(s, p, 0, s)
    BY <2>1, <2>3, <2>4, Zenon DEF AfterMethods
  <2> QED
    BY <1>0, <1>4, <2>5
<1>7. ASSUME NEW k \in 0 .. n, k \in T, k < n PROVE k + 1 \in T
  <2>1. k + 1 \in 1 .. n /\ (k + 1) - 1 = k /\ k + 1 \in 0 .. n
    BY <1>0, <1>7
  <2>2. AfterMethods(s, p, (k + 1) - 1, after[k])
    BY <1>7, <2>1
  <2>3. AfterMethods(s, p, k + 1, ApplyMethod(after[k], Method(p, k + 1), p.vals[k + 1]))
    BY <2>1, <2>2, MethodStep DEF n
  <2>4. after[k + 1] = ApplyMethod(after[k], Method(p, k + 1), p.vals[k + 1])
    BY <1>5, <2>1
  <2> QED
    BY <2>1, <2>3, <2>4
<1>8. n \in T
  <2> HIDE DEF T
  <2>1. \A k \in 0 .. n : k \in T /\ k < n => k + 1 \in T
    BY <1>7
  <2>2. \A k \in 0 .. n : k \in T
    BY <1>0, <1>6, <2>1, Induction
  <2> QED
    BY <1>0, <2>2
<1> QED
  BY <1>1, <1>8 DEF n


-----------------------------------------------------------------------------
(* The budgets.                                                             *)

Longest == Greatest({Words(p) : p \in MethodPackets})
Most == Greatest({Vertices(p) : p \in MethodPackets})

\* No packet draws more vertices than the one that draws the most.
LEMMA MostFacts == Most \in Nat /\ \A p \in MethodPackets : Vertices(p) \in Nat /\ Vertices(p) <= Most
<1> DEFINE W == {Vertices(p) : p \in MethodPackets}
           g == [p \in MethodPackets |-> Vertices(p)]
<1>1. ASSUME NEW p \in MethodPackets PROVE Vertices(p) \in Nat
  BY VerticesFacts, PacketFacts
<1>2. W \in SUBSET Nat /\ W # {}
  BY <1>1, PacketsFinite
<1>3. g \in Surjection(MethodPackets, W)
  BY Zenon DEF Surjection
<1>4. \A p \in MethodPackets : Vertices(p) \in W
  BY Zenon
<1> HIDE DEF W, g
<1>5. IsFiniteSet(W)
  BY <1>3, PacketsFinite, FS_Surjection
<1>6. Greatest(W) \in W /\ \A x \in W : x <= Greatest(W)
  BY <1>2, <1>5, GreatestFacts
<1>7. Greatest(W) \in Nat /\ \A p \in MethodPackets : Vertices(p) \in Nat /\ Vertices(p) <= Greatest(W)
  BY <1>1, <1>2, <1>4, <1>6, Zenon
<1> QED
  BY <1>7, Zenon DEF W, Most

\* The counters are within the budgets, but for less than a packet.
InBudget(st) ==
    /\ st.words < Limits.words + Longest
    /\ st.methods < Limits.methods + Longest
    /\ st.vertices < Limits.vertices + Most
    /\ st.jumps <= Limits.jumps
    /\ st.packets <= Limits.packets

LEMMA BudgetIs == WorkStaysInBudget <=> InBudget(pb.stats)
BY Zenon DEF WorkStaysInBudget, InBudget, Longest, Most, MethodPackets

\* The counters the budgets are about are numbers.
StatsOK(st) ==
    /\ DOMAIN st = DOMAIN NoStats
    /\ st.words \in Nat /\ st.packets \in Nat /\ st.methods \in Nat /\ st.jumps \in Nat
    /\ st.vertices \in Nat

LEMMA LimitsFacts ==
    /\ Limits.words \in Nat /\ Limits.packets \in Nat /\ Limits.methods \in Nat
    /\ Limits.jumps \in Nat /\ Limits.vertices \in Nat \ {0}
    /\ Longest \in Nat \ {0} /\ Most \in Nat
    /\ \A p \in MethodPackets : Words(p) <= Longest
BY GpuAssumption, StatFields, LongestFacts, MostFacts DEF Longest

\* The loop goes on only when every counter is below its budget.
LEMMA BudgetLeft ==
    ASSUME NEW st, StatsOK(st), ~CheckBudgetExhausted(st)
    PROVE  /\ st.words < Limits.words /\ st.packets < Limits.packets
           /\ st.methods < Limits.methods /\ st.jumps < Limits.jumps
           /\ st.vertices < Limits.vertices
<1>1. \A f \in DOMAIN NoStats : ~(st[f] >= Limits[f])
  BY Zenon DEF CheckBudgetExhausted
<1>2. /\ ~(st.words >= Limits.words) /\ ~(st.packets >= Limits.packets)
      /\ ~(st.methods >= Limits.methods) /\ ~(st.jumps >= Limits.jumps)
      /\ ~(st.vertices >= Limits.vertices)
  BY <1>1, StatFields
<1> QED
  BY <1>2, LimitsFacts DEF StatsOK

\* A packet is counted: its words, itself, and a jump.
LEMMA CountedFacts ==
    ASSUME DOMAIN pb.stats = DOMAIN NoStats, NEW p
    PROVE  LET c == Counted(p) IN
           /\ DOMAIN c = DOMAIN NoStats
           /\ c.words = pb.stats.words + Words(p) /\ c.packets = pb.stats.packets + 1
           /\ c.jumps = IF p.op = "Jump" THEN pb.stats.jumps + 1 ELSE pb.stats.jumps
           /\ c.methods = pb.stats.methods /\ c.vertices = pb.stats.vertices
BY StatFields DEF Counted

\* One packet more than what the budgets leave is within them, but for less than a packet.
LEMMA OnePacketMore ==
    ASSUME StatsOK(pb.stats), ~CheckBudgetExhausted(pb.stats),
           NEW p, Words(p) \in Nat, Words(p) <= Longest,
           NEW k \in Nat, k < Longest, NEW v \in Nat, v <= Most,
           NEW st, DOMAIN st = DOMAIN NoStats,
           st.words = Counted(p).words, st.packets = Counted(p).packets,
           st.jumps = Counted(p).jumps, st.methods = pb.stats.methods + k,
           st.vertices = pb.stats.vertices + v
    PROVE  StatsOK(st) /\ InBudget(st)
<1>1. /\ pb.stats.words < Limits.words /\ pb.stats.packets < Limits.packets
      /\ pb.stats.methods < Limits.methods /\ pb.stats.jumps < Limits.jumps
      /\ pb.stats.vertices < Limits.vertices
  BY BudgetLeft
<1>2. /\ st.words = pb.stats.words + Words(p) /\ st.packets = pb.stats.packets + 1
      /\ st.jumps = IF p.op = "Jump" THEN pb.stats.jumps + 1 ELSE pb.stats.jumps
  BY CountedFacts DEF StatsOK
<1>3. /\ pb.stats.words \in Nat /\ pb.stats.packets \in Nat /\ pb.stats.methods \in Nat
      /\ pb.stats.jumps \in Nat /\ pb.stats.vertices \in Nat
  BY DEF StatsOK
<1>4. StatsOK(st)
  BY <1>2, <1>3 DEF StatsOK
<1>5. /\ st.words < Limits.words + Longest /\ st.methods < Limits.methods + Longest
      /\ st.vertices < Limits.vertices + Most
  BY <1>1, <1>2, <1>3, LimitsFacts, SMTT(30)
<1>6. st.jumps <= Limits.jumps /\ st.packets <= Limits.packets
  BY <1>1, <1>2, <1>3, LimitsFacts
<1> QED
  BY <1>4, <1>5, <1>6 DEF InBudget


-----------------------------------------------------------------------------
(* The invariant.                                                           *)

\* The drawing state: its fields, and the numbers the processor computes with.
DrawingOK ==
    /\ DOMAIN gpu = GpuFields /\ DOMAIN pb = PbFields /\ DOMAIN pb.latch = LatchMethods
    /\ \A m \in Coordinates : pb.latch[m] \in Nat
    /\ StatsOK(pb.stats) /\ InBudget(pb.stats)
    /\ "rect" \notin dropped

\* A submission in progress has met no error.
SubmissionOK ==
    /\ DOMAIN submission = DOMAIN Idle
    /\ submission.active =>
          submission.buf \in Buffers /\ submission.pc \in Nat \ {0} /\ submission.error = "None"

GpuInv == DrawingOK /\ SubmissionOK

LEMMA InitInv == GpuInit => GpuInv
<1> SUFFICES ASSUME GpuInit PROVE GpuInv
  OBVIOUS
<1>1. DOMAIN gpu = GpuFields /\ DOMAIN pb = PbFields /\ pb.latch = InitialLatches /\ pb.stats = NoStats
      /\ dropped = {} /\ submission = Idle
  BY DEF GpuInit, GpuFields, PbFields
<1>2. DOMAIN InitialLatches = LatchMethods
  BY DEF InitialLatches, LatchMethods
<1>3. \A m \in Coordinates : m \in LatchMethods /\ m # kMethodClearColor /\ m # kMethodRectColor
  BY DEF Coordinates, LatchMethods, kMethodClearColor, kMethodRectX, kMethodRectY, kMethodRectW,
         kMethodRectH, kMethodRectColor
<1>4. \A m \in Coordinates : InitialLatches[m] = 0
  BY <1>3 DEF InitialLatches, LatchMethods
<1>5. StatsOK(NoStats)
  BY DEF StatsOK, NoStats
<1>6. InBudget(NoStats)
  BY LimitsFacts DEF InBudget, NoStats
<1>7. SubmissionOK
  BY <1>1 DEF SubmissionOK, Idle
<1>8. DrawingOK
  BY <1>1, <1>2, <1>4, <1>5, <1>6 DEF DrawingOK
<1> QED
  BY <1>7, <1>8 DEF GpuInv

\* The end of a submission keeps the invariant and the drawing.
LEMMA ReturnKeeps ==
    ASSUME GpuInv, NEW fault, NEW error, Return(fault, error)
    PROVE  /\ SubmissionOK' /\ DOMAIN gpu' = GpuFields
           /\ gpu'.back = gpu.back /\ gpu'.front = gpu.front /\ gpu'.frames = gpu.frames
<1>1. submission' = [Idle EXCEPT !.error = error]
  BY DEF Return
<1>2. SubmissionOK'
  BY <1>1 DEF SubmissionOK, Idle
<1>3. DOMAIN gpu = GpuFields
  BY DEF GpuInv, DrawingOK
<1>4. gpu' = gpu \/ gpu' = [gpu EXCEPT !.fault = fault]
  BY DEF Return
<1> QED
  BY <1>2, <1>3, <1>4 DEF GpuFields

\* The drawing state is as it was when only gpu's fault, or nothing, has changed.
LEMMA SameDrawing ==
    ASSUME DrawingOK, DOMAIN gpu' = GpuFields, pb' = pb, dropped' = dropped
    PROVE  DrawingOK'
BY DEF DrawingOK

\* Which packet the loop works on.
LEMMA Decoded ==
    ASSUME GpuInv, submission.active, DecodeError = "None"
    PROVE  LET p == submission.buf[submission.pc]
           IN  (p.op = "Jump" /\ p.target \in Nat \ {0}) \/ (p.op # "Jump" /\ p \in MethodPackets)
<1> DEFINE b == submission.buf
           k == submission.pc
<1>1. b \in Buffers /\ k \in Nat \ {0}
  BY DEF GpuInv, SubmissionOK
<1>2. ~(k > Len(b)) /\ b[k].op # "Unknown"
  BY DEF DecodeError
<1> HIDE DEF b, k
<1>3. k \in 1 .. Len(b)
  BY <1>1, <1>2, GpuAssumption
<1>4. IsPacket(b[k])
  BY <1>1, <1>3, GpuAssumption
<1>5. CASE b[k].op = "Jump"
  BY <1>4, <1>5 DEF IsPacket, b, k
<1>6. CASE b[k].op # "Jump"
  <2>1. b[k] \in MethodPackets
    BY <1>1, <1>2, <1>3, <1>6, MethodPacket
  <2> QED
    BY <1>6, <2>1 DEF b, k
<1> QED
  BY <1>5, <1>6

\* A jump.
LEMMA JumpKeeps ==
    ASSUME GpuInv, submission.active, ~CheckBudgetExhausted(pb.stats),
           NEW p, p.op = "Jump", p.target \in Nat \ {0}, TakeJump(p)
    PROVE  /\ GpuInv'
           /\ gpu'.back = gpu.back /\ gpu'.front = gpu.front /\ gpu'.frames = gpu.frames
           /\ pb'.object = pb.object /\ pb'.latch = pb.latch /\ pb'.ctx = pb.ctx
<1>1. pb' = [pb EXCEPT !.stats = Counted(p)] /\ dropped' = dropped
  BY DEF TakeJump
<1>2. DrawingOK /\ SubmissionOK /\ StatsOK(pb.stats) /\ DOMAIN pb = PbFields /\ DOMAIN gpu = GpuFields
  BY DEF GpuInv, DrawingOK
<1>3. /\ pb'.object = pb.object /\ pb'.latch = pb.latch /\ pb'.ctx = pb.ctx
      /\ pb'.stats = Counted(p) /\ DOMAIN pb' = PbFields
  BY <1>1, <1>2 DEF PbFields
<1>4. Words(p) = 1 /\ Longest \in Nat \ {0} /\ Most \in Nat
  BY LimitsFacts DEF Words
<1>5. StatsOK(Counted(p)) /\ InBudget(Counted(p))
  <2> DEFINE st == Counted(p)
  <2>1. DOMAIN pb.stats = DOMAIN NoStats /\ pb.stats.methods \in Nat /\ pb.stats.vertices \in Nat
    BY <1>2 DEF StatsOK
  <2>a. DOMAIN st = DOMAIN NoStats /\ st.methods = pb.stats.methods /\ st.vertices = pb.stats.vertices
    BY <2>1, CountedFacts, Zenon
  <2>b. pb.stats.methods + 0 = pb.stats.methods /\ pb.stats.vertices + 0 = pb.stats.vertices
    BY <2>1
  <2>2. /\ DOMAIN st = DOMAIN NoStats /\ st.methods = pb.stats.methods + 0
        /\ st.vertices = pb.stats.vertices + 0
    BY <2>a, <2>b, Zenon
  <2>3. Words(p) \in Nat /\ Words(p) <= Longest /\ 0 < Longest /\ 0 <= Most /\ 0 \in Nat
    BY <1>4
  <2> HIDE DEF st
  <2>4. st.words = Counted(p).words /\ st.packets = Counted(p).packets /\ st.jumps = Counted(p).jumps
    BY DEF st
  <2>5. StatsOK(st) /\ InBudget(st)
    BY <1>2, <2>2, <2>3, <2>4, OnePacketMore
  <2> QED
    BY <2>5 DEF st
<1>6. /\ SubmissionOK' /\ DOMAIN gpu' = GpuFields
      /\ gpu'.back = gpu.back /\ gpu'.front = gpu.front /\ gpu'.frames = gpu.frames
  <2>1. CASE Return("BudgetExhausted", "LimitReached")
    BY <2>1, ReturnKeeps
  <2>2. CASE /\ submission' = [submission EXCEPT !.pc = p.target, !.left = @ - 1,
                                  !.visited = @ \cup {p.target}]
             /\ gpu' = gpu
    <3>1. SubmissionOK'
      BY <1>2, <2>2 DEF SubmissionOK, Idle
    <3> QED
      BY <1>2, <2>2, <3>1
  <2> QED
    BY <2>1, <2>2 DEF TakeJump
<1>7. DrawingOK'
  BY <1>1, <1>2, <1>3, <1>5, <1>6 DEF DrawingOK
<1> QED
  BY <1>3, <1>6, <1>7 DEF GpuInv


\* A method packet: accepted it is applied in full, refused it changes no drawing state.
LEMMA PacketKeeps ==
    ASSUME GpuInv, submission.active, ~CheckBudgetExhausted(pb.stats),
           NEW p \in MethodPackets, RunPacket(p)
    PROVE  /\ GpuInv'
           /\ submission'.error # "None" =>
                 /\ gpu'.back = gpu.back /\ gpu'.front = gpu.front /\ gpu'.frames = gpu.frames
                 /\ pb'.object = pb.object /\ pb'.latch = pb.latch /\ pb'.ctx = pb.ctx
<1> DEFINE s == [gpu |-> gpu, dropped |-> dropped, pb |-> [pb EXCEPT !.stats = Counted(p)]]
           r == ExecutePacket(s, p)
           i == ValidatePacket(p)
<1>1. /\ gpu' = r.st.gpu /\ pb' = r.st.pb /\ dropped' = r.st.dropped
      /\ submission' = IF r.error = "None"
                       THEN [submission EXCEPT !.pc = @ + 1, !.left = @ - Words(p)]
                       ELSE [Idle EXCEPT !.error = r.error]
  BY Zenon DEF RunPacket
<1>2. /\ DrawingOK /\ SubmissionOK /\ StatsOK(pb.stats) /\ DOMAIN pb = PbFields
      /\ DOMAIN gpu = GpuFields /\ DOMAIN pb.latch = LatchMethods /\ "rect" \notin dropped
      /\ \A m \in Coordinates : pb.latch[m] \in Nat
  BY DEF GpuInv, DrawingOK
<1>3. DOMAIN pb.stats = DOMAIN NoStats /\ pb.stats.methods \in Nat /\ pb.stats.vertices \in Nat
  BY <1>2 DEF StatsOK
<1>4. /\ DOMAIN Counted(p) = DOMAIN NoStats /\ Counted(p).methods = pb.stats.methods
      /\ Counted(p).vertices = pb.stats.vertices
  BY <1>3, CountedFacts
<1>5. /\ s.gpu = gpu /\ s.dropped = dropped /\ DOMAIN s = {"gpu", "pb", "dropped"}
      /\ s.pb.stats = Counted(p) /\ s.pb.latch = pb.latch /\ s.pb.object = pb.object
      /\ s.pb.ctx = pb.ctx /\ DOMAIN s.pb = PbFields
  BY <1>2 DEF PbFields
<1>6. /\ Words(p) \in Nat /\ Words(p) <= Longest /\ Words(p) = 1 + Len(p.vals)
      /\ Len(p.vals) \in Nat /\ Len(p.vals) < Longest /\ Longest \in Nat \ {0} /\ Most \in Nat
      /\ Vertices(p) \in Nat /\ Vertices(p) <= Most
  BY LimitsFacts, WordsFacts, PacketFacts, MostFacts
<1>7. CASE i = 0
  <2> DEFINE u == ApplyPacket(s, p, Len(p.vals))
  <2>1. r = [st |-> u, error |-> "None"]
    BY <1>7, Zenon DEF ExecutePacket
  <2> HIDE DEF s, r
  <2>2. Shaped(s) /\ s.pb.stats.methods \in Nat /\ s.pb.stats.vertices \in Nat
    BY <1>2, <1>3, <1>4, <1>5 DEF Shaped
  <2>3. AfterMethods(s, p, Len(p.vals), u)
    BY <1>2, <1>5, <1>7, <2>2, PacketApplied
  <2> HIDE DEF u
  <2>4. gpu' = u.gpu /\ pb' = u.pb /\ dropped' = u.dropped
    BY <1>1, <2>1
  <2>5. submission' = [submission EXCEPT !.pc = @ + 1, !.left = @ - Words(p)]
    BY <1>1, <2>1
  <2>6. SubmissionOK' /\ submission'.error = "None"
    BY <1>2, <2>5 DEF SubmissionOK, Idle
  <2>7. /\ Shaped(u) /\ \A m \in Coordinates : u.pb.latch[m] \in Nat
        /\ "rect" \notin u.dropped
    BY <2>3 DEF AfterMethods
  <2>8. /\ u.pb.stats.words = Counted(p).words /\ u.pb.stats.packets = Counted(p).packets
        /\ u.pb.stats.jumps = Counted(p).jumps
        /\ u.pb.stats.methods = pb.stats.methods + Len(p.vals)
        /\ u.pb.stats.vertices = pb.stats.vertices + Drawn(p)[Len(p.vals)]
    BY <1>4, <1>5, <2>3 DEF AfterMethods
  <2>9. Drawn(p)[Len(p.vals)] = Vertices(p)
    BY VerticesFacts
  <2>10. DOMAIN u.pb.stats = DOMAIN NoStats
    BY <2>7 DEF Shaped
  <2>11. StatsOK(u.pb.stats) /\ InBudget(u.pb.stats)
    BY <1>2, <1>6, <2>8, <2>9, <2>10, OnePacketMore
  <2>12. DrawingOK'
    BY <2>4, <2>7, <2>11 DEF DrawingOK, Shaped
  <2> QED
    BY <2>6, <2>12 DEF GpuInv
<1>8. CASE i # 0
  <2> DEFINE e == MethodError(p, i)
             u == [s EXCEPT !.gpu.fault = FaultOf(e),
                            !.pb.unsupported = RecordUnsupported(@, p, i)]
  <2>1. r = [st |-> u, error |-> e]
    BY <1>8, Zenon DEF ExecutePacket
  <2> HIDE DEF s, r
  <2>2. /\ u.gpu.back = gpu.back /\ u.gpu.front = gpu.front /\ u.gpu.frames = gpu.frames
        /\ DOMAIN u.gpu = GpuFields /\ u.dropped = dropped
    BY <1>2, <1>5 DEF GpuFields
  <2>3. /\ u.pb.object = pb.object /\ u.pb.latch = pb.latch /\ u.pb.ctx = pb.ctx
        /\ u.pb.stats = Counted(p) /\ DOMAIN u.pb = PbFields
    BY <1>2, <1>5 DEF PbFields
  <2> HIDE DEF u
  <2>4. gpu' = u.gpu /\ pb' = u.pb /\ dropped' = u.dropped
    BY <1>1, <2>1
  <2>5. e # "None"
    <3> DEFINE bad == {j \in 1 .. Len(p.vals) : MethodError(p, j) # "None"}
    <3>1. i = IF bad = {} THEN 0 ELSE Least(bad)
      BY Zenon DEF ValidatePacket
    <3>2. bad \in SUBSET Nat
      BY <1>6
    <3>3. i \in bad
      <4> HIDE DEF bad, i
      <4> QED
        BY <1>8, <3>1, <3>2, LeastFacts
    <3> QED
      BY <3>3
  <2>6. submission' = [Idle EXCEPT !.error = e]
    BY <1>1, <2>1, <2>5
  <2>7. SubmissionOK'
    BY <2>6 DEF SubmissionOK, Idle
  <2>8. StatsOK(Counted(p)) /\ InBudget(Counted(p))
    <3>1. 0 \in Nat /\ 0 < Longest /\ 0 <= Most
      BY <1>6
    <3>2. /\ Counted(p).methods = pb.stats.methods + 0
          /\ Counted(p).vertices = pb.stats.vertices + 0
      BY <1>3, <1>4
    <3> QED
      BY <1>2, <1>4, <1>6, <3>1, <3>2, OnePacketMore
  <2>9. DrawingOK'
    BY <1>2, <2>2, <2>3, <2>4, <2>8 DEF DrawingOK
  <2> QED
    BY <2>2, <2>3, <2>4, <2>7, <2>9 DEF GpuInv
<1> QED
  BY <1>7, <1>8

\* Every step keeps the invariant, and one in which a submission ends in an error keeps
\* the drawing.
LEMMA NextInv ==
    ASSUME GpuInv, [GpuNext]_gpuVars
    PROVE  /\ GpuInv'
           /\ submission.active /\ submission'.error # "None" => Drawing(gpu', pb') = Drawing(gpu, pb)
<1> DEFINE Kept == /\ gpu'.back = gpu.back /\ gpu'.front = gpu.front /\ gpu'.frames = gpu.frames
                   /\ pb'.object = pb.object /\ pb'.latch = pb.latch /\ pb'.ctx = pb.ctx
<1>0. DrawingOK /\ SubmissionOK /\ DOMAIN gpu = GpuFields
  BY DEF GpuInv, DrawingOK
<1>1. CASE UNCHANGED gpuVars
  BY <1>1 DEF gpuVars, GpuInv, DrawingOK, SubmissionOK, Drawing
<1>2. ASSUME NEW b \in Buffers, NEW n, ExecutePushbuffer(b, n)
      PROVE  GpuInv' /\ ~submission.active
  <2>1. /\ ~submission.active /\ gpu' = gpu /\ pb' = pb /\ dropped' = dropped
        /\ submission' = [Idle EXCEPT !.active = TRUE, !.buf = b, !.pc = 1, !.left = n]
    BY <1>2 DEF ExecutePushbuffer
  <2>2. SubmissionOK'
    BY <2>1 DEF SubmissionOK, Idle
  <2>3. DrawingOK'
    BY <1>0, <2>1, SameDrawing
  <2> QED
    BY <2>1, <2>2, <2>3 DEF GpuInv
<1>3. ASSUME ExecuteFromMemory
      PROVE  GpuInv' /\ (submission'.error # "None" => Kept)
  <2> DEFINE p == submission.buf[submission.pc]
  <2>1. submission.active
    BY <1>3 DEF ExecuteFromMemory
  <2>2. ASSUME NEW fault, NEW error, Return(fault, error), pb' = pb, dropped' = dropped
        PROVE  GpuInv' /\ Kept
    <3>1. /\ SubmissionOK' /\ DOMAIN gpu' = GpuFields
          /\ gpu'.back = gpu.back /\ gpu'.front = gpu.front /\ gpu'.frames = gpu.frames
      BY <2>2, ReturnKeeps
    <3>2. DrawingOK'
      BY <1>0, <2>2, <3>1, SameDrawing
    <3> QED
      BY <2>2, <3>1, <3>2 DEF GpuInv
  <2>3. CASE submission.left = 0 \/ CheckBudgetExhausted(pb.stats) \/ DecodeError # "None"
    <3>1. \E fault, error : Return(fault, error) /\ pb' = pb /\ dropped' = dropped
      BY <1>3, <2>3, Zenon DEF ExecuteFromMemory
    <3> QED
      BY <2>2, <3>1
  <2>4. CASE ~(submission.left = 0 \/ CheckBudgetExhausted(pb.stats) \/ DecodeError # "None")
    <3>1. IF p.op = "Jump" THEN TakeJump(p) ELSE RunPacket(p)
      BY <1>3, <2>4, Zenon DEF ExecuteFromMemory
    <3>2. (p.op = "Jump" /\ p.target \in Nat \ {0}) \/ (p.op # "Jump" /\ p \in MethodPackets)
      BY <2>1, <2>4, Decoded
    <3> HIDE DEF p
    <3>3. CASE p.op = "Jump"
      BY <2>1, <2>4, <3>1, <3>2, <3>3, JumpKeeps
    <3>4. CASE p.op # "Jump"
      BY <2>1, <2>4, <3>1, <3>2, <3>4, PacketKeeps
    <3> QED
      BY <3>3, <3>4
  <2> QED
    BY <2>3, <2>4
<1>4. ASSUME WriteVideoIntr \/ BadRegisterAccess
      PROVE  GpuInv' /\ ~submission.active
  <2>1. ~submission.active /\ pb' = pb /\ dropped' = dropped /\ submission' = submission
    BY <1>4 DEF WriteVideoIntr, BadRegisterAccess
  <2>2. DOMAIN gpu' = GpuFields
    BY <1>0, <1>4 DEF WriteVideoIntr, BadRegisterAccess
  <2>3. DrawingOK'
    BY <1>0, <2>1, <2>2, SameDrawing
  <2>4. SubmissionOK'
    BY <1>0, <2>1 DEF SubmissionOK
  <2> QED
    BY <2>1, <2>3, <2>4 DEF GpuInv
<1>5. Kept => Drawing(gpu', pb') = Drawing(gpu, pb)
  BY DEF Drawing
<1> HIDE DEF Kept
<1>6. CASE GpuNext
  BY <1>2, <1>3, <1>4, <1>5, <1>6 DEF GpuNext
<1> QED
  BY <1>1, <1>6

\* The invariant holds in every reachable state.
THEOREM GpuInvariant == GpuSpec => []GpuInv
<1>1. GpuInit => GpuInv
  BY InitInv
<1>2. GpuInv /\ [GpuNext]_gpuVars => GpuInv'
  BY NextInv
<1> QED
  BY <1>1, <1>2, PTL DEF GpuSpec

\* Every rectangle of an accepted packet is drawn: what ValidatePacket foresees of the
\* coordinates is what FillRect meets, for pushbuffers and packets of any length.
THEOREM RectsDrawn == GpuSpec => []AcceptedRectsAreDrawn
<1>1. GpuInv => AcceptedRectsAreDrawn
  BY DEF GpuInv, DrawingOK, AcceptedRectsAreDrawn
<1> QED
  BY <1>1, GpuInvariant, PTL

\* No budget is exceeded by a whole packet, whatever the submissions hold and however
\* they jump (CheckBudgetExhausted, on counters that no caller resets).
THEOREM WorkInBudget == GpuSpec => []WorkStaysInBudget
<1>1. GpuInv => WorkStaysInBudget
  BY BudgetIs DEF GpuInv, DrawingOK
<1> QED
  BY <1>1, GpuInvariant, PTL

\* A packet that is refused leaves no trace in the drawing state (ExecutePacket).
THEOREM RejectedPackets == GpuSpec => RejectedPacketLeavesNoTrace
<1>1. GpuInv /\ [GpuNext]_gpuVars =>
        [submission.active /\ submission'.error # "None" => Drawing(gpu', pb') = Drawing(gpu, pb)]_gpuVars
  BY NextInv
<1> QED
  BY <1>1, GpuInvariant, PTL DEF GpuSpec, RejectedPacketLeavesNoTrace

-----------------------------------------------------------------------------
(* USB: a frame hands out the report the gamepad holds.                     *)

\* The fields of a walk through the lists, and of the gamepad.
WalkFields == {"ed", "td", "ses", "dev", "acc", "got", "tds", "retired", "failed"}

XidFields == {"connected", "address", "configuration", "halted", "report", "rumble",
              "lastSequence", "unsupported"}

\* A transfer leaves the report and the number of the newest snapshot alone.
SameReport(x, d) == DOMAIN x = XidFields /\ x.report = d.report /\ x.lastSequence = d.lastSequence

\* A walk in a frame that began with gamepad d: every report it has handed out is d's.
Following(w, d) ==
    /\ DOMAIN w = WalkFields
    /\ SameReport(w.dev, d)
    /\ w.got \in Seq({d.report})

\* A TD that fails,
LEMMA HaltFollows ==
    ASSUME NEW w, NEW d, Following(w, d), NEW e, NEW t, NEW cc
    PROVE  Following(HaltOn(w, e, t, cc), d)
BY DEF Following, WalkFields, HaltOn

\* and one that completes.
LEMMA RetireFollows ==
    ASSUME NEW w, NEW d, Following(w, d), NEW e, NEW t
    PROVE  Following(Retire(w, e, t), d)
BY DEF Following, WalkFields, Retire

\* No control request touches the report.
LEMMA ControlKeepsReport ==
    ASSUME NEW x, NEW d, SameReport(x, d), NEW req, NEW out, NEW in
    PROVE  SameReport(HandleControlTransfer(x, req, out, in).dev, d)
BY DEF HandleControlTransfer, Reply, Unsupported, SameReport, XidFields

\* The four kinds of TD: SETUP,
LEMMA SetupFollows ==
    ASSUME NEW w, NEW d, Following(w, d), NEW e, NEW t, NEW key
    PROVE  Following(SetupTd(w, e, t, key), d)
<1> DEFINE x    == w.td[t]
           open == [w EXCEPT !.ses[key] = [active |-> TRUE, req |-> x.req, avail |-> 0]]
           ans  == HandleControlTransfer(w.dev, x.req, 0, DescriptorSize)
           sent == [open EXCEPT !.dev = ans.dev, !.ses[key].avail = ans.bytes]
           shut == [open EXCEPT !.dev = ans.dev, !.ses[key].active = FALSE,
                                !.ses[key].avail = DescriptorSize]
<1>1. SameReport(ans.dev, d)
  BY ControlKeepsReport DEF Following
<1>2. SetupTd(w, e, t, key) =
        IF x.len < SetupSize THEN HaltOn(w, e, t, "InvalidDescriptor")
        ELSE IF x.bad THEN HaltOn(w, e, t, "MemoryFault")
        ELSE IF x.req \notin DeviceToHost THEN Retire(open, e, t)
        ELSE IF ans.status = "Success" THEN Retire(sent, e, t)
        ELSE HaltOn(shut, e, t, ans.status)
  BY Zenon DEF SetupTd
<1> HIDE DEF ans, x
<1>3. Following(open, d)
  BY DEF Following, WalkFields
<1> HIDE DEF open
<1>4. Following(sent, d) /\ Following(shut, d)
  BY <1>1, <1>3 DEF Following, WalkFields
<1> HIDE DEF sent, shut
<1> QED
  BY <1>2, <1>3, <1>4, HaltFollows, RetireFollows, Zenon

\* control IN,
LEMMA ControlInFollows ==
    ASSUME NEW w, NEW d, Following(w, d), NEW e, NEW t, NEW key
    PROVE  Following(ControlInTd(w, e, t, key), d)
<1>1. Following([w EXCEPT !.ses[key].active = FALSE], d)
  BY DEF Following, WalkFields
<1>2. \A n : Following([w EXCEPT !.ses[key].avail = @ - n], d)
  BY DEF Following, WalkFields
<1> QED
  BY <1>1, <1>2, HaltFollows, RetireFollows, Zenon DEF ControlInTd

\* interrupt IN, the one that hands a report out,
LEMMA InterruptInFollows ==
    ASSUME NEW w, NEW d, Following(w, d), NEW e, NEW t, NEW ep
    PROVE  Following(InterruptInTd(w, e, t, ep), d)
<1> DEFINE x    == w.td[t]
           room == IF x.len > 0 THEN x.len ELSE ReportSize
           ans  == HandleInterruptTransfer(w.dev, ep, room)
           some == Lesser(ans.bytes, x.len) > 0
           gave == [w EXCEPT !.got = Append(@, w.dev.report)]
<1>1. InterruptInTd(w, e, t, ep) =
        IF ans.status # "Success" THEN HaltOn(w, e, t, ans.status)
        ELSE IF some /\ x.bad THEN HaltOn(w, e, t, "MemoryFault")
        ELSE Retire(IF some THEN gave ELSE w, e, t)
  BY Zenon DEF InterruptInTd
<1> HIDE DEF x, ans, some
<1>2. Append(w.got, w.dev.report) \in Seq({d.report})
  BY AppendProperties DEF Following, SameReport
<1>3. Following(gave, d)
  BY <1>2 DEF Following, WalkFields
<1> HIDE DEF gave
<1>4. Following(IF some THEN gave ELSE w, d)
  BY <1>3, Zenon
<1> QED
  BY <1>1, <1>4, HaltFollows, RetireFollows, Zenon

\* and control OUT.
LEMMA ControlOutFollows ==
    ASSUME NEW w, NEW d, Following(w, d), NEW e, NEW t, NEW key
    PROVE  Following(ControlOutTd(w, e, t, key), d)
<1> DEFINE x    == w.td[t]
           ans  == HandleControlTransfer(w.dev, w.ses[key].req, x.len, 0)
           shut == [w EXCEPT !.ses[key].active = FALSE]
           done == [w EXCEPT !.dev = ans.dev]
<1>1. SameReport(ans.dev, d)
  BY ControlKeepsReport DEF Following
<1>2. ControlOutTd(w, e, t, key) =
        IF ~w.ses[key].active /\ x.len > 0 THEN HaltOn(w, e, t, "Stalled")
        ELSE IF x.len = 0 THEN Retire(shut, e, t)
        ELSE IF x.bad THEN HaltOn(w, e, t, "MemoryFault")
        ELSE IF ans.status # "Success" THEN HaltOn(done, e, t, ans.status)
        ELSE Retire(done, e, t)
  BY Zenon DEF ControlOutTd
<1> HIDE DEF ans, x
<1>3. Following(shut, d) /\ Following(done, d)
  BY <1>1 DEF Following, WalkFields
<1> HIDE DEF shut, done
<1> QED
  BY <1>2, <1>3, HaltFollows, RetireFollows, Zenon

\* Any TD.
LEMMA SingleTdFollows ==
    ASSUME NEW w, NEW d, Following(w, d), NEW e, NEW t, NEW found
    PROVE  Following(ProcessSingleTd(w, e, t, found), d)
BY HaltFollows, RetireFollows, SetupFollows, ControlInFollows, InterruptInFollows,
   ControlOutFollows, Zenon DEF ProcessSingleTd

\* One turn of the loop over the TDs of an endpoint.
LEMMA TdTurnFollows ==
    ASSUME NEW p, NEW d, DOMAIN p = {"w", "seen", "more"}, Following(p.w, d), NEW e, NEW found
    PROVE  DOMAIN TdTurn(p, e, found) = {"w", "seen", "more"} /\ Following(TdTurn(p, e, found).w, d)
<1> DEFINE t == p.w.ed[e].head
           c == [p.w EXCEPT !.tds = @ + 1]
           s == ProcessSingleTd(c, e, t, found)
<1>1. TdTurn(p, e, found) =
        IF ~p.more \/ t = Null \/ t = p.w.ed[e].tail THEN [p EXCEPT !.more = FALSE]
        ELSE IF p.w.tds >= TdBudget \/ t \in p.seen
             THEN [p EXCEPT !.w.failed = TRUE, !.more = FALSE]
        ELSE [w |-> s, seen |-> p.seen \cup {t}, more |-> s.retired]
  BY Zenon DEF TdTurn
<1>2. Following(c, d)
  BY DEF Following, WalkFields
<1>3. Following(s, d)
  <2> HIDE DEF c, t
  <2> QED
    BY <1>2, SingleTdFollows, Zenon
<1> HIDE DEF s, t
<1>4. Following([p.w EXCEPT !.failed = TRUE], d)
  BY DEF Following, WalkFields
<1>5. [p EXCEPT !.w.failed = TRUE, !.more = FALSE].w = [p.w EXCEPT !.failed = TRUE]
  OBVIOUS
<1>6. [p EXCEPT !.more = FALSE].w = p.w
  OBVIOUS
<1> QED
  BY <1>1, <1>3, <1>4, <1>5, <1>6

\* f is the loop over the TDs of endpoint e.
IsTdLoop(f, w, e, found) ==
    f = [i \in 0 .. TdBudget + 1 |-> IF i = 0 THEN [w |-> w, seen |-> {}, more |-> TRUE] ELSE TdTurn(f[i - 1], e, found)]

\* There is such a loop.
LEMMA TdLoopExists ==
    ASSUME NEW w, NEW e, NEW found
    PROVE  \E f : IsTdLoop(f, w, e, found)
<1> DEFINE n == TdBudget + 1
           Turn(f, i) == IF i = 0 THEN [w |-> w, seen |-> {}, more |-> TRUE] ELSE TdTurn(f[i - 1], e, found)
           T == {k \in 0 .. n : \E f : f = [i \in 0 .. k |-> Turn(f, i)]}
<1>0. n \in Nat
  BY UsbAssumption
<1>1. 0 \in T
  <2> DEFINE f == [i \in 0 .. 0 |-> [w |-> w, seen |-> {}, more |-> TRUE]]
  <2>0. \A i \in 0 .. 0 : i = 0
    OBVIOUS
  <2>1. \A i \in 0 .. 0 : Turn(f, i) = [w |-> w, seen |-> {}, more |-> TRUE]
    BY <2>0, Zenon
  <2>2. f = [i \in 0 .. 0 |-> Turn(f, i)]
    BY <2>1
  <2> HIDE DEF f, Turn, n
  <2> QED
    BY <1>0, <2>2
<1>2. ASSUME NEW k \in 0 .. n, k \in T, k < n PROVE k + 1 \in T
  <2>1. PICK f : f = [i \in 0 .. k |-> Turn(f, i)]
    BY <1>2, Zenon
  <2> DEFINE g == [i \in 0 .. k + 1 |-> IF i = k + 1 THEN Turn(f, k + 1) ELSE f[i]]
  <2> HIDE DEF n
  <2>2. ASSUME NEW i \in 0 .. k + 1 PROVE g[i] = Turn(g, i)
    <3>1. CASE i = k + 1
      <4> HIDE DEF g, Turn
      <4>1. i - 1 \in 0 .. k + 1 /\ i - 1 # k + 1
        BY <1>0, <3>1
      <4> USE DEF g
      <4>2. g[i - 1] = f[i - 1]
        BY <4>1, Zenon
      <4>3. g[i] = Turn(f, i)
        BY <3>1, Zenon
      <4> USE DEF Turn
      <4> HIDE DEF g
      <4> QED
        BY <4>2, <4>3, Zenon
    <3>2. CASE i # k + 1
      <4> HIDE DEF g, Turn
      <4>1. i \in 0 .. k /\ (i # 0 => i - 1 \in 0 .. k + 1 /\ i - 1 # k + 1)
        BY <1>0, <3>2
      <4>2. f[i] = Turn(f, i)
        BY <2>1, <4>1, Zenon
      <4> USE DEF g
      <4>3. g[i] = f[i]
        BY <3>2, Zenon
      <4>4. i # 0 => g[i - 1] = f[i - 1]
        BY <4>1, Zenon
      <4> USE DEF Turn
      <4> HIDE DEF g
      <4> QED
        BY <4>2, <4>3, <4>4, Zenon
    <3> QED
      BY <3>1, <3>2
  <2>3. g = [i \in 0 .. k + 1 |-> g[i]]
    OBVIOUS
  <2> HIDE DEF g, Turn
  <2>4. g = [i \in 0 .. k + 1 |-> Turn(g, i)]
    BY <2>2, <2>3
  <2> QED
    BY <1>0, <1>2, <2>4
<1>3. n \in T
  <2> HIDE DEF T, n
  <2>1. \A k \in 0 .. n : k \in T /\ k < n => k + 1 \in T
    BY <1>2
  <2>2. \A k \in 0 .. n : k \in T
    BY <1>0, <1>1, <2>1, Induction
  <2> QED
    BY <1>0, <2>2
<1>4. PICK f : f = [i \in 0 .. n |-> Turn(f, i)]
  BY <1>3, Zenon
<1>5. IsTdLoop(f, w, e, found)
  BY <1>4, Zenon DEF IsTdLoop
<1> QED
  BY <1>5

\* The TDs of an endpoint.
LEMMA TdsFollow ==
    ASSUME NEW w, NEW e, NEW found, NEW d, Following(w, d)
    PROVE  Following(ProcessTds(w, e, found), d)
<1> DEFINE n == TdBudget + 1
           f == CHOOSE f : IsTdLoop(f, w, e, found)
           T == {k \in 0 .. n : DOMAIN f[k] = {"w", "seen", "more"} /\ Following(f[k].w, d)}
<1>0. n \in Nat /\ 0 \in 0 .. n /\ n \in 0 .. n
  BY UsbAssumption
<1>1. ProcessTds(w, e, found) = f[n].w
  BY Zenon DEF ProcessTds, IsTdLoop
<1>2. IsTdLoop(f, w, e, found)
  BY TdLoopExists, Zenon
<1>3. f = [i \in 0 .. n |-> IF i = 0 THEN [w |-> w, seen |-> {}, more |-> TRUE] ELSE TdTurn(f[i - 1], e, found)]
  BY <1>2, Zenon DEF IsTdLoop
<1> HIDE DEF f, n
<1>4. 0 \in T
  <2>1. f[0] = [w |-> w, seen |-> {}, more |-> TRUE]
    BY <1>0, <1>3, Zenon
  <2> DEFINE first == [w |-> w, seen |-> {}, more |-> TRUE]
  <2>a. DOMAIN first = {"w", "seen", "more"} /\ first.w = w
    OBVIOUS
  <2>2. DOMAIN f[0] = {"w", "seen", "more"} /\ f[0].w = w
    BY <2>1, <2>a, Zenon
  <2> QED
    BY <1>0, <2>2, Zenon
<1>5. ASSUME NEW k \in 0 .. n, k \in T, k < n PROVE k + 1 \in T
  <2>1. k + 1 \in 0 .. n /\ k + 1 # 0 /\ (k + 1) - 1 = k
    BY <1>0, <1>5
  <2>2. f[k + 1] = TdTurn(f[k], e, found)
    BY <1>3, <2>1, Zenon
  <2>3. DOMAIN TdTurn(f[k], e, found) = {"w", "seen", "more"} /\ Following(TdTurn(f[k], e, found).w, d)
    BY <1>5, TdTurnFollows, Zenon
  <2> QED
    BY <2>1, <2>2, <2>3, Zenon
<1>6. n \in T
  <2>1. \A k \in 0 .. n : k \in T /\ k < n => k + 1 \in T
    BY <1>5, Zenon
  <2> HIDE DEF T
  <2>2. \A k \in 0 .. n : k \in T
    BY <1>0, <1>4, <2>1, Induction, Zenon
  <2> QED
    BY <1>0, <2>2, Zenon
<1> QED
  BY <1>1, <1>6, Zenon

\* One turn of the loop over the EDs of a list.
LEMMA EdTurnFollows ==
    ASSUME NEW p, NEW d, DOMAIN p = {"w", "seen", "e"}, Following(p.w, d)
    PROVE  DOMAIN EdTurn(p) = {"w", "seen", "e"} /\ Following(EdTurn(p).w, d)
<1> DEFINE x == p.w.ed[p.e]
           idle == x.skip \/ x.halted \/ x.head = x.tail
           found == port.attached /\ p.w.dev.address = x.address
           s == IF idle THEN p.w ELSE ProcessTds(p.w, p.e, found)
<1>1. EdTurn(p) =
        IF p.e = Null \/ p.w.failed THEN p
        ELSE IF Cardinality(p.seen) >= EdBudget \/ p.e \in p.seen
             THEN [p EXCEPT !.w.failed = TRUE]
        ELSE [w |-> s, seen |-> p.seen \cup {p.e}, e |-> x.next]
  BY Zenon DEF EdTurn
<1> HIDE DEF idle, found, x
<1>2. Following(s, d)
  BY TdsFollow, Zenon
<1> HIDE DEF s
<1>3. Following([p.w EXCEPT !.failed = TRUE], d)
  BY DEF Following, WalkFields
<1>4. [p EXCEPT !.w.failed = TRUE].w = [p.w EXCEPT !.failed = TRUE]
  OBVIOUS
<1> QED
  BY <1>1, <1>2, <1>3, <1>4

\* f is the loop over the EDs of the list that starts at head.
IsEdLoop(f, w, head) ==
    f = [i \in 0 .. EdBudget + 1 |-> IF i = 0 THEN [w |-> w, seen |-> {}, e |-> head] ELSE EdTurn(f[i - 1])]

\* There is such a loop.
LEMMA EdLoopExists ==
    ASSUME NEW w, NEW head
    PROVE  \E f : IsEdLoop(f, w, head)
<1> DEFINE n == EdBudget + 1
           Turn(f, i) == IF i = 0 THEN [w |-> w, seen |-> {}, e |-> head] ELSE EdTurn(f[i - 1])
           T == {k \in 0 .. n : \E f : f = [i \in 0 .. k |-> Turn(f, i)]}
<1>0. n \in Nat
  BY UsbAssumption
<1>1. 0 \in T
  <2> DEFINE f == [i \in 0 .. 0 |-> [w |-> w, seen |-> {}, e |-> head]]
  <2>0. \A i \in 0 .. 0 : i = 0
    OBVIOUS
  <2>1. \A i \in 0 .. 0 : Turn(f, i) = [w |-> w, seen |-> {}, e |-> head]
    BY <2>0, Zenon
  <2>2. f = [i \in 0 .. 0 |-> Turn(f, i)]
    BY <2>1
  <2> HIDE DEF f, Turn, n
  <2> QED
    BY <1>0, <2>2
<1>2. ASSUME NEW k \in 0 .. n, k \in T, k < n PROVE k + 1 \in T
  <2>1. PICK f : f = [i \in 0 .. k |-> Turn(f, i)]
    BY <1>2, Zenon
  <2> DEFINE g == [i \in 0 .. k + 1 |-> IF i = k + 1 THEN Turn(f, k + 1) ELSE f[i]]
  <2> HIDE DEF n
  <2>2. ASSUME NEW i \in 0 .. k + 1 PROVE g[i] = Turn(g, i)
    <3>1. CASE i = k + 1
      <4> HIDE DEF g, Turn
      <4>1. i - 1 \in 0 .. k + 1 /\ i - 1 # k + 1
        BY <1>0, <3>1
      <4> USE DEF g
      <4>2. g[i - 1] = f[i - 1]
        BY <4>1, Zenon
      <4>3. g[i] = Turn(f, i)
        BY <3>1, Zenon
      <4> USE DEF Turn
      <4> HIDE DEF g
      <4> QED
        BY <4>2, <4>3, Zenon
    <3>2. CASE i # k + 1
      <4> HIDE DEF g, Turn
      <4>1. i \in 0 .. k /\ (i # 0 => i - 1 \in 0 .. k + 1 /\ i - 1 # k + 1)
        BY <1>0, <3>2
      <4>2. f[i] = Turn(f, i)
        BY <2>1, <4>1, Zenon
      <4> USE DEF g
      <4>3. g[i] = f[i]
        BY <3>2, Zenon
      <4>4. i # 0 => g[i - 1] = f[i - 1]
        BY <4>1, Zenon
      <4> USE DEF Turn
      <4> HIDE DEF g
      <4> QED
        BY <4>2, <4>3, <4>4, Zenon
    <3> QED
      BY <3>1, <3>2
  <2>3. g = [i \in 0 .. k + 1 |-> g[i]]
    OBVIOUS
  <2> HIDE DEF g, Turn
  <2>4. g = [i \in 0 .. k + 1 |-> Turn(g, i)]
    BY <2>2, <2>3
  <2> QED
    BY <1>0, <1>2, <2>4
<1>3. n \in T
  <2> HIDE DEF T, n
  <2>1. \A k \in 0 .. n : k \in T /\ k < n => k + 1 \in T
    BY <1>2
  <2>2. \A k \in 0 .. n : k \in T
    BY <1>0, <1>1, <2>1, Induction
  <2> QED
    BY <1>0, <2>2
<1>4. PICK f : f = [i \in 0 .. n |-> Turn(f, i)]
  BY <1>3, Zenon
<1>5. IsEdLoop(f, w, head)
  BY <1>4, Zenon DEF IsEdLoop
<1> QED
  BY <1>5

\* The EDs of a list.
LEMMA EdsFollow ==
    ASSUME NEW w, NEW head, NEW d, Following(w, d)
    PROVE  Following(ProcessEds(w, head), d)
<1> DEFINE n == EdBudget + 1
           f == CHOOSE f : IsEdLoop(f, w, head)
           T == {k \in 0 .. n : DOMAIN f[k] = {"w", "seen", "e"} /\ Following(f[k].w, d)}
<1>0. n \in Nat /\ 0 \in 0 .. n /\ n \in 0 .. n
  BY UsbAssumption
<1>1. ProcessEds(w, head) = f[n].w
  BY Zenon DEF ProcessEds, IsEdLoop
<1>2. IsEdLoop(f, w, head)
  BY EdLoopExists, Zenon
<1>3. f = [i \in 0 .. n |-> IF i = 0 THEN [w |-> w, seen |-> {}, e |-> head] ELSE EdTurn(f[i - 1])]
  BY <1>2, Zenon DEF IsEdLoop
<1> HIDE DEF f, n
<1>4. 0 \in T
  <2>1. f[0] = [w |-> w, seen |-> {}, e |-> head]
    BY <1>0, <1>3, Zenon
  <2>2. DOMAIN f[0] = {"w", "seen", "e"} /\ f[0].w = w
    BY <2>1
  <2> QED
    BY <1>0, <2>2, Zenon
<1>5. ASSUME NEW k \in 0 .. n, k \in T, k < n PROVE k + 1 \in T
  <2>1. k + 1 \in 0 .. n /\ k + 1 # 0 /\ (k + 1) - 1 = k
    BY <1>0, <1>5
  <2>2. f[k + 1] = EdTurn(f[k])
    BY <1>3, <2>1, Zenon
  <2>3. DOMAIN EdTurn(f[k]) = {"w", "seen", "e"} /\ Following(EdTurn(f[k]).w, d)
    BY <1>5, EdTurnFollows, Zenon
  <2> QED
    BY <2>1, <2>2, <2>3, Zenon
<1>6. n \in T
  <2>1. \A k \in 0 .. n : k \in T /\ k < n => k + 1 \in T
    BY <1>5, Zenon
  <2> HIDE DEF T
  <2>2. \A k \in 0 .. n : k \in T
    BY <1>0, <1>4, <2>1, Induction, Zenon
  <2> QED
    BY <1>0, <2>2, Zenon
<1> QED
  BY <1>1, <1>6, Zenon

\* One of the three lists.
LEMMA ListFollows ==
    ASSUME NEW w, NEW d, Following(w, d), NEW l
    PROVE  Following(RunList(w, l), d)
<1>1. Following([w EXCEPT !.tds = 0], d)
  BY DEF Following, WalkFields
<1> QED
  BY <1>1, EdsFollow, Zenon DEF RunList, ProcessEndpointList

-----------------------------------------------------------------------------
(* Every step.                                                              *)

\* The number of the newest snapshot bounds what the guest has polled, and the report
\* the device holds is that snapshot's or the neutral one.
UsbInv ==
    /\ DOMAIN dev = XidFields
    /\ dev.lastSequence \in Nat
    /\ dev.report \in {0, dev.lastSequence}
    /\ polled \in Nat /\ polled <= dev.lastSequence

\* A frame.
LEMMA FrameKeeps ==
    ASSUME UsbInv, ProcessFrame
    PROVE  UsbInv' /\ polled' >= polled
<1> DEFINE w0 == [ed |-> ed, td |-> td, ses |-> ses, dev |-> dev, acc |-> Null,
                  got |-> <<>>, tds |-> 0, retired |-> FALSE, failed |-> FALSE]
           w == RunLists(w0)
<1>1. CASE hc.state # "Operational"
  <2>1. UNCHANGED <<dev, polled>>
    BY <1>1, Zenon DEF ProcessFrame
  <2> QED
    BY <2>1 DEF UsbInv
<1>2. CASE hc.state = "Operational"
  <2>1. dev' = w.dev /\ polled' = Newest(polled, w.got)
    BY <1>2, Zenon DEF ProcessFrame
  <2>2. Following(w0, dev)
    <3>1. DOMAIN w0 = WalkFields
      BY DEF WalkFields
    <3>2. w0.dev = dev /\ w0.got = <<>>
      OBVIOUS
    <3> HIDE DEF w0
    <3>3. <<>> \in Seq({dev.report})
      OBVIOUS
    <3> QED
      BY <3>1, <3>2, <3>3, Zenon DEF Following, SameReport, UsbInv
  <2> HIDE DEF w0
  <2>3. Following(w, dev)
    BY <2>2, ListFollows, Zenon DEF RunLists
  <2> HIDE DEF w
  <2>4. DOMAIN w.dev = XidFields /\ w.dev.report = dev.report
        /\ w.dev.lastSequence = dev.lastSequence /\ w.got \in Seq({dev.report})
    BY <2>3 DEF Following, SameReport
  <2>5. Newest(polled, w.got) \in {polled, dev.report}
    BY <2>4 DEF Newest
  <2>6. Newest(polled, w.got) \in {polled, dev.lastSequence}
    <3>1. CASE w.got = <<>>
      BY <3>1 DEF Newest
    <3>2. CASE w.got # <<>>
      <4>1. w.got[Len(w.got)] = dev.report
        BY <2>4, <3>2
      <4> QED
        BY <4>1 DEF Newest, UsbInv
    <3> QED
      BY <3>1, <3>2
  <2> QED
    BY <2>1, <2>4, <2>6 DEF UsbInv
<1> QED
  BY <1>1, <1>2

\* A snapshot that is newer than the last.
LEMMA SnapshotKeeps ==
    ASSUME UsbInv, NEW seq \in 1 .. MaxSeq, NEW connected, SubmitSnapshot(seq, connected)
    PROVE  UsbInv' /\ polled' >= polled
BY UsbAssumption DEF UsbInv, SubmitSnapshot, XidFields

\* A reset of the port or of the controller.
LEMMA ResetKeeps ==
    ASSUME UsbInv, dev' = XidReset(dev) \/ dev' = dev, polled' = polled
    PROVE  UsbInv' /\ polled' >= polled
<1>1. CASE dev' = dev
  BY <1>1 DEF UsbInv
<1>2. CASE dev' = XidReset(dev)
  <2>1. DOMAIN dev' = XidFields /\ dev'.report = 0 /\ dev'.lastSequence = dev.lastSequence
    BY <1>2 DEF UsbInv, XidReset, XidFields
  <2> QED
    BY <2>1 DEF UsbInv
<1> QED
  BY <1>1, <1>2

\* Every step.
LEMMA UsbStep ==
    ASSUME UsbInv, [UsbNext]_usbVars
    PROVE  UsbInv' /\ polled' >= polled
<1>1. CASE ProcessFrame
  BY <1>1, FrameKeeps
<1>2. CASE \E seq \in 1 .. MaxSeq, connected \in BOOLEAN : SubmitSnapshot(seq, connected)
  BY <1>2, SnapshotKeeps
<1>3. CASE WriteRegister
  <2>1. (dev' = XidReset(dev) \/ dev' = dev) /\ polled' = polled
    BY <1>3, Zenon DEF WriteRegister, HostControllerReset, WriteControl, WriteInterruptStatus,
       WriteInterruptEnable, WriteHcca, WritePointer, WritePort
  <2> QED
    BY <2>1, ResetKeeps
<1>4. CASE UNCHANGED <<dev, polled>>
  BY <1>4 DEF UsbInv
<1>5. CASE UNCHANGED usbVars
  BY <1>5 DEF UsbInv, usbVars
<1>6. ASSUME UsbNext PROVE \/ ProcessFrame \/ WriteRegister \/ UNCHANGED <<dev, polled>>
                           \/ \E seq \in 1 .. MaxSeq, connected \in BOOLEAN : SubmitSnapshot(seq, connected)
  BY <1>6, Zenon DEF UsbNext, QueueTd, ResumeEndpoint, SkipEndpoint, TakeDone, AttachDevice, DetachDevice
<1> QED
  BY <1>1, <1>2, <1>3, <1>4, <1>5, <1>6

\* Every reachable state satisfies the invariant (XidController, OhciController::ProcessFrame).
THEOREM UsbInvariant == UsbSpec => []UsbInv
<1>1. UsbInit => UsbInv
  BY DEF UsbInit, UsbInv, XidInit, XidFields
<1>2. UsbInv /\ [UsbNext]_usbVars => UsbInv'
  BY UsbStep
<1> QED
  BY <1>1, <1>2, PTL DEF UsbSpec

\* The guest never polls a report older than one it has polled, for every list, queue and
\* order of snapshots (XidController::SubmitSnapshot, HandleInterruptTransfer).
THEOREM ReportsInOrder == UsbSpec => ReportsNeverRetreat
<1>1. UsbInv /\ [UsbNext]_usbVars => [polled' >= polled]_usbVars
  BY UsbStep
<1> QED
  BY <1>1, UsbInvariant, PTL DEF UsbSpec, ReportsNeverRetreat

=============================================================================

---------------------------- MODULE MemoryProofs ----------------------------
(***************************************************************************)
(* Proofs about virtual memory, in hardware and in the kernel's services.  *)
(*                                                                         *)
(* VirtualMemory: for every number of roots, directories, pages and frames *)
(* the TLB agrees with the page tables on all pages the guest need not     *)
(* invalidate.  TlbIsCurrent is inductive by itself, given the types: only *)
(* a walk of the present tables puts an entry in, a change of the tables   *)
(* in use marks the page, and the mark is dropped only with the entry.     *)
(*                                                                         *)
(* VirtualMemoryHle: for every user range, granularity and size, no page   *)
(* belongs to two regions of VirtualMemoryManager, and FindFreeRange finds *)
(* the first free granule.  RegionsDisjoint is inductive with the types of *)
(* the variables: that next_auto_addr_ may lag behind the regions does not *)
(* matter, since every new range is tested against all of them.  The       *)
(* search is a loop whose candidates grow: it is unwound from the user     *)
(* limit downwards.                                                        *)
(*                                                                         *)
(* For every base, size and alignment the heap never hands out an address  *)
(* twice, its free blocks are coalesced and its byte count is exact.  The  *)
(* first two are inductive together: that a merge stays inside free memory *)
(* needs that no two free blocks were adjacent before, so that at most     *)
(* three blocks merge.  That no address is lost needs more: base, size and *)
(* alignments on the grid of the heap's alignment, so that AllocateAligned *)
(* never leaves a rest too small for a block.                              *)
(***************************************************************************)
EXTENDS VirtualMemory, VirtualMemoryHle, GuestHeap, FiniteSetTheorems, WellFoundedInduction, TLAPS

-----------------------------------------------------------------------------
(* GuestHeap.                                                               *)

BlockType == [addr : Nat, size : Nat]

Within(S) == \A b \in S : b.size > 0 /\ Base <= b.addr /\ BlockEnd(b) <= Base + Total

\* The free blocks F and the allocated blocks A make up a sound heap.
Sound(F, A) ==
    /\ F \subseteq BlockType /\ A \subseteq BlockType
    /\ Within(F) /\ Within(A)
    /\ \A b, c \in F \cup A : b # c => Disjoint(b, c)
    /\ F \cap A = {}
    /\ \A b, c \in F : BlockEnd(b) # c.addr

\* AlignSize returns a natural number no smaller than its argument.
LEMMA RoundUpFacts ==
    ASSUME NEW n \in Nat, NEW a \in Nat \ {0}
    PROVE  AlignSize(n, a) \in Nat /\ AlignSize(n, a) >= n
<1> DEFINE q == (n + a - 1) \div a
<1>1. q \in Nat /\ n + a - 1 < (q + 1) * a
  BY SMT
<1>2. (q + 1) * a = q * a + a /\ q * a \in Nat
  BY <1>1, SMT
<1>3. q * a >= n
  BY <1>1, <1>2, SMT
<1> QED
  BY <1>2, <1>3 DEF AlignSize

\* Taking a block g out of a free block f, with whatever remains of f in R in
\* front of g and behind it, keeps the heap sound.
LEMMA SplitSound ==
    ASSUME NEW F, NEW A, Sound(F, A), NEW f \in F,
           NEW g \in BlockType, g.size > 0, f.addr <= g.addr, BlockEnd(g) <= BlockEnd(f),
           NEW R \in SUBSET BlockType,
           \A r \in R : /\ r.size > 0
                        /\ \/ r.addr = f.addr /\ BlockEnd(r) = g.addr
                           \/ BlockEnd(g) <= r.addr /\ BlockEnd(r) <= BlockEnd(f),
           \A r, s \in R : r # s => (r.addr = f.addr /\ BlockEnd(r) = g.addr) \/ (s.addr = f.addr /\ BlockEnd(s) = g.addr)
    PROVE  Sound((F \ {f}) \cup R, A \cup {g})
<1> DEFINE G == (F \ {f}) \cup R
           B == A \cup {g}
<1> USE DEF BlockType, BlockEnd
<1>1. F \subseteq BlockType /\ A \subseteq BlockType /\ f \in BlockType
  BY DEF Sound
<1>2. G \subseteq BlockType /\ B \subseteq BlockType
  BY <1>1
<1>3. /\ f.addr \in Nat /\ f.size \in Nat /\ g.addr \in Nat /\ g.size \in Nat
      /\ f.size > 0 /\ Base <= f.addr /\ BlockEnd(f) <= Base + Total
  BY <1>1 DEF Sound, Within
<1>4. \A r \in R : /\ r.addr \in Nat /\ r.size \in Nat /\ r.size > 0
                   /\ f.addr <= r.addr /\ BlockEnd(r) <= BlockEnd(f) /\ Disjoint(r, g)
  BY <1>3, SMT DEF Disjoint
<1>5. \A c \in (F \cup A) \ {f} :
        c.addr \in Nat /\ c.size \in Nat /\ c.size > 0 /\ Disjoint(c, f)
  BY <1>1 DEF Sound, Within
<1>6. Within(G) /\ Within(B)
  BY <1>3, <1>4, HeapAssumption, SMT DEF Sound, Within
<1>7. \A r, s \in R : r # s => Disjoint(r, s)
  <2> SUFFICES ASSUME NEW r \in R, NEW s \in R, r # s PROVE Disjoint(r, s)
    OBVIOUS
  <2>1. ~(/\ r.addr = f.addr /\ BlockEnd(r) = g.addr
          /\ s.addr = f.addr /\ BlockEnd(s) = g.addr)
    <3> SUFFICES ASSUME r.addr = s.addr, BlockEnd(r) = BlockEnd(s) PROVE FALSE
      OBVIOUS
    <3>1. r.size = s.size
      BY <1>4
    <3>2. r = [addr |-> r.addr, size |-> r.size] /\ s = [addr |-> s.addr, size |-> s.size]
      OBVIOUS
    <3> QED
      BY <3>1, <3>2
  <2> QED
    BY <2>1, <1>3, <1>4, SMT DEF Disjoint
<1>8. \A c \in (F \cup A) \ {f} : Disjoint(c, g) /\ \A r \in R : Disjoint(c, r)
  BY <1>3, <1>4, <1>5, SMT DEF Disjoint
<1>9. f \notin A
  BY DEF Sound
<1>10. \A b, c \in G \cup B : b # c => Disjoint(b, c)
  <2> SUFFICES ASSUME NEW b \in G \cup B, NEW c \in G \cup B, b # c PROVE Disjoint(b, c)
    OBVIOUS
  <2>1. \A x, y : Disjoint(x, y) <=> Disjoint(y, x)
    BY DEF Disjoint
  <2>2. /\ b \in ((F \cup A) \ {f}) \/ b = g \/ b \in R
        /\ c \in ((F \cup A) \ {f}) \/ c = g \/ c \in R
    BY <1>9
  <2>3. CASE b \in (F \cup A) \ {f} /\ c \in (F \cup A) \ {f}
    BY <2>3 DEF Sound
  <2> HIDE DEF BlockEnd
  <2> QED
    BY <2>1, <2>2, <2>3, <1>4, <1>7, <1>8
<1>11. G \cap B = {}
  <2>1. g \notin G
    <3>1. \A x : (x.addr \in Nat /\ x.size \in Nat /\ x.size > 0) => ~Disjoint(x, x)
      BY SMT DEF Disjoint
    <3> QED
      BY <3>1, <1>3, <1>4, <1>8
  <2>2. R \cap A = {}
    <3>1. \A x : (x.addr \in Nat /\ x.size \in Nat /\ x.size > 0) => ~Disjoint(x, x)
      BY SMT DEF Disjoint
    <3> QED
      BY <3>1, <1>4, <1>8, <1>9
  <2> QED
    BY <2>1, <2>2 DEF Sound
<1>12. \A b, c \in G : BlockEnd(b) # c.addr
  <2> SUFFICES ASSUME NEW b \in G, NEW c \in G, BlockEnd(b) = c.addr PROVE FALSE
    OBVIOUS
  <2>1. CASE b \in F \ {f} /\ c \in F \ {f}
    BY <2>1 DEF Sound
  <2>2. CASE b \in F \ {f} /\ c \in R
    <3>1. BlockEnd(b) # f.addr
      BY <2>2 DEF Sound
    <3> QED
      BY <2>2, <3>1, <1>3, <1>4, <1>5, SMT DEF Disjoint
  <2>3. CASE b \in R /\ c \in F \ {f}
    <3>1. BlockEnd(f) # c.addr
      BY <2>3 DEF Sound
    <3> QED
      BY <2>3, <3>1, <1>3, <1>4, <1>5, SMT DEF Disjoint
  <2>4. CASE b \in R /\ c \in R
    BY <2>4, <1>3, <1>4, SMT
  <2> QED
    BY <2>1, <2>2, <2>3, <2>4
<1> QED
  BY <1>2, <1>6, <1>10, <1>11, <1>12 DEF Sound

\* What Coalesce makes of sound free blocks F and one more block b: each block
\* of the result is a block of F \cup {b}, or b merged with the block in front,
\* the one behind, or both.
LEMMA CoalesceShape ==
    ASSUME NEW F, NEW A, Sound(F, A), NEW b \in A,
           NEW m \in Coalesce(F \cup {b})
    PROVE  \E s, l \in F \cup {b} :
             /\ m = Block(s.addr, BlockEnd(l) - s.addr)
             /\ \A c \in F \cup {b} : BlockEnd(c) # s.addr
             /\ \A c \in F \cup {b} : BlockEnd(l) # c.addr
             /\ \/ s = l
                \/ s = b /\ l \in F /\ BlockEnd(b) = l.addr
                \/ s \in F /\ l = b /\ BlockEnd(s) = b.addr
                \/ s \in F /\ l \in F /\ BlockEnd(s) = b.addr /\ BlockEnd(b) = l.addr
<1> DEFINE S == F \cup {b}
           firsts == {x \in S : \A c \in S : BlockEnd(c) # x.addr}
           lasts == {x \in S : \A c \in S : BlockEnd(x) # c.addr}
           IsLastOf(x, y) == y \in lasts /\ IsFirst(y, {c \in lasts : c.addr >= x.addr})
           lastOf(x) == CHOOSE y \in lasts : IsFirst(y, {c \in lasts : c.addr >= x.addr})
<1>1. PICK s \in firsts : m = Block(s.addr, BlockEnd(lastOf(s)) - s.addr)
  BY Zenon DEF Coalesce
<1>2. \A x \in S : x \in BlockType /\ x.addr \in Nat /\ x.size \in Nat /\ x.size > 0
  BY DEF Sound, Within, BlockType
<1>3. \A x, y \in S : x # y => Disjoint(x, y)
  BY DEF Sound
<1>4. \A x, y \in F : BlockEnd(x) # y.addr
  BY DEF Sound
<1>5. BlockEnd(b) # b.addr
  BY <1>2, SMT DEF BlockEnd
<1>6. \A x, y, z \in S : (BlockEnd(x) = y.addr /\ z.addr >= x.addr /\ z.addr < y.addr) => z = x
  BY <1>2, <1>3, SMT DEF Disjoint, BlockEnd
<1>7. \A x, y \in S : IsLastOf(x, y) => IsLastOf(x, lastOf(x))
  BY Zenon
<1>8. \A x, y, z \in S : (IsLastOf(x, y) /\ IsLastOf(x, z)) => y = z
  <2> SUFFICES ASSUME NEW x \in S, NEW y \in S, NEW z \in S, IsLastOf(x, y), IsLastOf(x, z)
               PROVE  y = z
    OBVIOUS
  <2>1. y.addr <= z.addr /\ z.addr <= y.addr
    BY DEF IsFirst
  <2> QED
    BY <2>1, <1>2, <1>3, SMT DEF Disjoint, BlockEnd
<1>9. \A x, y \in S : IsLastOf(x, y) => lastOf(x) = y
  BY <1>7, <1>8
<1>10. CASE s \in lasts
  <2>1. IsLastOf(s, s)
    BY <1>2, <1>10, SMT DEF IsFirst
  <2> QED
    BY <2>1, <1>1, <1>9, Zenon
<1>11. CASE s \notin lasts
  <2>1. PICK c \in S : BlockEnd(s) = c.addr
    BY <1>11
  <2>2. c.addr > s.addr
    BY <2>1, <1>2, SMT DEF BlockEnd
  <2>3. CASE c \in lasts
    <3>1. IsLastOf(s, c)
      <4>1. \A x \in lasts : x.addr >= s.addr => c.addr <= x.addr
        BY <1>2, <1>6, <1>11, <2>1, SMT
      <4> QED
        BY <4>1, <2>2, <2>3, <1>2, SMT DEF IsFirst
    <3> QED
      BY <3>1, <2>1, <2>3, <1>1, <1>4, <1>5, <1>9
  <2>4. CASE c \notin lasts
    <3>1. PICK d \in S : BlockEnd(c) = d.addr
      BY <2>4
    <3>2. d.addr > c.addr
      BY <3>1, <1>2, SMT DEF BlockEnd
    <3>3. c = b /\ s \in F /\ d \in F
      BY <2>1, <2>2, <3>1, <3>2, <1>2, <1>4
    <3>4. d \in lasts
      <4> SUFFICES ASSUME NEW x \in S, BlockEnd(d) = x.addr PROVE FALSE
        OBVIOUS
      <4>1. x = b
        BY <3>3, <1>4
      <4> QED
        BY <4>1, <3>2, <3>3, <1>2, SMT DEF BlockEnd
    <3>5. IsLastOf(s, d)
      <4>1. \A x \in lasts : x.addr >= s.addr => d.addr <= x.addr
        <5> SUFFICES ASSUME NEW x \in lasts, x.addr >= s.addr, x.addr < d.addr PROVE FALSE
          BY <1>2, SMT
        <5>1. x.addr >= c.addr
          BY <1>2, <1>6, <1>11, <2>1, SMT
        <5> QED
          BY <5>1, <1>6, <2>4, <3>1
      <4> QED
        BY <4>1, <2>2, <3>2, <3>4, <1>2, SMT DEF IsFirst
    <3> QED
      BY <3>1, <3>3, <3>4, <3>5, <2>1, <1>1, <1>9
  <2> QED
    BY <2>3, <2>4
<1> QED
  BY <1>10, <1>11

\* Freeing b: taking b from the allocated blocks and coalescing it into the free
\* ones keeps the heap sound.
LEMMA MergeSound ==
    ASSUME NEW F, NEW A, Sound(F, A), NEW b \in A
    PROVE  Sound(Coalesce(F \cup {b}), A \ {b})
<1> DEFINE S == F \cup {b}
           M == Coalesce(S)
           Shape(m, s, l) ==
             /\ m = Block(s.addr, BlockEnd(l) - s.addr)
             /\ \A c \in S : BlockEnd(c) # s.addr
             /\ \A c \in S : BlockEnd(l) # c.addr
             /\ \/ s = l
                \/ s = b /\ l \in F /\ BlockEnd(b) = l.addr
                \/ s \in F /\ l = b /\ BlockEnd(s) = b.addr
                \/ s \in F /\ l \in F /\ BlockEnd(s) = b.addr /\ BlockEnd(b) = l.addr
<1>1. \A m \in M : \E s, l \in S : Shape(m, s, l)
  BY CoalesceShape
<1> HIDE DEF M
<1>2. \A x \in F \cup A : /\ x.addr \in Nat /\ x.size \in Nat /\ x.size > 0
                         /\ BlockEnd(x) \in Nat /\ BlockEnd(x) = x.addr + x.size
                         /\ Base <= x.addr /\ BlockEnd(x) <= Base + Total
  BY DEF Sound, Within, BlockType, BlockEnd
<1>3. \A x, y \in F \cup A : x # y => BlockEnd(x) <= y.addr \/ BlockEnd(y) <= x.addr
  BY DEF Sound, Disjoint
<1>4. S \subseteq F \cup A /\ b \notin F
  BY DEF Sound
<1> HIDE DEF Shape
<1>5. \A m \in M, s, l \in S : Shape(m, s, l) =>
        /\ m \in BlockType /\ m.addr = s.addr /\ BlockEnd(m) = BlockEnd(l) /\ m.size > 0
        /\ s.addr < BlockEnd(l)
  <2> SUFFICES ASSUME NEW m \in M, NEW s \in S, NEW l \in S, Shape(m, s, l)
               PROVE  /\ m \in BlockType /\ m.addr = s.addr /\ BlockEnd(m) = BlockEnd(l) /\ m.size > 0
                      /\ s.addr < BlockEnd(l)
    OBVIOUS
  <2> USE DEF Shape
  <2>1. s.addr < BlockEnd(l)
    BY <1>2, <1>4, SMT
  <2>2. m = [addr |-> s.addr, size |-> BlockEnd(l) - s.addr]
    BY DEF Block
  <2>3. BlockEnd(l) - s.addr \in Nat /\ BlockEnd(l) - s.addr > 0 /\ s.addr \in Nat
    BY <2>1, <1>2, <1>4, SMT
  <2>4. m.addr = s.addr /\ m.size = BlockEnd(l) - s.addr
    BY <2>2
  <2>5. BlockEnd(m) = BlockEnd(l)
    BY <2>3, <2>4, <1>2, <1>4, SMT DEF BlockEnd
  <2> QED
    BY <2>1, <2>2, <2>3, <2>4, <2>5 DEF BlockType
\* A block disjoint from the pieces of a merged block is disjoint from it.
<1>6. \A m \in M, s, l \in S, x \in (F \cup A) : (Shape(m, s, l) /\ x # s /\ x # l /\ x # b)
        => (BlockEnd(x) <= s.addr \/ BlockEnd(l) <= x.addr)
  <2> SUFFICES ASSUME NEW m \in M, NEW s \in S, NEW l \in S, NEW x \in F \cup A,
                      Shape(m, s, l), x # s, x # l, x # b
               PROVE  BlockEnd(x) <= s.addr \/ BlockEnd(l) <= x.addr
    OBVIOUS
  <2> USE DEF Shape
  <2>1. /\ BlockEnd(x) <= s.addr \/ BlockEnd(s) <= x.addr
        /\ BlockEnd(x) <= l.addr \/ BlockEnd(l) <= x.addr
        /\ BlockEnd(x) <= b.addr \/ BlockEnd(b) <= x.addr
    BY <1>3, <1>4
  <2>2. /\ x.addr \in Nat /\ BlockEnd(x) \in Nat /\ x.addr < BlockEnd(x)
        /\ s.addr \in Nat /\ BlockEnd(s) \in Nat /\ s.addr < BlockEnd(s)
        /\ l.addr \in Nat /\ BlockEnd(l) \in Nat /\ l.addr < BlockEnd(l)
        /\ b.addr \in Nat /\ BlockEnd(b) \in Nat /\ b.addr < BlockEnd(b)
    BY <1>2, <1>4, SMT
  <2> QED
    BY <2>1, <2>2, SMT
<1>7. \A m, n \in M, s, l, t, k \in S : (Shape(m, s, l) /\ Shape(n, t, k) /\ s.addr < t.addr)
        => BlockEnd(l) < t.addr
  <2> SUFFICES ASSUME NEW m \in M, NEW n \in M,
                      NEW s \in S, NEW l \in S, NEW t \in S, NEW k \in S,
                      Shape(m, s, l), Shape(n, t, k), s.addr < t.addr
               PROVE  BlockEnd(l) < t.addr
    OBVIOUS
  <2> USE DEF Shape
  <2>1. BlockEnd(l) # t.addr /\ BlockEnd(s) # t.addr /\ BlockEnd(b) # t.addr
    OBVIOUS
  <2>2. /\ s # t => (BlockEnd(t) <= s.addr \/ BlockEnd(s) <= t.addr)
        /\ l # t => (BlockEnd(t) <= l.addr \/ BlockEnd(l) <= t.addr)
        /\ b # t => (BlockEnd(t) <= b.addr \/ BlockEnd(b) <= t.addr)
    BY <1>3, <1>4
  <2>3. /\ s.addr \in Nat /\ BlockEnd(s) \in Nat /\ s.addr < BlockEnd(s)
        /\ l.addr \in Nat /\ BlockEnd(l) \in Nat /\ l.addr < BlockEnd(l)
        /\ b.addr \in Nat /\ BlockEnd(b) \in Nat /\ b.addr < BlockEnd(b)
        /\ t.addr \in Nat /\ BlockEnd(t) \in Nat /\ t.addr < BlockEnd(t)
    BY <1>2, <1>4, SMT
  <2>4. l # t
    BY <2>1, <2>3, SMT
  <2>5. b # t \/ (s = l /\ s # b)
    BY <2>1, <2>3, SMTT(30)
  <2> QED
    BY <2>1, <2>2, <2>3, <2>4, <2>5, SMT
<1>8. \A m, n \in M, s, l, t, k \in S : (Shape(m, s, l) /\ Shape(n, t, k) /\ s.addr = t.addr)
        => m = n
  <2> SUFFICES ASSUME NEW m \in M, NEW n \in M,
                      NEW s \in S, NEW l \in S, NEW t \in S, NEW k \in S,
                      Shape(m, s, l), Shape(n, t, k), s.addr = t.addr
               PROVE  m = n
    OBVIOUS
  <2> USE DEF Shape
  <2>1. s = t
    BY <1>2, <1>3, <1>4, SMT
  <2>2. \A x, y \in S : x.addr = y.addr => x = y
    BY <1>2, <1>3, <1>4, SMT
  <2>3. l = k
    BY <2>1, <2>2, <1>4
  <2> QED
    BY <2>1, <2>3
<1>9. M \subseteq BlockType /\ Within(M)
  <2> SUFFICES ASSUME NEW m \in M
               PROVE  m \in BlockType /\ m.size > 0 /\ Base <= m.addr /\ BlockEnd(m) <= Base + Total
    BY DEF Within
  <2>1. PICK s, l \in S : Shape(m, s, l)
    BY <1>1
  <2> QED
    BY <2>1, <1>2, <1>4, <1>5
<1>10. \A m, n \in M : m # n => BlockEnd(m) < n.addr \/ BlockEnd(n) < m.addr
  <2> SUFFICES ASSUME NEW m \in M, NEW n \in M, m # n
               PROVE  BlockEnd(m) < n.addr \/ BlockEnd(n) < m.addr
    OBVIOUS
  <2>1. PICK s, l \in S : Shape(m, s, l)
    BY <1>1
  <2>2. PICK t, k \in S : Shape(n, t, k)
    BY <1>1
  <2>3. s.addr # t.addr /\ s.addr \in Nat /\ t.addr \in Nat
    BY <2>1, <2>2, <1>2, <1>4, <1>8
  <2>4. s.addr < t.addr \/ t.addr < s.addr
    BY <2>3, SMT
  <2> QED
    BY <2>1, <2>2, <2>4, <1>5, <1>7
<1>11. \A m \in M, a \in A \ {b} : Disjoint(m, a) /\ m # a
  <2> SUFFICES ASSUME NEW m \in M, NEW a \in A, a # b
               PROVE  Disjoint(m, a) /\ m # a
    OBVIOUS
  <2>1. PICK s, l \in S : Shape(m, s, l)
    BY <1>1
  <2>2. a \notin S
    BY DEF Sound
  <2>3. BlockEnd(a) <= s.addr \/ BlockEnd(l) <= a.addr
    BY <2>1, <2>2, <1>6
  <2>4. m.addr = s.addr /\ BlockEnd(m) = BlockEnd(l) /\ s.addr < BlockEnd(l) /\ s.addr \in Nat /\ BlockEnd(l) \in Nat
    BY <2>1, <1>2, <1>4, <1>5
  <2>5. a.addr \in Nat /\ BlockEnd(a) \in Nat /\ a.addr < BlockEnd(a)
    BY <1>2, SMT
  <2> QED
    BY <2>3, <2>4, <2>5, SMT DEF Disjoint
<1>12. \A x, y \in M \cup (A \ {b}) : x # y => Disjoint(x, y)
  <2>1. \A m \in M : m.addr \in Nat /\ BlockEnd(m) \in Nat
    BY <1>9 DEF BlockType, BlockEnd
  <2>2. \A m, n \in M : m # n => Disjoint(m, n)
    BY <2>1, <1>10, SMT DEF Disjoint
  <2>3. \A x, y \in A \ {b} : x # y => Disjoint(x, y)
    BY DEF Sound
  <2>4. \A x, y : Disjoint(x, y) <=> Disjoint(y, x)
    BY DEF Disjoint
  <2> QED
    BY <2>2, <2>3, <2>4, <1>11
<1>13. \A m, n \in M : BlockEnd(m) # n.addr
  <2>1. \A m \in M : m.addr \in Nat /\ m.size \in Nat /\ m.size > 0
    BY <1>9 DEF BlockType, Within
  <2> QED
    BY <2>1, <1>10, SMT DEF BlockEnd
<1>14. A \ {b} \subseteq BlockType /\ Within(A \ {b}) /\ M \cap (A \ {b}) = {}
  BY <1>11 DEF Sound, Within
<1> DEFINE B == A \ {b}
<1>15. /\ B \subseteq BlockType /\ Within(B) /\ M \cap B = {}
       /\ \A x, y \in M \cup B : x # y => Disjoint(x, y)
  BY <1>12, <1>14
<1> HIDE DEF B
<1>16. Sound(M, B)
  BY <1>9, <1>13, <1>15 DEF Sound
<1> QED
  BY <1>16 DEF M, B

\* The first-fit block that Allocate and ReAllocate take out of a sound heap.
LEMMA TakeSound ==
    ASSUME NEW F, NEW A, Sound(F, A), NEW f \in F, NEW size \in Nat \ {0},
           f.size >= AlignSize(size, Align)
    PROVE  LET need == AlignSize(size, Align)
               rest == f.size - need
           IN  Sound((F \ {f}) \cup (IF rest >= Align THEN {Block(f.addr + need, rest)} ELSE {}),
                     A \cup {Block(f.addr, IF rest >= Align THEN need ELSE f.size)})
<1> DEFINE need == AlignSize(size, Align)
           rest == f.size - need
           R == IF rest >= Align THEN {Block(f.addr + need, rest)} ELSE {}
           g == Block(f.addr, IF rest >= Align THEN need ELSE f.size)
<1>1. need \in Nat /\ need > 0
  BY RoundUpFacts, HeapAssumption
<1>2. f \in BlockType /\ f.addr \in Nat /\ f.size \in Nat /\ f.size > 0
  BY DEF Sound, Within, BlockType
<1>3. f.size >= need
  OBVIOUS
<1> HIDE DEF need
<1>4. g \in BlockType /\ g.size > 0 /\ f.addr <= g.addr /\ BlockEnd(g) <= BlockEnd(f)
  BY <1>1, <1>2, <1>3, SMT DEF Block, BlockType, BlockEnd
<1>5. R \in SUBSET BlockType
  BY <1>1, <1>2, HeapAssumption, SMT DEF Block, BlockType
<1>6. \A r \in R : r.size > 0 /\ BlockEnd(g) <= r.addr /\ BlockEnd(r) <= BlockEnd(f)
  BY <1>1, <1>2, HeapAssumption, SMT DEF Block, BlockType, BlockEnd
<1>7. \A r, s \in R : r = s
  OBVIOUS
<1>8. Sound((F \ {f}) \cup R, A \cup {g})
  <2> HIDE DEF R, g
  <2>1. \A r \in R : /\ r.size > 0
                     /\ \/ r.addr = f.addr /\ BlockEnd(r) = g.addr
                        \/ BlockEnd(g) <= r.addr /\ BlockEnd(r) <= BlockEnd(f)
    BY <1>6
  <2>2. \A r, s \in R : r # s => \/ r.addr = f.addr /\ BlockEnd(r) = g.addr
                                 \/ s.addr = f.addr /\ BlockEnd(s) = g.addr
    BY <1>7
  <2> QED
    BY <1>4, <1>5, <2>1, <2>2, SplitSound, Zenon
<1> QED
  BY <1>8 DEF need

-----------------------------------------------------------------------------
(* Taking a block out of a free one. *)

Addresses(b) == b.addr .. BlockEnd(b) - 1

\* The inductive invariant.
HeapInv == Sound(free, active)

\* The facts of a free block.
LEMMA FreeFacts ==
    ASSUME HeapInv, NEW f \in free
    PROVE  f \in BlockType /\ f.size > 0
BY DEF HeapInv, Sound, Within

\* Multiples of the heap's alignment.
Mult(n) == \E k \in Int : n = k * Align

LEMMA MultSum ==
    ASSUME NEW m \in Int, NEW n \in Int, Mult(m), Mult(n)
    PROVE  Mult(m + n) /\ Mult(m - n)
<1>1. PICK j \in Int : m = j * Align
  BY DEF Mult
<1>2. PICK k \in Int : n = k * Align
  BY DEF Mult
<1>3. Align \in Int
  BY HeapAssumption
<1>4. m + n = (j + k) * Align /\ m - n = (j - k) * Align
  BY <1>1, <1>2, <1>3, SMT
<1>5. j + k \in Int /\ j - k \in Int
  OBVIOUS
<1> QED
  BY <1>4, <1>5 DEF Mult

LEMMA MultSmall ==
    ASSUME NEW n \in Nat, Mult(n), n < Align
    PROVE  n = 0
<1>1. PICK k \in Int : n = k * Align
  BY DEF Mult
<1>2. Align \in Nat /\ Align > 0
  BY HeapAssumption
<1>3. ASSUME k >= 1 PROVE k * Align >= Align
  BY <1>2, <1>3, SMT
<1>4. ASSUME k <= 0 PROVE k * Align <= 0
  BY <1>2, <1>4, SMT
<1>5. k * Align \in Int
  BY <1>2
<1> QED
  BY <1>1, <1>2, <1>3, <1>4, <1>5

LEMMA MultAlign ==
    ASSUME NEW n \in Nat, NEW a \in Nat \ {0}, Mult(a)
    PROVE  Mult(AlignSize(n, a))
<1>1. PICK k \in Int : a = k * Align
  BY DEF Mult
<1> DEFINE q == (n + a - 1) \div a
<1>2. q \in Int /\ AlignSize(n, a) = q * a
  BY SMT DEF AlignSize
<1> HIDE DEF q
<1>3. Align \in Int
  BY HeapAssumption
<1>4. q * a = (q * k) * Align /\ q * k \in Int
  BY <1>1, <1>2, <1>3, SMT
<1> QED
  BY <1>2, <1>4 DEF Mult

Grid(S) == \A b \in S : Mult(b.addr) /\ Mult(b.size)

\* The block taken out of f leaves no address of f behind: each is in g or in R.
Splits(f, g, R) == \A x \in Addresses(f) : x \in Addresses(g) \/ \E r \in R : x \in Addresses(r)

\* The block Allocate takes from f, and what it leaves.
Taken(f, need) == Block(f.addr, IF f.size - need >= Align THEN need ELSE f.size)
Left(f, need) == IF f.size - need >= Align THEN {Block(f.addr + need, f.size - need)} ELSE {}

LEMMA TakenFacts ==
    ASSUME NEW f \in BlockType, f.size > 0, NEW need \in Nat, need > 0, f.size >= need
    PROVE  /\ Taken(f, need) \in BlockType /\ Taken(f, need).size > 0
           /\ f.addr <= Taken(f, need).addr /\ BlockEnd(Taken(f, need)) <= BlockEnd(f)
           /\ Splits(f, Taken(f, need), Left(f, need))
           /\ Mult(need) /\ Grid({f}) => Grid({Taken(f, need)}) /\ Grid(Left(f, need))
<1>1. f.addr \in Nat /\ f.size \in Nat /\ f.size - need \in Nat
  BY DEF BlockType
<1>2. CASE f.size - need >= Align
  <2> DEFINE g == Block(f.addr, need)
             r == Block(f.addr + need, f.size - need)
  <2>1. Taken(f, need) = g /\ Left(f, need) = {r}
    BY <1>2 DEF Taken, Left
  <2>2. /\ g \in BlockType /\ g.addr = f.addr /\ g.size = need
        /\ r.addr = f.addr + need /\ r.size = f.size - need
    BY <1>1 DEF Block, BlockType
  <2> HIDE DEF g, r
  <2>3. \A x \in Addresses(f) : x \in Addresses(g) \/ x \in Addresses(r)
    BY <1>1, <2>2 DEF Addresses, BlockEnd
  <2>4. Mult(need) /\ Mult(f.addr) /\ Mult(f.size) => Mult(r.addr) /\ Mult(r.size)
    <3>1. need \in Int /\ f.addr \in Int /\ f.size \in Int
      BY <1>1
    <3> SUFFICES ASSUME Mult(need), Mult(f.addr), Mult(f.size)
                 PROVE  Mult(f.addr + need) /\ Mult(f.size - need)
      BY <2>2
    <3> QED
      BY <3>1, MultSum, Zenon
  <2>5. BlockEnd(g) <= BlockEnd(f)
    BY <1>1, <2>2 DEF BlockEnd
  <2> QED
    BY <1>1, <2>1, <2>2, <2>3, <2>4, <2>5 DEF Splits, Grid
<1>3. CASE ~(f.size - need >= Align)
  <2>1. Taken(f, need) = Block(f.addr, f.size) /\ Left(f, need) = {}
    BY <1>3 DEF Taken, Left
  <2>2. Block(f.addr, f.size) = f
    BY DEF Block, BlockType
  <2>3. BlockEnd(f) \in Nat
    BY <1>1 DEF BlockEnd
  <2> QED
    BY <1>1, <2>1, <2>2, <2>3 DEF Splits, Grid
<1> QED
  BY <1>2, <1>3

\* The block AllocateAligned takes from f at address c, and what it leaves.
TakenAt(f, c, need) == IF c - f.addr > 0 THEN Block(c, need) ELSE Taken(f, need)
Front(f, c) == IF c - f.addr > 0 THEN {Block(f.addr, c - f.addr)} ELSE {}
Back(f, c, need) ==
    LET rest == f.size - (c - f.addr + need)
    IN  IF rest >= Align THEN {Block(c + need, rest)} ELSE {}

LEMMA TakenAtFacts ==
    ASSUME NEW f \in BlockType, f.size > 0, NEW need \in Nat, need > 0, NEW c \in Nat, c >= f.addr,
           f.size >= c - f.addr + need
    PROVE  /\ TakenAt(f, c, need) \in BlockType /\ TakenAt(f, c, need).size > 0
           /\ f.addr <= TakenAt(f, c, need).addr /\ BlockEnd(TakenAt(f, c, need)) <= BlockEnd(f)
           /\ Mult(need) /\ Mult(c) /\ Grid({f}) =>
                /\ Splits(f, TakenAt(f, c, need), Front(f, c) \cup Back(f, c, need))
                /\ Grid({TakenAt(f, c, need)}) /\ Grid(Front(f, c) \cup Back(f, c, need))
<1> DEFINE pad == c - f.addr
           rest == f.size - (pad + need)
<1>1. f.addr \in Nat /\ f.size \in Nat /\ pad \in Nat /\ rest \in Nat /\ need \in Int /\ c \in Int
  BY DEF BlockType
<1>2. CASE pad > 0
  <2> DEFINE g == Block(c, need)
             p == Block(f.addr, pad)
             r == Block(c + need, rest)
             R == Front(f, c) \cup Back(f, c, need)
  <2>1. TakenAt(f, c, need) = g /\ R = {p} \cup (IF rest >= Align THEN {r} ELSE {})
    BY <1>2 DEF TakenAt, Front, Back
  <2>2. /\ g \in BlockType /\ g.addr = c /\ g.size = need /\ p.addr = f.addr /\ p.size = pad
        /\ r.addr = c + need /\ r.size = rest
    BY <1>1 DEF Block, BlockType
  <2> HIDE DEF g, p, r, R
  <2>3. f.addr <= g.addr /\ BlockEnd(g) <= BlockEnd(f)
    BY <1>1, <2>2 DEF BlockEnd
  <2>4. ASSUME Mult(need), Mult(c), Grid({f})
        PROVE  Splits(f, g, R) /\ Grid({g}) /\ Grid(R)
    <3>1. Mult(f.addr) /\ Mult(f.size)
      BY <2>4 DEF Grid
    <3>2. Mult(pad)
      <4>1. f.addr \in Int
        BY <1>1
      <4> QED
        BY <1>1, <2>4, <3>1, <4>1, MultSum, Zenon
    <3>3. Mult(c + need)
      BY <1>1, <2>4, MultSum
    <3>4. Mult(pad + need) /\ pad + need \in Int
      <4>1. pad \in Int
        BY <1>1
      <4> HIDE DEF pad
      <4> QED
        BY <1>1, <2>4, <3>2, <4>1, MultSum
    <3>5. Mult(rest)
      <4>1. f.size \in Int
        BY <1>1
      <4> QED
        BY <3>1, <3>4, <4>1, MultSum, Zenon
    <3>6. rest >= Align \/ rest = 0
      <4>1. Align \in Nat
        BY HeapAssumption
      <4> HIDE DEF rest
      <4> QED
        BY <1>1, <3>5, <4>1, MultSmall
    <3>7. \A x \in Addresses(f) : x \in Addresses(g) \/ x \in Addresses(p) \/ (rest > 0 /\ x \in Addresses(r))
      BY <1>1, <2>2 DEF Addresses, BlockEnd
    <3>8. rest > 0 => rest >= Align
      BY <1>1, <3>6
    <3>9. p \in R /\ (rest > 0 => r \in R) /\ R \subseteq {p, r}
      BY <2>1, <3>8
    <3> HIDE DEF pad, rest
    <3>10. Splits(f, g, R)
      BY <3>7, <3>9 DEF Splits
    <3> QED
      BY <2>2, <2>4, <3>1, <3>2, <3>3, <3>5, <3>9, <3>10 DEF Grid
  <2> QED
    BY <2>1, <2>2, <2>3, <2>4 DEF R
<1>3. CASE ~(pad > 0)
  <2>1. c = f.addr /\ pad = 0 /\ rest = f.size - need
    BY <1>1, <1>3
  <2>2. TakenAt(f, c, need) = Taken(f, need) /\ Front(f, c) = {} /\ Back(f, c, need) = Left(f, need)
    BY <1>3, <2>1 DEF TakenAt, Front, Back, Left
  <2>3. f.size >= need
    BY <1>1, <2>1
  <2> QED
    BY <2>2, <2>3, TakenFacts
<1> QED
  BY <1>2, <1>3

LEMMA AlignedTakes ==
    ASSUME HeapInv, NEW size \in 1 .. MaxRequest, NEW alignment \in Alignments,
           AllocateAligned(size, alignment)
    PROVE  \E f \in free :
             LET a == IF alignment > Align THEN alignment ELSE Align
                 need == AlignSize(size, a)
                 c == AlignSize(f.addr, a)
             IN  /\ need \in Nat /\ need > 0 /\ c \in Nat /\ c >= f.addr
                 /\ f.size >= c - f.addr + need
                 /\ free' = (free \ {f}) \cup (Front(f, c) \cup Back(f, c, need))
                 /\ active' = active \cup {TakenAt(f, c, need)}
                 /\ allocated' = allocated + TakenAt(f, c, need).size
<1> DEFINE a == IF alignment > Align THEN alignment ELSE Align
           need == AlignSize(size, a)
           c(f) == AlignSize(f.addr, a)
<1>1. size \in Nat \ {0} /\ a \in Nat \ {0}
  BY HeapAssumption
<1> HIDE DEF a
<1>2. need \in Nat /\ need > 0
  BY <1>1, RoundUpFacts
<1>3. \A f \in free : f.addr \in Nat /\ f.size \in Nat
  BY DEF HeapInv, Sound, BlockType
<1>4. \A f \in free : c(f) \in Nat /\ c(f) >= f.addr
  BY <1>1, <1>3, RoundUpFacts
<1>5. PICK f \in free :
        LET rest == f.size - (c(f) - f.addr + need)
            suffix == IF rest >= Align THEN {Block(c(f) + need, rest)} ELSE {}
        IN  /\ f.size >= c(f) - f.addr + need
            /\ IF c(f) - f.addr > 0
               THEN /\ free' = (free \ {f}) \cup {Block(f.addr, c(f) - f.addr)} \cup suffix
                    /\ Grant(Block(c(f), need))
               ELSE /\ free' = (free \ {f}) \cup suffix
                    /\ Grant(Block(f.addr, IF rest >= Align THEN need ELSE f.size))
  BY DEF AllocateAligned, IsFirst, a
<1> HIDE DEF need, c
<1>6. CASE c(f) - f.addr > 0
  <2>1. free' = (free \ {f}) \cup (Front(f, c(f)) \cup Back(f, c(f), need))
    BY <1>5, <1>6 DEF Front, Back
  <2>2. active' = active \cup {TakenAt(f, c(f), need)} /\ allocated' = allocated + TakenAt(f, c(f), need).size
    BY <1>5, <1>6 DEF TakenAt, Grant
  <2> QED
    BY <1>2, <1>4, <1>5, <2>1, <2>2 DEF need, c, a
<1>7. CASE ~(c(f) - f.addr > 0)
  <2>1. c(f) - f.addr = 0 /\ f.size - (c(f) - f.addr + need) = f.size - need
    BY <1>2, <1>3, <1>4, <1>7
  <2>2. free' = (free \ {f}) \cup (Front(f, c(f)) \cup Back(f, c(f), need))
    BY <1>5, <1>7 DEF Front, Back
  <2>3. active' = active \cup {TakenAt(f, c(f), need)} /\ allocated' = allocated + TakenAt(f, c(f), need).size
    BY <1>5, <1>7, <2>1 DEF TakenAt, Taken, Grant
  <2> QED
    BY <1>2, <1>4, <1>5, <2>2, <2>3 DEF need, c, a
<1> QED
  BY <1>6, <1>7

\* What AllocateAligned leaves of f lies in front of the block it takes or behind it.
LEMMA FrontAndBack ==
    ASSUME NEW f \in BlockType, f.size > 0, NEW need \in Nat, need > 0, NEW c \in Nat, c >= f.addr,
           f.size >= c - f.addr + need
    PROVE  LET g == TakenAt(f, c, need) IN
           /\ \A r \in Front(f, c) : r \in BlockType /\ r.size > 0 /\ r.addr = f.addr /\ BlockEnd(r) = g.addr
           /\ \A r \in Back(f, c, need) :
                 r \in BlockType /\ r.size > 0 /\ BlockEnd(g) <= r.addr /\ BlockEnd(r) <= BlockEnd(f)
           /\ \A r, s \in Back(f, c, need) : r = s
<1> DEFINE g == TakenAt(f, c, need)
           pad == c - f.addr
           rest == f.size - (pad + need)
<1>1. f.addr \in Nat /\ f.size \in Nat /\ pad \in Nat /\ rest \in Nat /\ c = f.addr + pad
  BY DEF BlockType
<1>2. Align \in Nat /\ Align > 0
  BY HeapAssumption
<1>3. ASSUME NEW r \in Front(f, c)
      PROVE  r \in BlockType /\ r.size > 0 /\ r.addr = f.addr /\ BlockEnd(r) = g.addr
  <2>1. pad > 0 /\ r = Block(f.addr, pad)
    BY <1>3 DEF Front
  <2>2. r \in BlockType /\ r.addr = f.addr /\ r.size = pad
    BY <1>1, <2>1 DEF Block, BlockType
  <2>3. g.addr = c
    BY <2>1 DEF TakenAt, Block
  <2> HIDE DEF pad, g
  <2> QED
    BY <1>1, <2>1, <2>2, <2>3 DEF BlockEnd
<1>4. ASSUME NEW r \in Back(f, c, need)
      PROVE  r \in BlockType /\ r.size > 0 /\ BlockEnd(g) <= r.addr /\ BlockEnd(r) <= BlockEnd(f)
  <2>1. rest >= Align /\ r = Block(c + need, rest)
    BY <1>4 DEF Back
  <2>2. r \in BlockType /\ r.addr = c + need /\ r.size = rest
    BY <1>1, <2>1 DEF Block, BlockType
  <2>3. g.addr = c /\ g.size = need
    <3>1. CASE pad > 0
      BY <3>1 DEF TakenAt, Block
    <3>2. CASE ~(pad > 0)
      <4>1. c = f.addr /\ f.size - need = rest
        BY <1>1, <3>2
      <4>2. f.size - need >= Align
        BY <2>1, <4>1
      <4> QED
        BY <3>2, <4>1, <4>2 DEF TakenAt, Taken, Block
    <3> QED
      BY <3>1, <3>2
  <2> HIDE DEF g
  <2> QED
    BY <1>1, <1>2, <2>1, <2>2, <2>3 DEF BlockEnd
<1>5. \A r, s \in Back(f, c, need) : r = s
  BY DEF Back
<1> QED
  BY <1>3, <1>4, <1>5

\* The block AllocateAligned takes: a prefix and a suffix may remain.
LEMMA TakeAlignedSound ==
    ASSUME HeapInv, NEW size \in 1 .. MaxRequest, NEW alignment \in Alignments,
           AllocateAligned(size, alignment)
    PROVE  Sound(free', active')
<1> DEFINE a == IF alignment > Align THEN alignment ELSE Align
           need == AlignSize(size, a)
           c(f) == AlignSize(f.addr, a)
<1>1. PICK f \in free :
        /\ need \in Nat /\ need > 0 /\ c(f) \in Nat /\ c(f) >= f.addr
        /\ f.size >= c(f) - f.addr + need
        /\ free' = (free \ {f}) \cup (Front(f, c(f)) \cup Back(f, c(f), need))
        /\ active' = active \cup {TakenAt(f, c(f), need)}
  BY AlignedTakes
<1>2. Sound(free, active) /\ f \in BlockType /\ f.size > 0
  BY FreeFacts DEF HeapInv
<1> HIDE DEF need, c
<1> DEFINE g == TakenAt(f, c(f), need)
           P == Front(f, c(f))
           S == Back(f, c(f), need)
<1>3. g \in BlockType /\ g.size > 0 /\ f.addr <= g.addr /\ BlockEnd(g) <= BlockEnd(f)
  BY <1>1, <1>2, TakenAtFacts, Zenon
<1>4. /\ \A r \in P : r \in BlockType /\ r.size > 0 /\ r.addr = f.addr /\ BlockEnd(r) = g.addr
      /\ \A r \in S : r \in BlockType /\ r.size > 0 /\ BlockEnd(g) <= r.addr /\ BlockEnd(r) <= BlockEnd(f)
      /\ \A r, s \in S : r = s
  BY <1>1, <1>2, FrontAndBack
<1>5. free' = (free \ {f}) \cup (P \cup S) /\ active' = active \cup {g}
  BY <1>1
<1> HIDE DEF g, P, S
<1>6. P \cup S \in SUBSET BlockType
  BY <1>4
<1>7. \A r \in P \cup S : /\ r.size > 0
                         /\ \/ r.addr = f.addr /\ BlockEnd(r) = g.addr
                            \/ BlockEnd(g) <= r.addr /\ BlockEnd(r) <= BlockEnd(f)
  BY <1>4
<1>8. \A r, s \in P \cup S : r # s => \/ r.addr = f.addr /\ BlockEnd(r) = g.addr
                                      \/ s.addr = f.addr /\ BlockEnd(s) = g.addr
  BY <1>4
<1>9. Sound((free \ {f}) \cup (P \cup S), active \cup {g})
  BY <1>2, <1>3, <1>6, <1>7, <1>8, SplitSound, Zenon
<1> QED
  BY <1>5, <1>9

-----------------------------------------------------------------------------
(* The invariant. *)

\* The heap starts sound.
LEMMA SoundInit == HeapInit => HeapInv
BY HeapAssumption, SMT DEF HeapInit, HeapInv, Sound, Within, BlockType, Block, BlockEnd, Disjoint

\* Every step keeps it sound.
LEMMA SoundStep == HeapInv /\ [HeapNext]_heapVars => HeapInv'
<1> SUFFICES ASSUME Sound(free, active), [HeapNext]_heapVars PROVE Sound(free', active')
  BY DEF HeapInv
<1>1. ASSUME NEW size \in 1 .. MaxRequest, Allocate(size) PROVE Sound(free', active')
  <2>1. size \in Nat \ {0}
    BY HeapAssumption
  <2> QED
    BY <1>1, <2>1, TakeSound DEF Allocate, Grant, IsFirst
<1>2. ASSUME NEW size \in 1 .. MaxRequest, NEW a \in Alignments, AllocateAligned(size, a)
      PROVE  Sound(free', active')
  BY <1>2, TakeAlignedSound DEF HeapInv
<1>3. ASSUME NEW b \in active, Free(b) PROVE Sound(free', active')
  BY <1>3, MergeSound DEF Free
<1>4. ASSUME NEW b \in active, NEW size \in 1 .. MaxRequest, ReAllocate(b, size)
      PROVE  Sound(free', active')
  <2> DEFINE need == AlignSize(size, Align)
             rest(f) == f.size - need
             R(f) == IF rest(f) >= Align THEN {Block(f.addr + need, rest(f))} ELSE {}
             new(f) == Block(f.addr, IF rest(f) >= Align THEN need ELSE f.size)
  <2>1. PICK f \in free : /\ f.size >= need
                          /\ active' = (active \cup {new(f)}) \ {b}
                          /\ free' = Coalesce((free \ {f}) \cup {b} \cup R(f))
    BY <1>4, Zenon DEF ReAllocate, IsFirst
  <2>2. size \in Nat \ {0}
    BY HeapAssumption
  <2>3. Sound((free \ {f}) \cup R(f), active \cup {new(f)})
    BY <2>1, <2>2, TakeSound
  <2> HIDE DEF R, new
  <2>4. Sound(Coalesce(((free \ {f}) \cup R(f)) \cup {b}), (active \cup {new(f)}) \ {b})
    BY <2>3, MergeSound
  <2>5. ((free \ {f}) \cup R(f)) \cup {b} = (free \ {f}) \cup {b} \cup R(f)
    OBVIOUS
  <2> QED
    BY <2>1, <2>4, <2>5
<1>5. CASE UNCHANGED heapVars
  BY <1>5 DEF heapVars
<1> QED
  BY <1>1, <1>2, <1>3, <1>4, <1>5 DEF HeapNext

\* GuestHeap hands out every address at most once, and only addresses of its
\* range, whatever sequence of Allocate, AllocateAligned, Free and ReAllocate
\* is run on a heap of any base, size and alignment.
THEOREM HeapNoOverlap == HeapSpec => []BlocksDisjoint
<1>1. HeapInv => BlocksDisjoint
  BY DEF HeapInv, Sound, Within, BlocksDisjoint, Blocks
<1> QED
  BY <1>1, SoundInit, SoundStep, PTL DEF HeapSpec

\* No two free blocks are adjacent after any operation of GuestHeap.
THEOREM HeapCoalesced == HeapSpec => []Coalesced
<1>1. HeapInv => Coalesced
  BY DEF HeapInv, Sound, Coalesced
<1> QED
  BY <1>1, SoundInit, SoundStep, PTL DEF HeapSpec

-----------------------------------------------------------------------------
(* allocated_bytes_ counts the allocated addresses. *)

\* The addresses of blocks within the heap: as many as the blocks have, and finite.
LEMMA CoveredFacts ==
    ASSUME NEW S \in SUBSET BlockType, Within(S)
    PROVE  IsFiniteSet(Covered(S)) /\ Covered(S) \subseteq Base .. Base + Total - 1
<1>1. ASSUME NEW b \in S PROVE Addresses(b) \subseteq Base .. Base + Total - 1
  <2>1. b.addr \in Nat /\ b.size \in Nat /\ Base <= b.addr /\ b.addr + b.size <= Base + Total
    BY DEF Within, BlockType, BlockEnd
  <2> QED
    BY <2>1, HeapAssumption DEF Addresses, BlockEnd
<1>2. Covered(S) \subseteq Base .. Base + Total - 1
  BY <1>1 DEF Covered, Addresses
<1>3. IsFiniteSet(Base .. Base + Total - 1)
  BY FS_Interval, HeapAssumption
<1> QED
  BY <1>2, <1>3, FS_Subset, Zenon

\* One more block, apart from the others, covers its size in addresses more.
LEMMA CoveredGrows ==
    ASSUME NEW S \in SUBSET BlockType, Within(S), NEW g \in BlockType, Within({g}),
           \A b \in S : Disjoint(b, g)
    PROVE  Cardinality(Covered(S \cup {g})) = Cardinality(Covered(S)) + g.size
<1> DEFINE C == Covered(S)
           D == Addresses(g)
<1>1. IsFiniteSet(C)
  BY CoveredFacts
<1>2. g.addr \in Nat /\ g.size \in Nat /\ g.size > 0
  BY DEF Within, BlockType
<1>3. IsFiniteSet(D) /\ Cardinality(D) = g.size
  <2> DEFINE e == g.addr + g.size - 1
  <2>1. g.addr \in Int /\ e \in Int /\ ~(g.addr > e) /\ e - g.addr + 1 = g.size
    BY <1>2
  <2>2. D = g.addr .. e
    BY <1>2 DEF Addresses, BlockEnd
  <2> HIDE DEF e, D
  <2>3. /\ IsFiniteSet(g.addr .. e)
        /\ Cardinality(g.addr .. e) = IF g.addr > e THEN 0 ELSE e - g.addr + 1
    BY <2>1, FS_Interval, Zenon
  <2> QED
    BY <2>1, <2>2, <2>3
<1>4. C \cap D = {}
  <2> SUFFICES ASSUME NEW x \in C, x \in D PROVE FALSE
    OBVIOUS
  <2>1. PICK b \in S : x \in b.addr .. BlockEnd(b) - 1
    BY DEF Covered
  <2>2. b.addr \in Nat /\ b.size \in Nat
    BY DEF BlockType
  <2> QED
    BY <1>2, <2>1, <2>2 DEF Addresses, Disjoint, BlockEnd
<1>5. Covered(S \cup {g}) = C \cup D
  BY DEF Covered, Addresses
<1> HIDE DEF C, D
<1>6. Cardinality(C) \in Nat /\ Cardinality({}) = 0
  BY <1>1, FS_CardinalityType, FS_EmptySet
<1>7. Cardinality(C \cup D) = Cardinality(C) + Cardinality(D) - Cardinality(C \cap D)
  BY <1>1, <1>3, FS_Union
<1>8. Cardinality(C \cup D) = Cardinality(C) + g.size
  <2>1. Cardinality(C \cap D) = 0
    BY <1>4, <1>6
  <2> QED
    BY <1>2, <1>3, <1>6, <1>7, <2>1
<1> QED
  BY <1>5, <1>8 DEF C

\* The count of allocated bytes, n, is right for the allocated blocks A.
Counts(A, n) == n = Cardinality(Covered(A))

LEMMA GrantCounts ==
    ASSUME NEW F, NEW A, NEW g, NEW n, NEW F2, NEW A2, A2 = A \cup {g}, Sound(F, A), Sound(F2, A2), g \notin A, Counts(A, n)
    PROVE  Counts(A2, n + g.size)
<1>1. /\ A \in SUBSET BlockType /\ Within(A) /\ g \in BlockType /\ Within({g})
      /\ \A b \in A : Disjoint(b, g)
  BY DEF Sound, Within
<1> QED
  BY <1>1, CoveredGrows DEF Counts

LEMMA ReleaseCounts ==
    ASSUME NEW F, NEW A, NEW b \in A, NEW n, Sound(F, A), Counts(A, n)
    PROVE  Counts(A \ {b}, n - b.size)
<1> DEFINE B == A \ {b}
<1>1. /\ B \in SUBSET BlockType /\ Within(B) /\ b \in BlockType /\ Within({b})
      /\ \A c \in B : Disjoint(c, b)
  BY DEF Sound, Within
<1>2. B \cup {b} = A
  OBVIOUS
<1> HIDE DEF B
<1>3. Cardinality(Covered(A)) = Cardinality(Covered(B)) + b.size
  BY <1>1, <1>2, CoveredGrows
<1>4. Cardinality(Covered(B)) \in Nat /\ b.size \in Nat
  BY <1>1, CoveredFacts, FS_CardinalityType DEF BlockType
<1> QED
  BY <1>3, <1>4 DEF Counts, B

-----------------------------------------------------------------------------
(* No address leaves the heap. *)

\* Every address of the heap is in a block of S.
Full(S) == \A x \in Base .. Base + Total - 1 : \E b \in S : x \in Addresses(b)

\* What Coalesce makes of the blocks, covers what they covered.
LEMMA CoalesceCovers ==
    ASSUME NEW F, NEW A, Sound(F, A), NEW b \in A, NEW x \in F \cup {b}
    PROVE  \E m \in Coalesce(F \cup {b}) : m.addr <= x.addr /\ BlockEnd(x) <= BlockEnd(m)
<1> DEFINE S == F \cup {b}
           firsts == {y \in S : \A c \in S : BlockEnd(c) # y.addr}
           lasts == {y \in S : \A c \in S : BlockEnd(y) # c.addr}
           lastOf(y) == CHOOSE z \in lasts : IsFirst(z, {c \in lasts : c.addr >= y.addr})
           M == Coalesce(S)
           merged(y) == Block(y.addr, BlockEnd(lastOf(y)) - y.addr)
           Shape(m, s, l) ==
             /\ m = Block(s.addr, BlockEnd(l) - s.addr)
             /\ \A c \in S : BlockEnd(c) # s.addr
             /\ \A c \in S : BlockEnd(l) # c.addr
             /\ \/ s = l
                \/ s = b /\ l \in F /\ BlockEnd(b) = l.addr
                \/ s \in F /\ l = b /\ BlockEnd(s) = b.addr
                \/ s \in F /\ l \in F /\ BlockEnd(s) = b.addr /\ BlockEnd(b) = l.addr
<1>1. \A y \in firsts : merged(y) \in M
  BY Zenon DEF Coalesce
<1>10. \A m \in M : \E s, l \in S : Shape(m, s, l)
  BY CoalesceShape, SMTT(30)
<1> HIDE DEF M
<1>2. \A y \in S : /\ y \in BlockType /\ y.addr \in Nat /\ y.size \in Nat /\ y.size > 0
                   /\ BlockEnd(y) \in Nat /\ y.addr < BlockEnd(y)
  BY DEF Sound, Within, BlockType, BlockEnd
<1>3. \A y, z \in S : y.addr = z.addr => y = z
  <2>1. \A y, z \in S : y # z => BlockEnd(y) <= z.addr \/ BlockEnd(z) <= y.addr
    BY DEF Sound, Disjoint
  <2> QED
    BY <1>2, <2>1
<1>4. ASSUME NEW y \in firsts
      PROVE  \E l \in S : Shape(merged(y), y, l) /\ merged(y).addr = y.addr /\ BlockEnd(merged(y)) = BlockEnd(l)
  <2>1. PICK s, l \in S : Shape(merged(y), s, l)
    <3> HIDE DEF merged, Shape
    <3> QED
      BY <1>10, <1>1
  <2>2. merged(y).addr = y.addr /\ merged(y) = Block(s.addr, BlockEnd(l) - s.addr)
    BY <2>1 DEF Block
  <2>3. merged(y).addr = s.addr /\ merged(y).size = BlockEnd(l) - s.addr
    BY <2>2 DEF Block
  <2>4. s = y
    BY <1>3, <2>2, <2>3
  <2>5. BlockEnd(merged(y)) = BlockEnd(l)
    <3> HIDE DEF merged
    <3>1. merged(y).addr \in Nat /\ BlockEnd(l) \in Nat
      BY <1>2, <2>3
    <3>2. BlockEnd(merged(y)) = merged(y).addr + merged(y).size
      BY DEF BlockEnd
    <3> QED
      BY <2>3, <3>1, <3>2
  <2> HIDE DEF Shape, merged
  <2> QED
    BY <2>1, <2>2, <2>4, <2>5
<1>5. \A y, z \in F : BlockEnd(y) # z.addr
  BY DEF Sound
<1>6. \A y, z, v \in S : (BlockEnd(y) = z.addr /\ BlockEnd(v) = z.addr) => y = v
  <2>1. \A y, z \in S : y # z => BlockEnd(y) <= z.addr \/ BlockEnd(z) <= y.addr
    BY DEF Sound, Disjoint
  <2> QED
    BY <1>2, <2>1
<1> HIDE DEF merged, M, lastOf, lasts
\* A first block s, and x at most two blocks behind it.
<1>7. ASSUME NEW s \in firsts, \/ x = s
                               \/ BlockEnd(s) = x.addr
                               \/ \E c \in S : BlockEnd(s) = c.addr /\ BlockEnd(c) = x.addr
      PROVE  \E m \in M : m.addr <= x.addr /\ BlockEnd(x) <= BlockEnd(m)
  <2>1. PICK l \in S : Shape(merged(s), s, l) /\ merged(s).addr = s.addr /\ BlockEnd(merged(s)) = BlockEnd(l)
    BY <1>4
  <2>2. s.addr <= x.addr
    BY <1>2, <1>7
  <2>3. BlockEnd(x) <= BlockEnd(l)
    <3>1. CASE x = s
      <4>1. l = s \/ BlockEnd(s) = l.addr \/ (BlockEnd(s) = b.addr /\ BlockEnd(b) = l.addr)
        BY <2>1
      <4> QED
        BY <1>2, <3>1, <4>1
    <3>2. CASE BlockEnd(s) = x.addr
      <4>1. l # s /\ (BlockEnd(s) = l.addr \/ (BlockEnd(s) = b.addr /\ BlockEnd(b) = l.addr))
        BY <2>1, <3>2
      <4>2. l = x \/ (b = x /\ BlockEnd(b) = l.addr)
        BY <1>3, <3>2, <4>1
      <4> QED
        BY <1>2, <4>2
    <3>3. ASSUME NEW c \in S, BlockEnd(s) = c.addr, BlockEnd(c) = x.addr
          PROVE  BlockEnd(x) <= BlockEnd(l)
      <4>1. l # s /\ (BlockEnd(s) = l.addr \/ (BlockEnd(s) = b.addr /\ BlockEnd(b) = l.addr))
        BY <2>1, <3>3
      <4>2. l # c
        BY <2>1, <3>3
      <4>3. b = c /\ BlockEnd(b) = l.addr
        BY <1>3, <3>3, <4>1, <4>2
      <4>4. l = x
        BY <1>3, <3>3, <4>3, Zenon
      <4> QED
        BY <1>2, <4>4
    <3> QED
      BY <1>7, <3>1, <3>2, <3>3
  <2>4. merged(s) \in M
    BY <1>1
  <2> QED
    BY <2>1, <2>2, <2>3, <2>4
<1>8. CASE x \in firsts
  BY <1>7, <1>8 DEF M
<1>9. CASE x \notin firsts
  <2>1. PICK c \in S : BlockEnd(c) = x.addr
    BY <1>9
  <2>2. CASE c \in firsts
    BY <1>7, <2>1, <2>2 DEF M
  <2>3. CASE c \notin firsts
    <3>1. PICK d \in S : BlockEnd(d) = c.addr
      BY <2>3
    <3>2. c = b /\ d \in F
      <4>1. d # b \/ c # b
        BY <1>2, <3>1
      <4>2. d.addr < c.addr /\ c.addr < x.addr
        BY <1>2, <2>1, <3>1
      <4>3. d \notin F \/ c \notin F
        BY <1>5, <3>1
      <4>4. c \notin F \/ x \notin F
        BY <1>5, <2>1
      <4>5. d # c /\ c # x /\ d # x
        BY <1>2, <4>2
      <4> QED
        BY <4>3, <4>4, <4>5
    <3>3. d \in firsts
      <4> SUFFICES ASSUME NEW e \in S, BlockEnd(e) = d.addr PROVE FALSE
        OBVIOUS
      <4>1. e = b
        BY <1>5, <3>2
      <4>2. e.addr < d.addr /\ d.addr < c.addr
        BY <1>2, <3>1
      <4> QED
        BY <1>2, <3>2, <4>1, <4>2
    <3> QED
      BY <1>7, <2>1, <3>1, <3>3 DEF M
  <2> QED
    BY <2>2, <2>3
<1> QED
  BY <1>8, <1>9, Zenon

\* The heap of free blocks F and allocated blocks A covers its range, on the grid.
Whole(F, A) == Full(F \cup A) /\ Grid(F \cup A)

LEMMA SplitWhole ==
    ASSUME NEW F, NEW A, Whole(F, A), NEW f \in F, NEW g, NEW R,
           Splits(f, g, R), Grid({g}), Grid(R)
    PROVE  Whole((F \ {f}) \cup R, A \cup {g})
<1>1. Full(((F \ {f}) \cup R) \cup (A \cup {g}))
  BY DEF Whole, Full, Splits
<1>2. Grid(((F \ {f}) \cup R) \cup (A \cup {g}))
  BY DEF Whole, Grid
<1> QED
  BY <1>1, <1>2 DEF Whole

LEMMA MergeWhole ==
    ASSUME NEW F, NEW A, Sound(F, A), Whole(F, A), NEW b \in A
    PROVE  Whole(Coalesce(F \cup {b}), A \ {b})
<1> DEFINE S == F \cup {b}
           M == Coalesce(S)
<1>1. Sound(M, A \ {b})
  BY MergeSound
<1>2. \A x \in F \cup A : x.addr \in Nat /\ x.size \in Nat /\ BlockEnd(x) \in Nat /\ BlockEnd(x) = x.addr + x.size
  BY DEF Sound, BlockType, BlockEnd
<1>3. \A m \in M : m.addr \in Nat /\ BlockEnd(m) \in Nat
  <2> HIDE DEF M
  <2>1. M \subseteq BlockType
    BY <1>1 DEF Sound
  <2> QED
    BY <2>1 DEF BlockType, BlockEnd
<1>4. \A x \in S : \E m \in M : m.addr <= x.addr /\ BlockEnd(x) <= BlockEnd(m)
  BY CoalesceCovers
<1>5. \A m \in M : \E s, l \in S : m = Block(s.addr, BlockEnd(l) - s.addr)
  BY CoalesceShape
<1> HIDE DEF M
<1>6. Full(M \cup (A \ {b}))
  <2> SUFFICES ASSUME NEW x \in Base .. Base + Total - 1
               PROVE  \E m \in M \cup (A \ {b}) : x \in Addresses(m)
    BY DEF Full
  <2>1. PICK y \in F \cup A : x \in Addresses(y)
    BY DEF Whole, Full
  <2>2. CASE y \in S
    <3>1. PICK m \in M : m.addr <= y.addr /\ BlockEnd(y) <= BlockEnd(m)
      BY <1>4, <2>2
    <3>2. x \in Addresses(m)
      <4>1. y.addr \in Nat /\ BlockEnd(y) \in Nat /\ m.addr \in Nat /\ BlockEnd(m) \in Nat
        BY <1>2, <1>3
      <4> QED
        BY <2>1, <3>1, <4>1 DEF Addresses
    <3> QED
      BY <3>2
  <2>3. CASE y \notin S
    BY <2>1, <2>3
  <2> QED
    BY <2>2, <2>3
<1>7. Grid(M)
  <2> SUFFICES ASSUME NEW m \in M PROVE Mult(m.addr) /\ Mult(m.size)
    BY DEF Grid
  <2>1. PICK s, l \in S : m = Block(s.addr, BlockEnd(l) - s.addr)
    BY <1>5
  <2>2. m.addr = s.addr /\ m.size = (l.addr + l.size) - s.addr
    BY <2>1 DEF Block, BlockEnd
  <2>3. /\ s.addr \in Int /\ l.addr \in Int /\ l.size \in Int
        /\ Mult(s.addr) /\ Mult(l.addr) /\ Mult(l.size)
    BY <1>2 DEF Whole, Grid
  <2>4. Mult(l.addr + l.size)
    BY <2>3, MultSum, Zenon
  <2>6. l.addr + l.size \in Int
    BY <2>3
  <2>5. Mult((l.addr + l.size) - s.addr)
    BY <2>3, <2>4, <2>6, MultSum, Zenon
  <2> QED
    BY <2>2, <2>3, <2>5
<1>8. Grid(M \cup (A \ {b}))
  BY <1>7 DEF Whole, Grid
<1> QED
  BY <1>6, <1>8 DEF Whole, M

\* A block inside a free one was not allocated.
LEMMA NotTaken ==
    ASSUME NEW F, NEW A, Sound(F, A), NEW f \in F, NEW g \in BlockType, g.size > 0,
           f.addr <= g.addr, BlockEnd(g) <= BlockEnd(f)
    PROVE  g \notin A
<1>1. g.addr \in Nat /\ g.size \in Nat /\ f.addr \in Nat /\ f.size \in Nat
  BY DEF Sound, BlockType
<1>2. ASSUME g \in A PROVE FALSE
  <2>1. BlockEnd(g) <= f.addr \/ BlockEnd(f) <= g.addr
    BY <1>2 DEF Sound, Disjoint
  <2> QED
    BY <1>1, <2>1 DEF BlockEnd
<1> QED
  BY <1>2

\* What the operations that take a block do to the heap.
LEMMA AllocateTakes ==
    ASSUME HeapInv, NEW size \in 1 .. MaxRequest, Allocate(size)
    PROVE  \E f \in free : LET need == AlignSize(size, Align) IN
             /\ need \in Nat /\ need > 0 /\ f.size >= need
             /\ free' = (free \ {f}) \cup Left(f, need)
             /\ active' = active \cup {Taken(f, need)}
             /\ allocated' = allocated + Taken(f, need).size
<1>1. size \in Nat \ {0}
  BY HeapAssumption
<1>2. AlignSize(size, Align) \in Nat /\ AlignSize(size, Align) > 0
  BY <1>1, RoundUpFacts, HeapAssumption
<1>3. PICK f \in free :
        /\ f.size >= AlignSize(size, Align)
        /\ free' = (free \ {f}) \cup Left(f, AlignSize(size, Align))
        /\ active' = active \cup {Taken(f, AlignSize(size, Align))}
        /\ allocated' = allocated + Taken(f, AlignSize(size, Align)).size
  BY DEF Allocate, IsFirst, Grant, Left, Taken
<1> QED
  BY <1>2, <1>3

LEMMA ReAllocateTakes ==
    ASSUME HeapInv, NEW b \in active, NEW size \in 1 .. MaxRequest, ReAllocate(b, size)
    PROVE  \E f \in free : LET need == AlignSize(size, Align) IN
             /\ need \in Nat /\ need > 0 /\ f.size >= need
             /\ Sound((free \ {f}) \cup Left(f, need), active \cup {Taken(f, need)})
             /\ free' = Coalesce(((free \ {f}) \cup Left(f, need)) \cup {b})
             /\ active' = (active \cup {Taken(f, need)}) \ {b}
             /\ allocated' = allocated + Taken(f, need).size - b.size
<1> DEFINE need == AlignSize(size, Align)
<1>1. size \in Nat \ {0}
  BY HeapAssumption
<1>2. need \in Nat /\ need > 0
  BY <1>1, RoundUpFacts, HeapAssumption
<1>3. PICK f \in free :
        /\ f.size >= need
        /\ free' = Coalesce((free \ {f}) \cup {b} \cup Left(f, need))
        /\ active' = (active \cup {Taken(f, need)}) \ {b}
        /\ allocated' = allocated + Taken(f, need).size - b.size
  BY Zenon DEF ReAllocate, IsFirst, Left, Taken
<1>4. Sound((free \ {f}) \cup Left(f, need), active \cup {Taken(f, need)})
  BY <1>1, <1>3, TakeSound DEF HeapInv, Left, Taken
<1>5. (free \ {f}) \cup {b} \cup Left(f, need) = ((free \ {f}) \cup Left(f, need)) \cup {b}
  OBVIOUS
<1> HIDE DEF need
<1> QED
  BY <1>2, <1>3, <1>4, <1>5, Zenon DEF need

\* The byte count and the allocated blocks.
CountInv == HeapInv /\ Counts(active, allocated)

LEMMA CountStart == HeapInit => CountInv
<1>1. Covered({}) = {}
  BY DEF Covered
<1>2. Cardinality({}) = 0
  BY FS_EmptySet
<1> QED
  BY <1>1, <1>2, SoundInit DEF HeapInit, CountInv, Counts

LEMMA CountStep == CountInv /\ [HeapNext]_heapVars => CountInv'
<1> SUFFICES ASSUME HeapInv, Counts(active, allocated), [HeapNext]_heapVars
             PROVE  Counts(active', allocated')
  BY SoundStep DEF CountInv, Counts
<1>1. HeapInv'
  BY SoundStep
<1>2. Sound(free, active) /\ Sound(free', active')
  BY <1>1 DEF HeapInv
<1>3. ASSUME NEW size \in 1 .. MaxRequest, Allocate(size) PROVE Counts(active', allocated')
  <2> DEFINE need == AlignSize(size, Align)
  <2>1. PICK f \in free :
             /\ need \in Nat /\ need > 0 /\ f.size >= need
             /\ active' = active \cup {Taken(f, need)}
             /\ allocated' = allocated + Taken(f, need).size
    BY <1>3, AllocateTakes
  <2> HIDE DEF need
  <2>2. Taken(f, need) \notin active
    BY <1>2, <2>1, FreeFacts, TakenFacts, NotTaken, Zenon
  <2> QED
    BY <1>2, <2>1, <2>2, GrantCounts
<1>4. ASSUME NEW size \in 1 .. MaxRequest, NEW alignment \in Alignments,
             AllocateAligned(size, alignment)
      PROVE  Counts(active', allocated')
  <2> DEFINE a == IF alignment > Align THEN alignment ELSE Align
             need == AlignSize(size, a)
             c(f) == AlignSize(f.addr, a)
  <2>1. PICK f \in free :
             /\ need \in Nat /\ need > 0 /\ c(f) \in Nat /\ c(f) >= f.addr
             /\ f.size >= c(f) - f.addr + need
             /\ active' = active \cup {TakenAt(f, c(f), need)}
             /\ allocated' = allocated + TakenAt(f, c(f), need).size
    BY <1>4, AlignedTakes
  <2> HIDE DEF need, c
  <2>2. TakenAt(f, c(f), need) \notin active
    BY <1>2, <2>1, FreeFacts, TakenAtFacts, NotTaken, Zenon
  <2> QED
    BY <1>2, <2>1, <2>2, GrantCounts
<1>5. ASSUME NEW b \in active, Free(b) PROVE Counts(active', allocated')
  BY <1>2, <1>5, ReleaseCounts, Zenon DEF Free
<1>6. ASSUME NEW b \in active, NEW size \in 1 .. MaxRequest, ReAllocate(b, size)
      PROVE  Counts(active', allocated')
  <2> DEFINE need == AlignSize(size, Align)
  <2>1. PICK f \in free :
             /\ need \in Nat /\ need > 0 /\ f.size >= need
             /\ Sound((free \ {f}) \cup Left(f, need), active \cup {Taken(f, need)})
             /\ active' = (active \cup {Taken(f, need)}) \ {b}
             /\ allocated' = allocated + Taken(f, need).size - b.size
    BY <1>6, ReAllocateTakes, Zenon
  <2> HIDE DEF need
  <2>2. Taken(f, need) \notin active
    BY <1>2, <2>1, FreeFacts, TakenFacts, NotTaken, Zenon
  <2> DEFINE A == active \cup {Taken(f, need)}
             n == allocated + Taken(f, need).size
  <2>3. Counts(A, n)
    BY <1>2, <2>1, <2>2, GrantCounts
  <2>4. b \in A /\ Sound((free \ {f}) \cup Left(f, need), A) /\ active' = A \ {b}
    BY <2>1
  <2>5. allocated' = n - b.size
    <3>1. Taken(f, need).size \in Int /\ b.size \in Int
      <4>1. Taken(f, need) \in BlockType
        BY <2>1, FreeFacts, TakenFacts, Zenon
      <4>2. b \in BlockType
        BY <1>2 DEF Sound
      <4> QED
        BY <4>1, <4>2 DEF BlockType
    <3>2. allocated \in Int
      <4>1. active \in SUBSET BlockType /\ Within(active)
        BY <1>2 DEF Sound
      <4> QED
        BY <4>1, CoveredFacts, FS_CardinalityType DEF Counts
    <3> QED
      BY <2>1, <3>1, <3>2
  <2> HIDE DEF A, n
  <2> QED
    BY <2>3, <2>4, <2>5, ReleaseCounts, Zenon
<1>7. CASE UNCHANGED heapVars
  BY <1>7 DEF heapVars
<1> QED
  BY <1>3, <1>4, <1>5, <1>6, <1>7 DEF HeapNext

-----------------------------------------------------------------------------
(* The theorem. *)

\* Base, size and the alignments asked for are multiples of the heap's own alignment:
\* so it is for the default heap (0x10000000, 16 MiB, 8), whose callers may ask for
\* powers of two only.  On another heap AllocateAligned can lose a rest below Align.
OnGrid == Mult(Base) /\ Mult(Total) /\ \A a \in Alignments : a > Align => Mult(a)

LeakInv == HeapInv /\ Whole(free, active)

LEMMA LeakStart ==
    ASSUME OnGrid, HeapInit
    PROVE  LeakInv
<1>1. Base \in Nat /\ Total \in Nat
  BY HeapAssumption
<1>2. Grid(free \cup active)
  BY <1>1 DEF HeapInit, OnGrid, Grid, Block
<1>3. Full(free \cup active)
  <2> DEFINE b == Block(Base, Total)
  <2>1. b.addr = Base /\ BlockEnd(b) = Base + Total
    BY DEF Block, BlockEnd
  <2>2. Total > 0 => b \in free
    BY DEF HeapInit
  <2> HIDE DEF b
  <2>3. Base .. Base + Total - 1 # {} => Total > 0
    BY <1>1
  <2>4. Addresses(b) = Base .. Base + Total - 1
    BY <1>1, <2>1 DEF Addresses
  <2> QED
    BY <2>2, <2>3, <2>4, Zenon DEF Full
<1> QED
  BY <1>2, <1>3, SoundInit DEF LeakInv, Whole

LEMMA LeakStep ==
    ASSUME OnGrid, LeakInv, [HeapNext]_heapVars
    PROVE  LeakInv'
<1>1. HeapInv /\ Sound(free, active) /\ Whole(free, active) /\ HeapInv'
  BY SoundStep DEF LeakInv, HeapInv
<1> SUFFICES Whole(free', active')
  BY <1>1 DEF LeakInv, Whole
<1>2. Mult(Align)
  BY HeapAssumption, SMT DEF Mult
<1>3. \A f \in free : Grid({f})
  BY <1>1 DEF Whole, Grid
<1>4. ASSUME NEW size \in 1 .. MaxRequest PROVE Mult(AlignSize(size, Align))
  <2>1. size \in Nat /\ Align \in Nat \ {0}
    BY HeapAssumption
  <2> QED
    BY <1>2, <2>1, MultAlign
<1>5. ASSUME NEW size \in 1 .. MaxRequest, Allocate(size) PROVE Whole(free', active')
  <2> DEFINE need == AlignSize(size, Align)
  <2>1. PICK f \in free :
             /\ need \in Nat /\ need > 0 /\ f.size >= need
             /\ free' = (free \ {f}) \cup Left(f, need)
             /\ active' = active \cup {Taken(f, need)}
    BY <1>1, <1>5, AllocateTakes
  <2>2. Mult(need)
    BY <1>4
  <2> HIDE DEF need
  <2>3. Splits(f, Taken(f, need), Left(f, need)) /\ Grid({Taken(f, need)}) /\ Grid(Left(f, need))
    BY <1>1, <1>3, <2>1, <2>2, FreeFacts, TakenFacts, Zenon
  <2> QED
    BY <1>1, <2>1, <2>3, SplitWhole
<1>6. ASSUME NEW size \in 1 .. MaxRequest, NEW alignment \in Alignments,
             AllocateAligned(size, alignment)
      PROVE  Whole(free', active')
  <2> DEFINE a == IF alignment > Align THEN alignment ELSE Align
             need == AlignSize(size, a)
             c(f) == AlignSize(f.addr, a)
             R(f) == Front(f, c(f)) \cup Back(f, c(f), need)
  <2>1. PICK f \in free :
             /\ need \in Nat /\ need > 0 /\ c(f) \in Nat /\ c(f) >= f.addr
             /\ f.size >= c(f) - f.addr + need
             /\ free' = (free \ {f}) \cup R(f)
             /\ active' = active \cup {TakenAt(f, c(f), need)}
    BY <1>1, <1>6, AlignedTakes
  <2>2. Mult(a) /\ a \in Nat \ {0}
    BY <1>2, HeapAssumption DEF OnGrid
  <2>3. f.addr \in Nat /\ size \in Nat
    BY <1>1, HeapAssumption DEF Sound, BlockType
  <2> HIDE DEF a
  <2>4. Mult(need) /\ Mult(c(f))
    BY <2>2, <2>3, MultAlign
  <2> HIDE DEF need, c
  <2>5. /\ Splits(f, TakenAt(f, c(f), need), R(f))
        /\ Grid({TakenAt(f, c(f), need)}) /\ Grid(R(f))
    BY <1>1, <1>3, <2>1, <2>4, FreeFacts, TakenAtFacts, Zenon
  <2> HIDE DEF R
  <2> QED
    BY <1>1, <2>1, <2>5, SplitWhole
<1>7. ASSUME NEW b \in active, Free(b) PROVE Whole(free', active')
  BY <1>1, <1>7, MergeWhole DEF Free
<1>8. ASSUME NEW b \in active, NEW size \in 1 .. MaxRequest, ReAllocate(b, size)
      PROVE  Whole(free', active')
  <2> DEFINE need == AlignSize(size, Align)
  <2>1. PICK f \in free :
             /\ need \in Nat /\ need > 0 /\ f.size >= need
             /\ Sound((free \ {f}) \cup Left(f, need), active \cup {Taken(f, need)})
             /\ free' = Coalesce(((free \ {f}) \cup Left(f, need)) \cup {b})
             /\ active' = (active \cup {Taken(f, need)}) \ {b}
    BY <1>1, <1>8, ReAllocateTakes, Zenon
  <2>2. Mult(need)
    BY <1>4
  <2> HIDE DEF need
  <2>3. Splits(f, Taken(f, need), Left(f, need)) /\ Grid({Taken(f, need)}) /\ Grid(Left(f, need))
    BY <1>1, <1>3, <2>1, <2>2, FreeFacts, TakenFacts, Zenon
  <2> DEFINE F == (free \ {f}) \cup Left(f, need)
             A == active \cup {Taken(f, need)}
  <2>4. Whole(F, A)
    BY <1>1, <2>3, SplitWhole
  <2>5. b \in A /\ Sound(F, A) /\ free' = Coalesce(F \cup {b}) /\ active' = A \ {b}
    BY <2>1
  <2> HIDE DEF F, A
  <2> QED
    BY <2>4, <2>5, MergeWhole
<1>9. CASE UNCHANGED heapVars
  BY <1>1, <1>9 DEF heapVars
<1> QED
  BY <1>5, <1>6, <1>7, <1>8, <1>9 DEF HeapNext

\* allocated_bytes_ counts exactly the allocated addresses, on every heap and whatever
\* is allocated, reallocated and freed.
THEOREM HeapCounts == HeapSpec => [](allocated = Cardinality(Covered(active)))
<1>1. CountInv => allocated = Cardinality(Covered(active))
  BY DEF CountInv, Counts
<1> QED
  BY <1>1, CountStart, CountStep, PTL DEF HeapSpec

\* On a heap whose base and size are multiples of its alignment, and whose callers ask
\* for multiples of it, no operation of GuestHeap loses an address: each is in a free
\* or an allocated block, and allocated_bytes_ counts the allocated ones.
THEOREM HeapNothingLeaks ==
    ASSUME OnGrid
    PROVE  HeapSpec => []NothingLeaks
<1>1. HeapInit => LeakInv /\ CountInv
  BY LeakStart, CountStart
<1>2. LeakInv /\ CountInv /\ [HeapNext]_heapVars => LeakInv' /\ CountInv'
  BY LeakStep, CountStep
<1>3. LeakInv /\ CountInv => NothingLeaks
  <2> SUFFICES ASSUME LeakInv, CountInv PROVE NothingLeaks
    OBVIOUS
  <2>1. allocated = Cardinality(Covered(active))
    BY DEF CountInv, Counts
  <2>2. Blocks \in SUBSET BlockType /\ Within(Blocks) /\ Full(Blocks)
    BY DEF LeakInv, HeapInv, Sound, Within, Blocks, Whole
  <2>3. Covered(Blocks) \subseteq Base .. Base + Total - 1
    BY <2>2, CoveredFacts
  <2>4. Base .. Base + Total - 1 \subseteq Covered(Blocks)
    BY <2>2 DEF Full, Covered, Addresses
  <2> QED
    BY <2>1, <2>3, <2>4, Zenon DEF NothingLeaks
<1> QED
  BY <1>1, <1>2, <1>3, PTL DEF HeapSpec
-----------------------------------------------------------------------------
(* VirtualMemory and VirtualMemoryHle.                                       *)

\* The part of the types the argument needs: a current root, and tables.
Shape ==
    /\ pde \in [Roots -> [Dirs -> Flags]] /\ pte \in [Roots -> [Pages -> Pte]]
    /\ cr3 \in Roots /\ DOMAIN tlb \subseteq Pages

\* The inductive invariant.
TlbInv == Shape /\ TlbIsCurrent

\* Caching pages whose walk passed keeps the TLB current.
LEMMA FillKeeps ==
    ASSUME TlbInv, NEW S \in SUBSET Pages, \A p \in S : p \notin DOMAIN tlb => Present(p),
           tlb' = Fill(S),
           UNCHANGED <<pde, pte, cr3, changed>>
    PROVE  TlbInv'
<1>1. \A p \in Pages : Walk(p)' = Walk(p) /\ (Present(p)' <=> Present(p))
  BY DEF Walk, Present
<1>2. Shape'
  BY DEF TlbInv, Shape, Fill
<1>3. TlbIsCurrent'
  BY <1>1, <1>2 DEF TlbInv, Shape, TlbIsCurrent, Fill
<1> QED
  BY <1>2, <1>3 DEF TlbInv

\* So does leaving it and the tables alone.
LEMMA IdleKeeps ==
    ASSUME TlbInv, UNCHANGED <<tlb, pde, pte, cr3, changed>>
    PROVE  TlbInv'
BY DEF TlbInv, Shape, TlbIsCurrent, Walk, Present

\* A translation that does not fault is cached already or present.
LEMMA PassedIsPresent ==
    ASSUME NEW p, NEW access, paging, Outcome(p, access) = NoFault, p \notin DOMAIN tlb
    PROVE  Present(p)
BY DEF Outcome, WalkOutcome, Fault, NoFault

\* Every operation keeps the TLB current.
LEMMA TlbStep == TlbInv /\ [Next]_vars => TlbInv'
<1> SUFFICES ASSUME TlbInv, [Next]_vars PROVE TlbInv'
  OBVIOUS
<1>1. ASSUME NEW p \in Pages, NEW a \in Accesses, Access(p, a) PROVE TlbInv'
  <2>1. CASE paging /\ Outcome(p, a) = NoFault
    <3>1. p \notin DOMAIN tlb => Present(p)
      BY <2>1, PassedIsPresent
    <3> QED
      BY <1>1, <2>1, <3>1, FillKeeps DEF Access
  <2>2. CASE ~(paging /\ Outcome(p, a) = NoFault)
    <3>1. tlb' = tlb
      BY <1>1, <2>2 DEF Access, Fill
    <3> QED
      BY <1>1, <3>1, IdleKeeps DEF Access
  <2> QED
    BY <2>1, <2>2
<1>2. ASSUME NEW p \in Pages, NEW q \in Pages, Write(p, q, 1) PROVE TlbInv'
  <2> DEFINE o1 == Outcome(p, "write")
             o2 == IF o1 = NoFault THEN Outcome(q, "write") ELSE o1
             S == (IF o1 = NoFault THEN {p} ELSE {}) \cup (IF o2 = NoFault THEN {q} ELSE {})
  <2>1. paging /\ tlb' = Fill(S) /\ UNCHANGED <<pde, pte, cr3, changed>>
    BY <1>2 DEF Write
  <2>2. \A x \in S : x \notin DOMAIN tlb => Present(x)
    <3>1. o1 = NoFault => (p \notin DOMAIN tlb => Present(p))
      BY <2>1, PassedIsPresent
    <3>2. o2 = NoFault => (q \notin DOMAIN tlb => Present(q))
      BY <2>1, PassedIsPresent
    <3> QED
      BY <3>1, <3>2
  <2>3. S \in SUBSET Pages
    OBVIOUS
  <2> HIDE DEF S
  <2> QED
    BY <2>1, <2>2, <2>3, FillKeeps
<1>3. ASSUME NEW r \in Roots, SetCr3(r) PROVE TlbInv'
  BY <1>3 DEF SetCr3, Flush, TlbInv, Shape, TlbIsCurrent
<1>4. ASSUME NEW pg \in BOOLEAN, NEW wp \in BOOLEAN, SetCr0(pg, wp) PROVE TlbInv'
  <2>1. CASE pg # paging
    BY <1>4, <2>1 DEF SetCr0, Flush, TlbInv, Shape, TlbIsCurrent
  <2>2. CASE pg = paging
    BY <1>4, <2>2, IdleKeeps DEF SetCr0
  <2> QED
    BY <2>1, <2>2
<1>5. ASSUME NEW l \in {0, 3}, SetCpl(l) PROVE TlbInv'
  BY <1>5, IdleKeeps DEF SetCpl
<1>6. ASSUME NEW p \in Pages, InvalidateTranslation(p) PROVE TlbInv'
  <2>1. \A x \in Pages : Walk(x)' = Walk(x) /\ (Present(x)' <=> Present(x))
    BY <1>6 DEF InvalidateTranslation, Walk, Present
  <2> QED
    BY <1>6, <2>1 DEF InvalidateTranslation, TlbInv, Shape, TlbIsCurrent
<1>7. CASE InvalidateAll
  BY <1>7 DEF InvalidateAll, Flush, TlbInv, Shape, TlbIsCurrent
<1>8. ASSUME NEW r \in Roots, NEW d \in Dirs, NEW f \in Flags, SetPde(r, d, f) PROVE TlbInv'
  <2>1. Shape'
    BY <1>8 DEF SetPde, TlbInv, Shape
  <2>2. \A x \in Pages : x \notin changed' => x \notin changed /\ Walk(x)' = Walk(x) /\ (Present(x)' <=> Present(x))
    BY <1>8 DEF SetPde, TlbInv, Shape, Walk, Present, Pages
  <2> QED
    BY <1>8, <2>1, <2>2 DEF SetPde, TlbInv, Shape, TlbIsCurrent
<1>9. ASSUME NEW r \in Roots, NEW p \in Pages, NEW e \in Pte, SetPte(r, p, e) PROVE TlbInv'
  <2>1. Shape'
    BY <1>9 DEF SetPte, TlbInv, Shape
  <2>2. \A x \in Pages : x \notin changed' => x \notin changed /\ Walk(x)' = Walk(x) /\ (Present(x)' <=> Present(x))
    BY <1>9 DEF SetPte, TlbInv, Shape, Walk, Present
  <2> QED
    BY <1>9, <2>1, <2>2 DEF SetPte, TlbInv, Shape, TlbIsCurrent
<1>10. CASE UNCHANGED vars
  BY <1>10, IdleKeeps DEF vars
<1> QED
  BY <1>1, <1>2, <1>3, <1>4, <1>5, <1>6, <1>7, <1>8, <1>9, <1>10 DEF Next

\* The TLB starts empty.
LEMMA TlbInit == Init => TlbInv
BY PagingAssumption DEF Init, TlbInv, Shape, TlbIsCurrent, Pte

\* A cached translation is what the page tables say, for every page whose entries
\* the guest has not changed since it last invalidated it.
THEOREM TlbCurrent == Spec => []TlbIsCurrent
<1>1. TlbInv => TlbIsCurrent
  BY DEF TlbInv
<1> QED
  BY <1>1, TlbInit, TlbStep, PTL DEF Spec

\* An access that hits faults exactly when the walk would and with the same code.
THEOREM HitAgrees == Spec => []HitAgreesWithWalk
<1>1. TlbInv => HitAgreesWithWalk
  BY Zenon DEF TlbInv, TlbIsCurrent, HitAgreesWithWalk, HitOutcome, WalkOutcome
<1> QED
  BY <1>1, TlbInit, TlbStep, PTL DEF Spec

\* A write that ends in a page fault changes no memory.
THEOREM FaultKeepsMemory == Spec => FaultLeavesMemory
<1>1. [Next]_vars => [outcome' = "fault" => ram' = ram]_vars
  <2> SUFFICES ASSUME Next, outcome' = "fault" PROVE ram' = ram
    BY DEF vars
  <2>1. ASSUME NEW p \in Pages, NEW q \in Pages, Write(p, q, 1) PROVE ram' = ram
    BY <2>1 DEF Write
  <2>2. ASSUME NEW p \in Pages, NEW a \in Accesses, Access(p, a) PROVE ram' = ram
    BY <2>2 DEF Access
  <2> QED
    BY <2>1, <2>2 DEF Next, SetCr3, SetCr0, SetCpl, InvalidateTranslation, InvalidateAll, SetPde, SetPte
<1> QED
  BY <1>1, PTL DEF Spec, FaultLeavesMemory

-----------------------------------------------------------------------------
(* The kernel's virtual memory services.                                    *)

\* The inductive invariant.
VmInv == VmTypeOK /\ RegionsDisjoint

\* A region added in a free range of the user range keeps the invariant.
LEMMA AddKeeps ==
    ASSUME VmInv, NEW base \in Nat, NEW size \in Nat \ {0}, NEW type \in Types,
           NEW p \in Protects,
           UserBase <= base, base + size <= UserLimit, ~OverlapsExisting(base, size),
           Add(base, size, type, p)
    PROVE  VmInv'
<1> DEFINE new == [base |-> base, size |-> size, state |-> State(type),
                   protect |-> p, initial |-> p]
<1>1. regions' = regions \cup {new}
  BY DEF Add
<1>2. new \in Region
  BY DEF Region, State
<1> HIDE DEF new
<1>3. nextAuto' \in UserBase .. UserLimit
  <2>1. nextAuto \in UserBase .. UserLimit
    BY DEF VmInv, VmTypeOK
  <2>2. nextAuto' \in {nextAuto, base + size}
    BY DEF Add
  <2> QED
    BY VmAssumption, <2>1, <2>2
<1>4. VmTypeOK'
  BY <1>1, <1>2, <1>3 DEF VmTypeOK, VmInv
<1>n. new.base = base /\ new.size = size
  BY DEF new
<1>5. ASSUME NEW r \in regions PROVE End(r) <= new.base \/ End(new) <= r.base
  <2>1. r.base \in Nat /\ r.size \in Nat
    BY DEF VmInv, VmTypeOK, Region
  <2>2. ~Overlaps(r, base, size)
    BY DEF OverlapsExisting
  <2> QED
    BY <1>n, <2>1, <2>2 DEF Overlaps, End
<1>6. new.size > 0 /\ UserBase <= new.base /\ End(new) <= UserLimit
  BY <1>n DEF End
<1>7. RegionsDisjoint'
  BY <1>1, <1>5, <1>6 DEF RegionsDisjoint, VmInv
<1> QED
  BY <1>4, <1>7 DEF VmInv

\* A region replaced by one with the same base and size keeps the invariant.
LEMMA ReplaceKeeps ==
    ASSUME VmInv, NEW r \in regions, NEW s \in Region, s.base = r.base, s.size = r.size,
           regions' = (regions \ {r}) \cup {s}, UNCHANGED nextAuto
    PROVE  VmInv'
<1>1. VmTypeOK'
  BY DEF VmInv, VmTypeOK
<1>2. End(s) = End(r)
  BY DEF End
<1>3. \A x \in regions \ {r} : End(x) <= s.base \/ End(s) <= x.base
  BY <1>2 DEF VmInv, RegionsDisjoint
<1>4. RegionsDisjoint'
  BY <1>2, <1>3 DEF VmInv, RegionsDisjoint
<1> QED
  BY <1>1, <1>4 DEF VmInv

\* The invariant holds before the first call.
LEMMA VmStart == VmInit => VmInv
  BY VmAssumption DEF VmInit, VmInv, VmTypeOK, RegionsDisjoint

\* Every operation of the manager keeps the invariant.
LEMMA VmStep == VmInv /\ [VmNext]_vmVars => VmInv'
<1> SUFFICES ASSUME VmInv, [VmNext]_vmVars PROVE VmInv'
  OBVIOUS
<1>1. ASSUME NEW size \in 1 .. MaxSize, NEW type \in Types, NEW p \in Protects,
             AllocateAuto(size, type, p)
      PROVE  VmInv'
  <2>1. PICK c \in UserBase .. UserLimit : IsFirstFree(c, size) /\ Add(c, size, type, p)
    BY <1>1 DEF AllocateAuto
  <2>2. c \in Nat /\ size \in Nat \ {0} /\ UserBase <= c
    BY VmAssumption
  <2> QED
    BY <2>1, <2>2, AddKeeps DEF IsFirstFree, IsFreeRange
<1>2. ASSUME NEW base \in 1 .. UserLimit, NEW size \in 1 .. MaxSize, NEW type \in Types,
             NEW p \in Protects, AllocateAt(base, size, type, p)
      PROVE  VmInv'
  <2>1. base \in Nat /\ size \in Nat \ {0}
    BY VmAssumption
  <2> QED
    BY <1>2, <2>1, AddKeeps DEF AllocateAt, InLimits
<1>3. ASSUME NEW r \in regions, NEW size \in 1 .. MaxSize, NEW p \in Protects, Commit(r, size, p)
      PROVE  VmInv'
  <2>1. r \in Region
    BY DEF VmInv, VmTypeOK
  <2>2. [r EXCEPT !.state = "commit", !.protect = p] \in Region
    BY <2>1, Zenon DEF Region
  <2> QED
    BY <1>3, <2>1, <2>2, ReplaceKeeps, Zenon DEF Commit, Region
<1>4. ASSUME NEW r \in regions, Release(r) PROVE VmInv'
  BY <1>4 DEF Release, VmInv, VmTypeOK, RegionsDisjoint
<1>5. ASSUME NEW r \in regions, NEW size \in 0 .. MaxSize, Decommit(r, size) PROVE VmInv'
  <2>1. r \in Region
    BY DEF VmInv, VmTypeOK
  <2>2. [r EXCEPT !.state = "reserve", !.protect = "noaccess"] \in Region
    BY <2>1, Zenon DEF Region
  <2> QED
    BY <1>5, <2>1, <2>2, ReplaceKeeps, Zenon DEF Decommit, Region
<1>6. ASSUME NEW r \in regions, NEW size \in 0 .. MaxSize, NEW p \in Protects, Protect(r, size, p)
      PROVE  VmInv'
  <2>1. r \in Region
    BY DEF VmInv, VmTypeOK
  <2>2. [r EXCEPT !.protect = p] \in Region
    BY <2>1 DEF Region
  <2> QED
    BY <1>6, <2>1, <2>2, ReplaceKeeps DEF Protect, Region
<1>7. CASE ResetVm
  BY <1>7, VmAssumption DEF ResetVm, VmInv, VmTypeOK, RegionsDisjoint
<1>8. CASE UNCHANGED vmVars
  BY <1>8 DEF vmVars, VmInv, VmTypeOK, RegionsDisjoint
<1> QED
  BY <1>1, <1>2, <1>3, <1>4, <1>5, <1>6, <1>7, <1>8 DEF VmNext

\* VirtualMemoryManager never puts a page in two regions, nor outside the user
\* range, whatever sequence of virtual memory calls a title makes.
THEOREM VmNoOverlap == VmSpec => []RegionsDisjoint
<1>1. VmInv => RegionsDisjoint
  BY DEF VmInv
<1> QED
  BY <1>1, VmStart, VmStep, PTL DEF VmSpec

\* The page asked about lies in one region, or in none.
LEMMA HolderIsUnique ==
    ASSUME VmInv, NEW a \in Nat, NEW r \in regions, r.base <= a, a < End(r)
    PROVE  Query(a) = [allocation |-> r.base, size |-> r.size - (a - r.base), state |-> r.state]
<1>1. ASSUME NEW s \in regions, s.base <= a, a < End(s) PROVE s = r
  BY <1>1 DEF VmInv, VmTypeOK, RegionsDisjoint, Region, End
<1>2. {x \in regions : x.base <= a /\ a < End(x)} = {r}
  BY <1>1
<1> QED
  BY <1>2 DEF Query

\* A title that walks its memory with NtQueryVirtualMemory never skips a region nor
\* sees two as one: what a Query covers is the rest of one allocation, or one free page.
THEOREM VmQueryIsUniform == VmSpec => []QueryIsUniform
<1>1. VmInv => QueryIsUniform
  <2> SUFFICES ASSUME VmInv, NEW a \in UserBase .. UserLimit - 1,
                      NEW b \in a .. a + Query(a).size - 1
               PROVE  /\ Query(b).allocation = Query(a).allocation /\ Query(b).state = Query(a).state
                      /\ a + Query(a).size = b + Query(b).size
    BY DEF QueryIsUniform
  <2>1. a \in Nat
    BY VmAssumption
  <2>2. CASE \E r \in regions : r.base <= a /\ a < End(r)
    <3>1. PICK r \in regions : r.base <= a /\ a < End(r)
      BY <2>2
    <3>2. r.base \in Nat /\ r.size \in Nat
      BY DEF VmInv, VmTypeOK, Region
    <3>3. Query(a) = [allocation |-> r.base, size |-> r.size - (a - r.base), state |-> r.state]
      BY <2>1, <3>1, HolderIsUnique
    <3>4. b \in Nat /\ r.base <= b /\ b < End(r)
      <4>1. Query(a).size = r.size - (a - r.base)
        BY <3>3
      <4> QED
        BY <2>1, <3>1, <3>2, <4>1 DEF End
    <3>5. Query(b) = [allocation |-> r.base, size |-> r.size - (b - r.base), state |-> r.state]
      BY <3>4, HolderIsUnique
    <3>6. /\ Query(b).allocation = Query(a).allocation /\ Query(b).state = Query(a).state
          /\ Query(a).size = r.size - (a - r.base) /\ Query(b).size = r.size - (b - r.base)
      BY <3>3, <3>5
    <3> QED
      BY <2>1, <3>2, <3>4, <3>6
  <2>3. CASE ~ \E r \in regions : r.base <= a /\ a < End(r)
    <3>1. {r \in regions : r.base <= a /\ a < End(r)} = {}
      BY <2>3
    <3>2. Query(a).size = 1
      BY <3>1 DEF Query
    <3>3. b = a
      BY <2>1, <3>2
    <3> QED
      BY <3>3
  <2> QED
    BY <2>2, <2>3
<1> QED
  BY <1>1, VmStart, VmStep, PTL DEF VmSpec

-----------------------------------------------------------------------------
(* The search of FindFreeRange. *)

\* A set of numbers has a least one.
LEMMA LeastElement ==
    ASSUME NEW T \in SUBSET Nat, T # {}
    PROVE  \E n \in T : \A m \in T : n <= m
<1> DEFINE R == {ss \in Nat \X Nat : ss[1] < ss[2]}
<1>1. IsWellFoundedOn(R, Nat)
  BY NatLessThanWellFounded DEF OpToRel
<1> HIDE DEF R
<1>2. PICK n \in T : \A m \in T : ~(<<m, n>> \in R)
  BY <1>1, WFMin, Zenon
<1>3. \A m \in T : ~(m < n)
  BY <1>2, Zenon DEF R
<1> QED
  BY <1>3

\* A set of numbers that holds 0, and with a number below n the next, holds all up to n.
LEMMA Induction ==
    ASSUME NEW n \in Nat, NEW T, 0 \in T, \A i \in 0 .. n : i \in T /\ i < n => i + 1 \in T
    PROVE  \A i \in 0 .. n : i \in T
<1> DEFINE F == {i \in 0 .. n : i \notin T}
<1>1. ASSUME F # {} PROVE FALSE
  <2> F \in SUBSET Nat
    OBVIOUS
  <2>1. PICK m \in F : \A k \in F : m <= k
    BY <1>1, LeastElement, Zenon
  <2>2. m \in 0 .. n /\ m # 0 /\ m - 1 \in 0 .. n /\ m - 1 \notin F
    BY <2>1
  <2>3. m - 1 \in T /\ m - 1 < n /\ (m - 1) + 1 = m
    BY <2>1, <2>2
  <2> QED
    BY <2>1, <2>3
<1> QED
  BY <1>1

\* AlignUp goes to the first multiple that is not below n.
LEMMA AlignUpFacts ==
    ASSUME NEW n \in Nat, NEW a \in Nat \ {0}
    PROVE  /\ AlignUp(n, a) \in Nat /\ n <= AlignUp(n, a) /\ AlignUp(n, a) % a = 0
           /\ \A d \in Nat : d % a = 0 /\ d < AlignUp(n, a) => d < n
<1> DEFINE q == (n + a - 1) \div a
<1>1. q \in Nat /\ a * q <= n + a - 1 /\ n + a - 1 < a * q + a
  BY SMT
<1>2. AlignUp(n, a) = q * a
  BY DEF AlignUp
<1> HIDE DEF q
<1>3. q * a \in Nat /\ q * a = a * q /\ n <= q * a
  BY <1>1, SMT
<1>4. (q * a) % a = 0
  BY <1>1, SMT
<1>5. ASSUME NEW d \in Nat, d % a = 0, d < q * a
      PROVE  d < n
  <2> DEFINE k == d \div a
  <2>1. k \in Nat /\ d = k * a
    BY <1>5, SMT
  <2> HIDE DEF k
  <2>2. k < q
    BY <1>1, <1>5, <2>1, SMT
  <2>3. k * a + a <= q * a
    BY <1>1, <2>1, <2>2, SMT
  <2> QED
    BY <1>1, <1>3, <2>1, <2>3, SMT
<1> QED
  BY <1>2, <1>3, <1>4, <1>5

\* The regions a candidate collides with, the one FindFreeRange meets first, and the
\* candidate behind it.
Met(c, size) == {r \in regions : Overlaps(r, c, size)}
FirstMet(c, size) == CHOOSE x \in Met(c, size) : x.base = Min({r.base : r \in Met(c, size)})
Behind(c, size) == AlignUp(End(FirstMet(c, size)), Granule)

\* FindFreeRange moves the candidate up, and no granule that it skips is free.
LEMMA BehindFacts ==
    ASSUME VmInv, NEW c \in Nat, NEW size \in Nat \ {0}, Met(c, size) # {}
    PROVE  /\ Behind(c, size) \in Nat /\ c < Behind(c, size) /\ Behind(c, size) % Granule = 0
           /\ \A d \in c .. Behind(c, size) - 1 : ~IsFreeRange(d, size)
<1> DEFINE B == {r.base : r \in Met(c, size)}
           r == FirstMet(c, size)
<1>1. Met(c, size) \subseteq regions /\ regions \subseteq Region
  BY DEF Met, VmInv, VmTypeOK
<1>2. B \in SUBSET Nat /\ B # {}
  BY <1>1 DEF Region
<1>3. PICK b \in B : \A m \in B : b <= m
  BY <1>2, LeastElement, Zenon
<1>4. Min(B) \in B
  BY <1>3 DEF Min
<1>5. r \in Met(c, size)
  BY <1>4, Zenon DEF FirstMet
<1> HIDE DEF B, r
<1>6. r \in regions /\ r.base \in Nat /\ r.size \in Nat /\ Overlaps(r, c, size)
  BY <1>1, <1>5 DEF Met, Region
<1>7. End(r) \in Nat /\ c < End(r) /\ r.base < c + size
  BY <1>6 DEF End, Overlaps
<1>8. Granule \in Nat \ {0}
  BY VmAssumption
<1>9. Behind(c, size) = AlignUp(End(r), Granule)
  BY DEF Behind, r
<1>10. /\ Behind(c, size) \in Nat /\ End(r) <= Behind(c, size) /\ Behind(c, size) % Granule = 0
       /\ \A d \in Nat : d % Granule = 0 /\ d < Behind(c, size) => d < End(r)
  BY <1>7, <1>8, <1>9, AlignUpFacts
<1>11. ASSUME NEW d \in c .. Behind(c, size) - 1, IsFreeRange(d, size)
       PROVE  FALSE
  <2>1. d \in Nat /\ c <= d /\ d < Behind(c, size)
    BY <1>10
  <2>2. d % Granule = 0 /\ ~OverlapsExisting(d, size)
    BY <1>11 DEF IsFreeRange
  <2>3. d < End(r) /\ d + size > r.base
    <3>1. d < End(r)
      BY <1>10, <2>1, <2>2
    <3> QED
      BY <1>6, <1>7, <2>1, <3>1
  <2> QED
    BY <1>6, <2>2, <2>3 DEF OverlapsExisting, Overlaps
<1>12. c < Behind(c, size)
  BY <1>7, <1>10
<1> QED
  BY <1>10, <1>11, <1>12

\* One turn of FindFreeRange's loop at the candidate c, g being what the later ones return.
Turn(g, c, size) ==
    IF c + size > UserLimit THEN 0
    ELSE IF Met(c, size) = {} THEN c ELSE g[Behind(c, size)]

\* The loop ends from every candidate: the candidates grow up to the user limit.
LEMMA SearchRecursion ==
    ASSUME VmInv, NEW size \in Nat \ {0}
    PROVE  \E g : g = [c \in Nat |-> Turn(g, c, size)]
<1> DEFINE Solves(g, k) ==
               g = [c \in Nat |-> g[c]] /\ \A c \in Nat : c + k > UserLimit => g[c] = Turn(g, c, size)
           T == {k \in Nat : \E g : Solves(g, k)}
<1> UserLimit \in Nat
  BY VmAssumption
<1>1. 0 \in T
  <2> DEFINE g == [c \in Nat |-> 0]
  <2>1. g = [c \in Nat |-> g[c]]
    OBVIOUS
  <2>2. ASSUME NEW c \in Nat, c + 0 > UserLimit PROVE g[c] = Turn(g, c, size)
    <3>1. c + size > UserLimit
      BY <2>2
    <3> QED
      BY <3>1 DEF Turn
  <2> HIDE DEF g
  <2> QED
    BY <2>1, <2>2
<1>2. ASSUME NEW k \in 0 .. UserLimit + 1, k \in T, k < UserLimit + 1
      PROVE  k + 1 \in T
  <2>1. PICK g : Solves(g, k)
    BY <1>2
  <2> DEFINE e == UserLimit - k
             h == [c \in Nat |-> IF c = e THEN Turn(g, e, size) ELSE g[c]]
  <2>2. e \in Nat /\ k + 1 \in Nat
    BY <1>2
  <2>3. \A c \in Nat : c # e => h[c] = g[c]
    OBVIOUS
  <2>4. h[e] = Turn(g, e, size)
    BY <2>2
  <2>5. h = [c \in Nat |-> h[c]]
    OBVIOUS
  <2> HIDE DEF h
  <2>6. ASSUME NEW c \in Nat, c >= e PROVE Turn(h, c, size) = Turn(g, c, size)
    <3>1. CASE Met(c, size) = {}
      BY <3>1 DEF Turn
    <3>2. CASE Met(c, size) # {}
      <4>1. Behind(c, size) \in Nat /\ c < Behind(c, size)
        BY <3>2, BehindFacts
      <4>2. Behind(c, size) # e
        BY <2>2, <2>6, <4>1
      <4>3. h[Behind(c, size)] = g[Behind(c, size)]
        BY <2>3, <4>1, <4>2
      <4> QED
        BY <4>3 DEF Turn
    <3> QED
      BY <3>1, <3>2
  <2>7. ASSUME NEW c \in Nat, c + (k + 1) > UserLimit PROVE h[c] = Turn(h, c, size)
    <3>1. c >= e
      BY <1>2, <2>7
    <3>2. Turn(h, c, size) = Turn(g, c, size)
      BY <2>6, <3>1
    <3>3. CASE c = e
      BY <2>4, <3>2, <3>3
    <3>4. CASE c # e
      <4>1. c + k > UserLimit
        BY <1>2, <3>1, <3>4
      <4>2. g[c] = Turn(g, c, size)
        BY <2>1, <4>1
      <4> QED
        BY <2>3, <3>2, <3>4, <4>2
    <3> QED
      BY <3>3, <3>4
  <2>8. Solves(h, k + 1)
    BY <2>5, <2>7
  <2> HIDE DEF Solves
  <2> QED
    BY <2>2, <2>8
<1>3. UserLimit + 1 \in T
  <2> HIDE DEF T
  <2>1. UserLimit + 1 \in Nat /\ UserLimit + 1 \in 0 .. UserLimit + 1
    OBVIOUS
  <2>2. \A k \in 0 .. UserLimit + 1 : k \in T
    BY <1>1, <1>2, <2>1, Induction
  <2> QED
    BY <2>1, <2>2
<1>4. PICK g : Solves(g, UserLimit + 1)
  BY <1>3
<1>5. ASSUME NEW c \in Nat PROVE g[c] = Turn(g, c, size)
  <2>1. c + (UserLimit + 1) > UserLimit
    OBVIOUS
  <2> QED
    BY <1>4, <2>1
<1>6. g = [c \in Nat |-> g[c]]
  BY <1>4
<1>7. g = [c \in Nat |-> Turn(g, c, size)]
  BY <1>5, <1>6
<1> QED
  BY <1>7

\* x is the first free granule from c on, or 0 when there is none.
Finds(x, c, size) ==
    /\ x = 0 => \A d \in c .. UserLimit : ~IsFreeRange(d, size)
    /\ x # 0 => /\ x \in Nat /\ x >= c /\ IsFreeRange(x, size)
                /\ \A d \in c .. x - 1 : ~IsFreeRange(d, size)

\* What is found from a later candidate is found from an earlier one, when no granule
\* between the two is free.
LEMMA FindsFromBelow ==
    ASSUME NEW c \in Nat, NEW e \in Nat, c <= e, NEW size, NEW x, Finds(x, e, size),
           \A d \in c .. e - 1 : ~IsFreeRange(d, size)
    PROVE  Finds(x, c, size)
<1> UserLimit \in Nat
  BY VmAssumption
<1>1. CASE x = 0
  <2>1. ASSUME NEW d \in c .. UserLimit PROVE ~IsFreeRange(d, size)
    <3>1. d \in c .. e - 1 \/ d \in e .. UserLimit
      OBVIOUS
    <3> QED
      BY <1>1, <3>1 DEF Finds
  <2> QED
    BY <1>1, <2>1 DEF Finds
<1>2. CASE x # 0
  <2>1. x \in Nat /\ x >= e /\ IsFreeRange(x, size) /\ \A d \in e .. x - 1 : ~IsFreeRange(d, size)
    BY <1>2 DEF Finds
  <2>2. ASSUME NEW d \in c .. x - 1 PROVE ~IsFreeRange(d, size)
    <3>1. d \in c .. e - 1 \/ d \in e .. x - 1
      BY <2>1
    <3> QED
      BY <2>1, <3>1
  <2>3. x >= c
    BY <2>1
  <2> QED
    BY <1>2, <2>1, <2>2, <2>3 DEF Finds
<1> QED
  BY <1>1, <1>2

\* From every granule the loop finds the first free one.
LEMMA LoopFinds ==
    ASSUME VmInv, NEW size \in Nat \ {0}, NEW g, g = [c \in Nat |-> Turn(g, c, size)],
           NEW c \in Nat \ {0}, c % Granule = 0
    PROVE  Finds(g[c], c, size)
<1> UserLimit \in Nat
  BY VmAssumption
<1>0. \A n \in Nat : g[n] = Turn(g, n, size)
  OBVIOUS
<1> DEFINE T == {k \in Nat : \A n \in Nat \ {0} :
                                 n % Granule = 0 /\ n + k > UserLimit => Finds(g[n], n, size)}
<1>1. ASSUME NEW n \in Nat \ {0}, n + size > UserLimit
      PROVE  Finds(g[n], n, size)
  <2>1. g[n] = 0
    BY <1>0, <1>1 DEF Turn
  <2>2. ASSUME NEW d \in n .. UserLimit PROVE ~IsFreeRange(d, size)
    <3>1. ~(d + size <= UserLimit)
      BY <1>1
    <3> QED
      BY <3>1 DEF IsFreeRange
  <2> QED
    BY <2>1, <2>2 DEF Finds
<1>2. 0 \in T
  <2>1. ASSUME NEW n \in Nat \ {0}, n + 0 > UserLimit PROVE Finds(g[n], n, size)
    <3>1. n + size > UserLimit
      BY <2>1
    <3> QED
      BY <1>1, <3>1
  <2> QED
    BY <2>1
<1>3. ASSUME NEW k \in 0 .. UserLimit + 1, k \in T, k < UserLimit + 1
      PROVE  k + 1 \in T
  <2>1. ASSUME NEW n \in Nat \ {0}, n % Granule = 0, n + (k + 1) > UserLimit
        PROVE  Finds(g[n], n, size)
    <3>1. CASE n + size > UserLimit
      BY <1>1, <3>1
    <3>2. CASE ~(n + size > UserLimit) /\ Met(n, size) = {}
      <4>1. g[n] = n
        BY <1>0, <3>2 DEF Turn
      <4>2. IsFreeRange(n, size)
        BY <2>1, <3>2 DEF IsFreeRange, OverlapsExisting, Met
      <4>3. n .. n - 1 = {}
        OBVIOUS
      <4> QED
        BY <4>1, <4>2, <4>3 DEF Finds
    <3>3. CASE ~(n + size > UserLimit) /\ Met(n, size) # {}
      <4> DEFINE e == Behind(n, size)
      <4>1. e \in Nat /\ n < e /\ e % Granule = 0 /\ \A d \in n .. e - 1 : ~IsFreeRange(d, size)
        BY <3>3, BehindFacts
      <4>2. g[n] = g[e]
        BY <1>0, <3>3 DEF Turn
      <4> HIDE DEF e
      <4>3. e \in Nat \ {0} /\ e + k > UserLimit /\ n <= e
        BY <2>1, <4>1
      <4>4. Finds(g[e], e, size)
        BY <1>3, <4>1, <4>3
      <4>5. Finds(g[e], n, size)
        BY <4>1, <4>3, <4>4, FindsFromBelow
      <4> QED
        BY <4>2, <4>5
    <3> QED
      BY <3>1, <3>2, <3>3
  <2>2. k + 1 \in Nat
    OBVIOUS
  <2> QED
    BY <2>1, <2>2
<1>4. UserLimit + 1 \in T
  <2> HIDE DEF T
  <2>1. UserLimit + 1 \in Nat /\ UserLimit + 1 \in 0 .. UserLimit + 1
    OBVIOUS
  <2>2. \A k \in 0 .. UserLimit + 1 : k \in T
    BY <1>2, <1>3, <2>1, Induction
  <2> QED
    BY <2>1, <2>2
<1>5. c + (UserLimit + 1) > UserLimit
  OBVIOUS
<1> QED
  BY <1>4, <1>5

\* FindFreeRange returns what its loop finds from the granule next_auto_addr_ is rounded
\* up to, and no granule below that one is free.
LEMMA SearchSound ==
    ASSUME VmInv, NEW size \in Nat \ {0}
    PROVE  Finds(FindFreeRange(size), nextAuto, size)
<1> DEFINE f == CHOOSE g : g = [c \in Nat |->
                    IF c + size > UserLimit THEN 0
                    ELSE LET met == {r \in regions : Overlaps(r, c, size)}
                         IN  IF met = {} THEN c
                             ELSE LET first == Min({r.base : r \in met})
                                      r == CHOOSE x \in met : x.base = first
                                  IN  g[AlignUp(End(r), Granule)]]
           start == AlignUp(nextAuto, Granule)
<1>1. FindFreeRange(size) = f[start]
  BY DEF FindFreeRange
<1>2. \E g : g = [c \in Nat |-> Turn(g, c, size)]
  BY SearchRecursion
<1>3. f = [c \in Nat |-> Turn(f, c, size)]
  BY <1>2 DEF Turn, Met, FirstMet, Behind
<1> HIDE DEF f
<1>4. nextAuto \in Nat \ {0} /\ Granule \in Nat \ {0}
  BY VmAssumption DEF VmInv, VmTypeOK
<1>5. /\ start \in Nat /\ nextAuto <= start /\ start % Granule = 0
      /\ \A d \in Nat : d % Granule = 0 /\ d < start => d < nextAuto
  BY <1>4, AlignUpFacts, Zenon
<1> HIDE DEF start
<1>6. start \in Nat \ {0}
  BY <1>4, <1>5
<1>7. Finds(f[start], start, size)
  BY <1>3, <1>5, <1>6, LoopFinds
<1>8. ASSUME NEW d \in nextAuto .. start - 1 PROVE ~IsFreeRange(d, size)
  <2>1. d \in Nat /\ d < start /\ ~(d < nextAuto)
    BY <1>4, <1>5
  <2> QED
    BY <1>5, <2>1 DEF IsFreeRange
<1> QED
  BY <1>1, <1>4, <1>5, <1>7, <1>8, FindsFromBelow

\* The loop of FindFreeRange returns the lowest free granule from next_auto_addr_ on, and
\* gives up only when there is none, however the regions came to lie.
THEOREM VmSearchFindsFirst == VmSpec => []SearchFindsFirst
<1>1. ASSUME VmInv PROVE SearchFindsFirst
  <2> SUFFICES ASSUME NEW size \in 1 .. MaxSize
               PROVE  IF FindFreeRange(size) = 0
                      THEN \A d \in nextAuto .. UserLimit : ~IsFreeRange(d, size)
                      ELSE IsFirstFree(FindFreeRange(size), size)
    BY DEF SearchFindsFirst
  <2>1. size \in Nat \ {0}
    BY VmAssumption
  <2>2. Finds(FindFreeRange(size), nextAuto, size)
    BY <1>1, <2>1, SearchSound
  <2> QED
    BY <2>2 DEF Finds, IsFirstFree
<1>2. VmInv => SearchFindsFirst
  BY <1>1
<1> QED
  BY <1>2, VmStart, VmStep, PTL DEF VmSpec
=============================================================================

--------------------------- MODULE XbeLoadProofs ---------------------------
(***************************************************************************)
(* A boot is all or nothing, for every address space, image and medium.    *)
(*                                                                         *)
(* The invariant of a load in progress, LoadGood, has two halves.  Undoable *)
(* is what a rollback needs: it undoes the patches from the last to the    *)
(* first, so the first patch of a cell decides, and that one was taken     *)
(* before anything was written there, since every write has a backup of    *)
(* its whole range before it (Pending).  InPlace is what success needs:    *)
(* each byte of the image is in memory, or the steps to come end with it   *)
(* (Says, for the last step that writes an address).                       *)
(***************************************************************************)
EXTENDS XbeLoad, SequenceTheorems, WellFoundedInduction, TLAPS

-----------------------------------------------------------------------------
(* Numbers.                                                                 *)

\* A set of numbers that is not empty has a least element.
LEMMA LeastElement ==
    ASSUME NEW T \in SUBSET Nat, T # {}
    PROVE  \E n \in T : \A m \in T : n <= m
<1> DEFINE R == {ss \in Nat \X Nat : ss[1] < ss[2]}
<1>1. IsWellFoundedOn(R, Nat)
  BY NatLessThanWellFounded DEF OpToRel
<1> HIDE DEF R
<1>2. PICK n \in T : \A m \in T : ~(<<m, n>> \in R)
  BY <1>1, WFMin, Zenon
<1>3. \A m \in T : ~(m < n)
  BY <1>2, Zenon DEF R
<1> QED
  BY <1>3

\* A set of numbers that holds 0, and with a number below n the next, holds all up to n.
LEMMA Induction ==
    ASSUME NEW n \in Nat, NEW T, 0 \in T, \A i \in 0 .. n : i \in T /\ i < n => i + 1 \in T
    PROVE  \A i \in 0 .. n : i \in T
<1> DEFINE F == {i \in 0 .. n : i \notin T}
<1>1. ASSUME F # {} PROVE FALSE
  <2> F \in SUBSET Nat
    OBVIOUS
  <2>1. PICK m \in F : \A k \in F : m <= k
    BY <1>1, LeastElement, Zenon
  <2>2. m \in 0 .. n /\ m # 0 /\ m - 1 \in 0 .. n /\ m - 1 \notin F
    BY <2>1
  <2>3. m - 1 \in T /\ m - 1 < n /\ (m - 1) + 1 = m
    BY <2>1, <2>2
  <2> QED
    BY <2>1, <2>3
<1> QED
  BY <1>1

-----------------------------------------------------------------------------
(* The address space.                                                       *)

Cells == 0 .. (RamSize - 1)

\* Regions do not overlap, and those of RAM lie in it.
SpaceOK ==
    /\ \A r \in space : r.base \in Nat /\ r.size \in Nat /\ r.offset \in Nat
    /\ \A r \in space : r.type = "Ram" => r.offset + r.size <= RamSize
    /\ \A r, o \in space : r = o \/ r.base + r.size <= o.base \/ o.base + o.size <= r.base

Holds(r, a) == r.base <= a /\ a < r.base + r.size

\* An address lies in one region only, which gives its cell.
LEMMA CellIn ==
    ASSUME SpaceOK, NEW r \in space, NEW a \in Int, Holds(r, a)
    PROVE  CellOf(a) = r.offset + (a - r.base)
<1>1. r.base <= a /\ a < r.base + r.size
  BY DEF Holds
<1>2. \A o \in space : o.base <= a /\ a < o.base + o.size => o = r
  <2> TAKE o \in space
  <2> HAVE o.base <= a /\ a < o.base + o.size
  <2>1. r.base \in Nat /\ r.size \in Nat /\ o.base \in Nat /\ o.size \in Nat
    BY DEF SpaceOK
  <2>2. ~(r.base + r.size <= o.base) /\ ~(o.base + o.size <= r.base)
    BY <1>1, <2>1
  <2> QED
    BY <2>2, Zenon DEF SpaceOK
<1>3. (CHOOSE o \in space : o.base <= a /\ a < o.base + o.size) = r
  BY <1>1, <1>2, Zenon
<1> QED
  BY <1>3, Zenon DEF CellOf

\* The region an accessible range lies in.
InRam(r, base, size, perm) ==
    /\ r \in space /\ r.type = "Ram" /\ perm \in r.perms
    /\ r.base <= base /\ base + size <= r.base + r.size

LEMMA AccessibleIs ==
    ASSUME NEW base, NEW size, size # 0, NEW perm
    PROVE  Accessible(base, size, perm) <=> \E r : InRam(r, base, size, perm)
BY Zenon DEF Accessible, Resolve, InRam

\* The cells of a range in a region of RAM, one for each address.
LEMMA CellsOfRange ==
    ASSUME SpaceOK, NEW base \in Nat, NEW size \in Nat, NEW perm, NEW r,
           InRam(r, base, size, perm), NEW k \in 1 .. size
    PROVE  /\ CellOf(base + k - 1) = r.offset + ((base + k - 1) - r.base)
           /\ CellOf(base + k - 1) \in Cells
<1>1. /\ r \in space /\ r.base \in Nat /\ r.size \in Nat /\ r.offset \in Nat
      /\ r.offset + r.size <= RamSize /\ r.base <= base /\ base + size <= r.base + r.size
  BY DEF InRam, SpaceOK
<1> DEFINE a == base + k - 1
<1>2. a \in Int /\ r.base <= a /\ a < r.base + r.size
  BY <1>1
<1>3. CellOf(a) = r.offset + (a - r.base)
  BY <1>1, <1>2, CellIn DEF Holds
<1>4. r.offset + (a - r.base) \in Cells
  BY <1>1, <1>2, BootAssumption DEF Cells
<1> QED
  BY <1>3, <1>4

-----------------------------------------------------------------------------
(* Writes and their undoing.                                                *)

\* A write of data at base reaches cell c.
Reaches(base, data, c) ==
    /\ Accessible(base, Len(data), "Write")
    /\ \E k \in 1 .. Len(data) : CellOf(base + k - 1) = c

\* What it leaves there.
Value(base, data, c) == data[CHOOSE k \in 1 .. Len(data) : CellOf(base + k - 1) = c]

\* A content of RAM.
IsMemory(m) == m = [c \in Cells |-> m[c]]

\* u is the memory m after data was written from base on.
Written(m, base, data, u) ==
    /\ IsMemory(u)
    /\ \A c \in Cells : u[c] = IF Reaches(base, data, c) THEN Value(base, data, c) ELSE m[c]

\* WriteBytes, cell by cell.
LEMMA WriteFacts ==
    ASSUME NEW m, IsMemory(m), NEW base, NEW data
    PROVE  Written(m, base, data, WriteBytes(m, base, data))
<1>0. DOMAIN m = Cells
  BY DEF IsMemory
<1>1. CASE ~Accessible(base, Len(data), "Write")
  BY <1>1 DEF WriteBytes, Reaches, Written
<1>2. CASE Accessible(base, Len(data), "Write")
  <2>1. WriteBytes(m, base, data) =
          [c \in Cells |->
            IF \E k \in 1..Len(data) : CellOf(base + k - 1) = c
            THEN data[CHOOSE k \in 1..Len(data) : CellOf(base + k - 1) = c]
            ELSE m[c]]
    BY <1>0, <1>2, Zenon DEF WriteBytes
  <2> DEFINE w == WriteBytes(m, base, data)
  <2>2. \A c \in Cells : w[c] = IF Reaches(base, data, c) THEN Value(base, data, c) ELSE m[c]
    BY <1>2, <2>1, Zenon DEF Reaches, Value
  <2>3. w = [c \in Cells |-> w[c]]
    BY <2>1
  <2> QED
    BY <2>2, <2>3 DEF IsMemory, Written
<1> QED
  BY <1>1, <1>2


\* The patch q, made by a Backup, can put back what is in cell c.
Restores(q, c) == Reaches(q.base, q.original, c)
Original(q, c) == Value(q.base, q.original, c)

\* RollbackPatches' loop: f gives the memory after each number of patches undone.
IsUndo(f, m, patches) ==
    LET n == Len(patches)
    IN  f = [k \in 0 .. n |->
               IF k = 0 THEN m
               ELSE WriteBytes(f[k - 1], patches[n + 1 - k].base, patches[n + 1 - k].original)]

\* There is such a function.
LEMMA UndoExists ==
    ASSUME NEW m, NEW patches, Len(patches) \in Nat
    PROVE  \E f : IsUndo(f, m, patches)
<1> DEFINE n == Len(patches)
           Turn(f, i) == IF i = 0 THEN m
                         ELSE WriteBytes(f[i - 1], patches[n + 1 - i].base, patches[n + 1 - i].original)
           T == {k \in 0 .. n : \E f : f = [i \in 0 .. k |-> Turn(f, i)]}
<1>1. 0 \in T
  <2> DEFINE f == [i \in 0 .. 0 |-> m]
  <2>1. \A i \in 0 .. 0 : Turn(f, i) = m
    OBVIOUS
  <2>2. f = [i \in 0 .. 0 |-> Turn(f, i)]
    BY <2>1
  <2> HIDE DEF f, Turn
  <2> QED
    BY <2>2
<1>2. ASSUME NEW k \in 0 .. n, k \in T, k < n PROVE k + 1 \in T
  <2>1. PICK f : f = [i \in 0 .. k |-> Turn(f, i)]
    BY <1>2
  <2> DEFINE g == [i \in 0 .. k + 1 |-> IF i = k + 1 THEN Turn(f, k + 1) ELSE f[i]]
  <2>2. ASSUME NEW i \in 0 .. k + 1 PROVE g[i] = Turn(g, i)
    <3>1. CASE i = k + 1
      <4>1. g[i - 1] = f[i - 1] /\ g[i] = Turn(f, i)
        BY <3>1
      <4> QED
        BY <4>1
    <3>2. CASE i # k + 1
      <4>1. i \in 0 .. k /\ g[i] = f[i] /\ (i # 0 => i - 1 \in 0 .. k /\ g[i - 1] = f[i - 1])
        BY <3>2
      <4>2. f[i] = Turn(f, i)
        BY <2>1, <4>1
      <4> QED
        BY <4>1, <4>2
    <3> QED
      BY <3>1, <3>2
  <2>3. g = [i \in 0 .. k + 1 |-> g[i]]
    OBVIOUS
  <2> HIDE DEF g, Turn
  <2>4. g = [i \in 0 .. k + 1 |-> Turn(g, i)]
    BY <2>2, <2>3
  <2> QED
    BY <1>2, <2>4
<1>3. n \in T
  <2> HIDE DEF T
  <2>1. \A k \in 0 .. n : k \in T /\ k < n => k + 1 \in T
    BY <1>2
  <2> HIDE DEF n
  <2>2. \A k \in 0 .. n : k \in T
    BY <1>1, <2>1, Induction DEF n
  <2> QED
    BY <2>2 DEF n
<1>4. PICK f : f = [i \in 0 .. n |-> Turn(f, i)]
  BY <1>3
<1>5. IsUndo(f, m, patches)
  BY <1>4, Zenon DEF IsUndo
<1> QED
  BY <1>5

\* The first of the patches that can restore a cell decides what RollbackPatches leaves in
\* it: the patches are undone last to first.
LEMMA RollbackFacts ==
    ASSUME NEW m, IsMemory(m), NEW patches, Len(patches) \in Nat
    PROVE  LET u == RollbackPatches(m, patches) IN
           /\ IsMemory(u)
           /\ \A c \in Cells :
                 \/ /\ \A q \in 1 .. Len(patches) : ~Restores(patches[q], c)
                    /\ u[c] = m[c]
                 \/ \E q \in 1 .. Len(patches) :
                       /\ Restores(patches[q], c) /\ u[c] = Original(patches[q], c)
                       /\ \A p \in 1 .. q - 1 : ~Restores(patches[p], c)
<1> DEFINE n == Len(patches)
           undo == CHOOSE f : IsUndo(f, m, patches)
           Good(k, c) ==
              \/ /\ \A q \in n + 1 - k .. n : ~Restores(patches[q], c)
                 /\ undo[k][c] = m[c]
              \/ \E q \in n + 1 - k .. n :
                    /\ Restores(patches[q], c) /\ undo[k][c] = Original(patches[q], c)
                    /\ \A p \in n + 1 - k .. q - 1 : ~Restores(patches[p], c)
           T == {k \in 0 .. n : IsMemory(undo[k]) /\ \A c \in Cells : Good(k, c)}
<1>0. n \in Nat
  OBVIOUS
<1>1. RollbackPatches(m, patches) = undo[n]
  BY Zenon DEF RollbackPatches, IsUndo
<1>2. IsUndo(undo, m, patches)
  BY UndoExists, Zenon
<1>3. undo = [k \in 0 .. n |->
               IF k = 0 THEN m
               ELSE WriteBytes(undo[k - 1], patches[n + 1 - k].base, patches[n + 1 - k].original)]
  BY <1>2, Zenon DEF IsUndo
<1> HIDE DEF n, undo
<1>4. undo[0] = m
  BY <1>0, <1>3
<1>5. ASSUME NEW k \in 1 .. n
      PROVE  undo[k] = WriteBytes(undo[k - 1], patches[n + 1 - k].base, patches[n + 1 - k].original)
  <2>1. k \in 0 .. n /\ k # 0
    BY <1>0
  <2> QED
    BY <1>3, <2>1, Zenon
<1>6. 0 \in T
  <2>1. n + 1 - 0 .. n = {}
    BY <1>0
  <2>2. \A c \in Cells : Good(0, c)
    BY <1>4, <2>1
  <2> QED
    BY <1>0, <1>4, <2>2
<1>7. ASSUME NEW k \in 0 .. n, k \in T, k < n PROVE k + 1 \in T
  <2> DEFINE q == n - k
             b == patches[q].base
             d == patches[q].original
  <2>1. k + 1 \in 1 .. n /\ (k + 1) - 1 = k /\ n + 1 - (k + 1) = q /\ q \in 1 .. n
        /\ k + 1 \in 0 .. n
    BY <1>0, <1>7
  <2>2. undo[k + 1] = WriteBytes(undo[k], b, d)
    BY <1>5, <2>1
  <2>3. IsMemory(undo[k]) /\ \A c \in Cells : Good(k, c)
    BY <1>7
  <2>4. /\ IsMemory(undo[k + 1])
        /\ \A c \in Cells : undo[k + 1][c] = IF Restores(patches[q], c) THEN Original(patches[q], c)
                                             ELSE undo[k][c]
    BY <2>2, <2>3, WriteFacts DEF Written, Restores, Original
  <2>5. \A p : p \in n + 1 - (k + 1) .. n <=> p = q \/ p \in n + 1 - k .. n
    BY <1>0, <1>7, <2>1
  <2>6. q \notin n + 1 - k .. n /\ n + 1 - (k + 1) .. q - 1 = {}
    BY <1>0, <1>7, <2>1
  <2> HIDE DEF q, b, d
  <2>7. ASSUME NEW c \in Cells PROVE Good(k + 1, c)
    <3>1. CASE Restores(patches[q], c)
      <4>1. undo[k + 1][c] = Original(patches[q], c)
        BY <2>4, <3>1
      <4>2. q \in n + 1 - (k + 1) .. n
        BY <2>5
      <4> QED
        BY <2>6, <3>1, <4>1, <4>2, Zenon
    <3>2. CASE ~Restores(patches[q], c)
      <4>1. undo[k + 1][c] = undo[k][c]
        BY <2>4, <3>2
      <4>2. CASE (\A p \in n + 1 - k .. n : ~Restores(patches[p], c)) /\ undo[k][c] = m[c]
        BY <2>5, <3>2, <4>1, <4>2, Zenon
      <4>3. CASE \E x \in n + 1 - k .. n :
                    /\ Restores(patches[x], c) /\ undo[k][c] = Original(patches[x], c)
                    /\ \A p \in n + 1 - k .. x - 1 : ~Restores(patches[p], c)
        <5>1. PICK x \in n + 1 - k .. n :
                    /\ Restores(patches[x], c) /\ undo[k][c] = Original(patches[x], c)
                    /\ \A p \in n + 1 - k .. x - 1 : ~Restores(patches[p], c)
          BY <4>3
        <5>2. x \in n + 1 - (k + 1) .. n
          BY <2>5
        <5>3. \A p \in n + 1 - (k + 1) .. x - 1 : p = q \/ p \in n + 1 - k .. x - 1
          BY <1>0, <1>7, <2>1
        <5>4. \A p \in n + 1 - (k + 1) .. x - 1 : ~Restores(patches[p], c)
          BY <3>2, <5>1, <5>3, Zenon
        <5> QED
          BY <4>1, <5>1, <5>2, <5>4, Zenon
      <4> QED
        BY <2>3, <4>2, <4>3, Zenon
    <3> QED
      BY <3>1, <3>2
  <2> HIDE DEF Good
  <2> QED
    BY <2>1, <2>4, <2>7
<1>8. IsMemory(undo[n]) /\ \A c \in Cells : Good(n, c)
  <2>1. \A k \in 0 .. n : k \in T /\ k < n => k + 1 \in T
    BY <1>7
  <2> HIDE DEF T
  <2>2. \A k \in 0 .. n : k \in T
    BY <1>0, <1>6, <2>1, Induction
  <2>3. n \in T
    BY <1>0, <2>2
  <2> HIDE DEF Good
  <2> QED
    BY <2>3 DEF T
<1>9. n + 1 - n = 1
  BY <1>0
<1> QED
  BY <1>1, <1>8, <1>9, Zenon DEF n

-----------------------------------------------------------------------------
(* Sequences that are put together.                                         *)

\* A function on an initial segment of the numbers is a sequence.
LEMMA FunctionIsSeq ==
    ASSUME NEW S, NEW n \in Nat, NEW f \in [1 .. n -> S]
    PROVE  f \in Seq(S) /\ Len(f) = n
BY SeqDef, LenProperties

\* Concatenation, element by element.
LEMMA Joined ==
    ASSUME NEW S, NEW s \in Seq(S), NEW t \in Seq(S)
    PROVE  /\ s \o t \in Seq(S) /\ Len(s) \in Nat /\ Len(t) \in Nat
           /\ Len(s \o t) = Len(s) + Len(t) /\ DOMAIN (s \o t) = 1 .. (Len(s) + Len(t))
           /\ \A i \in 1 .. Len(s) : (s \o t)[i] = s[i]
           /\ \A i \in 1 .. Len(t) : (s \o t)[Len(s) + i] = t[i]
<1>1. /\ s \o t \in Seq(S) /\ Len(s \o t) = Len(s) + Len(t)
      /\ \A i \in 1 .. Len(s) + Len(t) :
            (s \o t)[i] = IF i <= Len(s) THEN s[i] ELSE t[i - Len(s)]
  BY ConcatProperties
<1>2. Len(s) \in Nat /\ Len(t) \in Nat /\ DOMAIN (s \o t) = 1 .. Len(s \o t)
  BY <1>1, LenProperties
<1>3. ASSUME NEW i \in 1 .. Len(s) PROVE (s \o t)[i] = s[i]
  <2>1. i \in 1 .. Len(s) + Len(t) /\ i <= Len(s)
    BY <1>2
  <2> QED
    BY <1>1, <2>1
<1>4. ASSUME NEW i \in 1 .. Len(t) PROVE (s \o t)[Len(s) + i] = t[i]
  <2>1. Len(s) + i \in 1 .. Len(s) + Len(t) /\ ~(Len(s) + i <= Len(s)) /\ (Len(s) + i) - Len(s) = i
    BY <1>2
  <2> QED
    BY <1>1, <2>1
<1> QED
  BY <1>1, <1>2, <1>3, <1>4

\* Flatten's loop, and the first i sequences of q put together.
IsFlat(f, q) == f = [i \in 0 .. Len(q) |-> IF i = 0 THEN <<>> ELSE f[i - 1] \o q[i]]
Upto(q, i) == (CHOOSE f : IsFlat(f, q))[i]

LEMMA FlatExists ==
    ASSUME NEW q, Len(q) \in Nat
    PROVE  \E f : IsFlat(f, q)
<1> DEFINE n == Len(q)
           Turn(f, i) == IF i = 0 THEN <<>> ELSE f[i - 1] \o q[i]
           T == {k \in 0 .. n : \E f : f = [i \in 0 .. k |-> Turn(f, i)]}
<1>1. 0 \in T
  <2> DEFINE f == [i \in 0 .. 0 |-> <<>>]
  <2>1. \A i \in 0 .. 0 : Turn(f, i) = <<>>
    OBVIOUS
  <2>2. f = [i \in 0 .. 0 |-> Turn(f, i)]
    BY <2>1
  <2> HIDE DEF f, Turn
  <2> QED
    BY <2>2
<1>2. ASSUME NEW k \in 0 .. n, k \in T, k < n PROVE k + 1 \in T
  <2>1. PICK f : f = [i \in 0 .. k |-> Turn(f, i)]
    BY <1>2, Zenon
  <2> DEFINE g == [i \in 0 .. k + 1 |-> IF i = k + 1 THEN Turn(f, k + 1) ELSE f[i]]
  <2>2. ASSUME NEW i \in 0 .. k + 1 PROVE g[i] = Turn(g, i)
    <3>1. CASE i = k + 1
      <4>1. g[i - 1] = f[i - 1] /\ g[i] = Turn(f, i)
        BY <3>1
      <4> QED
        BY <4>1
    <3>2. CASE i # k + 1
      <4>1. i \in 0 .. k /\ g[i] = f[i] /\ (i # 0 => i - 1 \in 0 .. k /\ g[i - 1] = f[i - 1])
        BY <3>2
      <4>2. f[i] = Turn(f, i)
        BY <2>1, <4>1
      <4> QED
        BY <4>1, <4>2
    <3> QED
      BY <3>1, <3>2
  <2>3. g = [i \in 0 .. k + 1 |-> g[i]]
    OBVIOUS
  <2> HIDE DEF g, Turn
  <2>4. g = [i \in 0 .. k + 1 |-> Turn(g, i)]
    BY <2>2, <2>3
  <2> QED
    BY <1>2, <2>4
<1>3. n \in T
  <2> HIDE DEF T
  <2>1. \A k \in 0 .. n : k \in T /\ k < n => k + 1 \in T
    BY <1>2
  <2> HIDE DEF n
  <2>2. \A k \in 0 .. n : k \in T
    BY <1>1, <2>1, Induction DEF n
  <2> QED
    BY <2>2 DEF n
<1>4. PICK f : f = [i \in 0 .. n |-> Turn(f, i)]
  BY <1>3, Zenon
<1>5. IsFlat(f, q)
  BY <1>4, Zenon DEF IsFlat
<1> QED
  BY <1>5

\* Flatten puts the sequences of q together, one after the other.
LEMMA FlattenFacts ==
    ASSUME NEW S, NEW q \in Seq(Seq(S))
    PROVE  /\ Len(q) \in Nat /\ Flatten(q) = Upto(q, Len(q))
           /\ Upto(q, 0) = <<>>
           /\ \A i \in 1 .. Len(q) : q[i] \in Seq(S) /\ Upto(q, i) = Upto(q, i - 1) \o q[i]
           /\ \A i \in 0 .. Len(q) : Upto(q, i) \in Seq(S)
<1> DEFINE n == Len(q)
           f == CHOOSE f : IsFlat(f, q)
<1>0. n \in Nat /\ \A i \in 1 .. n : q[i] \in Seq(S)
  BY LenProperties, ElementOfSeq
<1>1. Flatten(q) = Upto(q, n)
  BY Zenon DEF Flatten, Upto, IsFlat
<1>2. IsFlat(f, q)
  BY <1>0, FlatExists, Zenon
<1>3. f = [i \in 0 .. n |-> IF i = 0 THEN <<>> ELSE f[i - 1] \o q[i]]
  BY <1>2, Zenon DEF IsFlat
<1>8. \A i : Upto(q, i) = f[i]
  BY Zenon DEF Upto
<1> HIDE DEF n, f
<1>9. Upto(q, 0) = <<>>
  <2>1. 0 \in 0 .. n
    BY <1>0
  <2>2. f[0] = <<>>
    BY <1>3, <2>1
  <2> QED
    BY <1>8, <2>2, Zenon
<1>4. ASSUME NEW i \in 1 .. n PROVE Upto(q, i) = Upto(q, i - 1) \o q[i]
  <2>1. i \in 0 .. n /\ i # 0
    BY <1>0
  <2>2. f[i] = f[i - 1] \o q[i]
    BY <1>3, <2>1, Zenon
  <2> QED
    BY <1>8, <2>2, Zenon
<1> DEFINE T == {k \in 0 .. n : Upto(q, k) \in Seq(S)}
<1>5. 0 \in T
  <2>1. <<>> \in Seq(S)
    OBVIOUS
  <2>2. Upto(q, 0) \in Seq(S)
    BY <1>9, <2>1, Zenon
  <2> QED
    BY <1>0, <2>2
<1>6. ASSUME NEW k \in 0 .. n, k \in T, k < n PROVE k + 1 \in T
  <2>1. k + 1 \in 1 .. n /\ (k + 1) - 1 = k /\ k + 1 \in 0 .. n
    BY <1>0, <1>6
  <2>2. Upto(q, k + 1) = Upto(q, k) \o q[k + 1]
    BY <1>4, <2>1, Zenon
  <2>3. q[k + 1] \in Seq(S) /\ Upto(q, k) \in Seq(S)
    BY <1>0, <1>6, <2>1
  <2>4. Upto(q, k + 1) \in Seq(S)
    BY <2>2, <2>3, ConcatProperties, Zenon
  <2> QED
    BY <2>1, <2>4
<1>7. \A k \in 0 .. n : Upto(q, k) \in Seq(S)
  <2>1. \A k \in 0 .. n : k \in T /\ k < n => k + 1 \in T
    BY <1>6
  <2> HIDE DEF T
  <2>2. \A k \in 0 .. n : k \in T
    BY <1>0, <1>5, <2>1, Induction, Zenon
  <2> QED
    BY <2>2 DEF T
<1> QED
  BY <1>0, <1>1, <1>4, <1>7, <1>9, Zenon DEF n

-----------------------------------------------------------------------------
(* What a sequence of steps writes.                                         *)

Token == {"head", "section", "zero", "thunk"} \X Nat \X Nat
Step == [op : {"Backup", "Read", "Write"}, base : Nat, size : Nat, data : Seq(Token)]

\* The step h writes to guest address a, and what it writes there.
Covers(h, a) == h.op = "Write" /\ a \in Span(h.base, Len(h.data))
Byte(h, a) == h.data[(a - h.base) + 1]

\* No step of s writes to a; the last step of s that does leaves v there.
Silent(s, a) == \A j \in 1 .. Len(s) : ~Covers(s[j], a)
Says(s, a, v) ==
    \E j \in 1 .. Len(s) : /\ Covers(s[j], a) /\ Byte(s[j], a) = v
                           /\ \A l \in 1 .. Len(s) : l > j => ~Covers(s[l], a)

\* Steps that do not write to a leave what the steps before them wrote.
LEMMA SaysJoined ==
    ASSUME NEW s \in Seq(Step), NEW t \in Seq(Step), NEW a, NEW v
    PROVE  /\ Says(t, a, v) => Says(s \o t, a, v)
           /\ Says(s, a, v) /\ Silent(t, a) => Says(s \o t, a, v)
           /\ Silent(s, a) /\ Silent(t, a) => Silent(s \o t, a)
<1> DEFINE m == Len(s)
           n == Len(t)
           u == s \o t
<1>1. /\ m \in Nat /\ n \in Nat /\ Len(u) = m + n
      /\ \A i \in 1 .. m : u[i] = s[i]
      /\ \A i \in 1 .. n : u[m + i] = t[i]
  BY Joined
<1>2. \A i \in 1 .. Len(u) : i \in 1 .. m \/ (i - m \in 1 .. n /\ i = m + (i - m))
  BY <1>1
<1> HIDE DEF m, n, u
<1>3. ASSUME Says(t, a, v) PROVE Says(u, a, v)
  <2>1. PICK j \in 1 .. n : /\ Covers(t[j], a) /\ Byte(t[j], a) = v
                            /\ \A l \in 1 .. n : l > j => ~Covers(t[l], a)
    BY <1>3 DEF Says, n
  <2>2. m + j \in 1 .. Len(u) /\ u[m + j] = t[j]
    BY <1>1
  <2>3. ASSUME NEW l \in 1 .. Len(u), l > m + j PROVE ~Covers(u[l], a)
    <3>1. l - m \in 1 .. n /\ l = m + (l - m) /\ l - m > j
      BY <1>1, <2>3
    <3>2. u[l] = t[l - m]
      BY <1>1, <3>1
    <3> QED
      BY <2>1, <3>1, <3>2
  <2> QED
    BY <2>1, <2>2, <2>3 DEF Says
<1>4. ASSUME Says(s, a, v), Silent(t, a) PROVE Says(u, a, v)
  <2>1. PICK j \in 1 .. m : /\ Covers(s[j], a) /\ Byte(s[j], a) = v
                            /\ \A l \in 1 .. m : l > j => ~Covers(s[l], a)
    BY <1>4 DEF Says, m
  <2>2. j \in 1 .. Len(u) /\ u[j] = s[j]
    BY <1>1
  <2>3. ASSUME NEW l \in 1 .. Len(u), l > j PROVE ~Covers(u[l], a)
    <3>1. CASE l \in 1 .. m
      <4>1. u[l] = s[l]
        BY <1>1, <3>1
      <4> QED
        BY <2>1, <2>3, <3>1, <4>1
    <3>2. CASE l - m \in 1 .. n /\ l = m + (l - m)
      <4>1. u[l] = t[l - m]
        BY <1>1, <3>2
      <4> QED
        BY <1>4, <3>2, <4>1 DEF Silent, n
    <3> QED
      BY <1>2, <3>1, <3>2
  <2> QED
    BY <2>1, <2>2, <2>3 DEF Says
<1>5. ASSUME Silent(s, a), Silent(t, a), NEW l \in 1 .. Len(u) PROVE ~Covers(u[l], a)
  <2>1. CASE l \in 1 .. m
    BY <1>1, <1>5, <2>1 DEF Silent, m
  <2>2. CASE l - m \in 1 .. n /\ l = m + (l - m)
    <3>1. u[l] = t[l - m]
      BY <1>1, <2>2
    <3> QED
      BY <1>5, <2>2, <3>1 DEF Silent, n
  <2> QED
    BY <1>2, <2>1, <2>2
<1> QED
  BY <1>3, <1>4, <1>5 DEF Silent, u

\* The last of the sequences of q that writes to a decides what is left there.
LEMMA SaysFlat ==
    ASSUME NEW q \in Seq(Seq(Step)), NEW a, NEW v
    PROVE  /\ (\A i \in 1 .. Len(q) : Silent(q[i], a)) => Silent(Flatten(q), a)
           /\ (\E i \in 1 .. Len(q) : /\ Says(q[i], a, v)
                                      /\ \A l \in 1 .. Len(q) : l > i => Silent(q[l], a))
              => Says(Flatten(q), a, v)
<1> DEFINE n == Len(q)
<1>1. /\ n \in Nat /\ Flatten(q) = Upto(q, n) /\ Upto(q, 0) = <<>>
      /\ \A i \in 1 .. n : q[i] \in Seq(Step) /\ Upto(q, i) = Upto(q, i - 1) \o q[i]
      /\ \A i \in 0 .. n : Upto(q, i) \in Seq(Step)
  BY FlattenFacts, Zenon
<1> HIDE DEF n
<1>0. ASSUME NEW k \in 0 .. n, k < n
      PROVE  /\ k + 1 \in 1 .. n /\ k + 1 \in 0 .. n /\ Upto(q, k + 1) = Upto(q, k) \o q[k + 1]
             /\ q[k + 1] \in Seq(Step) /\ Upto(q, k) \in Seq(Step)
  <2>1. k + 1 \in 1 .. n /\ k + 1 \in 0 .. n /\ (k + 1) - 1 = k
    BY <1>0, <1>1
  <2> QED
    BY <1>1, <2>1, Zenon
<1>2. ASSUME \A i \in 1 .. n : Silent(q[i], a) PROVE Silent(Upto(q, n), a)
  <2> DEFINE T == {k \in 0 .. n : Silent(Upto(q, k), a)}
  <2>1. 0 \in T
    <3>1. Len(<<>>) = 0
      OBVIOUS
    <3>2. Silent(Upto(q, 0), a)
      BY <1>1, <3>1 DEF Silent
    <3> QED
      BY <1>1, <3>2
  <2>2. ASSUME NEW k \in 0 .. n, k \in T, k < n PROVE k + 1 \in T
    <3>1. Silent(Upto(q, k), a) /\ Silent(q[k + 1], a)
      BY <1>0, <1>2, <2>2
    <3>2. Silent(Upto(q, k + 1), a)
      BY <1>0, <2>2, <3>1, SaysJoined, Zenon
    <3> QED
      BY <1>0, <2>2, <3>2
  <2>3. \A k \in 0 .. n : k \in T /\ k < n => k + 1 \in T
    BY <2>2
  <2> HIDE DEF T
  <2>4. \A k \in 0 .. n : k \in T
    BY <1>1, <2>1, <2>3, Induction, Zenon
  <2>5. n \in T
    BY <1>1, <2>4
  <2> QED
    BY <2>5 DEF T
<1>3. ASSUME NEW i \in 1 .. n, Says(q[i], a, v), \A l \in 1 .. n : l > i => Silent(q[l], a)
      PROVE  Says(Upto(q, n), a, v)
  <2> DEFINE T == {k \in 0 .. n : k < i \/ Says(Upto(q, k), a, v)}
  <2>1. 0 \in T
    BY <1>1
  <2>2. ASSUME NEW k \in 0 .. n, k \in T, k < n PROVE k + 1 \in T
    <3>1. CASE k + 1 < i
      BY <1>0, <2>2, <3>1
    <3>2. CASE k + 1 = i
      <4>1. Says(Upto(q, k + 1), a, v)
        BY <1>0, <1>3, <2>2, <3>2, SaysJoined, Zenon
      <4> QED
        BY <1>0, <2>2, <4>1
    <3>3. CASE k + 1 > i
      <4>1. ~(k < i) /\ k + 1 \in 1 .. n
        BY <1>0, <2>2, <3>3
      <4>2. Says(Upto(q, k), a, v) /\ Silent(q[k + 1], a)
        BY <1>3, <2>2, <3>3, <4>1
      <4>3. Says(Upto(q, k + 1), a, v)
        BY <1>0, <2>2, <4>2, SaysJoined, Zenon
      <4> QED
        BY <1>0, <2>2, <4>3
    <3> QED
      BY <1>1, <3>1, <3>2, <3>3
  <2>3. \A k \in 0 .. n : k \in T /\ k < n => k + 1 \in T
    BY <2>2
  <2> HIDE DEF T
  <2>4. \A k \in 0 .. n : k \in T
    BY <1>1, <2>1, <2>3, Induction, Zenon
  <2>5. n \in T /\ ~(n < i)
    BY <1>1, <2>4
  <2> QED
    BY <2>5 DEF T
<1> QED
  BY <1>1, <1>2, <1>3 DEF n

\* A step less: what the rest of s writes to a, and what its first step does.
LEMMA SaysTail ==
    ASSUME NEW s \in Seq(Step), s # <<>>, NEW a, NEW v
    PROVE  /\ Head(s) \in Step /\ Tail(s) \in Seq(Step)
           /\ Says(s, a, v) =>
                 \/ Says(Tail(s), a, v)
                 \/ Silent(Tail(s), a) /\ Covers(Head(s), a) /\ Byte(Head(s), a) = v
           /\ Silent(s, a) => Silent(Tail(s), a) /\ ~Covers(Head(s), a)
<1> DEFINE n == Len(s)
           u == Tail(s)
<1>1. /\ n \in Nat \ {0} /\ Head(s) = s[1] /\ u \in Seq(Step) /\ Len(u) = n - 1
      /\ \A i \in 1 .. n - 1 : u[i] = s[i + 1]
  BY HeadTailProperties, LenProperties, EmptySeq
<1>2. Head(s) \in Step
  BY <1>1, ElementOfSeq
<1> HIDE DEF n, u
<1>3. ASSUME Says(s, a, v)
      PROVE  Says(u, a, v) \/ (Silent(u, a) /\ Covers(s[1], a) /\ Byte(s[1], a) = v)
  <2>1. PICK j \in 1 .. n : /\ Covers(s[j], a) /\ Byte(s[j], a) = v
                            /\ \A l \in 1 .. n : l > j => ~Covers(s[l], a)
    BY <1>3 DEF Says, n
  <2>2. \A l \in 1 .. Len(u) : l + 1 \in 1 .. n /\ u[l] = s[l + 1] /\ (l > j - 1 => l + 1 > j)
    BY <1>1
  <2>3. CASE j = 1
    <3>1. \A l \in 1 .. Len(u) : ~Covers(u[l], a)
      BY <1>1, <2>1, <2>2, <2>3
    <3> QED
      BY <2>1, <2>3, <3>1 DEF Silent
  <2>4. CASE j # 1
    <3>1. j - 1 \in 1 .. Len(u) /\ (j - 1) + 1 = j
      BY <1>1, <2>4
    <3>2. u[j - 1] = s[j]
      BY <2>2, <3>1
    <3>3. \A l \in 1 .. Len(u) : l > j - 1 => ~Covers(u[l], a)
      BY <2>1, <2>2
    <3> QED
      BY <2>1, <3>1, <3>2, <3>3 DEF Says
  <2> QED
    BY <2>3, <2>4
<1>4. ASSUME Silent(s, a) PROVE Silent(u, a) /\ ~Covers(s[1], a)
  <2>1. 1 \in 1 .. n /\ \A l \in 1 .. Len(u) : l + 1 \in 1 .. n /\ u[l] = s[l + 1]
    BY <1>1
  <2> QED
    BY <1>4, <2>1 DEF Silent, n
<1> QED
  BY <1>1, <1>2, <1>3, <1>4 DEF u

\* Sequences of no, one and two steps.
LEMMA ShortSteps ==
    ASSUME NEW S, NEW x \in S, NEW y \in S, NEW a
    PROVE  /\ <<>> \in Seq(S) /\ Silent(<<>>, a)
           /\ <<x>> \in Seq(S) /\ Len(<<x>>) = 1 /\ <<x>>[1] = x
           /\ <<x, y>> \in Seq(S) /\ Len(<<x, y>>) = 2 /\ <<x, y>>[1] = x /\ <<x, y>>[2] = y
           /\ ~Covers(x, a) => Silent(<<x>>, a)
           /\ Covers(x, a) => Says(<<x>>, a, Byte(x, a))
           /\ ~Covers(x, a) /\ ~Covers(y, a) => Silent(<<x, y>>, a)
           /\ Covers(y, a) => Says(<<x, y>>, a, Byte(y, a))
<1>1. /\ <<>> \in Seq(S) /\ Len(<<>>) = 0
      /\ <<x>> \in Seq(S) /\ Len(<<x>>) = 1 /\ <<x>>[1] = x
      /\ <<x, y>> \in Seq(S) /\ Len(<<x, y>>) = 2 /\ <<x, y>>[1] = x /\ <<x, y>>[2] = y
  OBVIOUS
<1> DEFINE o == <<x>>
           u == <<x, y>>
<1>2. Len(o) = 1 /\ o[1] = x /\ Len(u) = 2 /\ u[1] = x /\ u[2] = y
  BY <1>1
<1> HIDE DEF o, u
<1>3. Silent(<<>>, a)
  BY <1>1 DEF Silent
<1>4. /\ ~Covers(x, a) => Silent(o, a)
      /\ ~Covers(x, a) /\ ~Covers(y, a) => Silent(u, a)
  BY <1>2 DEF Silent
<1>5. Covers(x, a) => Says(o, a, Byte(x, a))
  BY <1>2 DEF Says
<1>6. Covers(y, a) => Says(u, a, Byte(y, a))
  BY <1>2 DEF Says
<1> QED
  BY <1>1, <1>3, <1>4, <1>5, <1>6 DEF o, u

\* A write of n cells at base.
LEMMA WriteStepFacts ==
    ASSUME NEW base \in Nat, NEW n \in Nat, NEW data \in [1 .. n -> Token]
    PROVE  LET w == WriteStep(base, data) IN
           /\ w \in Step /\ w.op = "Write" /\ w.base = base /\ w.size = n /\ Len(w.data) = n
           /\ \A a : Covers(w, a) <=> a \in Span(base, n)
           /\ \A a : Byte(w, a) = data[(a - base) + 1]
           /\ \A a \in Span(base, n) : (a - base) + 1 \in 1 .. n
<1> DEFINE w == WriteStep(base, data)
<1>1. data \in Seq(Token) /\ Len(data) = n
  BY FunctionIsSeq
<1>2. w = [op |-> "Write", base |-> base, size |-> n, data |-> data]
  BY <1>1 DEF WriteStep
<1> HIDE DEF w
<1>3. w \in Step /\ w.op = "Write" /\ w.base = base /\ w.size = n /\ w.data = data
  BY <1>1, <1>2 DEF Step
<1>4. \A a : (Covers(w, a) <=> a \in Span(base, n)) /\ Byte(w, a) = data[(a - base) + 1]
  BY <1>1, <1>3 DEF Covers, Byte
<1>5. \A a \in Span(base, n) : (a - base) + 1 \in 1 .. n
  BY DEF Span
<1> QED
  BY <1>1, <1>3, <1>4, <1>5 DEF w

\* A backup and a read of the source write nothing.
LEMMA QuietSteps ==
    ASSUME NEW base \in Nat, NEW size \in Nat
    PROVE  /\ Backup(base, size) \in Step /\ ReadSource \in Step
           /\ Backup(base, size).op = "Backup" /\ ReadSource.op = "Read"
           /\ Backup(base, size).base = base /\ Backup(base, size).size = size
           /\ \A a : ~Covers(Backup(base, size), a) /\ ~Covers(ReadSource, a)
<1> DEFINE b == Backup(base, size)
           r == ReadSource
<1>1. <<>> \in Seq(Token)
  OBVIOUS
<1>2. /\ b = [op |-> "Backup", base |-> base, size |-> size, data |-> <<>>]
      /\ r = [op |-> "Read", base |-> 0, size |-> 0, data |-> <<>>]
  BY DEF Backup, ReadSource
<1> HIDE DEF b, r
<1>3. b.op = "Backup" /\ r.op = "Read" /\ b.base = base /\ b.size = size
  BY <1>2
<1>4. b \in Step
  BY <1>1, <1>2 DEF Step
<1>5. r \in Step
  BY <1>1, <1>2 DEF Step
<1>6. \A a : ~Covers(b, a) /\ ~Covers(r, a)
  BY <1>3 DEF Covers
<1> QED
  BY <1>3, <1>4, <1>5, <1>6 DEF b, r

-----------------------------------------------------------------------------
(* Every write of Apply comes after a backup of what it overwrites.         *)

Elements(s) == {s[i] : i \in 1 .. Len(s)}

\* The step w changes memory; the backup b keeps all of what w overwrites.
Writing(w) == w.op = "Write" /\ w.size > 0
Shields(b, w) == b.op = "Backup" /\ b.base <= w.base /\ w.base + w.size <= b.base + b.size

\* A backup in B, or one earlier in t, shields every write of t.
GuardedBy(B, t) ==
    \A j \in 1 .. Len(t) :
        Writing(t[j]) => \/ \E b \in B : Shields(b, t[j])
                         \/ \E i \in 1 .. Len(t) : i < j /\ Shields(t[i], t[j])

LEMMA GuardJoined ==
    ASSUME NEW s \in Seq(Step), NEW t \in Seq(Step), NEW B, NEW D, GuardedBy(D, s), GuardedBy(B, t),
           B \subseteq D \cup Elements(s)
    PROVE  /\ GuardedBy(D, s \o t)
           /\ Elements(s) \subseteq Elements(s \o t) /\ Elements(t) \subseteq Elements(s \o t)
<1> DEFINE m == Len(s)
           n == Len(t)
           u == s \o t
<1>1. /\ m \in Nat /\ n \in Nat /\ Len(u) = m + n
      /\ \A i \in 1 .. m : u[i] = s[i]
      /\ \A i \in 1 .. n : u[m + i] = t[i]
  BY Joined
<1> HIDE DEF m, n, u
<1>2. \A i \in 1 .. Len(u) : i \in 1 .. m \/ (i - m \in 1 .. n /\ i = m + (i - m))
  BY <1>1
<1>3. ASSUME NEW i \in 1 .. m PROVE i \in 1 .. Len(u) /\ u[i] = s[i]
  BY <1>1
<1>4. Elements(s) \subseteq Elements(u) /\ Elements(t) \subseteq Elements(u)
  <2>1. \A i \in 1 .. n : m + i \in 1 .. Len(u) /\ u[m + i] = t[i]
    BY <1>1
  <2> QED
    BY <1>3, <2>1, Zenon DEF Elements, m, n
<1>5. ASSUME NEW j \in 1 .. Len(u), Writing(u[j])
      PROVE  \/ \E b \in D : Shields(b, u[j])
             \/ \E i \in 1 .. Len(u) : i < j /\ Shields(u[i], u[j])
  <2>1. CASE j \in 1 .. m
    <3>1. u[j] = s[j]
      BY <1>3, <2>1
    <3>2. CASE \E b \in D : Shields(b, s[j])
      BY <3>1, <3>2
    <3>3. CASE \E i \in 1 .. m : i < j /\ Shields(s[i], s[j])
      <4>1. PICK i \in 1 .. m : i < j /\ Shields(s[i], s[j])
        BY <3>3
      <4>2. i \in 1 .. Len(u) /\ u[i] = s[i]
        BY <1>3
      <4> QED
        BY <3>1, <4>1, <4>2
    <3> QED
      BY <1>5, <2>1, <3>1, <3>2, <3>3, Zenon DEF GuardedBy, m
  <2>2. CASE j - m \in 1 .. n /\ j = m + (j - m)
    <3> DEFINE k == j - m
    <3>1. k \in 1 .. n /\ u[j] = t[k] /\ j = m + k
      BY <1>1, <2>2
    <3> HIDE DEF k
    <3>2. CASE \E b \in B : Shields(b, t[k])
      <4>1. PICK b \in B : Shields(b, t[k])
        BY <3>2
      <4>2. CASE b \in D
        BY <3>1, <4>1, <4>2
      <4>3. CASE b \in Elements(s)
        <5>1. PICK i \in 1 .. m : b = s[i]
          BY <4>3 DEF Elements, m
        <5>2. i \in 1 .. Len(u) /\ u[i] = b /\ i < j
          BY <1>1, <3>1, <5>1
        <5> QED
          BY <3>1, <4>1, <5>2
      <4> QED
        BY <4>2, <4>3
    <3>3. CASE \E i \in 1 .. n : i < k /\ Shields(t[i], t[k])
      <4>1. PICK i \in 1 .. n : i < k /\ Shields(t[i], t[k])
        BY <3>3
      <4>2. m + i \in 1 .. Len(u) /\ u[m + i] = t[i] /\ m + i < j
        BY <1>1, <3>1, <4>1
      <4> QED
        BY <3>1, <4>1, <4>2
    <3> QED
      BY <1>5, <3>1, <3>2, <3>3, Zenon DEF GuardedBy, n
  <2> QED
    BY <1>2, <2>1, <2>2
<1> QED
  BY <1>4, <1>5, Zenon DEF GuardedBy, u

LEMMA GuardFlat ==
    ASSUME NEW q \in Seq(Seq(Step)), NEW B, \A i \in 1 .. Len(q) : GuardedBy(B, q[i])
    PROVE  GuardedBy(B, Flatten(q))
<1> DEFINE n == Len(q)
           T == {k \in 0 .. n : GuardedBy(B, Upto(q, k))}
<1>1. /\ n \in Nat /\ Flatten(q) = Upto(q, n) /\ Upto(q, 0) = <<>>
      /\ \A i \in 1 .. n : q[i] \in Seq(Step) /\ Upto(q, i) = Upto(q, i - 1) \o q[i]
      /\ \A i \in 0 .. n : Upto(q, i) \in Seq(Step)
  BY FlattenFacts, Zenon
<1>2. \A i \in 1 .. n : GuardedBy(B, q[i])
  OBVIOUS
<1> HIDE DEF n
<1>3. 0 \in T
  <2>1. Len(<<>>) = 0
    OBVIOUS
  <2>2. GuardedBy(B, Upto(q, 0))
    BY <1>1, <2>1 DEF GuardedBy
  <2> QED
    BY <1>1, <2>2
<1>4. ASSUME NEW k \in 0 .. n, k \in T, k < n PROVE k + 1 \in T
  <2>1. k + 1 \in 1 .. n /\ k + 1 \in 0 .. n /\ (k + 1) - 1 = k
    BY <1>1, <1>4
  <2>2. Upto(q, k + 1) = Upto(q, k) \o q[k + 1] /\ q[k + 1] \in Seq(Step) /\ Upto(q, k) \in Seq(Step)
    BY <1>1, <2>1, Zenon
  <2>3. GuardedBy(B, Upto(q, k)) /\ GuardedBy(B, q[k + 1])
    BY <1>2, <1>4, <2>1
  <2>4. GuardedBy(B, Upto(q, k + 1))
    BY <2>2, <2>3, GuardJoined, Zenon
  <2> QED
    BY <2>1, <2>4
<1>5. \A k \in 0 .. n : k \in T /\ k < n => k + 1 \in T
  BY <1>4
<1> HIDE DEF T
<1>6. \A k \in 0 .. n : k \in T
  BY <1>1, <1>3, <1>5, Induction, Zenon
<1>7. n \in T
  BY <1>1, <1>6
<1> QED
  BY <1>1, <1>7 DEF T

\* The guards of no, one and two steps.
LEMMA GuardShort ==
    ASSUME NEW B, NEW x \in Step, NEW y \in Step
    PROVE  /\ GuardedBy(B, <<>>)
           /\ (\E b \in B : Shields(b, x)) => GuardedBy(B, <<x>>)
           /\ ~Writing(x) /\ ((\E b \in B : Shields(b, y)) \/ Shields(x, y)) => GuardedBy(B, <<x, y>>)
           /\ ~Writing(x) => GuardedBy(B, <<x>>)
<1> DEFINE o == <<x>>
           u == <<x, y>>
<1>1. Len(<<>>) = 0 /\ Len(o) = 1 /\ o[1] = x /\ Len(u) = 2 /\ u[1] = x /\ u[2] = y
  OBVIOUS
<1> HIDE DEF o, u
<1>2. \A j : (j \in 1 .. Len(o) => j = 1) /\ (j \in 1 .. Len(u) => j = 1 \/ j = 2)
  BY <1>1
<1>3. GuardedBy(B, <<>>)
  BY <1>1 DEF GuardedBy
<1>4. (\E b \in B : Shields(b, x)) => GuardedBy(B, o)
  BY <1>1, <1>2, Zenon DEF GuardedBy
<1>5. ~Writing(x) => GuardedBy(B, o)
  BY <1>1, <1>2, Zenon DEF GuardedBy
<1>6. ~Writing(x) /\ (\E b \in B : Shields(b, y)) => GuardedBy(B, u)
  BY <1>1, <1>2, Zenon DEF GuardedBy
<1>7. ~Writing(x) /\ Shields(x, y) => GuardedBy(B, u)
  <2>1. 1 \in 1 .. Len(u) /\ 1 < 2
    BY <1>1
  <2> QED
    BY <1>1, <1>2, <2>1, Zenon DEF GuardedBy
<1> QED
  BY <1>3, <1>4, <1>5, <1>6, <1>7 DEF o, u

-----------------------------------------------------------------------------
(* The steps of a planned image.                                            *)

\* A sequence over a smaller set is one over a larger set.
LEMMA WiderSeq ==
    ASSUME NEW S, NEW T, S \subseteq T, NEW s \in Seq(S)
    PROVE  s \in Seq(T)
<1>1. Len(s) \in Nat /\ DOMAIN s = 1 .. Len(s) /\ s \in [1 .. Len(s) -> S]
  BY LenProperties
<1>2. s \in [1 .. Len(s) -> T]
  BY <1>1
<1> QED
  BY <1>1, <1>2, FunctionIsSeq

\* The steps whose writes stay where the image and its trampolines are.
Within(img) ==
    {h \in Step : h.op = "Write" => /\ h.size = Len(h.data)
                                    /\ Span(h.base, h.size) \subseteq TouchedSpan(img)}

\* What the section s, number i, has at address a.
SectionByte(s, i, a) ==
    IF a - s.va < s.raw THEN <<"section", i, (a - s.va) + 1>> ELSE <<"zero", 0, 0>>

\* What Plan has checked of a section: it lies apart from headers and other sections.
LEMMA SectionFacts ==
    ASSUME NEW img, IsImage(img), Plannable(img), NEW i \in Sections(img)
    PROVE  LET s == img.sections[i] IN
           /\ s.va \in Nat /\ s.vsize \in Nat /\ s.raw \in Nat /\ s.raw <= s.vsize /\ i \in Nat
           /\ Span(s.va, s.vsize) \subseteq ImageSpan(img)
           /\ \A a \in Span(s.va, s.vsize) : a \notin Span(img.base, img.headers)
           /\ \A j \in Sections(img) : j < i =>
                 \A a \in Span(s.va, s.vsize) : a \notin Span(img.sections[j].va, img.sections[j].vsize)
<1> DEFINE s == img.sections[i]
<1>0. img.base \in Nat /\ img.headers \in Nat /\ Len(img.sections) \in Nat
      /\ Sections(img) = 1 .. Len(img.sections)
  BY DEF IsImage, IsSequence, Sections
<1>1. \A j \in Sections(img) : /\ img.sections[j].va \in Nat /\ img.sections[j].vsize \in Nat
                               /\ img.sections[j].raw \in Nat
  BY Zenon DEF IsImage, Sections
<1>2. /\ s.raw <= s.vsize
      /\ ~(s.va < img.base + img.headers /\ img.base < SectionEnd(s))
      /\ ~OverlapsEarlier(img, i)
  BY Zenon DEF Plannable, PlanSection
<1>3. s.va \in Nat /\ s.vsize \in Nat /\ s.raw \in Nat
  BY <1>1
<1>4. Span(s.va, s.vsize) \subseteq ImageSpan(img)
  BY Zenon DEF ImageSpan
<1>5. \A a \in Span(s.va, s.vsize) : a \notin Span(img.base, img.headers)
  <2> HIDE DEF s
  <2> QED
    BY <1>0, <1>2, <1>3, SMTT(30) DEF Span, SectionEnd
<1>6. ASSUME NEW j \in Sections(img), j < i, NEW a \in Span(s.va, s.vsize)
      PROVE  a \notin Span(img.sections[j].va, img.sections[j].vsize)
  <2> DEFINE e == img.sections[j]
  <2>1. e.va \in Nat /\ e.vsize \in Nat
    BY <1>1
  <2>2. j \in 1 .. (i - 1)
    BY <1>0, <1>6
  <2>3. ~(s.va < SectionEnd(e) /\ e.va < SectionEnd(s))
    BY <1>2, <2>2, Zenon DEF OverlapsEarlier
  <2> HIDE DEF s, e
  <2>4. a \notin Span(e.va, e.vsize)
    BY <1>3, <1>6, <2>1, <2>3 DEF Span, SectionEnd
  <2> QED
    BY <2>4 DEF e
<1>7. i \in Nat
  BY <1>0
<1> QED
  BY <1>1, <1>2, <1>4, <1>5, <1>6, <1>7, Zenon

\* The steps of a section fill it, and nothing else, after its backup.
LEMMA SectionStepsFacts ==
    ASSUME NEW img, IsImage(img), Plannable(img), NEW i \in Sections(img)
    PROVE  LET s == img.sections[i]
               q == SectionSteps(s, i)
           IN  /\ q \in Seq(Within(img))
               /\ GuardedBy({Backup(s.va, s.vsize)}, q)
               /\ \A a : a \notin Span(s.va, s.vsize) => Silent(q, a)
               /\ \A a \in Span(s.va, s.vsize) : Says(q, a, SectionByte(s, i, a))
<1> DEFINE s == img.sections[i]
<1>1. /\ s.va \in Nat /\ s.vsize \in Nat /\ s.raw \in Nat /\ s.raw <= s.vsize /\ i \in Nat
      /\ Span(s.va, s.vsize) \subseteq ImageSpan(img)
  BY SectionFacts, Zenon
<1> HIDE DEF s
<1> DEFINE d == s.vsize - s.raw
           f == [k \in 1 .. s.raw |-> <<"section", i, k>>]
           z == [k \in 1 .. d |-> <<"zero", 0, 0>>]
           W == WriteStep(s.va, f)
           Z == WriteStep(s.va + s.raw, z)
           A == IF s.raw > 0 THEN <<ReadSource, W>> ELSE <<>>
           C == IF s.vsize > s.raw THEN <<Z>> ELSE <<>>
           b == Backup(s.va, s.vsize)
<1>2. SectionSteps(s, i) = A \o C
  BY Zenon DEF SectionSteps
<1>3. d \in Nat /\ f \in [1 .. s.raw -> Token] /\ z \in [1 .. d -> Token] /\ s.va + s.raw \in Nat
  BY <1>1 DEF Token
<1>f. \A k \in 1 .. s.raw : f[k] = <<"section", i, k>>
  OBVIOUS
<1>z. \A k \in 1 .. d : z[k] = <<"zero", 0, 0>>
  OBVIOUS
<1> HIDE DEF f, z
<1>4. /\ W \in Step /\ W.op = "Write" /\ W.base = s.va /\ W.size = s.raw /\ Len(W.data) = s.raw
      /\ \A a : Covers(W, a) <=> a \in Span(s.va, s.raw)
      /\ \A a : Byte(W, a) = f[(a - s.va) + 1]
      /\ \A a \in Span(s.va, s.raw) : (a - s.va) + 1 \in 1 .. s.raw
  BY <1>1, <1>3, WriteStepFacts, Zenon
<1>5. /\ Z \in Step /\ Z.op = "Write" /\ Z.base = s.va + s.raw /\ Z.size = d /\ Len(Z.data) = d
      /\ \A a : Covers(Z, a) <=> a \in Span(s.va + s.raw, d)
      /\ \A a : Byte(Z, a) = z[(a - (s.va + s.raw)) + 1]
      /\ \A a \in Span(s.va + s.raw, d) : (a - (s.va + s.raw)) + 1 \in 1 .. d
  <2> HIDE DEF d
  <2> QED
    BY <1>3, WriteStepFacts
<1>6. /\ b.op = "Backup" /\ b.base = s.va /\ b.size = s.vsize /\ b \in Step
      /\ ReadSource \in Step /\ ReadSource.op = "Read" /\ \A a : ~Covers(ReadSource, a)
  BY <1>1, QuietSteps
<1> HIDE DEF W, Z, b
<1>7. /\ Span(s.va, s.raw) \subseteq Span(s.va, s.vsize)
      /\ Span(s.va + s.raw, d) \subseteq Span(s.va, s.vsize)
      /\ \A a \in Span(s.va, s.vsize) : IF a - s.va < s.raw THEN a \in Span(s.va, s.raw)
                                        ELSE a \in Span(s.va + s.raw, d)
      /\ \A a \in Span(s.va, s.raw) : a \notin Span(s.va + s.raw, d) /\ a - s.va < s.raw
      /\ \A a \in Span(s.va + s.raw, d) : a \notin Span(s.va, s.raw) /\ ~(a - s.va < s.raw)
      /\ s.raw = 0 => Span(s.va, s.raw) = {}
      /\ d = 0 => Span(s.va + s.raw, d) = {}
      /\ s.vsize > s.raw <=> d # 0
  BY <1>1 DEF Span
<1> HIDE DEF d
<1>8. W \in Within(img) /\ Z \in Within(img) /\ ReadSource \in Within(img)
  <2>1. ImageSpan(img) \subseteq TouchedSpan(img)
    BY Zenon DEF TouchedSpan
  <2>2. Span(W.base, W.size) \subseteq TouchedSpan(img) /\ Span(Z.base, Z.size) \subseteq TouchedSpan(img)
    BY <1>1, <1>4, <1>5, <1>7, <2>1
  <2> QED
    BY <1>4, <1>5, <1>6, <2>2 DEF Within
<1>9. Within(img) \subseteq Step
  BY DEF Within
<1>10. /\ A \in Seq(Within(img)) /\ \A a : a \notin Span(s.va, s.raw) => Silent(A, a)
       /\ \A a \in Span(s.va, s.raw) : Says(A, a, f[(a - s.va) + 1])
       /\ GuardedBy({b}, A)
  <2>1. CASE s.raw > 0
    <3> DEFINE u == <<ReadSource, W>>
    <3>0. A = u
      BY <2>1
    <3>1. u \in Seq(Within(img))
      BY <1>8, ShortSteps
    <3>2. ASSUME NEW a PROVE /\ a \notin Span(s.va, s.raw) => Silent(u, a)
                             /\ a \in Span(s.va, s.raw) => Says(u, a, f[(a - s.va) + 1])
      <4>1. /\ a \notin Span(s.va, s.raw) => Silent(u, a)
            /\ a \in Span(s.va, s.raw) => Says(u, a, Byte(W, a))
        BY <1>4, <1>6, ShortSteps, Zenon
      <4>2. Byte(W, a) = f[(a - s.va) + 1]
        BY <1>4
      <4> HIDE DEF u
      <4> QED
        BY <4>1, <4>2
    <3>3. Shields(b, W) /\ ~Writing(ReadSource)
      BY <1>1, <1>4, <1>6 DEF Shields, Writing
    <3>4. GuardedBy({b}, u)
      BY <1>4, <1>6, <3>3, GuardShort, Zenon
    <3> HIDE DEF u, A
    <3> QED
      BY <3>0, <3>1, <3>2, <3>4
  <2>2. CASE ~(s.raw > 0)
    <3>1. A = <<>> /\ s.raw = 0
      BY <1>1, <2>2
    <3> QED
      BY <1>6, <1>7, <1>8, <3>1, ShortSteps, GuardShort
  <2> QED
    BY <2>1, <2>2
<1>11. /\ C \in Seq(Within(img)) /\ \A a : a \notin Span(s.va + s.raw, d) => Silent(C, a)
       /\ \A a \in Span(s.va + s.raw, d) : Says(C, a, <<"zero", 0, 0>>)
       /\ GuardedBy({b}, C)
  <2>1. CASE s.vsize > s.raw
    <3> DEFINE u == <<Z>>
    <3>0. C = u
      BY <2>1
    <3>1. u \in Seq(Within(img))
      BY <1>8, ShortSteps
    <3>2. ASSUME NEW a PROVE /\ a \notin Span(s.va + s.raw, d) => Silent(u, a)
                             /\ a \in Span(s.va + s.raw, d) => Says(u, a, Byte(Z, a))
      BY <1>5, ShortSteps, Zenon
    <3>3. \A a \in Span(s.va + s.raw, d) : Byte(Z, a) = <<"zero", 0, 0>>
      BY <1>5, <1>z, Zenon
    <3>4. Shields(b, Z)
      BY <1>1, <1>5, <1>6 DEF Shields, d
    <3>5. GuardedBy({b}, u)
      BY <1>5, <3>4, GuardShort, Zenon
    <3> HIDE DEF u, C
    <3> QED
      BY <3>0, <3>1, <3>2, <3>3, <3>5
  <2>2. CASE ~(s.vsize > s.raw)
    <3>1. C = <<>> /\ d = 0
      BY <1>7, <2>2
    <3> QED
      BY <1>6, <1>7, <1>8, <3>1, ShortSteps, GuardShort
  <2> QED
    BY <2>1, <2>2
<1> HIDE DEF A, C
<1>12. A \in Seq(Step) /\ C \in Seq(Step)
  BY <1>9, <1>10, <1>11, WiderSeq
<1>13. A \o C \in Seq(Within(img)) /\ GuardedBy({b}, A \o C)
  <2>1. A \o C \in Seq(Within(img))
    BY <1>10, <1>11, ConcatProperties
  <2>2. GuardedBy({b}, A \o C)
    BY <1>10, <1>11, <1>12, GuardJoined
  <2> QED
    BY <2>1, <2>2
<1>14. ASSUME NEW a, a \notin Span(s.va, s.vsize) PROVE Silent(A \o C, a)
  <2>1. Silent(A, a) /\ Silent(C, a)
    BY <1>7, <1>10, <1>11, <1>14
  <2> QED
    BY <1>12, <2>1, SaysJoined
<1>15. ASSUME NEW a \in Span(s.va, s.vsize) PROVE Says(A \o C, a, SectionByte(s, i, a))
  <2>1. CASE a - s.va < s.raw
    <3>1. a \in Span(s.va, s.raw) /\ a \notin Span(s.va + s.raw, d)
      BY <1>7, <2>1
    <3>2. f[(a - s.va) + 1] = SectionByte(s, i, a)
      BY <1>4, <1>f, <2>1, <3>1 DEF SectionByte
    <3>3. Says(A, a, SectionByte(s, i, a)) /\ Silent(C, a)
      BY <1>10, <1>11, <3>1, <3>2
    <3> QED
      BY <1>12, <3>3, SaysJoined
  <2>2. CASE ~(a - s.va < s.raw)
    <3>1. a \in Span(s.va + s.raw, d)
      BY <1>7, <2>2
    <3>2. Says(C, a, SectionByte(s, i, a))
      BY <1>11, <2>2, <3>1 DEF SectionByte
    <3> QED
      BY <1>12, <3>2, SaysJoined
  <2> QED
    BY <2>1, <2>2
<1> QED
  BY <1>2, <1>13, <1>14, <1>15, Zenon DEF s, b

Thunk == [ordinal : Nat, at : Nat]

\* The thunks of an image.
LEMMA ThunksTyped ==
    ASSUME NEW img, IsImage(img)
    PROVE  ThunksOf(img) \in Seq(Thunk)
<1> DEFINE n == Len(img.sections)
           q == [i \in DOMAIN img.sections |-> SectionThunks(img.sections[i])]
<1>1. n \in Nat /\ DOMAIN img.sections = 1 .. n
  BY DEF IsImage, IsSequence
<1>2. ASSUME NEW i \in DOMAIN img.sections PROVE SectionThunks(img.sections[i]) \in Seq(Thunk)
  <2> DEFINE s == img.sections[i]
             f == [k \in DOMAIN s.imports |-> [ordinal |-> s.imports[k].ordinal,
                                               at |-> (s.va + s.imports[k].offset) % SpaceEnd]]
  <2>1. /\ s.va \in Nat /\ Len(s.imports) \in Nat /\ DOMAIN s.imports = 1 .. Len(s.imports)
        /\ \A k \in DOMAIN s.imports : s.imports[k].offset \in Nat /\ s.imports[k].ordinal \in Nat
    BY Zenon DEF IsImage, IsSequence
  <2> HIDE DEF s
  <2>2. ASSUME NEW k \in DOMAIN s.imports
        PROVE  [ordinal |-> s.imports[k].ordinal, at |-> (s.va + s.imports[k].offset) % SpaceEnd] \in Thunk
    <3>1. (s.va + s.imports[k].offset) % SpaceEnd \in Nat
      BY <2>1, BootAssumption
    <3> QED
      BY <2>1, <3>1 DEF Thunk
  <2>3. f \in [1 .. Len(s.imports) -> Thunk]
    BY <2>1, <2>2
  <2>4. f \in Seq(Thunk)
    <3> HIDE DEF f
    <3> QED
      BY <2>1, <2>3, FunctionIsSeq
  <2>5. <<>> \in Seq(Thunk)
    OBVIOUS
  <2>6. SectionThunks(s) = IF s.name # ".thunk" THEN <<>> ELSE f
    BY Zenon DEF SectionThunks
  <2> HIDE DEF f
  <2>7. SectionThunks(s) \in Seq(Thunk)
    BY <2>4, <2>5, <2>6
  <2> QED
    BY <2>7 DEF s
<1>3. q \in [1 .. n -> Seq(Thunk)]
  BY <1>1, <1>2
<1>4. ThunksOf(img) = Flatten(q)
  BY Zenon DEF ThunksOf
<1> HIDE DEF q, n
<1>5. q \in Seq(Seq(Thunk)) /\ Len(q) = n
  BY <1>1, <1>3, FunctionIsSeq
<1>6. Len(q) \in Nat /\ Flatten(q) = Upto(q, Len(q)) /\ \A i \in 0 .. Len(q) : Upto(q, i) \in Seq(Thunk)
  BY <1>5, FlattenFacts, Zenon
<1>7. Upto(q, Len(q)) \in Seq(Thunk)
  BY <1>6
<1> QED
  BY <1>4, <1>6, <1>7, Zenon

\* The steps of a thunk back up its place and write the trampoline there.
LEMMA ThunkStepsFacts ==
    ASSUME NEW img, IsImage(img), NEW k \in DOMAIN ThunksOf(img)
    PROVE  LET t == ThunksOf(img)[k]
               q == ThunkSteps(t)
           IN  /\ t \in Thunk /\ q \in Seq(Within(img)) /\ GuardedBy({}, q)
               /\ \A a : a \notin Span(t.at, ThunkSize) => Silent(q, a)
               /\ \A a \in Span(t.at, ThunkSize) : Says(q, a, <<"thunk", t.ordinal, (a - t.at) + 1>>)
<1> DEFINE t == ThunksOf(img)[k]
<1>1. t \in Thunk
  <2>1. ThunksOf(img) \in Seq(Thunk) /\ DOMAIN ThunksOf(img) = 1 .. Len(ThunksOf(img))
    BY ThunksTyped, LenProperties
  <2> QED
    BY <2>1, ElementOfSeq
<1>2. Span(t.at, ThunkSize) \subseteq TouchedSpan(img)
  BY Zenon DEF TouchedSpan
<1> HIDE DEF t
<1>3. t.ordinal \in Nat /\ t.at \in Nat /\ ThunkSize \in Nat
  BY <1>1, BootAssumption DEF Thunk
<1> DEFINE f == [x \in 1 .. ThunkSize |-> <<"thunk", t.ordinal, x>>]
           W == WriteStep(t.at, f)
           b == Backup(t.at, ThunkSize)
           u == <<b, W>>
<1>4. ThunkSteps(t) = u
  BY Zenon DEF ThunkSteps, Trampoline
<1>5. f \in [1 .. ThunkSize -> Token] /\ \A x \in 1 .. ThunkSize : f[x] = <<"thunk", t.ordinal, x>>
  BY <1>3 DEF Token
<1> HIDE DEF f
<1>6. /\ W \in Step /\ W.op = "Write" /\ W.base = t.at /\ W.size = ThunkSize /\ Len(W.data) = ThunkSize
      /\ \A a : Covers(W, a) <=> a \in Span(t.at, ThunkSize)
      /\ \A a : Byte(W, a) = f[(a - t.at) + 1]
      /\ \A a \in Span(t.at, ThunkSize) : (a - t.at) + 1 \in 1 .. ThunkSize
  BY <1>3, <1>5, WriteStepFacts
<1>7. /\ b.op = "Backup" /\ b.base = t.at /\ b.size = ThunkSize /\ b \in Step
      /\ \A a : ~Covers(b, a)
  BY <1>3, QuietSteps
<1> HIDE DEF W, b
<1>8. W \in Within(img) /\ b \in Within(img)
  BY <1>2, <1>6, <1>7 DEF Within
<1>9. u \in Seq(Within(img))
  BY <1>8, ShortSteps
<1>10. Shields(b, W) /\ ~Writing(b)
  BY <1>3, <1>6, <1>7 DEF Shields, Writing
<1>11. GuardedBy({}, u)
  BY <1>6, <1>7, <1>10, GuardShort, Zenon
<1>12. ASSUME NEW a PROVE /\ a \notin Span(t.at, ThunkSize) => Silent(u, a)
                          /\ a \in Span(t.at, ThunkSize) => Says(u, a, Byte(W, a))
  BY <1>6, <1>7, ShortSteps, Zenon
<1>13. \A a \in Span(t.at, ThunkSize) : Byte(W, a) = <<"thunk", t.ordinal, (a - t.at) + 1>>
  BY <1>5, <1>6, Zenon
<1> HIDE DEF u
<1>14. \A a \in Span(t.at, ThunkSize) : Says(u, a, <<"thunk", t.ordinal, (a - t.at) + 1>>)
  BY <1>12, <1>13
<1> QED
  BY <1>1, <1>4, <1>9, <1>11, <1>12, <1>14, Zenon DEF t

\* A set of numbers with a bound that is not empty has a greatest element.
LEMMA GreatestElement ==
    ASSUME NEW n \in Nat, NEW T, T \subseteq 1 .. n, T # {}
    PROVE  \E k \in T : \A l \in T : l <= k
<1> DEFINE D == {n - k : k \in T}
<1>1. D \in SUBSET Nat /\ D # {}
  <2>1. \A k \in T : n - k \in Nat
    OBVIOUS
  <2> QED
    BY <2>1, Zenon
<1>2. PICK x \in D : \A y \in D : x <= y
  BY <1>1, LeastElement, Zenon
<1>3. PICK k \in T : x = n - k
  OBVIOUS
<1>4. ASSUME NEW l \in T PROVE l <= k
  <2>1. n - l \in D
    OBVIOUS
  <2>2. n - k <= n - l
    BY <1>2, <1>3, <2>1
  <2> QED
    BY <2>2
<1> QED
  BY <1>4

\* What Expected says, case by case.
LEMMA ExpectedIs ==
    ASSUME NEW img, IsImage(img), NEW a \in ImageSpan(img)
    PROVE  LET t == ThunksOf(img)
               In(i) == a \in Span(img.sections[i].va, img.sections[i].vsize)
               At(k) == a \in Span(t[k].at, ThunkSize)
           IN  \/ \E k \in DOMAIN t :
                     /\ At(k) /\ \A l \in DOMAIN t : l > k => ~At(l)
                     /\ Expected(img, a) = <<"thunk", t[k].ordinal, (a - t[k].at) + 1>>
               \/ /\ \A k \in DOMAIN t : ~At(k)
                  /\ \E i \in Sections(img) :
                        In(i) /\ Expected(img, a) = SectionByte(img.sections[i], i, a)
               \/ /\ \A k \in DOMAIN t : ~At(k)
                  /\ \A i \in Sections(img) : ~In(i)
                  /\ a \in Span(img.base, img.headers)
                  /\ Expected(img, a) = <<"head", 0, (a - img.base) + 1>>
<1> DEFINE t == ThunksOf(img)
           over == {k \in DOMAIN t : a \in Span(t[k].at, ThunkSize)}
           sec == {i \in Sections(img) : a \in Span(img.sections[i].va, img.sections[i].vsize)}
<1>0. Len(t) \in Nat /\ DOMAIN t = 1 .. Len(t)
  BY ThunksTyped, LenProperties
<1>1. CASE over # {}
  <2> DEFINE k == CHOOSE k \in over : \A l \in over : l <= k
  <2>1. \E x \in over : \A l \in over : l <= x
    <3>1. over \subseteq 1 .. Len(t)
      BY <1>0
    <3> HIDE DEF over, t
    <3> QED
      BY <1>0, <1>1, <3>1, GreatestElement, Zenon
  <2>2. k \in over /\ \A l \in over : l <= k
    BY <2>1, Zenon
  <2>3. Expected(img, a) = <<"thunk", t[k].ordinal, (a - t[k].at) + 1>>
    BY <1>1, Zenon DEF Expected
  <2> HIDE DEF k
  <2>4. \A l \in DOMAIN t : l > k => l \notin over
    BY <1>0, <2>2
  <2> QED
    BY <2>2, <2>3, <2>4, Zenon
<1>2. CASE over = {} /\ sec # {}
  <2> DEFINE i == CHOOSE i \in sec : TRUE
  <2>1. i \in sec
    BY <1>2, Zenon
  <2>2. Expected(img, a) = SectionByte(img.sections[i], i, a)
    BY <1>2, Zenon DEF Expected, SectionByte
  <2> HIDE DEF i
  <2> QED
    BY <1>2, <2>1, <2>2, Zenon
<1>3. CASE over = {} /\ sec = {}
  <2>1. a \in Span(img.base, img.headers)
    BY <1>3, Zenon DEF ImageSpan
  <2>2. Expected(img, a) = <<"head", 0, (a - img.base) + 1>>
    BY <1>3, Zenon DEF Expected
  <2> QED
    BY <1>3, <2>1, <2>2, Zenon
<1> QED
  BY <1>1, <1>2, <1>3, Zenon

\* More guards are as good.
LEMMA GuardWider ==
    ASSUME NEW B, NEW D, B \subseteq D, NEW t, GuardedBy(B, t)
    PROVE  GuardedBy(D, t)
BY Zenon DEF GuardedBy

\* Apply writes only where the image and its trampolines are, backs up all it writes to,
\* and leaves the whole image behind.
LEMMA ApplyFacts ==
    ASSUME NEW img, IsImage(img), Plannable(img)
    PROVE  /\ ApplySteps(img) \in Seq(Within(img)) /\ GuardedBy({}, ApplySteps(img))
           /\ \A a \in ImageSpan(img) : Says(ApplySteps(img), a, Expected(img, a))
<1> DEFINE n == Len(img.sections)
           t == ThunksOf(img)
           f == [k \in 1 .. img.headers |-> <<"head", 0, k>>]
           h == Backup(img.base, img.headers)
           W == WriteStep(img.base, f)
           H == <<h>>
           E == [i \in Sections(img) |-> Backup(img.sections[i].va, img.sections[i].vsize)]
           L == <<ReadSource, W>>
           Q == [i \in Sections(img) |-> SectionSteps(img.sections[i], i)]
           R == [k \in DOMAIN t |-> ThunkSteps(t[k])]
           F == Flatten(Q)
           G == Flatten(R)
           X == Within(img)
<1>1. ApplySteps(img) = H \o E \o L \o F \o G
  BY Zenon DEF ApplySteps
<1>2. n \in Nat /\ Sections(img) = 1 .. n /\ img.base \in Nat /\ img.headers \in Nat
  BY DEF IsImage, IsSequence, Sections
<1>3. t \in Seq(Thunk) /\ Len(t) \in Nat /\ DOMAIN t = 1 .. Len(t)
  BY ThunksTyped, LenProperties
<1>4. f \in [1 .. img.headers -> Token] /\ \A k \in 1 .. img.headers : f[k] = <<"head", 0, k>>
  BY <1>2 DEF Token
<1> HIDE DEF f
<1>5. /\ W \in Step /\ W.op = "Write" /\ W.base = img.base /\ W.size = img.headers
      /\ Len(W.data) = img.headers
      /\ \A a : Covers(W, a) <=> a \in Span(img.base, img.headers)
      /\ \A a : Byte(W, a) = f[(a - img.base) + 1]
      /\ \A a \in Span(img.base, img.headers) : (a - img.base) + 1 \in 1 .. img.headers
  BY <1>2, <1>4, WriteStepFacts, SMTT(30)
<1>6. /\ h \in Step /\ h.op = "Backup" /\ h.base = img.base /\ h.size = img.headers /\ \A a : ~Covers(h, a)
      /\ ReadSource \in Step /\ ReadSource.op = "Read" /\ \A a : ~Covers(ReadSource, a)
  BY <1>2, QuietSteps
<1> HIDE DEF W, h
<1>7. X \subseteq Step
  BY DEF Within
<1>8. h \in X /\ W \in X /\ ReadSource \in X
  <2>1. Span(img.base, img.headers) \subseteq TouchedSpan(img)
    BY Zenon DEF TouchedSpan, ImageSpan
  <2> QED
    BY <1>5, <1>6, <2>1 DEF Within
\* The parts.
<1>9. H \in Seq(X) /\ GuardedBy({}, H) /\ h \in Elements(H)
  <2>1. H \in Seq(X) /\ Len(H) = 1 /\ H[1] = h
    BY <1>8, ShortSteps
  <2>2. ~Writing(h)
    BY <1>6 DEF Writing
  <2>3. GuardedBy({}, H)
    BY <1>6, <2>2, GuardShort, Zenon
  <2>4. 1 \in 1 .. Len(H)
    BY <2>1
  <2> QED
    BY <2>1, <2>3, <2>4, Zenon DEF Elements
<1>10. E \in Seq(X) /\ GuardedBy({}, E)
       /\ \A i \in Sections(img) : Backup(img.sections[i].va, img.sections[i].vsize) \in Elements(E)
  <2>1. ASSUME NEW i \in Sections(img)
        PROVE  /\ Backup(img.sections[i].va, img.sections[i].vsize) \in X
               /\ ~Writing(Backup(img.sections[i].va, img.sections[i].vsize))
    <3> DEFINE b == Backup(img.sections[i].va, img.sections[i].vsize)
    <3>1. img.sections[i].va \in Nat /\ img.sections[i].vsize \in Nat
      BY SectionFacts, Zenon
    <3>2. b \in Step /\ b.op = "Backup"
      BY <3>1, QuietSteps
    <3> HIDE DEF b
    <3>3. b \in X /\ ~Writing(b)
      BY <3>2 DEF Within, Writing
    <3> QED
      BY <3>3 DEF b
  <2>2. E \in [1 .. n -> X]
    BY <1>2, <2>1
  <2>3. \A i \in 1 .. n : E[i] = Backup(img.sections[i].va, img.sections[i].vsize)
    BY <1>2
  <2> HIDE DEF E, X, n
  <2>4. E \in Seq(X) /\ Len(E) = n
    BY <1>2, <2>2, FunctionIsSeq
  <2>5. GuardedBy({}, E)
    BY <1>2, <2>1, <2>3, <2>4, Zenon DEF GuardedBy
  <2> QED
    BY <1>2, <2>3, <2>4, <2>5, Zenon DEF Elements
<1> DEFINE B == {h} \cup {Backup(img.sections[i].va, img.sections[i].vsize) : i \in Sections(img)}
<1>11. L \in Seq(X) /\ GuardedBy(B, L)
  <2>1. L \in Seq(X)
    BY <1>8, ShortSteps
  <2>2. ~Writing(ReadSource) /\ Shields(h, W)
    BY <1>2, <1>5, <1>6 DEF Writing, Shields
  <2>3. h \in B
    OBVIOUS
  <2> HIDE DEF B
  <2>4. GuardedBy(B, L)
    BY <1>5, <1>6, <2>2, <2>3, GuardShort, Zenon
  <2> QED
    BY <2>1, <2>4
<1>12. ASSUME NEW a PROVE /\ a \notin Span(img.base, img.headers) => Silent(L, a)
                          /\ a \in Span(img.base, img.headers) => Says(L, a, <<"head", 0, (a - img.base) + 1>>)
  <2>1. /\ a \notin Span(img.base, img.headers) => Silent(L, a)
        /\ a \in Span(img.base, img.headers) => Says(L, a, Byte(W, a))
    BY <1>5, <1>6, ShortSteps, Zenon
  <2>2. a \in Span(img.base, img.headers) => Byte(W, a) = <<"head", 0, (a - img.base) + 1>>
    BY <1>4, <1>5, Zenon
  <2> HIDE DEF L
  <2> QED
    BY <2>1, <2>2
<1>13. /\ Q \in Seq(Seq(X)) /\ Len(Q) = n
       /\ \A i \in 1 .. n : Q[i] = SectionSteps(img.sections[i], i)
       /\ \A i \in 1 .. n : GuardedBy(B, Q[i])
  <2>1. ASSUME NEW i \in Sections(img)
        PROVE  SectionSteps(img.sections[i], i) \in Seq(X) /\ GuardedBy(B, SectionSteps(img.sections[i], i))
    <3> DEFINE b == Backup(img.sections[i].va, img.sections[i].vsize)
    <3>1. SectionSteps(img.sections[i], i) \in Seq(X) /\ GuardedBy({b}, SectionSteps(img.sections[i], i))
      BY SectionStepsFacts, Zenon
    <3>2. {b} \subseteq B
      BY Zenon
    <3> HIDE DEF b, B
    <3> QED
      BY <3>1, <3>2, GuardWider
  <2>2. Q \in [1 .. n -> Seq(X)]
    BY <1>2, <2>1, Zenon
  <2>3. \A i \in 1 .. n : Q[i] = SectionSteps(img.sections[i], i)
    BY <1>2
  <2> HIDE DEF Q, X, n, B
  <2>4. Q \in Seq(Seq(X)) /\ Len(Q) = n
    BY <1>2, <2>2, FunctionIsSeq
  <2> QED
    BY <1>2, <2>1, <2>3, <2>4, Zenon
<1>14. /\ R \in Seq(Seq(X)) /\ Len(R) = Len(t)
       /\ \A k \in 1 .. Len(t) : R[k] = ThunkSteps(t[k])
       /\ \A k \in 1 .. Len(t) : GuardedBy({}, R[k])
  <2>1. ASSUME NEW k \in DOMAIN t
        PROVE  ThunkSteps(t[k]) \in Seq(X) /\ GuardedBy({}, ThunkSteps(t[k]))
    BY ThunkStepsFacts, Zenon
  <2>2. R \in [1 .. Len(t) -> Seq(X)]
    BY <1>3, <2>1
  <2>3. \A k \in 1 .. Len(t) : R[k] = ThunkSteps(t[k])
    BY <1>3
  <2> HIDE DEF R, X, t
  <2>4. R \in Seq(Seq(X)) /\ Len(R) = Len(t)
    BY <1>3, <2>2, FunctionIsSeq, Zenon
  <2> QED
    BY <1>3, <2>1, <2>3, <2>4, Zenon
<1> HIDE DEF H, E, L, Q, R, X, B, n, t
<1>15. Q \in Seq(Seq(Step)) /\ R \in Seq(Seq(Step))
  <2>1. Seq(X) \subseteq Seq(Step)
    BY <1>7, WiderSeq
  <2> QED
    BY <1>13, <1>14, <2>1, WiderSeq
<1>16. F \in Seq(X) /\ G \in Seq(X)
  <2>1. Len(Q) \in Nat /\ Flatten(Q) = Upto(Q, Len(Q)) /\ \A i \in 0 .. Len(Q) : Upto(Q, i) \in Seq(X)
    BY <1>13, FlattenFacts, Zenon
  <2>2. Len(R) \in Nat /\ Flatten(R) = Upto(R, Len(R)) /\ \A i \in 0 .. Len(R) : Upto(R, i) \in Seq(X)
    BY <1>14, FlattenFacts, Zenon
  <2>3. Upto(Q, Len(Q)) \in Seq(X) /\ Upto(R, Len(R)) \in Seq(X)
    BY <2>1, <2>2
  <2> QED
    BY <2>1, <2>2, <2>3, Zenon
<1>17. GuardedBy(B, F) /\ GuardedBy({}, G)
  <2>1. GuardedBy(B, F)
    BY <1>13, <1>15, GuardFlat
  <2>2. GuardedBy({}, G)
    BY <1>14, <1>15, GuardFlat
  <2> QED
    BY <2>1, <2>2
\* All of them together.
<1> DEFINE P == H \o E
           O == P \o L
           U == O \o F
           A == U \o G
<1>18. ApplySteps(img) = A
  BY <1>1
<1>19. P \in Seq(X) /\ O \in Seq(X) /\ U \in Seq(X) /\ A \in Seq(X)
  <2>1. P \in Seq(X)
    BY <1>9, <1>10, ConcatProperties
  <2> HIDE DEF P
  <2>2. O \in Seq(X)
    BY <1>11, <2>1, ConcatProperties
  <2> HIDE DEF O, F, G
  <2>3. U \in Seq(X)
    BY <1>16, <2>2, ConcatProperties
  <2> HIDE DEF U
  <2>4. A \in Seq(X)
    BY <1>16, <2>3, ConcatProperties
  <2> QED
    BY <2>1, <2>2, <2>3, <2>4
<1> HIDE DEF F, G
<1>20. /\ H \in Seq(Step) /\ E \in Seq(Step) /\ L \in Seq(Step) /\ F \in Seq(Step) /\ G \in Seq(Step)
       /\ P \in Seq(Step) /\ O \in Seq(Step) /\ U \in Seq(Step)
  <2> HIDE DEF P, O, U
  <2> QED
    BY <1>7, <1>9, <1>10, <1>11, <1>16, <1>19, WiderSeq
<1>21. GuardedBy({}, A)
  <2>1. GuardedBy({}, P) /\ Elements(H) \subseteq Elements(P) /\ Elements(E) \subseteq Elements(P)
    BY <1>9, <1>10, <1>20, GuardJoined
  <2> HIDE DEF P
  <2>2. B \subseteq Elements(P)
    BY <1>9, <1>10, <2>1, Zenon DEF B
  <2>3. GuardedBy({}, O) /\ Elements(P) \subseteq Elements(O)
    BY <1>11, <1>20, <2>1, <2>2, GuardJoined
  <2> HIDE DEF O
  <2>4. B \subseteq Elements(O)
    BY <2>2, <2>3
  <2>5. GuardedBy({}, U)
    BY <1>17, <1>20, <2>3, <2>4, GuardJoined
  <2> HIDE DEF U
  <2> QED
    BY <1>17, <1>20, <2>5, GuardJoined
<1>22. ASSUME NEW a \in ImageSpan(img) PROVE Says(A, a, Expected(img, a))
  <2> DEFINE v == Expected(img, a)
             Sec(i) == a \in Span(img.sections[i].va, img.sections[i].vsize)
             At(k) == a \in Span(t[k].at, ThunkSize)
  <2>1. ASSUME NEW k \in 1 .. Len(t)
        PROVE  /\ ~At(k) => Silent(R[k], a)
               /\ At(k) => Says(R[k], a, <<"thunk", t[k].ordinal, (a - t[k].at) + 1>>)
    <3>1. R[k] = ThunkSteps(t[k]) /\ k \in DOMAIN t
      BY <1>3, <1>14
    <3> QED
      BY <3>1, ThunkStepsFacts, Zenon DEF t
  <2>2. ASSUME NEW i \in Sections(img)
        PROVE  /\ ~Sec(i) => Silent(Q[i], a)
               /\ Sec(i) => Says(Q[i], a, SectionByte(img.sections[i], i, a))
    <3>1. Q[i] = SectionSteps(img.sections[i], i)
      BY <1>2, <1>13
    <3> QED
      BY <3>1, SectionStepsFacts, Zenon
  <2>3. \/ \E k \in DOMAIN t :
              /\ At(k) /\ \A l \in DOMAIN t : l > k => ~At(l)
              /\ v = <<"thunk", t[k].ordinal, (a - t[k].at) + 1>>
        \/ /\ \A k \in DOMAIN t : ~At(k)
           /\ \E i \in Sections(img) : Sec(i) /\ v = SectionByte(img.sections[i], i, a)
        \/ /\ \A k \in DOMAIN t : ~At(k)
           /\ \A i \in Sections(img) : ~Sec(i)
           /\ a \in Span(img.base, img.headers)
           /\ v = <<"head", 0, (a - img.base) + 1>>
    BY ExpectedIs, Zenon DEF t
  <2> HIDE DEF v
  <2>4. ASSUME NEW k \in DOMAIN t, At(k), \A l \in DOMAIN t : l > k => ~At(l),
               v = <<"thunk", t[k].ordinal, (a - t[k].at) + 1>>
        PROVE  Says(A, a, v)
    <3>1. k \in 1 .. Len(R) /\ Says(R[k], a, v) /\ \A l \in 1 .. Len(R) : l > k => Silent(R[l], a)
      <4> HIDE DEF At
      <4> QED
        BY <1>3, <1>14, <2>1, <2>4, Zenon
    <3>2. Says(G, a, v)
      BY <1>15, <3>1, SaysFlat DEF G
    <3> HIDE DEF U
    <3> QED
      BY <1>20, <3>2, SaysJoined
  <2>5. ASSUME \A k \in DOMAIN t : ~At(k) PROVE Silent(G, a)
    <3>1. \A k \in 1 .. Len(R) : Silent(R[k], a)
      <4> HIDE DEF At
      <4> QED
        BY <1>3, <1>14, <2>1, <2>5, Zenon
    <3> QED
      BY <1>15, <3>1, SaysFlat, Zenon DEF G
  <2>6. ASSUME \A k \in DOMAIN t : ~At(k), NEW i \in Sections(img), Sec(i),
               v = SectionByte(img.sections[i], i, a)
        PROVE  Says(A, a, v)
    <3>1. Silent(G, a)
      BY <2>5, <2>6, Zenon
    <3>2. ASSUME NEW l \in Sections(img), l > i PROVE ~Sec(l)
      <4>1. i < l
        BY <1>2, <3>2
      <4> QED
        BY <2>6, <4>1, SectionFacts, Zenon
    <3>3. i \in 1 .. Len(Q) /\ Says(Q[i], a, v) /\ \A l \in 1 .. Len(Q) : l > i => Silent(Q[l], a)
      <4> HIDE DEF Sec
      <4> QED
        BY <1>2, <1>13, <2>2, <2>6, <3>2, Zenon
    <3>4. Says(F, a, v)
      BY <1>15, <3>3, SaysFlat DEF F
    <3>5. Says(U, a, v)
      <4> HIDE DEF O
      <4> QED
        BY <1>20, <3>4, SaysJoined
    <3> HIDE DEF U
    <3> QED
      BY <1>20, <3>1, <3>5, SaysJoined
  <2>7. ASSUME \A k \in DOMAIN t : ~At(k), \A i \in Sections(img) : ~Sec(i),
               a \in Span(img.base, img.headers), v = <<"head", 0, (a - img.base) + 1>>
        PROVE  Says(A, a, v)
    <3>1. Silent(G, a)
      BY <2>5, <2>7, Zenon
    <3>2. \A i \in 1 .. Len(Q) : Silent(Q[i], a)
      <4> HIDE DEF Sec
      <4> QED
        BY <1>2, <1>13, <2>2, <2>7, Zenon
    <3>3. Silent(F, a)
      BY <1>15, <3>2, SaysFlat, Zenon DEF F
    <3>4. Says(L, a, v)
      BY <1>12, <2>7
    <3>5. Says(O, a, v)
      <4> HIDE DEF P
      <4> QED
        BY <1>20, <3>4, SaysJoined
    <3>6. Says(U, a, v)
      <4> HIDE DEF O
      <4> QED
        BY <1>20, <3>3, <3>5, SaysJoined
    <3> HIDE DEF U
    <3> QED
      BY <1>20, <3>1, <3>6, SaysJoined
  <2> QED
    BY <2>3, <2>4, <2>6, <2>7, Zenon DEF v
<1> QED
  BY <1>18, <1>19, <1>21, <1>22, Zenon DEF X

-----------------------------------------------------------------------------
(* The load in progress.                                                    *)

\* The patch q holds all that the step w overwrites.
Keeps(q, w) == q.base <= w.base /\ w.base + w.size <= q.base + Len(q.original)

\* A patch, or a backup that is still to come before it, shields every write to come.
Pending(steps, patches) ==
    \A j \in 1 .. Len(steps) :
        Writing(steps[j]) => \/ \E q \in 1 .. Len(patches) : Keeps(patches[q], steps[j])
                             \/ \E i \in 1 .. Len(steps) : i < j /\ Shields(steps[i], steps[j])

\* A patch is what was read from a range of RAM.
PatchOK(q) ==
    /\ q.base \in Nat /\ Len(q.original) \in Nat \ {0}
    /\ \E r : InRam(r, q.base, Len(q.original), "Read")

\* The first patch that can restore a cell holds what the boot found there; a cell that
\* none can restore still holds it.
Undoable(l, m) ==
    \A c \in Cells :
        \/ /\ \A q \in 1 .. Len(l.patches) : ~Restores(l.patches[q], c)
           /\ m[c] = l.before[c]
        \/ \E q \in 1 .. Len(l.patches) :
              /\ Restores(l.patches[q], c) /\ Original(l.patches[q], c) = l.before[c]
              /\ \A p \in 1 .. q - 1 : ~Restores(l.patches[p], c)

\* No two of the addresses written share a cell.
Injective(img) == \A a, b \in TouchedSpan(img) : CellOf(a) = CellOf(b) => a = b

\* Each byte of the image is in place, or the steps to come put it there.
InPlace(l, m) ==
    LET img == l.media.xbe
    IN  Injective(img) =>
          \A a \in ImageSpan(img) :
              \/ Says(l.steps, a, Expected(img, a))
              \/ /\ Silent(l.steps, a)
                 /\ CellOf(a) \in Cells /\ m[CellOf(a)] = Expected(img, a)

LoadGood(l, m) ==
    /\ l.steps \in Seq(Within(l.media.xbe))
    /\ l.patches \in Seq(Elements(l.patches))
    /\ \A q \in 1 .. Len(l.patches) : PatchOK(l.patches[q])
    /\ Pending(l.steps, l.patches)
    /\ IsMemory(l.before) /\ Undoable(l, m) /\ InPlace(l, m)

\* Undoing the patches of such a load gives back what the boot found.
LEMMA Undone ==
    ASSUME NEW l, NEW m, LoadGood(l, m), IsMemory(m)
    PROVE  RollbackPatches(m, l.patches) = l.before
<1> DEFINE n == Len(l.patches)
           u == RollbackPatches(m, l.patches)
<1>1. n \in Nat
  BY LenProperties DEF LoadGood
<1>2. /\ IsMemory(u)
      /\ \A c \in Cells :
            \/ /\ \A q \in 1 .. n : ~Restores(l.patches[q], c)
               /\ u[c] = m[c]
            \/ \E q \in 1 .. n :
                  /\ Restores(l.patches[q], c) /\ u[c] = Original(l.patches[q], c)
                  /\ \A p \in 1 .. q - 1 : ~Restores(l.patches[p], c)
  BY <1>1, RollbackFacts, Zenon
<1>3. \A c \in Cells :
        \/ /\ \A q \in 1 .. n : ~Restores(l.patches[q], c)
           /\ m[c] = l.before[c]
        \/ \E q \in 1 .. n :
              /\ Restores(l.patches[q], c) /\ Original(l.patches[q], c) = l.before[c]
              /\ \A p \in 1 .. q - 1 : ~Restores(l.patches[p], c)
  BY Zenon DEF LoadGood, Undoable
<1> HIDE DEF u, n
<1>4. ASSUME NEW c \in Cells PROVE u[c] = l.before[c]
  <2>1. CASE \A q \in 1 .. n : ~Restores(l.patches[q], c)
    BY <1>2, <1>3, <2>1, Zenon
  <2>2. CASE ~\A q \in 1 .. n : ~Restores(l.patches[q], c)
    <3>1. PICK q \in 1 .. n : /\ Restores(l.patches[q], c) /\ u[c] = Original(l.patches[q], c)
                              /\ \A p \in 1 .. q - 1 : ~Restores(l.patches[p], c)
      BY <1>2, <2>2, Zenon
    <3>2. PICK x \in 1 .. n : /\ Restores(l.patches[x], c) /\ Original(l.patches[x], c) = l.before[c]
                              /\ \A p \in 1 .. x - 1 : ~Restores(l.patches[p], c)
      BY <1>3, <2>2, Zenon
    <3>3. ~(q \in 1 .. x - 1) /\ ~(x \in 1 .. q - 1)
      BY <3>1, <3>2, Zenon
    <3>4. q = x
      BY <1>1, <3>3
    <3> QED
      BY <3>1, <3>2, <3>4
  <2> QED
    BY <2>1, <2>2
<1>5. IsMemory(l.before)
  BY DEF LoadGood
<1>6. u = l.before
  BY <1>2, <1>4, <1>5 DEF IsMemory
<1> QED
  BY <1>6 DEF u

\* The steps but the first are as well guarded, when its backup has become a patch.
LEMMA PendingTail ==
    ASSUME NEW steps \in Seq(Step), steps # <<>>, NEW old, NEW new, Pending(steps, old),
           \A q \in 1 .. Len(old) : \E p \in 1 .. Len(new) : new[p] = old[q],
           \A w \in Step : Writing(w) /\ Shields(Head(steps), w) =>
               \E p \in 1 .. Len(new) : Keeps(new[p], w)
    PROVE  Pending(Tail(steps), new)
<1> DEFINE n == Len(steps)
           u == Tail(steps)
<1>1. /\ n \in Nat \ {0} /\ Head(steps) = steps[1] /\ u \in Seq(Step) /\ Len(u) = n - 1
      /\ \A i \in 1 .. n - 1 : u[i] = steps[i + 1]
  BY HeadTailProperties, LenProperties, EmptySeq
<1> HIDE DEF n, u
<1>2. ASSUME NEW j \in 1 .. Len(u), Writing(u[j])
      PROVE  \/ \E q \in 1 .. Len(new) : Keeps(new[q], u[j])
             \/ \E i \in 1 .. Len(u) : i < j /\ Shields(u[i], u[j])
  <2>1. j + 1 \in 1 .. n /\ u[j] = steps[j + 1]
    BY <1>1
  <2>2. u[j] \in Step
    BY <1>1, ElementOfSeq
  <2>3. CASE \E q \in 1 .. Len(old) : Keeps(old[q], steps[j + 1])
    BY <2>1, <2>3, Zenon
  <2>4. CASE \E i \in 1 .. n : i < j + 1 /\ Shields(steps[i], steps[j + 1])
    <3>1. PICK i \in 1 .. n : i < j + 1 /\ Shields(steps[i], steps[j + 1])
      BY <2>4
    <3>2. CASE i = 1
      BY <1>1, <1>2, <2>1, <2>2, <3>1, <3>2, Zenon
    <3>3. CASE i # 1
      <4>1. i - 1 \in 1 .. n - 1 /\ i - 1 \in 1 .. Len(u) /\ i - 1 < j /\ (i - 1) + 1 = i
        BY <1>1, <3>1, <3>3
      <4>2. u[i - 1] = steps[i]
        BY <1>1, <4>1
      <4> QED
        BY <2>1, <3>1, <4>1, <4>2
    <3> QED
      BY <3>2, <3>3
  <2> QED
    BY <1>2, <2>1, <2>3, <2>4, Zenon DEF Pending, n
<1> QED
  BY <1>2, Zenon DEF Pending, u

\* p is what memory holds from base on.
Taken(p, base, size) ==
    /\ p.base = base /\ Len(p.original) = size /\ PatchOK(p)
    /\ \A c \in Cells : Restores(p, c) => Original(p, c) = memory[c]

\* The patch of a backup: a range of RAM, and what it restores is what is there now.
LEMMA PatchTaken ==
    ASSUME NEW base \in Nat, NEW size \in Nat \ {0}, Accessible(base, size, "Read"),
           NEW p, p = [base |-> base, original |-> ReadBytes(base, size)]
    PROVE  Taken(p, base, size)
<1> DEFINE o == ReadBytes(base, size)
<1>1. Len(o) = size /\ \A k \in 1 .. size : o[k] = memory[CellOf(base + k - 1)]
  <2> DEFINE M == {memory[CellOf(base + k - 1)] : k \in 1 .. size}
  <2>1. o = [k \in 1 .. size |-> memory[CellOf(base + k - 1)]]
    BY Zenon DEF ReadBytes
  <2> HIDE DEF o
  <2>2. \A k \in 1 .. size : o[k] = memory[CellOf(base + k - 1)]
    BY <2>1
  <2>3. o \in [1 .. size -> M]
    BY <2>1
  <2> HIDE DEF M
  <2>4. Len(o) = size
    BY <2>3, FunctionIsSeq
  <2> QED
    BY <2>2, <2>4
<1> HIDE DEF o
<1>2. p.base = base /\ p.original = o
  BY DEF o
<1>3. PatchOK(p)
  <2>1. \E r : InRam(r, base, size, "Read")
    BY AccessibleIs
  <2> QED
    BY <1>1, <1>2, <2>1 DEF PatchOK
<1>4. ASSUME NEW c \in Cells, Restores(p, c) PROVE Original(p, c) = memory[c]
  <2> DEFINE k == CHOOSE k \in 1 .. Len(o) : CellOf(base + k - 1) = c
  <2>1. k \in 1 .. Len(o) /\ CellOf(base + k - 1) = c
    BY <1>2, <1>4, Zenon DEF Restores, Reaches
  <2>2. Original(p, c) = o[k]
    BY <1>2, Zenon DEF Original, Value
  <2> HIDE DEF k
  <2> QED
    BY <1>1, <2>1, <2>2
<1> QED
  BY <1>1, <1>2, <1>3, <1>4 DEF Taken

\* A write into what a patch holds reaches only cells that the patch restores: the range
\* that was read and the one that is written lie in the same region.
LEMMA WriteKept ==
    ASSUME SpaceOK, NEW q, PatchOK(q), NEW w \in Step, Writing(w), w.size = Len(w.data), Keeps(q, w),
           Accessible(w.base, w.size, "Write"), NEW c, Reaches(w.base, w.data, c)
    PROVE  Restores(q, c)
<1> DEFINE n == Len(q.original)
<1>1. w.base \in Nat /\ w.size \in Nat \ {0} /\ q.base \in Nat /\ n \in Nat \ {0}
  BY DEF Step, Writing, PatchOK
<1>2. q.base <= w.base /\ w.base + w.size <= q.base + n
  BY DEF Keeps
<1>3. PICK r : InRam(r, w.base, w.size, "Write")
  BY <1>1, AccessibleIs
<1>4. PICK o : InRam(o, q.base, n, "Read")
  BY Zenon DEF PatchOK
<1>5. r = o
  <2>1. /\ r \in space /\ o \in space /\ r.base \in Nat /\ r.size \in Nat /\ o.base \in Nat /\ o.size \in Nat
        /\ r.base <= w.base /\ w.base + w.size <= r.base + r.size
        /\ o.base <= q.base /\ q.base + n <= o.base + o.size
    BY <1>3, <1>4, Zenon DEF InRam, SpaceOK
  <2>2. ~(r.base + r.size <= o.base) /\ ~(o.base + o.size <= r.base)
    <3> HIDE DEF n
    <3>1. o.base <= w.base /\ w.base < r.base + r.size
      BY <1>1, <1>2, <2>1
    <3>2. w.base < q.base + n
      BY <1>1, <1>2
    <3>3. r.base <= w.base /\ w.base < o.base + o.size
      BY <1>1, <2>1, <3>2
    <3> QED
      BY <1>1, <2>1, <3>1, <3>3
  <2> QED
    BY <2>1, <2>2, Zenon DEF SpaceOK
<1>6. InRam(r, q.base, n, "Write")
  BY <1>3, <1>4, <1>5, Zenon DEF InRam
<1>7. Accessible(q.base, n, "Write")
  BY <1>1, <1>6, AccessibleIs
<1>8. PICK k \in 1 .. Len(w.data) : CellOf(w.base + k - 1) = c
  BY Zenon DEF Reaches
<1> DEFINE x == (w.base - q.base) + k
<1>9. x \in 1 .. n /\ q.base + x - 1 = w.base + k - 1
  <2> HIDE DEF n
  <2> QED
    BY <1>1, <1>2, <1>8, SMTT(30)
<1>10. CellOf(q.base + x - 1) = c
  BY <1>8, <1>9
<1> HIDE DEF x
<1> QED
  BY <1>7, <1>9, <1>10, Zenon DEF Restores, Reaches

\* Writing w puts its byte at the address a, or leaves what is there.
WritesAt(m, w, a) ==
    /\ Covers(w, a) => CellOf(a) \in Cells /\ WriteBytes(m, w.base, w.data)[CellOf(a)] = Byte(w, a)
    /\ ~Covers(w, a) /\ CellOf(a) \in Cells => WriteBytes(m, w.base, w.data)[CellOf(a)] = m[CellOf(a)]

\* A write puts its bytes in place, and changes no other byte of the image.
LEMMA WriteInPlace ==
    ASSUME SpaceOK, NEW m, IsMemory(m), NEW img, Injective(img), NEW w \in Within(img), w.op = "Write",
           Accessible(w.base, w.size, "Write"), NEW a \in TouchedSpan(img)
    PROVE  WritesAt(m, w, a)
<1> DEFINE n == Len(w.data)
           u == WriteBytes(m, w.base, w.data)
           c == CellOf(a)
<1>1. w \in Step /\ w.base \in Nat /\ w.size = n /\ n \in Nat
  BY DEF Within, Step
<1>2. Span(w.base, n) \subseteq TouchedSpan(img) /\ (Covers(w, a) <=> a \in Span(w.base, n))
  BY <1>1 DEF Within, Covers
<1>3. \A x \in Cells : u[x] = IF Reaches(w.base, w.data, x) THEN Value(w.base, w.data, x) ELSE m[x]
  <2>1. Written(m, w.base, w.data, u)
    BY WriteFacts, Zenon
  <2> QED
    BY <2>1, Zenon DEF Written
<1>4. Accessible(w.base, n, "Write")
  BY <1>1
<1> HIDE DEF n, u
<1>5. ASSUME NEW k \in 1 .. n, CellOf(w.base + k - 1) = c
      PROVE  a = w.base + k - 1 /\ a \in Span(w.base, n) /\ k = (a - w.base) + 1
  <2>1. w.base + k - 1 \in Span(w.base, n)
    BY <1>1 DEF Span
  <2>2. w.base + k - 1 = a
    BY <1>2, <1>5, <2>1, Zenon DEF Injective
  <2>3. k = (a - w.base) + 1
    BY <1>1, <2>2
  <2> QED
    BY <2>1, <2>2, <2>3
<1>6. ASSUME Covers(w, a) PROVE c \in Cells /\ u[c] = Byte(w, a)
  <2> DEFINE k == (a - w.base) + 1
  <2>1. a \in Span(w.base, n)
    BY <1>2, <1>6
  <2>2. k \in 1 .. n /\ w.base + k - 1 = a
    BY <1>1, <2>1 DEF Span
  <2>3. CellOf(w.base + k - 1) = c
    BY <2>2
  <2> HIDE DEF k
  <2>4. PICK r : InRam(r, w.base, n, "Write")
    <3>1. n # 0
      BY <1>1, <2>2
    <3> QED
      BY <1>4, <3>1, AccessibleIs
  <2>5. CellOf(w.base + k - 1) \in Cells
    BY <1>1, <2>2, <2>4, CellsOfRange
  <2>6. c \in Cells /\ Reaches(w.base, w.data, c)
    BY <1>4, <2>2, <2>3, <2>5, Zenon DEF Reaches, n
  <2> DEFINE x == CHOOSE x \in 1 .. n : CellOf(w.base + x - 1) = c
  <2>7. x \in 1 .. n /\ CellOf(w.base + x - 1) = c
    BY <2>2, <2>3, Zenon
  <2>8. Value(w.base, w.data, c) = w.data[x]
    BY Zenon DEF Value, n
  <2> HIDE DEF x, c
  <2>9. x = (a - w.base) + 1
    BY <1>5, <2>7
  <2>10. Value(w.base, w.data, c) = Byte(w, a)
    BY <2>8, <2>9 DEF Byte
  <2> QED
    BY <1>3, <2>6, <2>10
<1>7. ASSUME ~Covers(w, a), c \in Cells PROVE u[c] = m[c]
  <2>1. ~Reaches(w.base, w.data, c)
    BY <1>2, <1>5, <1>7, Zenon DEF Reaches, n
  <2> QED
    BY <1>3, <1>7, <2>1
<1> QED
  BY <1>6, <1>7, Zenon DEF u, WritesAt

\* u is the patches q with p behind them.
Longer(q, p, u) ==
    /\ u \in Seq(Elements(u)) /\ Len(q) \in Nat /\ Len(u) = Len(q) + 1 /\ u[Len(q) + 1] = p
    /\ \A i \in 1 .. Len(q) : u[i] = q[i]

\* The patches after a backup.
LEMMA PatchAdded ==
    ASSUME NEW q, q \in Seq(Elements(q)), NEW p
    PROVE  Longer(q, p, Append(q, p))
<1> DEFINE S == Elements(q) \cup {p}
           u == Append(q, p)
<1>1. q \in Seq(S) /\ p \in S
  BY WiderSeq
<1> HIDE DEF S
<1>2. /\ u \in Seq(S) /\ Len(q) \in Nat /\ Len(u) = Len(q) + 1 /\ u[Len(q) + 1] = p
      /\ \A i \in 1 .. Len(q) : u[i] = q[i]
  BY <1>1, AppendProperties, LenProperties
<1>3. u \in [1 .. Len(u) -> Elements(u)]
  <2>1. DOMAIN u = 1 .. Len(u) /\ u \in [1 .. Len(u) -> S]
    BY <1>2, LenProperties, Zenon
  <2> HIDE DEF u
  <2>2. \A i \in 1 .. Len(u) : u[i] \in Elements(u)
    BY Zenon DEF Elements
  <2> QED
    BY <2>1, <2>2
<1>4. Len(u) \in Nat
  BY <1>2
<1> HIDE DEF u
<1>5. u \in Seq(Elements(u))
  BY <1>3, <1>4, FunctionIsSeq
<1> QED
  BY <1>2, <1>5, Zenon DEF Longer, u

\* The steps of a load, and the first of them.
LEMMA StepsFacts ==
    ASSUME NEW img, NEW s \in Seq(Within(img)), s # <<>>
    PROVE  /\ s \in Seq(Step) /\ Head(s) \in Within(img) /\ Head(s) \in Step
           /\ Tail(s) \in Seq(Within(img))
<1>1. Within(img) \subseteq Step
  BY DEF Within
<1>2. Head(s) \in Within(img) /\ Tail(s) \in Seq(Within(img))
  BY HeadTailProperties
<1> QED
  BY <1>1, <1>2, WiderSeq

\* A backup.
LEMMA BackupKeeps ==
    ASSUME NEW l, LoadGood(l, memory), l.steps # <<>>, NEW s, s = Head(l.steps),
           s.op = "Backup", s.size # 0, Accessible(s.base, s.size, "Read"),
           NEW k, k.media = l.media, k.before = l.before, k.steps = Tail(l.steps),
           k.patches = Append(l.patches, [base |-> s.base, original |-> ReadBytes(s.base, s.size)])
    PROVE  LoadGood(k, memory)
<1> DEFINE img == l.media.xbe
           n == Len(l.patches)
<1>0. /\ l.steps \in Seq(Within(img)) /\ l.patches \in Seq(Elements(l.patches))
      /\ \A q \in 1 .. n : PatchOK(l.patches[q])
      /\ Pending(l.steps, l.patches)
      /\ IsMemory(l.before) /\ Undoable(l, memory) /\ InPlace(l, memory)
  BY Zenon DEF LoadGood
<1>1. s \in Step /\ l.steps \in Seq(Step) /\ k.steps \in Seq(Within(k.media.xbe))
  BY <1>0, StepsFacts, Zenon
<1>2. s.base \in Nat /\ s.size \in Nat \ {0}
  BY <1>1 DEF Step
<1> DEFINE p == [base |-> s.base, original |-> ReadBytes(s.base, s.size)]
<1>p. p = [base |-> s.base, original |-> ReadBytes(s.base, s.size)]
  OBVIOUS
<1> HIDE DEF p
<1>3. /\ p.base = s.base /\ Len(p.original) = s.size /\ PatchOK(p)
      /\ \A c \in Cells : Restores(p, c) => Original(p, c) = memory[c]
  <2>1. Taken(p, s.base, s.size)
    BY <1>2, <1>p, PatchTaken, Zenon
  <2> QED
    BY <2>1, Zenon DEF Taken
<1> HIDE DEF img
<1>4. /\ k.patches \in Seq(Elements(k.patches)) /\ n \in Nat /\ Len(k.patches) = n + 1
      /\ k.patches[n + 1] = p /\ \A i \in 1 .. n : k.patches[i] = l.patches[i]
  <2>1. k.patches = Append(l.patches, p)
    BY DEF p
  <2>2. Longer(l.patches, p, Append(l.patches, p))
    BY <1>0, PatchAdded, Zenon
  <2>3. Longer(l.patches, p, k.patches)
    BY <2>1, <2>2, Zenon
  <2> QED
    BY <2>3, Zenon DEF Longer
<1> HIDE DEF n
<1>5. \A i : i \in 1 .. n + 1 <=> i \in 1 .. n \/ i = n + 1
  BY <1>4
<1>6. \A q \in 1 .. Len(k.patches) : PatchOK(k.patches[q])
  BY <1>0, <1>3, <1>4, <1>5, Zenon
<1>7. Pending(k.steps, k.patches)
  <2>1. \A q \in 1 .. n : \E x \in 1 .. Len(k.patches) : k.patches[x] = l.patches[q]
    BY <1>4, <1>5, Zenon
  <2>2. ASSUME NEW w \in Step, Writing(w), Shields(s, w)
        PROVE  \E x \in 1 .. Len(k.patches) : Keeps(k.patches[x], w)
    <3>1. Keeps(p, w)
      BY <1>3, <2>2 DEF Keeps, Shields
    <3> QED
      BY <1>4, <1>5, <3>1, Zenon
  <2> QED
    BY <1>0, <1>1, <2>1, <2>2, PendingTail DEF n
<1>8. Undoable(k, memory)
  <2> SUFFICES ASSUME NEW c \in Cells
               PROVE  \/ /\ \A q \in 1 .. Len(k.patches) : ~Restores(k.patches[q], c)
                         /\ memory[c] = k.before[c]
                      \/ \E q \in 1 .. Len(k.patches) :
                            /\ Restores(k.patches[q], c) /\ Original(k.patches[q], c) = k.before[c]
                            /\ \A x \in 1 .. q - 1 : ~Restores(k.patches[x], c)
    BY Zenon DEF Undoable
  <2>1. CASE (\A q \in 1 .. n : ~Restores(l.patches[q], c)) /\ memory[c] = l.before[c]
    <3>1. \A q \in 1 .. n : ~Restores(k.patches[q], c)
      BY <1>4, <2>1
    <3>2. CASE Restores(p, c)
      <4>1. (n + 1) - 1 = n /\ n + 1 \in 1 .. Len(k.patches)
        BY <1>4
      <4>2. Restores(k.patches[n + 1], c) /\ Original(k.patches[n + 1], c) = k.before[c]
        BY <1>3, <1>4, <2>1, <3>2
      <4> QED
        BY <3>1, <4>1, <4>2, Zenon
    <3>3. CASE ~Restores(p, c)
      BY <1>4, <1>5, <2>1, <3>1, <3>3, Zenon
    <3> QED
      BY <3>2, <3>3
  <2>2. CASE \E q \in 1 .. n : /\ Restores(l.patches[q], c) /\ Original(l.patches[q], c) = l.before[c]
                               /\ \A x \in 1 .. q - 1 : ~Restores(l.patches[x], c)
    <3>1. PICK q \in 1 .. n : /\ Restores(l.patches[q], c) /\ Original(l.patches[q], c) = l.before[c]
                              /\ \A x \in 1 .. q - 1 : ~Restores(l.patches[x], c)
      BY <2>2
    <3>2. q \in 1 .. Len(k.patches) /\ k.patches[q] = l.patches[q]
      BY <1>4
    <3>a. \A x \in 1 .. q - 1 : x \in 1 .. n
      BY <1>4
    <3>3. \A x \in 1 .. q - 1 : k.patches[x] = l.patches[x]
      BY <1>4, <3>a, Zenon
    <3> QED
      BY <3>1, <3>2, <3>3
  <2> QED
    BY <1>0, <2>1, <2>2, Zenon DEF Undoable, n
<1>9. InPlace(k, memory)
  <2>1. ASSUME NEW a, NEW v
        PROVE  /\ Says(l.steps, a, v) => Says(k.steps, a, v)
               /\ Silent(l.steps, a) => Silent(k.steps, a)
    <3>1. ~Covers(s, a)
      BY DEF Covers
    <3> QED
      BY <1>1, <3>1, SaysTail
  <2> QED
    BY <1>0, <2>1, Zenon DEF InPlace
<1> QED
  BY <1>0, <1>1, <1>4, <1>6, <1>7, <1>8, <1>9, Zenon DEF LoadGood

\* A write.
LEMMA WriteKeeps ==
    ASSUME SpaceOK, NEW m, IsMemory(m), NEW l, LoadGood(l, m), l.steps # <<>>, NEW s, s = Head(l.steps),
           s.op = "Write", Accessible(s.base, s.size, "Write"),
           NEW k, k.media = l.media, k.before = l.before, k.steps = Tail(l.steps), k.patches = l.patches
    PROVE  LoadGood(k, WriteBytes(m, s.base, s.data))
<1> DEFINE img == l.media.xbe
           n == Len(l.patches)
           u == WriteBytes(m, s.base, s.data)
<1>0. /\ l.steps \in Seq(Within(img)) /\ l.patches \in Seq(Elements(l.patches))
      /\ \A q \in 1 .. n : PatchOK(l.patches[q])
      /\ Pending(l.steps, l.patches)
      /\ IsMemory(l.before) /\ Undoable(l, m) /\ InPlace(l, m)
  BY Zenon DEF LoadGood
<1>1. /\ s \in Step /\ s \in Within(img) /\ l.steps \in Seq(Step)
      /\ k.steps \in Seq(Within(k.media.xbe))
  BY <1>0, StepsFacts, Zenon
<1>2. s.base \in Nat /\ s.size \in Nat /\ s.size = Len(s.data)
  BY <1>1 DEF Step, Within
<1>3. \A c \in Cells : u[c] = IF Reaches(s.base, s.data, c) THEN Value(s.base, s.data, c) ELSE m[c]
  <2>1. Written(m, s.base, s.data, u)
    BY WriteFacts, Zenon
  <2> QED
    BY <2>1, Zenon DEF Written
<1>4. n \in Nat
  BY <1>0, LenProperties
<1> HIDE DEF u, img
<1>5. Pending(k.steps, k.patches)
  <2>1. \A w \in Step : ~Shields(s, w)
    BY DEF Shields
  <2> QED
    BY <1>0, <1>1, <2>1, PendingTail
<1>6. ASSUME NEW c \in Cells, Reaches(s.base, s.data, c) PROVE \E q \in 1 .. n : Restores(l.patches[q], c)
  <2>1. PICK x \in 1 .. Len(s.data) : CellOf(s.base + x - 1) = c
    BY <1>6, Zenon DEF Reaches
  <2>2. Writing(s)
    BY <1>2, <2>1 DEF Writing
  <2>3. 1 \in 1 .. Len(l.steps) /\ l.steps[1] = s /\ \A i \in 1 .. Len(l.steps) : ~(i < 1)
    BY <1>1, HeadTailProperties, LenProperties, EmptySeq
  <2>4. PICK q \in 1 .. n : Keeps(l.patches[q], s)
    BY <1>0, <2>2, <2>3, Zenon DEF Pending
  <2>5. PatchOK(l.patches[q])
    BY <1>0
  <2>6. Restores(l.patches[q], c)
    BY <1>1, <1>2, <1>6, <2>2, <2>4, <2>5, WriteKept
  <2> QED
    BY <2>6
<1>7. Undoable(k, u)
  <2> SUFFICES ASSUME NEW c \in Cells
               PROVE  \/ /\ \A q \in 1 .. n : ~Restores(l.patches[q], c)
                         /\ u[c] = l.before[c]
                      \/ \E q \in 1 .. n :
                            /\ Restores(l.patches[q], c) /\ Original(l.patches[q], c) = l.before[c]
                            /\ \A x \in 1 .. q - 1 : ~Restores(l.patches[x], c)
    BY Zenon DEF Undoable
  <2>1. CASE Reaches(s.base, s.data, c)
    BY <1>0, <1>6, <2>1, Zenon DEF Undoable
  <2>2. CASE ~Reaches(s.base, s.data, c)
    <3>1. u[c] = m[c]
      BY <1>3, <2>2
    <3> QED
      BY <1>0, <3>1, Zenon DEF Undoable
  <2> QED
    BY <2>1, <2>2
<1>8. InPlace(k, u)
  <2> SUFFICES ASSUME Injective(img), NEW a \in ImageSpan(img)
               PROVE  \/ Says(k.steps, a, Expected(img, a))
                      \/ /\ Silent(k.steps, a)
                         /\ CellOf(a) \in Cells /\ u[CellOf(a)] = Expected(img, a)
    BY Zenon DEF InPlace, img
  <2>1. \/ Says(l.steps, a, Expected(img, a))
        \/ Silent(l.steps, a) /\ CellOf(a) \in Cells /\ m[CellOf(a)] = Expected(img, a)
    BY <1>0, Zenon DEF InPlace, img
  <2>2. a \in TouchedSpan(img)
    BY Zenon DEF TouchedSpan
  <2>3. /\ Covers(s, a) => CellOf(a) \in Cells /\ u[CellOf(a)] = Byte(s, a)
        /\ ~Covers(s, a) /\ CellOf(a) \in Cells => u[CellOf(a)] = m[CellOf(a)]
    <3>1. WritesAt(m, s, a)
      BY <1>1, <2>2, WriteInPlace, Zenon
    <3> QED
      BY <3>1, Zenon DEF u, WritesAt
  <2>4. /\ Says(l.steps, a, Expected(img, a)) =>
              \/ Says(k.steps, a, Expected(img, a))
              \/ Silent(k.steps, a) /\ Covers(s, a) /\ Byte(s, a) = Expected(img, a)
        /\ Silent(l.steps, a) => Silent(k.steps, a) /\ ~Covers(s, a)
    <3> DEFINE v == Expected(img, a)
    <3> HIDE DEF v
    <3>1. /\ Says(l.steps, a, v) =>
                \/ Says(Tail(l.steps), a, v)
                \/ Silent(Tail(l.steps), a) /\ Covers(Head(l.steps), a) /\ Byte(Head(l.steps), a) = v
          /\ Silent(l.steps, a) => Silent(Tail(l.steps), a) /\ ~Covers(Head(l.steps), a)
      BY <1>1, SaysTail, Zenon
    <3> QED
      BY <3>1, Zenon DEF v
  <2> QED
    BY <2>1, <2>3, <2>4, Zenon
<1> QED
  BY <1>0, <1>1, <1>5, <1>7, <1>8, Zenon DEF LoadGood, u

\* A read of the source, or the backup of an empty range.
LEMMA QuietKeeps ==
    ASSUME NEW m, NEW l, LoadGood(l, m), l.steps # <<>>, NEW s, s = Head(l.steps),
           s.op # "Write", s.op # "Backup" \/ s.size = 0,
           NEW k, k.media = l.media, k.before = l.before, k.steps = Tail(l.steps), k.patches = l.patches
    PROVE  LoadGood(k, m)
<1>0. /\ l.steps \in Seq(Within(l.media.xbe)) /\ l.patches \in Seq(Elements(l.patches))
      /\ \A q \in 1 .. Len(l.patches) : PatchOK(l.patches[q])
      /\ Pending(l.steps, l.patches)
      /\ IsMemory(l.before) /\ Undoable(l, m) /\ InPlace(l, m)
  BY Zenon DEF LoadGood
<1>1. s \in Step /\ l.steps \in Seq(Step) /\ k.steps \in Seq(Within(k.media.xbe))
  BY <1>0, StepsFacts
<1>2. Pending(k.steps, k.patches)
  <2>1. ASSUME NEW w \in Step, Writing(w) PROVE ~Shields(s, w)
    BY <1>1, <2>1, SMTT(30) DEF Shields, Writing, Step
  <2> QED
    BY <1>0, <1>1, <2>1, PendingTail
<1>3. Undoable(k, m)
  BY <1>0, Zenon DEF Undoable
<1>4. InPlace(k, m)
  <2>1. ASSUME NEW a, NEW v
        PROVE  /\ Says(l.steps, a, v) => Says(k.steps, a, v)
               /\ Silent(l.steps, a) => Silent(k.steps, a)
    <3>1. ~Covers(s, a)
      BY DEF Covers
    <3> QED
      BY <1>1, <3>1, SaysTail
  <2> QED
    BY <1>0, <2>1, Zenon DEF InPlace
<1> QED
  BY <1>0, <1>1, <1>2, <1>3, <1>4, Zenon DEF LoadGood

-----------------------------------------------------------------------------
(* The invariant.                                                           *)

IsLoad(l) ==
    l = [active |-> l.active, media |-> l.media, steps |-> l.steps, patches |-> l.patches,
         before |-> l.before, outcome |-> l.outcome]

\* A session is Created until a boot is done, and no boot starts after that; regions
\* are mapped before the first.
BootInv ==
    /\ SpaceOK /\ IsMemory(memory) /\ prepares \in Nat /\ IsLoad(load)
    /\ prepares = 0 => load.outcome = "none" /\ ~load.active
    /\ load.outcome = "done" => boot.state # "Created"
    /\ load.outcome # "done" => boot.state = "Created" /\ boot.volume = {}
    /\ load.active => load.outcome = "none" /\ LoadGood(load, memory)
    /\ BootIsAllOrNothing

\* What is said of a load depends, of the state, on the regions alone.
LEMMA SameSpace ==
    ASSUME space' = space, NEW k, k = load', NEW m, m = memory', LoadGood(k, m)
    PROVE  LoadGood(load, memory)'
<1>1. \A q \in 1 .. Len(k.patches) : PatchOK(k.patches[q])
  BY Zenon DEF LoadGood
<1>2. Undoable(k, m) /\ InPlace(k, m)
  BY Zenon DEF LoadGood
<1>3. ASSUME NEW q \in 1 .. Len(load'.patches) PROVE PatchOK(load.patches[q])'
  BY <1>1 DEF PatchOK, InRam
<1>4. Undoable(load, memory)'
  <2>1. \A c, q : Restores(load.patches[q], c)' = Restores(k.patches[q], c)
    BY DEF Restores, Reaches, Accessible, Resolve, CellOf
  <2>2. \A c, q : Original(load.patches[q], c)' = Original(k.patches[q], c)
    BY DEF Original, Value, CellOf
  <2>3. ASSUME NEW c \in Cells
        PROVE  \/ /\ \A q \in 1 .. Len(load'.patches) : ~(Restores(load.patches[q], c)')
                  /\ memory'[c] = load'.before[c]
               \/ \E q \in 1 .. Len(load'.patches) :
                     /\ Restores(load.patches[q], c)' /\ Original(load.patches[q], c)' = load'.before[c]
                     /\ \A p \in 1 .. q - 1 : ~(Restores(load.patches[p], c)')
    <3>1. \/ /\ \A q \in 1 .. Len(k.patches) : ~Restores(k.patches[q], c)
             /\ m[c] = k.before[c]
          \/ \E q \in 1 .. Len(k.patches) :
                /\ Restores(k.patches[q], c) /\ Original(k.patches[q], c) = k.before[c]
                /\ \A p \in 1 .. q - 1 : ~Restores(k.patches[p], c)
      BY <1>2, Zenon DEF Undoable
    <3> QED
      BY <2>1, <2>2, <3>1, Zenon
  <2> QED
    BY <2>3, Zenon DEF Undoable
<1>5. InPlace(load, memory)'
  <2>1. \A a : CellOf(a)' = CellOf(a)
    BY DEF CellOf
  <2>2. Injective(load.media.xbe)' = Injective(k.media.xbe)
    BY <2>1 DEF Injective
  <2> QED
    BY <1>2, <2>1, <2>2 DEF InPlace
<1> QED
  BY <1>3, <1>4, <1>5 DEF LoadGood

\* Mapping a region keeps regions apart.
LEMMA MapKeeps ==
    ASSUME SpaceOK, NEW r, r.base \in Nat, r.size \in Nat, r.offset \in Nat, Mappable(r),
           space' = space \cup {r}
    PROVE  SpaceOK'
<1>1. /\ r.type = "Ram" => r.offset + r.size <= RamSize
      /\ \A o \in space : ~(o.base < r.base + r.size /\ r.base < o.base + o.size)
  BY Zenon DEF Mappable
<1>2. \A o \in space : r.base + r.size <= o.base \/ o.base + o.size <= r.base
  <2> TAKE o \in space
  <2>1. o.base \in Nat /\ o.size \in Nat /\ ~(o.base < r.base + r.size /\ r.base < o.base + o.size)
    BY <1>1 DEF SpaceOK
  <2> QED
    BY <2>1
<1>3. \A o \in space' : o \in space \/ o = r
  OBVIOUS
<1>4. /\ \A o \in space : o.base \in Nat /\ o.size \in Nat /\ o.offset \in Nat
      /\ \A o \in space : o.type = "Ram" => o.offset + o.size <= RamSize
      /\ \A p, o \in space : p = o \/ p.base + p.size <= o.base \/ o.base + o.size <= p.base
  BY Zenon DEF SpaceOK
<1>5. \A o \in space' : o.base \in Nat /\ o.size \in Nat /\ o.offset \in Nat
  BY <1>3, <1>4, Zenon
<1>6. \A o \in space' : o.type = "Ram" => o.offset + o.size <= RamSize
  BY <1>1, <1>3, <1>4, Zenon
<1>7. \A p, o \in space' : p = o \/ p.base + p.size <= o.base \/ o.base + o.size <= p.base
  BY <1>2, <1>3, <1>4, Zenon
<1> QED
  BY <1>5, <1>6, <1>7, Zenon DEF SpaceOK

\* The load of a planned image starts well, whatever the regions are.
LEMMA LoadStarts ==
    ASSUME NEW x \in Media, Plannable(x.xbe), NEW k, k = load', NEW m, m = memory', IsMemory(m),
           k.media = x, k.steps = ApplySteps(x.xbe), k.patches = <<>>, k.before = m
    PROVE  LoadGood(load, memory)'
<1> DEFINE img == x.xbe
<1>1. /\ ApplySteps(img) \in Seq(Within(img)) /\ GuardedBy({}, ApplySteps(img))
      /\ \A a \in ImageSpan(img) : Says(ApplySteps(img), a, Expected(img, a))
  BY ApplyFacts, BootAssumption, Zenon
<1>2. k.patches \in Seq(Elements(k.patches)) /\ Len(k.patches) = 0 /\ 1 .. Len(k.patches) = {}
  BY DEF Elements
<1>3. Pending(k.steps, k.patches)
  BY <1>1, Zenon DEF Pending, GuardedBy
<1>4. Undoable(load, memory)'
  <2>1. 1 .. Len(load'.patches) = {}
    BY <1>2
  <2>2. \A c : memory'[c] = load'.before[c]
    OBVIOUS
  <2>3. ASSUME NEW c \in Cells
        PROVE  /\ \A q \in 1 .. Len(load'.patches) : ~(Restores(load.patches[q], c)')
               /\ memory'[c] = load'.before[c]
    BY <2>1, <2>2, Zenon
  <2> QED
    BY <2>3, Zenon DEF Undoable
<1>5. InPlace(load, memory)'
  <2>1. \A a \in ImageSpan(load'.media.xbe) : Says(load'.steps, a, Expected(load'.media.xbe, a))
    BY <1>1, Zenon
  <2> QED
    BY <2>1, Zenon DEF InPlace
<1>6. \A q \in 1 .. Len(load'.patches) : PatchOK(load.patches[q])'
  BY <1>2, Zenon
<1>7. load'.steps \in Seq(Within(load'.media.xbe)) /\ load'.patches \in Seq(Elements(load'.patches))
      /\ Pending(load'.steps, load'.patches) /\ IsMemory(load'.before)
  BY <1>1, <1>2, <1>3, Zenon
<1> QED
  BY <1>4, <1>5, <1>6, <1>7, Zenon DEF LoadGood

\* The fields of a load.
LEMMA LoadIs ==
    ASSUME NEW l, IsLoad(l)
    PROVE  \E a, m, s, p, b, e :
              l = [active |-> a, media |-> m, steps |-> s, patches |-> p, before |-> b, outcome |-> e]
BY Zenon DEF IsLoad

\* A failed step.
LEMMA FailKeeps ==
    ASSUME BootInv, load.active, ApplyFails
    PROVE  BootInv'
<1>1. LoadGood(load, memory) /\ IsMemory(memory) /\ load.outcome = "none" /\ IsLoad(load)
      /\ boot.state = "Created" /\ boot.volume = {}
  BY DEF BootInv
<1>2. memory' = load.before
  BY <1>1, Undone, Zenon DEF ApplyFails
<1>3. IsMemory(memory')
  BY <1>1, <1>2, Zenon DEF LoadGood
<1>4. /\ IsLoad(load') /\ load'.active = FALSE /\ load'.outcome = "failed"
      /\ load'.before = load.before
  <2>1. load' = [load EXCEPT !.active = FALSE, !.outcome = "failed"]
    BY DEF ApplyFails
  <2>2. PICK a, m, s, p, b, e :
           load = [active |-> a, media |-> m, steps |-> s, patches |-> p, before |-> b, outcome |-> e]
    BY <1>1, LoadIs
  <2>3. load' = [active |-> FALSE, media |-> m, steps |-> s, patches |-> p, before |-> b, outcome |-> "failed"]
    BY <2>1, <2>2, Zenon
  <2> QED
    BY <2>2, <2>3 DEF IsLoad
<1>5. SpaceOK'
  BY DEF ApplyFails, BootInv, SpaceOK
<1>6. boot' = boot /\ prepares' = prepares /\ prepares \in Nat /\ prepares # 0
  BY DEF ApplyFails, BootInv
<1> QED
  BY <1>1, <1>2, <1>3, <1>4, <1>5, <1>6
     DEF BootInv, BootIsAllOrNothing, FailedBootLeavesNoTrace, BootedImageIsComplete

\* A step of Apply.
LEMMA StepKeeps ==
    ASSUME BootInv, ApplyStep
    PROVE  BootInv'
<1> DEFINE s == Head(load.steps)
           p == [base |-> s.base, original |-> ReadBytes(s.base, s.size)]
           Works == CASE s.op = "Backup" -> Accessible(s.base, s.size, "Read")
                      [] s.op = "Write" -> Accessible(s.base, s.size, "Write")
                      [] OTHER -> TRUE
<1>1. load.active /\ load.steps # <<>>
  BY DEF ApplyStep
<1>2. CASE ~Works
  <2>1. ApplyFails
    BY <1>2, Zenon DEF ApplyStep
  <2> QED
    BY <1>1, <2>1, FailKeeps
<1>3. CASE Works
  <2>1. /\ LoadGood(load, memory) /\ IsMemory(memory) /\ load.outcome = "none" /\ IsLoad(load)
        /\ boot.state = "Created" /\ boot.volume = {} /\ SpaceOK /\ prepares \in Nat /\ prepares # 0
    BY <1>1 DEF BootInv
  <2>2. /\ memory' = IF s.op = "Write" THEN WriteBytes(memory, s.base, s.data) ELSE memory
        /\ load' = [load EXCEPT
                     !.steps = Tail(load.steps),
                     !.patches = IF s.op # "Backup" \/ s.size = 0 THEN load.patches
                                 ELSE Append(load.patches, p)]
        /\ space' = space /\ boot' = boot /\ prepares' = prepares
    BY <1>3, Zenon DEF ApplyStep
  <2> HIDE DEF s, p
  <2>3. PICK k : k = load'
    OBVIOUS
  <2>4. /\ IsLoad(k) /\ k.steps = Tail(load.steps) /\ k.active = load.active /\ k.outcome = load.outcome
        /\ k.media = load.media /\ k.before = load.before
        /\ k.patches = IF s.op # "Backup" \/ s.size = 0 THEN load.patches ELSE Append(load.patches, p)
    <3> DEFINE t == Tail(load.steps)
               q == IF s.op # "Backup" \/ s.size = 0 THEN load.patches ELSE Append(load.patches, p)
    <3>1. k = [load EXCEPT !.steps = t, !.patches = q]
      BY <2>2, <2>3
    <3> HIDE DEF t, q
    <3>2. /\ IsLoad(k) /\ k.steps = t /\ k.patches = q /\ k.active = load.active
          /\ k.outcome = load.outcome /\ k.media = load.media /\ k.before = load.before
      <4>1. PICK a, m, z, y, b, e :
               load = [active |-> a, media |-> m, steps |-> z, patches |-> y, before |-> b, outcome |-> e]
        BY <2>1, LoadIs
      <4>2. k = [active |-> a, media |-> m, steps |-> t, patches |-> q, before |-> b, outcome |-> e]
        BY <3>1, <4>1, Zenon
      <4> QED
        BY <4>1, <4>2 DEF IsLoad
    <3> QED
      BY <3>2 DEF t, q
  <2>5. PICK m : m = memory'
    OBVIOUS
  <2>6. LoadGood(k, m) /\ IsMemory(m)
    <3>1. CASE s.op = "Write"
      <4>1. Accessible(s.base, s.size, "Write")
        BY <1>3, <3>1
      <4>2. m = WriteBytes(memory, s.base, s.data) /\ k.patches = load.patches
        BY <2>2, <2>4, <2>5, <3>1
      <4>3. IsMemory(m)
        BY <2>1, <4>2, WriteFacts DEF Written
      <4>4. LoadGood(k, WriteBytes(memory, s.base, s.data))
        BY <1>1, <2>1, <2>4, <3>1, <4>1, <4>2, WriteKeeps DEF s
      <4> QED
        BY <4>2, <4>3, <4>4
    <3>2. CASE s.op = "Backup" /\ s.size # 0
      <4>1. Accessible(s.base, s.size, "Read")
        BY <1>3, <3>2
      <4>2. m = memory /\ k.patches = Append(load.patches, p)
        BY <2>2, <2>4, <2>5, <3>2
      <4>3. LoadGood(k, memory)
        BY <1>1, <2>1, <2>4, <3>2, <4>1, <4>2, BackupKeeps DEF s, p
      <4> QED
        BY <2>1, <4>2, <4>3
    <3>3. CASE s.op # "Write" /\ (s.op # "Backup" \/ s.size = 0)
      <4>1. m = memory /\ k.patches = load.patches
        BY <2>2, <2>4, <2>5, <3>3
      <4>2. LoadGood(k, memory)
        BY <1>1, <2>1, <2>4, <3>3, <4>1, QuietKeeps DEF s
      <4> QED
        BY <2>1, <4>1, <4>2
    <3> QED
      BY <3>1, <3>2, <3>3
  <2>7. LoadGood(load, memory)'
    BY <2>2, <2>3, <2>5, <2>6, SameSpace
  <2>8. SpaceOK'
    BY <2>1, <2>2 DEF SpaceOK
  <2>9. IsMemory(memory') /\ IsLoad(load') /\ load'.outcome = "none" /\ load'.active
    BY <1>1, <2>1, <2>3, <2>4, <2>5, <2>6
  <2> QED
    BY <2>1, <2>2, <2>7, <2>8, <2>9
       DEF BootInv, BootIsAllOrNothing, FailedBootLeavesNoTrace, BootedImageIsComplete
<1> QED
  BY <1>2, <1>3

\* A region is mapped.
LEMMA RegionKeeps ==
    ASSUME BootInv, NEW r \in ExtraRegions, MapRegion(r)
    PROVE  BootInv'
<1>1. SpaceOK'
  <2>1. r.base \in Nat /\ r.size \in Nat /\ r.offset \in Nat
    BY BootAssumption, Zenon
  <2> QED
    BY <2>1, MapKeeps DEF MapRegion, BootInv
<1>2. /\ memory' = memory /\ load' = load /\ boot' = boot /\ prepares' = prepares
      /\ load.outcome = "none" /\ ~load.active
  BY DEF MapRegion, BootInv
<1>3. /\ IsMemory(memory') /\ prepares' \in Nat /\ IsLoad(load')
      /\ boot'.state = "Created" /\ boot'.volume = {}
  BY <1>2 DEF BootInv
<1> QED
  BY <1>1, <1>2, <1>3
     DEF BootInv, BootIsAllOrNothing, FailedBootLeavesNoTrace, BootedImageIsComplete

\* PrepareMedia, up to Apply.
LEMMA PrepareKeeps ==
    ASSUME BootInv, NEW x \in Media, NEW readable, PrepareMedia(x, readable)
    PROVE  BootInv'
<1> DEFINE proceed == readable /\ Bootable(x) /\ (RamMapped \/ Mappable(RamRegion))
<1>1. /\ ~load.active /\ boot.state = "Created" /\ prepares' = prepares + 1
      /\ space' = IF proceed /\ ~RamMapped THEN space \cup {RamRegion} ELSE space
      /\ load' = IF proceed
                 THEN [active |-> TRUE, media |-> x, steps |-> ApplySteps(x.xbe),
                       patches |-> <<>>, before |-> memory, outcome |-> "none"]
                 ELSE [NoLoad EXCEPT !.before = memory, !.outcome = "failed"]
      /\ memory' = memory /\ boot' = boot
  BY Zenon DEF PrepareMedia
<1>2. /\ SpaceOK /\ IsMemory(memory) /\ prepares \in Nat
      /\ boot.state = "Created" /\ boot.volume = {}
  BY <1>1 DEF BootInv
<1>3. prepares' \in Nat /\ prepares' # 0
  BY <1>1, <1>2
<1>4. SpaceOK'
  <2>1. CASE proceed /\ ~RamMapped
    <3>1. RamRegion.base \in Nat /\ RamRegion.size \in Nat /\ RamRegion.offset \in Nat
      BY BootAssumption DEF RamRegion
    <3>2. Mappable(RamRegion) /\ space' = space \cup {RamRegion}
      BY <1>1, <2>1
    <3> QED
      BY <1>2, <3>1, <3>2, MapKeeps
  <2>2. CASE ~(proceed /\ ~RamMapped)
    <3>1. space' = space
      BY <1>1, <2>2
    <3> QED
      BY <1>2, <3>1 DEF SpaceOK
  <2> QED
    BY <2>1, <2>2
<1>5. CASE proceed
  <2>1. load' = [active |-> TRUE, media |-> x, steps |-> ApplySteps(x.xbe),
                 patches |-> <<>>, before |-> memory, outcome |-> "none"]
    BY <1>1, <1>5
  <2>2. PICK k : k = load'
    OBVIOUS
  <2>3. PICK m : m = memory'
    OBVIOUS
  <2>4. /\ k.media = x /\ k.steps = ApplySteps(x.xbe) /\ k.patches = <<>> /\ k.before = m
        /\ k.active = TRUE /\ k.outcome = "none" /\ IsLoad(k)
    BY <1>1, <2>1, <2>2, <2>3 DEF IsLoad
  <2>5. Plannable(x.xbe)
    BY <1>5, Zenon DEF Bootable
  <2>6. LoadGood(load, memory)'
    BY <1>1, <1>2, <2>2, <2>3, <2>4, <2>5, LoadStarts, Zenon
  <2>7. IsLoad(load') /\ load'.active = TRUE /\ load'.outcome = "none"
    BY <2>2, <2>4
  <2> HIDE DEF proceed
  <2> QED
    BY <1>1, <1>2, <1>3, <1>4, <2>6, <2>7
       DEF BootInv, BootIsAllOrNothing, FailedBootLeavesNoTrace, BootedImageIsComplete
<1>6. CASE ~proceed
  <2>1. load' = [NoLoad EXCEPT !.before = memory, !.outcome = "failed"]
    BY <1>1, <1>6
  <2>2. /\ IsLoad(load') /\ load'.active = FALSE /\ load'.outcome = "failed"
        /\ load'.before = memory
    BY <2>1, Zenon DEF NoLoad, IsLoad
  <2> HIDE DEF proceed
  <2> QED
    BY <1>1, <1>2, <1>3, <1>4, <2>2
       DEF BootInv, BootIsAllOrNothing, FailedBootLeavesNoTrace, BootedImageIsComplete
<1> QED
  BY <1>5, <1>6

\* The end of PrepareMedia.
LEMMA CommitKeeps ==
    ASSUME BootInv, PrepareCommits
    PROVE  BootInv'
<1>1. /\ load.active /\ load.steps = <<>> /\ space' = space /\ memory' = memory /\ prepares' = prepares
      /\ load' = [load EXCEPT !.active = FALSE, !.outcome = "done"]
      /\ boot'.state = "Prepared"
  BY DEF PrepareCommits
<1>2. /\ SpaceOK /\ IsMemory(memory) /\ prepares \in Nat /\ prepares # 0 /\ IsLoad(load)
      /\ LoadGood(load, memory)
  BY <1>1 DEF BootInv
<1>3. /\ IsLoad(load') /\ load'.active = FALSE /\ load'.outcome = "done"
      /\ load'.media = load.media
  <2>1. load' = [load EXCEPT !.active = FALSE, !.outcome = "done"]
    BY <1>1
  <2>2. PICK a, m, s, p, b, e :
           load = [active |-> a, media |-> m, steps |-> s, patches |-> p, before |-> b, outcome |-> e]
    BY <1>2, LoadIs
  <2>3. load' = [active |-> FALSE, media |-> m, steps |-> s, patches |-> p, before |-> b, outcome |-> "done"]
    BY <2>1, <2>2, Zenon
  <2> QED
    BY <2>2, <2>3 DEF IsLoad
<1>4. SpaceOK'
  BY <1>1, <1>2 DEF SpaceOK
<1>5. BootedImageIsComplete'
  <2>1. \A a : CellOf(a)' = CellOf(a)
    BY <1>1 DEF CellOf
  <2> DEFINE img == load.media.xbe
  <2>2. ASSUME \A a, b \in TouchedSpan(img) : CellOf(a) = CellOf(b) => a = b, NEW a \in ImageSpan(img)
        PROVE  memory[CellOf(a)] = Expected(img, a)
    <3>1. Injective(img)
      BY <2>2, Zenon DEF Injective
    <3>2. \A v : ~Says(<<>>, a, v)
      <4>1. 1 .. Len(<<>>) = {}
        OBVIOUS
      <4> QED
        BY <4>1, Zenon DEF Says
    <3> QED
      BY <1>1, <1>2, <2>2, <3>1, <3>2, Zenon DEF LoadGood, InPlace
  <2>3. load'.media.xbe = img
    BY <1>3
  <2>4. ASSUME \A a, b \in TouchedSpan(img) : CellOf(a)' = CellOf(b)' => a = b, NEW a \in ImageSpan(img)
        PROVE  memory'[CellOf(a)'] = Expected(img, a)
    <3>1. \A c, b \in TouchedSpan(img) : CellOf(c) = CellOf(b) => c = b
      BY <2>1, <2>4, Zenon
    <3>2. memory[CellOf(a)] = Expected(img, a)
      BY <2>2, <3>1, Zenon
    <3> QED
      BY <1>1, <2>1, <3>2, Zenon
  <2> HIDE DEF img
  <2> QED
    BY <2>3, <2>4, Zenon DEF BootedImageIsComplete
<1>6. FailedBootLeavesNoTrace'
  BY <1>3 DEF FailedBootLeavesNoTrace
<1> QED
  BY <1>1, <1>2, <1>3, <1>4, <1>5, <1>6 DEF BootInv, BootIsAllOrNothing

\* A step that changes nothing.
LEMMA StutterKeeps ==
    ASSUME BootInv, UNCHANGED bootVars
    PROVE  BootInv'
<1>1. space' = space /\ memory' = memory /\ load' = load /\ boot' = boot /\ prepares' = prepares
  BY DEF bootVars
<1>2. SpaceOK'
  BY <1>1 DEF BootInv, SpaceOK
<1>3. load.active => LoadGood(load, memory)'
  <2>1. PICK k : k = load
    OBVIOUS
  <2>2. PICK m : m = memory
    OBVIOUS
  <2>3. load.active => LoadGood(k, m)
    BY <2>1, <2>2 DEF BootInv
  <2>4. k = load' /\ m = memory'
    BY <1>1, <2>1, <2>2
  <2> QED
    BY <1>1, <2>3, <2>4, SameSpace
<1>4. BootIsAllOrNothing'
  <2>1. \A a : CellOf(a)' = CellOf(a)
    BY <1>1 DEF CellOf
  <2>2. FailedBootLeavesNoTrace'
    BY <1>1 DEF FailedBootLeavesNoTrace, BootInv, BootIsAllOrNothing
  <2>3. BootedImageIsComplete'
    BY <1>1, <2>1, Zenon DEF BootedImageIsComplete, BootInv, BootIsAllOrNothing
  <2> QED
    BY <2>2, <2>3 DEF BootIsAllOrNothing
<1> QED
  BY <1>1, <1>2, <1>3, <1>4 DEF BootInv

\* The inductive invariant of the boot (MapRegion, PrepareMedia, XbeLoader::Apply).
THEOREM BootInvariant == BootSpec => []BootInv
<1>1. BootInit => BootInv
  <2> SUFFICES ASSUME BootInit PROVE BootInv
    OBVIOUS
  <2>1. SpaceOK
    BY DEF BootInit, SpaceOK
  <2>2. IsMemory(memory)
    BY DEF BootInit, IsMemory, Cells
  <2>3. IsLoad(load) /\ load.outcome = "none" /\ ~load.active
    BY DEF BootInit, NoLoad, IsLoad
  <2>4. boot.state = "Created" /\ boot.volume = {} /\ prepares = 0
    BY DEF BootInit
  <2> QED
    BY <2>1, <2>2, <2>3, <2>4 DEF BootInv, BootIsAllOrNothing, FailedBootLeavesNoTrace, BootedImageIsComplete
<1>2. BootInv /\ [BootNext]_bootVars => BootInv'
  <2> SUFFICES ASSUME BootInv, [BootNext]_bootVars PROVE BootInv'
    OBVIOUS
  <2>1. CASE \E r \in ExtraRegions : MapRegion(r)
    BY <2>1, RegionKeeps
  <2>2. CASE \E m \in Media, readable \in BOOLEAN : PrepareMedia(m, readable)
    BY <2>2, PrepareKeeps
  <2>3. CASE ApplyStep
    BY <2>3, StepKeeps
  <2>4. CASE SourceFails
    BY <2>4, FailKeeps DEF SourceFails
  <2>5. CASE PrepareCommits
    BY <2>5, CommitKeeps
  <2>6. CASE UNCHANGED bootVars
    BY <2>6, StutterKeeps
  <2> QED
    BY <2>1, <2>2, <2>3, <2>4, <2>5, <2>6, Zenon DEF BootNext
<1> QED
  BY <1>1, <1>2, PTL DEF BootSpec

\* A boot is all or nothing: one that fails, at whatever step, leaves memory and session
\* as they were; one that succeeds leaves every byte of the image in its place
\* (XbeLoader::Plan, XbeLoader::Apply, RollbackPatches, MachineSession::PrepareMedia).
THEOREM AllOrNothing == BootSpec => []BootIsAllOrNothing
<1>1. BootInv => BootIsAllOrNothing
  BY DEF BootInv
<1> QED
  BY <1>1, BootInvariant, PTL

=============================================================================

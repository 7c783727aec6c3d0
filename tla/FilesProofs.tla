---------------------------- MODULE FilesProofs ----------------------------
(***************************************************************************)
(* Theorems about the title's files.                                       *)
(*                                                                         *)
(* KernelHandles, for every size of the tables, and as long as no          *)
(* generation comes round: a handle leads to the object it was given for   *)
(* exactly as long as the title holds it.  The invariant: a reference has  *)
(* the generation of its slot and the slot is open for its object, or the  *)
(* slot has gone on to a later generation.  A slot has been opened at      *)
(* least as often as its generation says, so the number of objects ever    *)
(* made bounds the generations.                                            *)
(*                                                                         *)
(* DiscVolume, for every image and every bound: a traversal lists no       *)
(* directory twice.  The invariant: the directories listed are distinct    *)
(* and their sectors are all among those visited.                          *)
(***************************************************************************)
EXTENDS KernelHandles, DiscVolume, SequenceTheorems, WellFoundedInduction, TLAPS

\* No generation comes round in the session: there are 2^16 of them in the code.
NoWrap == MaxObjects + 1 < Generations /\ MaxFiles + 1 < Generations

AnySlot == [open : BOOLEAN, gen : Nat, id : Nat, pos : Int]
Reference == [kind : {"object", "file"}, value : [index : Nat, gen : Nat], id : Nat,
              closed : BOOLEAN]

\* The slot of a reference still has its generation, and then is open for its
\* object, or has a later one.
Leads(table, r) ==
    /\ r.value.index \in DOMAIN table /\ r.value.gen \in Nat \ {0}
    /\ LET slot == table[r.value.index]
       IN  \/ r.value.gen < slot.gen
           \/ r.value.gen = slot.gen /\ slot.open /\ slot.id = r.id

\* A table after n files or objects were made, and the references into it.
Tracks(table, R, n) ==
    /\ table \in Seq(AnySlot)
    /\ \A i \in DOMAIN table : /\ table[i].gen >= 1
                               /\ table[i].gen <= IF table[i].open THEN n ELSE n + 1
    /\ \A r \in R : Leads(table, r)

RefsOf(R, kind) == {r \in R : r.kind = kind}

\* A reference is marked closed when its slot has gone on.
MarkedWhenGone(table, R) ==
    \A r \in R : r.closed <=> r.value.gen < table[r.value.index].gen

\* No two references of a kind have the same value.
GivenOnce(R) == \A r, s \in R : r.kind = s.kind /\ r.value = s.value => r = s

\* The title was given the handle of every open slot: true of the kernel objects,
\* and of files as long as the handle could be delivered.
AllGiven(table, R) ==
    \A i \in DOMAIN table :
        table[i].open => \E r \in R : r.value = Value(i, table[i].gen)

\* The inductive invariant.
HandlesInv ==
    /\ refs \subseteq Reference /\ GivenOnce(refs)
    /\ made \in [object : 0 .. MaxObjects, file : 0 .. MaxFiles]
    /\ Tracks(objects, RefsOf(refs, "object"), made.object)
    /\ Tracks(files, RefsOf(refs, "file"), made.file)
    /\ AllGiven(objects, RefsOf(refs, "object"))
    /\ NoSharedValue => /\ MarkedWhenGone(objects, RefsOf(refs, "object"))
                        /\ MarkedWhenGone(files, RefsOf(refs, "file"))

-----------------------------------------------------------------------------
(* The tables. *)

\* A set of numbers has a least one.
LEMMA LeastElement ==
    ASSUME NEW T \in SUBSET Nat, T # {}
    PROVE  \E n \in T : \A m \in T : n <= m
<1> DEFINE R == {ss \in Nat \X Nat : ss[1] < ss[2]}
<1>1. IsWellFoundedOn(R, Nat)
  BY NatLessThanWellFounded DEF OpToRel
<1> HIDE DEF R
<1>2. PICK n \in T : \A m \in T : ~(<<m, n>> \in R)
  BY <1>1, WFMin, Zenon
<1>3. \A m \in T : ~(m < n)
  BY <1>2, Zenon DEF R
<1> QED
  BY <1>3

\* The fields of a slot.
LEMMA SlotFields ==
    ASSUME NEW table \in Seq(AnySlot), NEW i \in DOMAIN table
    PROVE  /\ table[i].gen \in Nat /\ table[i].open \in BOOLEAN
           /\ table[i].id \in Nat /\ table[i].pos \in Int
<1>1. table[i] \in AnySlot
  OBVIOUS
<1> QED
  BY <1>1 DEF AnySlot

\* The slot for a new handle is one that is not open, or one behind the table.
LEMMA SlotForFacts ==
    ASSUME NEW table \in Seq(AnySlot)
    PROVE  \/ SlotFor(table) = Len(table) + 1
           \/ SlotFor(table) \in DOMAIN table /\ ~table[SlotFor(table)].open
<1> DEFINE F == FreeSlots(table)
<1>1. F \in SUBSET Nat /\ \A i \in F : i \in DOMAIN table /\ ~table[i].open
  BY DEF FreeSlots
<1> HIDE DEF F
<1>2. CASE F = {}
  BY <1>2 DEF SlotFor, F
<1>3. CASE F # {}
  <2>1. \E i \in F : \A j \in F : i <= j
    BY <1>1, <1>3, LeastElement
  <2>2. SlotFor(table) \in F
    BY <1>3, <2>1 DEF SlotFor, F
  <2> QED
    BY <1>1, <2>2, Zenon
<1> QED
  BY <1>2, <1>3

\* T is the table with slot i, which was not open, opened.
IsOpening(table, T, i, id) ==
    /\ T \in Seq(AnySlot) /\ i \in DOMAIN T /\ i \in Nat \ {0}
    /\ DOMAIN T = DOMAIN table \cup {i}
    /\ T[i] = [open |-> TRUE, gen |-> GenAt(table, i), id |-> id, pos |-> 0]
    /\ \A j \in DOMAIN table : j # i => T[j] = table[j]
    /\ GenAt(table, i) = (IF i \in DOMAIN table THEN table[i].gen ELSE 1)
    /\ i \in DOMAIN table => ~table[i].open

\* Opening changes that slot, keeps its generation, and leaves the others alone.
LEMMA OpenedFacts ==
    ASSUME NEW table \in Seq(AnySlot), NEW id \in Nat
    PROVE  IsOpening(table, Opened(table, id), SlotFor(table), id)
<1> DEFINE T == Opened(table, id)
           i == SlotFor(table)
           n == Len(table)
           m == IF i > n THEN i ELSE n
           slot == [open |-> TRUE, gen |-> GenAt(table, i), id |-> id, pos |-> 0]
<1>1. i = n + 1 \/ (i \in DOMAIN table /\ ~table[i].open)
  BY SlotForFacts
<1>2. n \in Nat /\ DOMAIN table = 1..n /\ \A j \in 1..n : table[j] \in AnySlot
  OBVIOUS
<1>3. i \in 1..(n + 1) /\ (i \in DOMAIN table <=> i <= n)
  BY <1>1, <1>2
<1>4. GenAt(table, i) = IF i \in DOMAIN table THEN table[i].gen ELSE 1
  BY <1>3 DEF GenAt
<1>5. GenAt(table, i) \in Nat
  BY <1>2, <1>4 DEF AnySlot
<1>6. slot \in AnySlot
  BY <1>5 DEF AnySlot
<1>7. T = [j \in 1..m |-> IF j = i THEN slot ELSE table[j]]
  BY DEF Opened
<1> HIDE DEF T, i
<1>8. m \in Nat /\ 1..m = 1..n \cup {i} /\ i \in 1..m
  BY <1>1, <1>2, <1>3
<1> HIDE DEF slot, m, n
<1>9. \A j \in 1..m : T[j] = (IF j = i THEN slot ELSE table[j]) /\ T[j] \in AnySlot
  BY <1>2, <1>6, <1>7, <1>8, Zenon
<1>10. T \in Seq(AnySlot) /\ DOMAIN T = 1..m
  BY <1>7, <1>8, <1>9
<1> QED
  BY <1>1, <1>2, <1>3, <1>4, <1>8, <1>9, <1>10 DEF slot, n, T, i, IsOpening

\* So does closing, which gives it another generation.
LEMMA ClosedFacts ==
    ASSUME NEW table \in Seq(AnySlot), NEW i \in DOMAIN table, NEW gen \in Nat,
           NEW T, T = Closed(table, i, gen)
    PROVE  /\ T \in Seq(AnySlot) /\ DOMAIN T = DOMAIN table
           /\ T[i] = [open |-> FALSE, gen |-> gen, id |-> 0, pos |-> 0]
           /\ \A j \in DOMAIN table : j # i => T[j] = table[j]
<1> DEFINE slot == [open |-> FALSE, gen |-> gen, id |-> 0, pos |-> 0]
<1>1. slot \in AnySlot
  BY DEF AnySlot
<1>2. T = [table EXCEPT ![i] = slot]
  BY DEF Closed
<1> HIDE DEF slot
<1> QED
  BY <1>1, <1>2 DEF slot

\* T is the table, and R the references into it, with slot i opened as the n+1st.
OpenKeeps(table, T, R, n, i, id) ==
    /\ Tracks(T, R, n + 1)
    /\ \A r \in R : /\ r.value.index \in DOMAIN T
                    /\ r.value.gen < T[r.value.index].gen
                         <=> r.value.gen < table[r.value.index].gen
                    /\ r.value # Value(i, GenAt(table, i))
    /\ i \in Nat /\ GenAt(table, i) \in Nat \ {0} /\ GenAt(table, i) <= n + 1
    /\ i \in DOMAIN T /\ T[i].gen = GenAt(table, i) /\ T[i].open /\ T[i].id = id
    /\ \A j \in DOMAIN T : j # i => j \in DOMAIN table /\ T[j] = table[j]
    /\ DOMAIN table \subseteq DOMAIN T /\ i \in DOMAIN table => ~table[i].open

\* A new handle is the only one of its value: all earlier references to the slot
\* have an earlier generation.
LEMMA OpenTracks ==
    ASSUME NEW table, NEW R, NEW n \in Nat, Tracks(table, R, n), NEW id \in Nat
    PROVE  OpenKeeps(table, Opened(table, id), R, n, SlotFor(table), id)
<1> DEFINE i == SlotFor(table)
           T == Opened(table, id)
<1> HIDE DEF i, T
<1>1. table \in Seq(AnySlot)
  BY DEF Tracks
<1>2. /\ T \in Seq(AnySlot) /\ i \in DOMAIN T /\ i \in Nat \ {0}
      /\ DOMAIN T = DOMAIN table \cup {i}
      /\ T[i] = [open |-> TRUE, gen |-> GenAt(table, i), id |-> id, pos |-> 0]
      /\ \A j \in DOMAIN table : j # i => T[j] = table[j]
      /\ GenAt(table, i) = (IF i \in DOMAIN table THEN table[i].gen ELSE 1)
      /\ i \in DOMAIN table => ~table[i].open
  <2>1. IsOpening(table, T, i, id)
    BY <1>1, OpenedFacts DEF T, i
  <2> QED
    BY <2>1 DEF IsOpening
<1>3. T[i].gen = GenAt(table, i) /\ T[i].open = TRUE /\ T[i].id = id
  BY <1>2
<1>4. \A j \in DOMAIN table : /\ table[j].gen \in Nat /\ table[j].gen >= 1
                              /\ table[j].gen <= IF table[j].open THEN n ELSE n + 1
  <2>1. \A j \in DOMAIN table : table[j].gen \in Nat
    BY <1>1, SlotFields
  <2>2. \A j \in DOMAIN table : /\ table[j].gen >= 1
                                /\ table[j].gen <= IF table[j].open THEN n ELSE n + 1
    BY DEF Tracks
  <2> QED
    BY <2>1, <2>2
<1>5. GenAt(table, i) \in Nat \ {0} /\ GenAt(table, i) <= n + 1
  BY <1>2, <1>4
<1>6. \A j \in DOMAIN T : /\ T[j].gen >= 1
                          /\ T[j].gen <= IF T[j].open THEN n + 1 ELSE (n + 1) + 1
  BY <1>2, <1>3, <1>4, <1>5
<1>7. ASSUME NEW r \in R
      PROVE  /\ Leads(T, r) /\ r.value.index \in DOMAIN T
             /\ r.value.gen < T[r.value.index].gen
                  <=> r.value.gen < table[r.value.index].gen
             /\ r.value # Value(i, GenAt(table, i))
  <2>1. Leads(table, r)
    BY DEF Tracks
  <2>2. CASE r.value.index = i
    <3>1. i \in DOMAIN table /\ r.value.gen < table[i].gen /\ r.value.gen \in Nat \ {0}
      BY <1>2, <2>1, <2>2 DEF Leads
    <3>2. T[i].gen = table[i].gen
      BY <1>2, <1>3, <3>1
    <3>3. r.value # Value(i, GenAt(table, i))
      BY <1>3, <1>4, <3>1, <3>2 DEF Value
    <3> QED
      BY <1>2, <2>2, <3>1, <3>2, <3>3 DEF Leads
  <2>3. CASE r.value.index # i
    <3>1. r.value.index \in DOMAIN table
      BY <2>1 DEF Leads
    <3>2. T[r.value.index] = table[r.value.index] /\ r.value.index \in DOMAIN T
      BY <1>2, <2>3, <3>1
    <3>3. r.value # Value(i, GenAt(table, i))
      BY <2>3 DEF Value
    <3> QED
      BY <2>1, <3>2, <3>3 DEF Leads
  <2> QED
    BY <2>2, <2>3
<1>8. Tracks(T, R, n + 1)
  BY <1>2, <1>6, <1>7 DEF Tracks
<1>9. OpenKeeps(table, T, R, n, i, id)
  BY <1>2, <1>3, <1>5, <1>7, <1>8 DEF OpenKeeps
<1> QED
  BY <1>9 DEF T, i

\* T is the table, and R the references into it, with the open slot i closed.
CloseKeeps(table, T, R, n, i) ==
    /\ Tracks(T, R, n)
    /\ \A r \in R : (r.value.gen < T[r.value.index].gen)
                       <=> \/ r.value.gen < table[r.value.index].gen
                           \/ r.value = Value(i, table[i].gen)
    /\ DOMAIN T = DOMAIN table /\ ~T[i].open
    /\ \A j \in DOMAIN table : j # i => T[j] = table[j]

\* Closing an open slot makes exactly the references to it go by.
LEMMA CloseTracks ==
    ASSUME NEW table, NEW R \in SUBSET Reference, NEW n \in Nat, Tracks(table, R, n),
           NEW i \in DOMAIN table, table[i].open
    PROVE  CloseKeeps(table, Closed(table, i, table[i].gen + 1), R, n, i)
<1> DEFINE T == Closed(table, i, table[i].gen + 1)
<1> HIDE DEF T
<1>1. table \in Seq(AnySlot)
  BY DEF Tracks
<1>2. table[i].gen \in Nat /\ table[i].gen + 1 \in Nat
  BY <1>1, SlotFields
<1>3. /\ T \in Seq(AnySlot) /\ DOMAIN T = DOMAIN table
      /\ T[i] = [open |-> FALSE, gen |-> table[i].gen + 1, id |-> 0, pos |-> 0]
      /\ \A j \in DOMAIN table : j # i => T[j] = table[j]
  BY <1>1, <1>2, ClosedFacts DEF T
<1>4. T[i].gen = table[i].gen + 1 /\ T[i].open = FALSE
  BY <1>3
<1>5. \A j \in DOMAIN table : /\ table[j].gen >= 1
                              /\ table[j].gen <= IF table[j].open THEN n ELSE n + 1
  BY DEF Tracks
<1>6. \A j \in DOMAIN T : /\ T[j].gen >= 1
                          /\ T[j].gen <= IF T[j].open THEN n ELSE n + 1
  BY <1>2, <1>3, <1>4, <1>5
<1>7. ASSUME NEW r \in R
      PROVE  /\ Leads(T, r)
             /\ (r.value.gen < T[r.value.index].gen)
                   <=> \/ r.value.gen < table[r.value.index].gen
                       \/ r.value = Value(i, table[i].gen)
  <2>1. Leads(table, r)
    BY DEF Tracks
  <2>2. r.value = Value(r.value.index, r.value.gen)
    BY DEF Reference, Value
  <2>3. CASE r.value.index = i
    <3>1. r.value.gen \in Nat \ {0} /\ r.value.gen <= table[i].gen
      BY <1>2, <2>1, <2>3 DEF Leads
    <3>2. r.value.gen < T[i].gen
      BY <1>2, <1>4, <3>1
    <3>3. r.value.gen < table[i].gen \/ r.value = Value(i, table[i].gen)
      <4>1. r.value.gen < table[i].gen \/ r.value.gen = table[i].gen
        BY <1>2, <3>1
      <4> QED
        BY <2>2, <2>3, <4>1
    <3> QED
      BY <1>3, <2>3, <3>1, <3>2, <3>3 DEF Leads
  <2>4. CASE r.value.index # i
    <3>1. T[r.value.index] = table[r.value.index] /\ r.value.index \in DOMAIN T
      BY <1>3, <2>1, <2>4 DEF Leads
    <3>2. r.value # Value(i, table[i].gen)
      BY <2>4 DEF Value
    <3> QED
      BY <2>1, <3>1, <3>2 DEF Leads
  <2> QED
    BY <2>3, <2>4
<1>8. Tracks(T, R, n)
  BY <1>3, <1>6, <1>7 DEF Tracks
<1>9. CloseKeeps(table, T, R, n, i)
  BY <1>3, <1>4, <1>7, <1>8 DEF CloseKeeps
<1> QED
  BY <1>9 DEF T

\* T is the table with another position in slot i.
MoveKeeps(table, T, R, n, i, p) ==
    /\ Tracks(T, R, n) /\ DOMAIN T = DOMAIN table /\ T[i].pos = p
    /\ \A j \in DOMAIN table : /\ T[j].gen = table[j].gen /\ T[j].open = table[j].open
                               /\ T[j].id = table[j].id

\* Moving the position of a file disturbs neither table nor references.
LEMMA MoveTracks ==
    ASSUME NEW table, NEW R, NEW n \in Nat, Tracks(table, R, n),
           NEW i \in DOMAIN table, NEW p \in Int
    PROVE  MoveKeeps(table, [table EXCEPT ![i].pos = p], R, n, i, p)
<1> DEFINE T == [table EXCEPT ![i].pos = p]
<1>1. table \in Seq(AnySlot) /\ DOMAIN T = DOMAIN table
  BY DEF Tracks
<1> DEFINE slot == [table[i] EXCEPT !.pos = p]
<1>2. table[i] \in AnySlot
  BY <1>1
<1>3. /\ slot \in AnySlot /\ slot.gen = table[i].gen /\ slot.open = table[i].open
      /\ slot.id = table[i].id /\ slot.pos = p
  BY <1>2 DEF AnySlot
<1>4. T = [table EXCEPT ![i] = slot]
  OBVIOUS
<1> HIDE DEF slot, T
<1>5. T \in Seq(AnySlot)
  BY <1>1, <1>3, <1>4
<1>6. T[i] = slot /\ \A j \in DOMAIN table : j # i => T[j] = table[j]
  BY <1>1, <1>4
<1>7. \A j \in DOMAIN table : /\ T[j].gen = table[j].gen /\ T[j].open = table[j].open
                              /\ T[j].id = table[j].id
  BY <1>3, <1>6
<1>8. \A j \in DOMAIN T : T[j].gen >= 1 /\ T[j].gen <= IF T[j].open THEN n ELSE n + 1
  <2>1. \A j \in DOMAIN table : /\ table[j].gen >= 1
                                /\ table[j].gen <= IF table[j].open THEN n ELSE n + 1
    BY DEF Tracks
  <2> QED
    BY <1>1, <1>7, <2>1
<1>9. \A r \in R : Leads(T, r)
  <2>1. \A r \in R : Leads(table, r)
    BY DEF Tracks
  <2> QED
    BY <1>1, <1>7, <2>1 DEF Leads
<1>10. Tracks(T, R, n)
  BY <1>5, <1>8, <1>9 DEF Tracks
<1>11. MoveKeeps(table, T, R, n, i, p)
  BY <1>1, <1>3, <1>6, <1>7, <1>10 DEF MoveKeeps
<1> QED
  BY <1>11 DEF T

\* What Tracks says depends on the values and the objects of the references only.
LEMMA TracksRefs ==
    ASSUME NEW table, NEW R, NEW n, Tracks(table, R, n), NEW S,
           \A s \in S : \E r \in R : s.value = r.value /\ s.id = r.id
    PROVE  Tracks(table, S, n)
BY DEF Tracks, Leads

\* A reference that leads somewhere may be added.
LEMMA TracksAdd ==
    ASSUME NEW table, NEW R, NEW n, Tracks(table, R, n), NEW S,
           \A s \in S : s \in R \/ Leads(table, s)
    PROVE  Tracks(table, S, n)
BY DEF Tracks

-----------------------------------------------------------------------------
(* The invariant. *)

LEMMA HandlesInitInv ==
    HandlesInit => HandlesInv
<1> SUFFICES ASSUME HandlesInit PROVE HandlesInv
  OBVIOUS
<1>1. refs = {} /\ RefsOf(refs, "object") = {} /\ RefsOf(refs, "file") = {}
  BY DEF HandlesInit, RefsOf
<1>2. Tracks(<<>>, {}, 0) /\ AllGiven(<<>>, {})
  BY DEF Tracks, AllGiven
<1>3. made \in [object : 0 .. MaxObjects, file : 0 .. MaxFiles] /\ made.object = 0 /\ made.file = 0
  BY HandlesAssumption DEF HandlesInit
<1> QED
  BY <1>1, <1>2, <1>3, Zenon DEF HandlesInit, HandlesInv, GivenOnce, MarkedWhenGone

\* What the invariant says of the numbers of objects and files made.
LEMMA MadeFacts ==
    ASSUME HandlesInv
    PROVE  /\ made.object \in Nat /\ made.object <= MaxObjects
           /\ made.file \in Nat /\ made.file <= MaxFiles
BY HandlesAssumption DEF HandlesInv

\* As long as no generation comes round, the next one is one more.
LEMMA NextGen ==
    ASSUME NoWrap, HandlesInv
    PROVE  /\ \A i \in DOMAIN objects :
                 objects[i].open => NextObjectGen(objects[i].gen) = objects[i].gen + 1
           /\ \A i \in DOMAIN files :
                 files[i].open => NextFileGen(files[i].gen) = files[i].gen + 1
           /\ made.file < MaxFiles => \A g \in Nat : g <= made.file + 1 => NextFileGen(g) = g + 1
<1>1. MaxObjects + 1 < Generations /\ MaxFiles + 1 < Generations /\ Generations \in Nat
      /\ MaxObjects \in Nat /\ MaxFiles \in Nat
  BY HandlesAssumption DEF NoWrap
<1>2. /\ made.object \in Nat /\ made.object <= MaxObjects
      /\ made.file \in Nat /\ made.file <= MaxFiles
  BY MadeFacts
<1>3. ASSUME NEW g \in Nat, g + 1 < Generations
      PROVE  NextObjectGen(g) = g + 1 /\ NextFileGen(g) = g + 1
  BY <1>1, <1>3 DEF NextObjectGen, NextFileGen
<1>4. ASSUME NEW i \in DOMAIN objects, objects[i].open
      PROVE  NextObjectGen(objects[i].gen) = objects[i].gen + 1
  <2>1. objects \in Seq(AnySlot) /\ objects[i].gen <= made.object
    BY <1>4 DEF HandlesInv, Tracks
  <2>2. objects[i].gen \in Nat
    BY <2>1, SlotFields
  <2> QED
    BY <1>1, <1>2, <1>3, <2>1, <2>2
<1>5. ASSUME NEW i \in DOMAIN files, files[i].open
      PROVE  NextFileGen(files[i].gen) = files[i].gen + 1
  <2>1. files \in Seq(AnySlot) /\ files[i].gen <= made.file
    BY <1>5 DEF HandlesInv, Tracks
  <2>2. files[i].gen \in Nat
    BY <2>1, SlotFields
  <2> QED
    BY <1>1, <1>2, <1>3, <2>1, <2>2
<1>6. ASSUME made.file < MaxFiles, NEW g \in Nat, g <= made.file + 1
      PROVE  NextFileGen(g) = g + 1
  BY <1>1, <1>2, <1>3, <1>6
<1> QED
  BY <1>4, <1>5, <1>6

-----------------------------------------------------------------------------
(* The steps. *)

\* Every reference is to the object table or to the file table.
Kinds == {"object", "file"}

\* A new reference of a value that no reference of its kind has.
LEMMA GiveFacts ==
    ASSUME refs \subseteq Reference, GivenOnce(refs), NEW kind \in Kinds,
           NEW v \in [index : Nat, gen : Nat], NEW id \in Nat, Give(kind, v, id),
           \A r \in RefsOf(refs, kind) : r.value # v
    PROVE  /\ refs' \subseteq Reference /\ GivenOnce(refs')
           /\ RefsOf(refs', kind) = RefsOf(refs, kind)
                 \cup {[kind |-> kind, value |-> v, id |-> id, closed |-> FALSE]}
           /\ \A k \in Kinds : k # kind => RefsOf(refs', k) = RefsOf(refs, k)
           /\ NoSharedValue' => NoSharedValue
<1> DEFINE x == [kind |-> kind, value |-> v, id |-> id, closed |-> FALSE]
<1>1. x \in Reference /\ x.kind = kind /\ x.value = v
  BY DEF Reference, Kinds
<1>2. refs' = refs \cup {x}
  BY DEF Give
<1> HIDE DEF x
<1>3. refs' \subseteq Reference
  BY <1>1, <1>2
<1>4. GivenOnce(refs')
  BY <1>1, <1>2 DEF GivenOnce, RefsOf
<1>5. /\ RefsOf(refs', kind) = RefsOf(refs, kind) \cup {x}
      /\ \A k \in Kinds : k # kind => RefsOf(refs', k) = RefsOf(refs, k)
  BY <1>1, <1>2 DEF RefsOf
<1>6. NoSharedValue' => NoSharedValue
  BY <1>2 DEF NoSharedValue
<1> QED
  BY <1>3, <1>4, <1>5, <1>6 DEF x

\* The references S are those of R with r marked.
Marks(R, S, r) ==
    \A k \in Kinds :
        /\ \A s \in RefsOf(S, k) : \E q \in RefsOf(R, k) :
              s.value = q.value /\ s.id = q.id /\ (s.closed <=> q.closed \/ q = r)
        /\ \A q \in RefsOf(R, k) : \E s \in RefsOf(S, k) : s.value = q.value

\* Marking a reference keeps what it refers to.
LEMMA MarkFacts ==
    ASSUME refs \subseteq Reference, GivenOnce(refs), NEW r \in refs, MarkClosed(r, TRUE)
    PROVE  /\ refs' \subseteq Reference /\ GivenOnce(refs') /\ Marks(refs, refs', r)
           /\ NoSharedValue' => NoSharedValue
<1> DEFINE x == [r EXCEPT !.closed = TRUE]
<1>1. /\ x \in Reference /\ x.kind = r.kind /\ x.value = r.value /\ x.id = r.id
      /\ x.closed = TRUE
  BY Zenon DEF Reference
<1>2. refs' = (refs \ {r}) \cup {x}
  BY DEF MarkClosed
<1> HIDE DEF x
<1>3. refs' \subseteq Reference
  BY <1>1, <1>2
<1>4. GivenOnce(refs')
  BY <1>1, <1>2 DEF GivenOnce
<1>5. ASSUME NEW k \in Kinds, NEW s \in RefsOf(refs', k)
      PROVE  \E q \in RefsOf(refs, k) :
                s.value = q.value /\ s.id = q.id /\ (s.closed <=> q.closed \/ q = r)
  <2>1. CASE s = x
    BY <1>1, <2>1 DEF RefsOf
  <2>2. CASE s # x
    BY <1>2, <2>2 DEF RefsOf
  <2> QED
    BY <2>1, <2>2
<1>6. ASSUME NEW k \in Kinds, NEW q \in RefsOf(refs, k)
      PROVE  \E s \in RefsOf(refs', k) : s.value = q.value
  <2>1. CASE q = r
    BY <1>1, <1>2, <2>1 DEF RefsOf
  <2>2. CASE q # r
    BY <1>2, <2>2 DEF RefsOf
  <2> QED
    BY <2>1, <2>2
<1>7. NoSharedValue' => NoSharedValue
  <2>1. \A q \in refs : \E s \in refs' : s.value = q.value /\ s.kind = q.kind
    BY <1>1, <1>2
  <2> QED
    BY <2>1 DEF NoSharedValue
<1> QED
  BY <1>3, <1>4, <1>5, <1>6, <1>7 DEF Marks

\* References marked for a table are marked for another that passed the same ones.
LEMMA MarkedKeeps ==
    ASSUME NEW table, NEW T, NEW R, MarkedWhenGone(table, R),
           \A r \in R : (r.value.gen < T[r.value.index].gen)
                           <=> (r.value.gen < table[r.value.index].gen)
    PROVE  MarkedWhenGone(T, R)
BY DEF MarkedWhenGone

LEMMA CreateObjectInv ==
    ASSUME NoWrap, HandlesInv, CreateObject
    PROVE  HandlesInv'
<1> DEFINE i == SlotFor(objects)
           id == made.object + 1
           v == Value(i, GenAt(objects, i))
           R == RefsOf(refs, "object")
           x == [kind |-> "object", value |-> v, id |-> id, closed |-> FALSE]
<1>1. /\ made.object < MaxObjects /\ objects' = Opened(objects, id)
      /\ made' = [made EXCEPT !.object = id] /\ Give("object", v, id) /\ files' = files
  BY DEF CreateObject
<1>2. made.object \in Nat /\ id \in Nat /\ Tracks(objects, R, made.object)
  BY MadeFacts DEF HandlesInv
<1>3. /\ made' \in [object : 0 .. MaxObjects, file : 0 .. MaxFiles]
      /\ made'.object = made.object + 1 /\ made'.file = made.file
  BY <1>1, <1>2, HandlesAssumption DEF HandlesInv
<1>4. OpenKeeps(objects, objects', R, made.object, i, id)
  BY <1>1, <1>2, OpenTracks
<1>5. v \in [index : Nat, gen : Nat] /\ v.index = i /\ v.gen = GenAt(objects, i)
  BY <1>4 DEF Value, OpenKeeps
<1>6. refs \subseteq Reference /\ GivenOnce(refs)
  BY DEF HandlesInv
<1> HIDE DEF i, id, v
<1>7. /\ refs' \subseteq Reference /\ GivenOnce(refs')
      /\ RefsOf(refs', "object") = R \cup {x}
      /\ RefsOf(refs', "file") = RefsOf(refs, "file")
      /\ NoSharedValue' => NoSharedValue
  BY <1>1, <1>2, <1>4, <1>5, <1>6, GiveFacts DEF Kinds, OpenKeeps, v
<1>8. x.value = v /\ x.id = id /\ x.closed = FALSE
  OBVIOUS
<1> HIDE DEF x, R
<1>9. Tracks(objects', R \cup {x}, made.object + 1)
  <2>1. Leads(objects', x)
    BY <1>4, <1>5, <1>8 DEF Leads, OpenKeeps
  <2>2. Tracks(objects', R, made.object + 1)
    BY <1>4 DEF OpenKeeps
  <2> QED
    BY <2>1, <2>2, TracksAdd
<1>10. Tracks(files', RefsOf(refs', "file"), made'.file)
  BY <1>1, <1>3, <1>7 DEF HandlesInv
<1>11. AllGiven(objects', R \cup {x})
  <2>1. AllGiven(objects, R)
    BY DEF HandlesInv, R
  <2>2. x.value = Value(i, objects'[i].gen)
    BY <1>4, <1>8 DEF v, OpenKeeps
  <2> QED
    BY <1>4, <2>1, <2>2 DEF AllGiven, OpenKeeps
<1>12. NoSharedValue' => /\ MarkedWhenGone(objects', R \cup {x})
                         /\ MarkedWhenGone(files', RefsOf(refs', "file"))
  <2> SUFFICES ASSUME NoSharedValue'
               PROVE  /\ MarkedWhenGone(objects', R \cup {x})
                      /\ MarkedWhenGone(files, RefsOf(refs, "file"))
    BY <1>1, <1>7
  <2>1. MarkedWhenGone(objects, R) /\ MarkedWhenGone(files, RefsOf(refs, "file"))
    BY <1>7 DEF HandlesInv, R
  <2>2. MarkedWhenGone(objects', R)
    BY <1>4, <2>1, MarkedKeeps DEF OpenKeeps
  <2>3. ~x.closed /\ ~(x.value.gen < objects'[x.value.index].gen)
    BY <1>4, <1>5, <1>8 DEF OpenKeeps
  <2> QED
    BY <2>1, <2>2, <2>3 DEF MarkedWhenGone
<1> QED
  BY <1>3, <1>7, <1>9, <1>10, <1>11, <1>12 DEF HandlesInv

\* A step that changes the file table and gives no handle.
LEMMA FilesStep ==
    ASSUME HandlesInv, UNCHANGED <<objects, refs>>,
           made' \in [object : 0 .. MaxObjects, file : 0 .. MaxFiles],
           made'.object = made.object,
           Tracks(files', RefsOf(refs, "file"), made'.file),
           \A r \in RefsOf(refs, "file") :
               (r.value.gen < files'[r.value.index].gen)
                  <=> (r.value.gen < files[r.value.index].gen)
    PROVE  HandlesInv'
<1>1. NoSharedValue' => NoSharedValue
  BY DEF NoSharedValue
<1>2. NoSharedValue' => /\ MarkedWhenGone(objects, RefsOf(refs, "object"))
                        /\ MarkedWhenGone(files', RefsOf(refs, "file"))
  <2> SUFFICES ASSUME NoSharedValue'
               PROVE  /\ MarkedWhenGone(objects, RefsOf(refs, "object"))
                      /\ MarkedWhenGone(files', RefsOf(refs, "file"))
    OBVIOUS
  <2>1. /\ MarkedWhenGone(objects, RefsOf(refs, "object"))
        /\ MarkedWhenGone(files, RefsOf(refs, "file"))
    BY <1>1 DEF HandlesInv
  <2> QED
    BY <2>1, MarkedKeeps
<1> QED
  BY <1>2 DEF HandlesInv

LEMMA CreateFileInv ==
    ASSUME NoWrap, HandlesInv, NEW out \in Pointers, CreateFile(out)
    PROVE  HandlesInv'
<1> DEFINE i == SlotFor(files)
           id == made.file + 1
           gen == GenAt(files, i)
           v == Value(i, gen)
           R == RefsOf(refs, "file")
           x == [kind |-> "file", value |-> v, id |-> id, closed |-> FALSE]
<1>1. made.file < MaxFiles /\ objects' = objects
  BY DEF CreateFile
<1>2. made.file \in Nat /\ id \in Nat /\ Tracks(files, R, made.file)
  BY MadeFacts DEF HandlesInv
<1>3. refs \subseteq Reference /\ GivenOnce(refs) /\ R \in SUBSET Reference
  BY DEF HandlesInv, RefsOf
<1>4. OpenKeeps(files, Opened(files, id), R, made.file, i, id)
  BY <1>2, OpenTracks
<1>5. ASSUME UNCHANGED <<files, refs, made>> PROVE HandlesInv'
  BY <1>1, <1>5 DEF HandlesInv, NoSharedValue
<1>6. ASSUME made' = [made EXCEPT !.file = id]
      PROVE  /\ made' \in [object : 0 .. MaxObjects, file : 0 .. MaxFiles]
             /\ made'.object = made.object /\ made'.file = made.file + 1
  BY <1>1, <1>2, <1>6, HandlesAssumption DEF HandlesInv
<1>7. ASSUME made' = [made EXCEPT !.file = id], files' = Opened(files, id), UNCHANGED refs
      PROVE  HandlesInv'
  <2>1. OpenKeeps(files, files', R, made.file, i, id)
    BY <1>4, <1>7
  <2>2. /\ Tracks(files', R, made.file + 1)
        /\ \A r \in R : (r.value.gen < files'[r.value.index].gen)
                           <=> (r.value.gen < files[r.value.index].gen)
    BY <2>1 DEF OpenKeeps
  <2> QED
    BY <1>1, <1>6, <1>7, <2>2, FilesStep
<1>8. ASSUME made' = [made EXCEPT !.file = id], UNCHANGED refs,
             files' = Closed(Opened(files, id), i, NextFileGen(gen))
      PROVE  HandlesInv'
  <2> DEFINE T == Opened(files, id)
  <2>1. T[i].gen = gen /\ T[i].open /\ i \in DOMAIN T /\ gen \in Nat /\ gen <= made.file + 1
    BY <1>4 DEF OpenKeeps
  <2>2. NextFileGen(gen) = T[i].gen + 1
    BY <1>1, <2>1, NextGen
  <2>3. /\ Tracks(T, R, made.file + 1)
        /\ \A r \in R : /\ (r.value.gen < T[r.value.index].gen)
                              <=> (r.value.gen < files[r.value.index].gen)
                        /\ r.value # Value(i, T[i].gen)
    BY <1>4, <2>1 DEF OpenKeeps
  <2>4. files' = Closed(T, i, T[i].gen + 1)
    BY <1>8, <2>2
  <2> HIDE DEF T, i, gen, R
  <2>5. CloseKeeps(T, Closed(T, i, T[i].gen + 1), R, made.file + 1, i)
    BY <1>2, <1>3, <2>1, <2>3, CloseTracks
  <2>6. CloseKeeps(T, files', R, made.file + 1, i)
    BY <2>4, <2>5
  <2>7. /\ Tracks(files', R, made.file + 1)
        /\ \A r \in R : (r.value.gen < files'[r.value.index].gen)
                           <=> (r.value.gen < files[r.value.index].gen)
    BY <2>3, <2>6 DEF CloseKeeps
  <2> QED
    BY <1>1, <1>6, <1>8, <2>7, FilesStep DEF R
<1>9. ASSUME made' = [made EXCEPT !.file = id], files' = Opened(files, id), Give("file", v, id)
      PROVE  HandlesInv'
  <2>1. OpenKeeps(files, files', R, made.file, i, id)
    BY <1>4, <1>9
  <2>2. v \in [index : Nat, gen : Nat] /\ v.index = i /\ v.gen = GenAt(files, i)
    BY <2>1 DEF Value, OpenKeeps
  <2>3. \A r \in R : r.value # v
    BY <2>1 DEF OpenKeeps
  <2> HIDE DEF i, id, v
  <2>4. /\ refs' \subseteq Reference /\ GivenOnce(refs')
        /\ RefsOf(refs', "file") = R \cup {x}
        /\ RefsOf(refs', "object") = RefsOf(refs, "object")
        /\ NoSharedValue' => NoSharedValue
    BY <1>2, <1>3, <1>9, <2>2, <2>3, GiveFacts DEF Kinds
  <2>5. x.value = v /\ x.id = id /\ x.closed = FALSE
    OBVIOUS
  <2> HIDE DEF x, R
  <2>6. Tracks(files', R \cup {x}, made'.file)
    <3>1. Leads(files', x)
      BY <2>1, <2>2, <2>5 DEF Leads, OpenKeeps
    <3>2. Tracks(files', R, made'.file)
      BY <1>6, <1>9, <2>1 DEF OpenKeeps
    <3> QED
      BY <3>1, <3>2, TracksAdd
  <2>7. NoSharedValue' => /\ MarkedWhenGone(objects, RefsOf(refs, "object"))
                          /\ MarkedWhenGone(files', R \cup {x})
    <3> SUFFICES ASSUME NoSharedValue'
                 PROVE  /\ MarkedWhenGone(objects, RefsOf(refs, "object"))
                        /\ MarkedWhenGone(files', R \cup {x})
      OBVIOUS
    <3>1. MarkedWhenGone(objects, RefsOf(refs, "object")) /\ MarkedWhenGone(files, R)
      BY <2>4 DEF HandlesInv, R
    <3>2. MarkedWhenGone(files', R)
      BY <2>1, <3>1, MarkedKeeps DEF OpenKeeps
    <3>3. ~x.closed /\ ~(x.value.gen < files'[x.value.index].gen)
      <4>1. files'[i].gen = GenAt(files, i) /\ GenAt(files, i) \in Nat
        BY <2>1 DEF OpenKeeps
      <4>2. x.value.gen = GenAt(files, i) /\ x.value.index = i
        BY <2>2, <2>5, Zenon
      <4> QED
        BY <2>5, <4>1, <4>2
    <3> QED
      BY <3>1, <3>2, <3>3 DEF MarkedWhenGone
  <2> QED
    BY <1>1, <1>6, <1>9, <2>4, <2>6, <2>7, Zenon DEF HandlesInv, id
<1> QED
  BY <1>5, <1>7, <1>8, <1>9 DEF CreateFile

\* What the references say after one was marked, of a table the step left alone.
LEMMA MarkedElsewhere ==
    ASSUME NEW table, NEW n, NEW kind \in Kinds, NEW R, NEW S, NEW r, Marks(R, S, r),
           Tracks(table, RefsOf(R, kind), n)
    PROVE  /\ Tracks(table, RefsOf(S, kind), n)
           /\ AllGiven(table, RefsOf(R, kind)) => AllGiven(table, RefsOf(S, kind))
           /\ /\ MarkedWhenGone(table, RefsOf(R, kind))
              /\ r \in RefsOf(R, kind) => r.value.gen < table[r.value.index].gen
              => MarkedWhenGone(table, RefsOf(S, kind))
<1>1. /\ \A s \in RefsOf(S, kind) : \E q \in RefsOf(R, kind) :
            s.value = q.value /\ s.id = q.id /\ (s.closed <=> q.closed \/ q = r)
      /\ \A q \in RefsOf(R, kind) : \E s \in RefsOf(S, kind) : s.value = q.value
  BY DEF Marks
<1>2. Tracks(table, RefsOf(S, kind), n)
  BY <1>1, TracksRefs
<1>3. AllGiven(table, RefsOf(R, kind)) => AllGiven(table, RefsOf(S, kind))
  BY <1>1 DEF AllGiven
<1>4. ASSUME MarkedWhenGone(table, RefsOf(R, kind)),
             r \in RefsOf(R, kind) => r.value.gen < table[r.value.index].gen
      PROVE  MarkedWhenGone(table, RefsOf(S, kind))
  BY <1>1, <1>4 DEF MarkedWhenGone
<1> QED
  BY <1>2, <1>3, <1>4

\* And of the table whose slot it closed.
LEMMA MarkedHere ==
    ASSUME NEW table, NEW T, NEW n, NEW kind \in Kinds, NEW R, NEW S, NEW r, NEW i,
           Marks(R, S, r), CloseKeeps(table, T, RefsOf(R, kind), n, i),
           r.value = Value(i, table[i].gen)
    PROVE  /\ Tracks(T, RefsOf(S, kind), n)
           /\ AllGiven(table, RefsOf(R, kind)) => AllGiven(T, RefsOf(S, kind))
           /\ /\ MarkedWhenGone(table, RefsOf(R, kind))
              /\ \A q \in RefsOf(R, kind) : q.value = r.value => q = r
              => MarkedWhenGone(T, RefsOf(S, kind))
<1>1. /\ \A s \in RefsOf(S, kind) : \E q \in RefsOf(R, kind) :
            s.value = q.value /\ s.id = q.id /\ (s.closed <=> q.closed \/ q = r)
      /\ \A q \in RefsOf(R, kind) : \E s \in RefsOf(S, kind) : s.value = q.value
  BY DEF Marks
<1>2. Tracks(T, RefsOf(R, kind), n)
  BY DEF CloseKeeps
<1>3. Tracks(T, RefsOf(S, kind), n)
  BY <1>1, <1>2, TracksRefs
<1>4. ASSUME AllGiven(table, RefsOf(R, kind)) PROVE AllGiven(T, RefsOf(S, kind))
  <2> SUFFICES ASSUME NEW j \in DOMAIN T, T[j].open
               PROVE  \E s \in RefsOf(S, kind) : s.value = Value(j, T[j].gen)
    BY DEF AllGiven
  <2>1. j \in DOMAIN table /\ T[j] = table[j]
    BY DEF CloseKeeps
  <2>2. PICK q \in RefsOf(R, kind) : q.value = Value(j, table[j].gen)
    BY <1>4, <2>1 DEF AllGiven
  <2> QED
    BY <1>1, <2>1, <2>2, SMTT(30)
<1>5. ASSUME MarkedWhenGone(table, RefsOf(R, kind)),
             \A q \in RefsOf(R, kind) : q.value = r.value => q = r
      PROVE  MarkedWhenGone(T, RefsOf(S, kind))
  <2>1. \A q \in RefsOf(R, kind) :
           (q.value.gen < T[q.value.index].gen) <=> (q.closed \/ q = r)
    BY <1>5 DEF CloseKeeps, MarkedWhenGone
  <2> QED
    BY <1>1, <2>1 DEF MarkedWhenGone
<1> QED
  BY <1>3, <1>4, <1>5

\* What a valid value says.
LEMMA ValidFacts ==
    ASSUME NEW table, NEW r \in Reference, Valid(table, r.value)
    PROVE  /\ r.value.index \in DOMAIN table /\ table[r.value.index].open
           /\ table[r.value.index].gen = r.value.gen
           /\ r.value = Value(r.value.index, table[r.value.index].gen)
BY DEF Valid, Value, Reference

\* A reference that is not valid has gone.
LEMMA NotValid ==
    ASSUME NEW table, NEW r, Leads(table, r), ~Valid(table, r.value)
    PROVE  r.value.gen < table[r.value.index].gen
BY DEF Valid, Leads

LEMMA NtCloseInv ==
    ASSUME NoWrap, HandlesInv, NEW r \in refs, NtClose(r)
    PROVE  HandlesInv'
<1> DEFINE v == r.value
           RO == RefsOf(refs, "object")
           RF == RefsOf(refs, "file")
<1>1. /\ refs \subseteq Reference /\ GivenOnce(refs) /\ r \in Reference
      /\ RO \in SUBSET Reference /\ RF \in SUBSET Reference
  BY DEF HandlesInv, RefsOf
<1>2. r.kind \in Kinds /\ "object" \in Kinds /\ "file" \in Kinds
  BY <1>1 DEF Reference, Kinds
<1>3. /\ Tracks(objects, RO, made.object) /\ Tracks(files, RF, made.file)
      /\ made.object \in Nat /\ made.file \in Nat /\ AllGiven(objects, RO) /\ made' = made
  BY MadeFacts DEF HandlesInv, NtClose
<1>4. NoSharedValue => MarkedWhenGone(objects, RO) /\ MarkedWhenGone(files, RF)
  BY DEF HandlesInv
<1>5. \A q \in refs : q.kind = r.kind /\ q.value = v => q = r
  BY <1>1 DEF GivenOnce
<1>6. CASE Valid(objects, v)
  <2> DEFINE i == v.index
  <2>1. /\ i \in DOMAIN objects /\ objects[i].open /\ objects[i].gen = v.gen
        /\ v = Value(i, objects[i].gen)
    BY <1>1, <1>6, ValidFacts
  <2>2. /\ objects' = Closed(objects, i, NextObjectGen(v.gen)) /\ files' = files
        /\ MarkClosed(r, TRUE)
    BY <1>6 DEF NtClose, MarkClosed
  <2>3. objects' = Closed(objects, i, objects[i].gen + 1)
    BY <2>1, <2>2, NextGen
  <2> HIDE DEF i, v, RO, RF
  <2>4. CloseKeeps(objects, Closed(objects, i, objects[i].gen + 1), RO, made.object, i)
    BY <1>1, <1>3, <2>1, CloseTracks
  <2>5. CloseKeeps(objects, objects', RO, made.object, i)
    BY <2>3, <2>4
  <2>6. /\ refs' \subseteq Reference /\ GivenOnce(refs') /\ Marks(refs, refs', r)
        /\ NoSharedValue' => NoSharedValue
    BY <1>1, <2>2, MarkFacts, Zenon
  <2>7. r.value = Value(i, objects[i].gen)
    BY <2>1 DEF v
  <2>8. /\ Tracks(objects', RefsOf(refs', "object"), made.object)
        /\ AllGiven(objects', RefsOf(refs', "object"))
        /\ /\ MarkedWhenGone(objects, RO)
           /\ \A q \in RO : q.value = r.value => q = r
           => MarkedWhenGone(objects', RefsOf(refs', "object"))
    BY <1>2, <1>3, <2>5, <2>6, <2>7, MarkedHere DEF RO
  <2>9. /\ Tracks(files, RefsOf(refs', "file"), made.file)
        /\ /\ MarkedWhenGone(files, RF)
           /\ r \in RF => r.value.gen < files[r.value.index].gen
           => MarkedWhenGone(files, RefsOf(refs', "file"))
    BY <1>2, <1>3, <2>6, MarkedElsewhere DEF RF
  <2>10. NoSharedValue' => /\ MarkedWhenGone(objects', RefsOf(refs', "object"))
                           /\ MarkedWhenGone(files, RefsOf(refs', "file"))
    <3> SUFFICES ASSUME NoSharedValue'
                 PROVE  /\ MarkedWhenGone(objects', RefsOf(refs', "object"))
                        /\ MarkedWhenGone(files, RefsOf(refs', "file"))
      OBVIOUS
    <3>1. NoSharedValue
      BY <2>6
    <3>2. PICK q \in RO : q.value = v
      BY <1>3, <2>1 DEF AllGiven
    <3>3. r.kind = "object"
      BY <3>1, <3>2 DEF NoSharedValue, RO, RefsOf, v
    <3>4. r \notin RF
      BY <3>3 DEF RF, RefsOf
    <3>5. \A s \in RO : s.value = r.value => s = r
      BY <1>5, <3>3 DEF RO, RefsOf, v
    <3> QED
      BY <1>4, <2>8, <2>9, <3>1, <3>4, <3>5
  <2> QED
    BY <1>3, <2>2, <2>6, <2>8, <2>9, <2>10 DEF HandlesInv
<1>7. CASE ~Valid(objects, v) /\ v.gen # 0 /\ Valid(files, v)
  <2> DEFINE i == v.index
  <2>1. /\ i \in DOMAIN files /\ files[i].open /\ files[i].gen = v.gen
        /\ v = Value(i, files[i].gen)
    BY <1>1, <1>7, ValidFacts
  <2>2. /\ files' = Closed(files, i, NextFileGen(v.gen)) /\ objects' = objects
        /\ MarkClosed(r, TRUE)
    BY <1>7 DEF NtClose, MarkClosed
  <2>3. files' = Closed(files, i, files[i].gen + 1)
    BY <2>1, <2>2, NextGen
  <2> HIDE DEF i, v, RO, RF
  <2>4. CloseKeeps(files, Closed(files, i, files[i].gen + 1), RF, made.file, i)
    BY <1>1, <1>3, <2>1, CloseTracks
  <2>5. CloseKeeps(files, files', RF, made.file, i)
    BY <2>3, <2>4
  <2>6. /\ refs' \subseteq Reference /\ GivenOnce(refs') /\ Marks(refs, refs', r)
        /\ NoSharedValue' => NoSharedValue
    BY <1>1, <2>2, MarkFacts
  <2>7. r.value = Value(i, files[i].gen)
    BY <2>1 DEF v
  <2>8. /\ Tracks(files', RefsOf(refs', "file"), made.file)
        /\ /\ MarkedWhenGone(files, RF)
           /\ \A q \in RF : q.value = r.value => q = r
           => MarkedWhenGone(files', RefsOf(refs', "file"))
    BY <1>2, <1>3, <2>5, <2>6, <2>7, MarkedHere DEF RF
  <2>9. /\ Tracks(objects, RefsOf(refs', "object"), made.object)
        /\ AllGiven(objects, RefsOf(refs', "object"))
        /\ /\ MarkedWhenGone(objects, RO)
           /\ r \in RO => r.value.gen < objects[r.value.index].gen
           => MarkedWhenGone(objects, RefsOf(refs', "object"))
    BY <1>2, <1>3, <2>6, MarkedElsewhere DEF RO
  <2>10. NoSharedValue' => /\ MarkedWhenGone(objects, RefsOf(refs', "object"))
                           /\ MarkedWhenGone(files', RefsOf(refs', "file"))
    <3> SUFFICES ASSUME NoSharedValue'
                 PROVE  /\ MarkedWhenGone(objects, RefsOf(refs', "object"))
                        /\ MarkedWhenGone(files', RefsOf(refs', "file"))
      OBVIOUS
    <3>1. NoSharedValue
      BY <2>6
    <3>2. \A q \in RF : q.value = r.value => q = r
      BY <1>5, <3>1 DEF NoSharedValue, RF, RefsOf, v
    <3>3. r \in RO => r.value.gen < objects[r.value.index].gen
      BY <1>3, <1>7, NotValid DEF Tracks, v
    <3> QED
      BY <1>4, <2>8, <2>9, <3>1, <3>2, <3>3
  <2> QED
    BY <1>3, <2>2, <2>6, <2>8, <2>9, <2>10 DEF HandlesInv
<1>8. CASE ~Valid(objects, v) /\ ~(v.gen # 0 /\ Valid(files, v))
  <2>1. UNCHANGED <<objects, files, refs, made>>
    BY <1>8 DEF NtClose, MarkClosed
  <2> QED
    BY <2>1 DEF HandlesInv, NoSharedValue
<1> QED
  BY <1>6, <1>7, <1>8

\* A step that only moves the position of an open file.
LEMMA MoveInv ==
    ASSUME HandlesInv, UNCHANGED <<objects, refs, made>>, NEW i \in DOMAIN files,
           NEW p \in Int, files' = [files EXCEPT ![i].pos = p]
    PROVE  HandlesInv'
<1> DEFINE R == RefsOf(refs, "file")
<1>1. Tracks(files, R, made.file) /\ made.file \in Nat
  BY MadeFacts DEF HandlesInv
<1>2. \A r \in R : r.value.index \in DOMAIN files
  BY <1>1 DEF Tracks, Leads
<1> HIDE DEF R
<1>3. /\ Tracks(files', R, made.file)
      /\ \A j \in DOMAIN files : files'[j].gen = files[j].gen
  <2>1. MoveKeeps(files, [files EXCEPT ![i].pos = p], R, made.file, i, p)
    BY <1>1, MoveTracks, Zenon
  <2>2. MoveKeeps(files, files', R, made.file, i, p)
    BY <2>1
  <2> QED
    BY <2>2 DEF MoveKeeps
<1>4. made' \in [object : 0 .. MaxObjects, file : 0 .. MaxFiles] /\ made' = made
  BY DEF HandlesInv
<1> QED
  BY <1>2, <1>3, <1>4, FilesStep DEF R

\* The step of ReadFile and of SetFilePointer on the file table.
MovesOnly == UNCHANGED files \/ \E i \in DOMAIN files, p \in Int : files' = [files EXCEPT ![i].pos = p]

LEMMA ReadFileMoves ==
    ASSUME files \in Seq(AnySlot), NEW r \in refs, NEW length \in 1 .. MaxRead, NEW buffer,
           r.value.index \in DOMAIN files, ReadFile(r.value, length, buffer)
    PROVE  MovesOnly /\ UNCHANGED <<objects, refs, made>>
<1> DEFINE i == r.value.index
           pos == files[i].pos
           n == Smaller(length, FileSize - pos)
<1>2. pos \in Int
  BY SlotFields
<1>3. length \in Int /\ FileSize \in Int
  BY HandlesAssumption
<1>4. pos + n \in Int
  BY <1>2, <1>3 DEF Smaller
<1>5. \/ UNCHANGED files
      \/ files' = [files EXCEPT ![i].pos = pos + n]
  BY DEF ReadFile
<1>6. UNCHANGED <<objects, refs, made>>
  BY DEF ReadFile
<1> QED
  BY <1>4, <1>5, <1>6 DEF MovesOnly

LEMMA SetFilePointerMoves ==
    ASSUME files \in Seq(AnySlot), NEW r \in refs, NEW distance \in -1 .. 1, NEW high,
           r.value.index \in DOMAIN files, NEW origin \in Origins(files[r.value.index].pos),
           SetFilePointer(r.value, origin, distance, high)
    PROVE  MovesOnly /\ UNCHANGED <<objects, refs, made>>
<1> DEFINE i == r.value.index
<1>2. files[i].pos \in Int
  BY SlotFields
<1>3. origin \in Int /\ distance \in Int
  BY <1>2, HandlesAssumption DEF Origins
<1>4. origin + distance \in Int
  BY <1>3
<1>5. \/ UNCHANGED files
      \/ files' = [files EXCEPT ![i].pos = origin + distance]
  BY DEF SetFilePointer
<1>6. UNCHANGED <<objects, refs, made>>
  BY DEF SetFilePointer
<1> QED
  BY <1>4, <1>5, <1>6 DEF MovesOnly

LEMMA MovesOnlyInv ==
    ASSUME HandlesInv, MovesOnly, UNCHANGED <<objects, refs, made>>
    PROVE  HandlesInv'
<1>1. CASE UNCHANGED files
  BY <1>1 DEF HandlesInv, NoSharedValue
<1>2. CASE \E i \in DOMAIN files, p \in Int : files' = [files EXCEPT ![i].pos = p]
  BY <1>2, MoveInv, Zenon
<1> QED
  BY <1>1, <1>2 DEF MovesOnly

LEMMA ResetInv ==
    ASSUME HandlesInv, ResetHandles
    PROVE  HandlesInv'
<1>1. /\ objects' = <<>> /\ files' = <<>> /\ refs' = {} /\ made' = made
  BY DEF ResetHandles
<1>2. RefsOf(refs', "object") = {} /\ RefsOf(refs', "file") = {}
  BY <1>1 DEF RefsOf
<1>3. Tracks(<<>>, {}, made.object) /\ Tracks(<<>>, {}, made.file) /\ AllGiven(<<>>, {})
  BY DEF Tracks, AllGiven
<1> QED
  BY <1>1, <1>2, <1>3 DEF HandlesInv, GivenOnce, MarkedWhenGone

\* The disjuncts of HandlesNext that move a position.
MoveStep ==
    \/ \E r \in refs, length \in 1 .. MaxRead, buffer \in Pointers \ {"null"} :
           r.kind = "file" /\ r.value.index \in DOMAIN files /\ ReadFile(r.value, length, buffer)
    \/ \E r \in refs, distance \in -1 .. 1, high \in Pointers :
           /\ r.kind = "file" /\ r.value.index \in DOMAIN files
           /\ \E origin \in Origins(files[r.value.index].pos) :
                  /\ origin + distance <= FileSize + 1
                  /\ SetFilePointer(r.value, origin, distance, high)

LEMMA MoveStepMoves ==
    ASSUME files \in Seq(AnySlot), MoveStep
    PROVE  MovesOnly /\ UNCHANGED <<objects, refs, made>>
BY ReadFileMoves, SetFilePointerMoves DEF MoveStep

LEMMA HandlesNextCases ==
    ASSUME HandlesNext
    PROVE  \/ CreateObject
           \/ \E out \in Pointers : CreateFile(out)
           \/ \E r \in refs : NtClose(r)
           \/ MoveStep
           \/ ResetHandles
BY DEF HandlesNext, MoveStep

\* The invariant is inductive.
LEMMA HandlesNextInv ==
    ASSUME NoWrap, HandlesInv, [HandlesNext]_handleVars
    PROVE  HandlesInv'
<1>1. CASE UNCHANGED handleVars
  BY <1>1 DEF handleVars, HandlesInv, NoSharedValue
<1>2. CASE MoveStep
  <2>1. files \in Seq(AnySlot)
    BY DEF HandlesInv, Tracks
  <2> QED
    BY <1>2, <2>1, MoveStepMoves, MovesOnlyInv
<1> QED
  BY <1>1, <1>2, HandlesNextCases, CreateObjectInv, CreateFileInv, NtCloseInv, ResetInv

\* What the invariant says of one reference into its table.
LEMMA LeadsExactly ==
    ASSUME NEW table, NEW r, Leads(table, r), table \in Seq(AnySlot),
           r.closed <=> r.value.gen < table[r.value.index].gen
    PROVE  IF r.closed THEN ~Valid(table, r.value)
           ELSE Valid(table, r.value) /\ table[r.value.index].id = r.id
<1>1. r.value.index \in DOMAIN table /\ r.value.gen \in Nat
  BY DEF Leads
<1>2. table[r.value.index].gen \in Nat
  BY <1>1, SlotFields
<1>3. CASE r.closed
  BY <1>1, <1>2, <1>3 DEF Valid
<1>4. CASE ~r.closed
  BY <1>1, <1>2, <1>4 DEF Valid, Leads
<1> QED
  BY <1>3, <1>4

\* Whatever a title opens, closes and opens again, in whatever order, a handle of
\* HandleTable or VfsHandleTable leads to what it was given for until NtClose and
\* is refused from then on, for every size of the tables, if no value is both a
\* file's and an object's and no generation comes round.
THEOREM Exactness ==
    ASSUME NoWrap
    PROVE  HandlesSpec => []HandlesAreExact
<1>1. HandlesInv => HandlesAreExact
  <2> SUFFICES ASSUME HandlesInv, NoSharedValue, NEW r \in refs
               PROVE  IF r.closed THEN ~Valid(TableOf(r.kind), r.value)
                      ELSE Valid(TableOf(r.kind), r.value) /\ TableOf(r.kind)[r.value.index].id = r.id
    BY DEF HandlesAreExact
  <2>1. r.kind = "object" \/ r.kind = "file"
    BY DEF HandlesInv, Reference
  <2>2. CASE r.kind = "object"
    <3>1. r \in RefsOf(refs, "object")
      BY <2>2 DEF RefsOf
    <3>2. Leads(objects, r) /\ objects \in Seq(AnySlot)
      BY <3>1 DEF HandlesInv, Tracks
    <3>3. r.closed <=> r.value.gen < objects[r.value.index].gen
      BY <3>1 DEF HandlesInv, MarkedWhenGone
    <3>4. TableOf(r.kind) = objects
      BY <2>2 DEF TableOf
    <3> QED
      BY <3>2, <3>3, <3>4, LeadsExactly
  <2>3. CASE r.kind = "file"
    <3>1. r \in RefsOf(refs, "file")
      BY <2>3 DEF RefsOf
    <3>2. Leads(files, r) /\ files \in Seq(AnySlot)
      BY <3>1 DEF HandlesInv, Tracks
    <3>3. r.closed <=> r.value.gen < files[r.value.index].gen
      BY <3>1 DEF HandlesInv, MarkedWhenGone
    <3>4. TableOf(r.kind) = files
      BY <2>3 DEF TableOf
    <3> QED
      BY <3>2, <3>3, <3>4, LeadsExactly
  <2> QED
    BY <2>1, <2>2, <2>3
<1> QED
  BY <1>1, HandlesInitInv, HandlesNextInv, PTL DEF HandlesSpec

-----------------------------------------------------------------------------
(* What the exports on files promise. *)

\* All that the two theorems below need, whatever the generations do.
FilesInv == files \in Seq(AnySlot) /\ made \in [object : Nat, file : Nat]

\* Tables with the same open slots of the same objects have the same open files.
LEMMA SameOpenFiles ==
    ASSUME NEW table, NEW T,
           \A j \in DOMAIN table : table[j].open =>
               j \in DOMAIN T /\ T[j].open /\ T[j].id = table[j].id,
           \A j \in DOMAIN T : T[j].open =>
               j \in DOMAIN table /\ table[j].open /\ table[j].id = T[j].id
    PROVE  OpenFiles(T) = OpenFiles(table)
BY DEF OpenFiles

LEMMA MoveKeepsTyped ==
    ASSUME NEW table \in Seq(AnySlot), NEW i \in DOMAIN table, NEW p \in Int
    PROVE  /\ [table EXCEPT ![i].pos = p] \in Seq(AnySlot)
           /\ OpenFiles([table EXCEPT ![i].pos = p]) = OpenFiles(table)
<1> DEFINE slot == [table[i] EXCEPT !.pos = p]
           T == [table EXCEPT ![i] = slot]
<1>1. table[i] \in AnySlot
  OBVIOUS
<1>2. slot \in AnySlot /\ slot.open = table[i].open /\ slot.id = table[i].id
  BY <1>1, Zenon DEF AnySlot
<1>3. [table EXCEPT ![i].pos = p] = T
  OBVIOUS
<1> HIDE DEF slot
<1>4. /\ T \in Seq(AnySlot) /\ DOMAIN T = DOMAIN table /\ T[i] = slot
      /\ \A j \in DOMAIN table : j # i => T[j] = table[j]
  BY <1>2
<1> HIDE DEF T
<1>5. OpenFiles(T) = OpenFiles(table)
  BY <1>2, <1>4, SameOpenFiles
<1> QED
  BY <1>3, <1>4, <1>5, Zenon

\* A file opened and closed again leaves the open files as they were.
LEMMA OpenCloseFiles ==
    ASSUME NEW table \in Seq(AnySlot), NEW id \in Nat, NEW gen \in Nat
    PROVE  /\ Opened(table, id) \in Seq(AnySlot)
           /\ Closed(Opened(table, id), SlotFor(table), gen) \in Seq(AnySlot)
           /\ OpenFiles(Closed(Opened(table, id), SlotFor(table), gen)) = OpenFiles(table)
           /\ GenAt(table, SlotFor(table)) \in Nat
<1> DEFINE T == Opened(table, id)
           i == SlotFor(table)
           U == Closed(T, i, gen)
<1>1. IsOpening(table, T, i, id)
  BY OpenedFacts
<1> HIDE DEF T, i
<1>2. /\ T \in Seq(AnySlot) /\ i \in DOMAIN T /\ DOMAIN T = DOMAIN table \cup {i}
      /\ \A j \in DOMAIN table : j # i => T[j] = table[j]
      /\ i \in DOMAIN table => ~table[i].open
      /\ T[i] = [open |-> TRUE, gen |-> GenAt(table, i), id |-> id, pos |-> 0]
  BY <1>1 DEF IsOpening
<1>3. /\ U \in Seq(AnySlot) /\ DOMAIN U = DOMAIN T
      /\ U[i] = [open |-> FALSE, gen |-> gen, id |-> 0, pos |-> 0]
      /\ \A j \in DOMAIN T : j # i => U[j] = T[j]
  <2>1. T \in Seq(AnySlot) /\ i \in DOMAIN T /\ U = Closed(T, i, gen)
    BY <1>2
  <2> HIDE DEF U
  <2> QED
    BY <2>1, ClosedFacts
<1> HIDE DEF U
<1>4. ~U[i].open
  <2>1. U[i] = [open |-> FALSE, gen |-> gen, id |-> 0, pos |-> 0]
    BY <1>3, Zenon
  <2> QED
    BY <2>1
<1>5. OpenFiles(U) = OpenFiles(table)
  <2>1. \A j \in DOMAIN table : j # i => j \in DOMAIN U /\ U[j] = table[j]
    BY <1>2, <1>3, Zenon
  <2>2. \A j \in DOMAIN U : j # i => j \in DOMAIN table
    BY <1>2, <1>3, Zenon
  <2>3. \A j \in DOMAIN table : table[j].open => j # i
    BY <1>2, Zenon
  <2>4. \A j \in DOMAIN U : U[j].open => j # i
    BY <1>4, Zenon
  <2> QED
    BY <2>1, <2>2, <2>3, <2>4, SameOpenFiles, Zenon
<1>6. T[i].gen = GenAt(table, i) /\ T[i].gen \in Nat
  BY <1>2, SlotFields
<1> QED
  BY <1>2, <1>3, <1>5, <1>6 DEF T, U, i

\* The next generation of a file is a number.
LEMMA NextFileGenNat ==
    ASSUME NEW g \in Nat
    PROVE  NextFileGen(g) \in Nat
BY DEF NextFileGen

\* A step keeps the types, and one that reports an error the open files.
LEMMA FilesNext ==
    ASSUME FilesInv, [HandlesNext]_handleVars
    PROVE  /\ FilesInv'
           /\ last'.status = "error" => OpenFiles(files') = OpenFiles(files)
<1>1. /\ files \in Seq(AnySlot) /\ made \in [object : Nat, file : Nat]
      /\ made.file \in Nat /\ made.file + 1 \in Nat
  BY DEF FilesInv
<1>2. CASE UNCHANGED handleVars
  BY <1>1, <1>2 DEF handleVars, FilesInv
<1>3. CASE CreateObject
  <2>1. files' = files /\ made' = [made EXCEPT !.object = made.object + 1]
    BY <1>3 DEF CreateObject
  <2>2. made' \in [object : Nat, file : Nat]
    BY <1>1, <2>1
  <2> QED
    BY <1>1, <2>1, <2>2 DEF FilesInv
<1>4. ASSUME NEW out \in Pointers, CreateFile(out)
      PROVE  /\ FilesInv'
             /\ last'.status = "error" => OpenFiles(files') = OpenFiles(files)
  <2> DEFINE i == SlotFor(files)
             id == made.file + 1
             gen == GenAt(files, i)
  <2>1. gen \in Nat
    BY <1>1, OpenCloseFiles
  <2>2. NextFileGen(gen) \in Nat
    BY <2>1, NextFileGenNat
  <2>3. /\ Opened(files, id) \in Seq(AnySlot)
        /\ Closed(Opened(files, id), i, NextFileGen(gen)) \in Seq(AnySlot)
        /\ OpenFiles(Closed(Opened(files, id), i, NextFileGen(gen))) = OpenFiles(files)
    BY <1>1, <2>2, OpenCloseFiles
  <2>4. Result("success", 0).status # "error"
    BY DEF Result
  <2>5. [made EXCEPT !.file = id] \in [object : Nat, file : Nat]
    BY <1>1
  <2>6. \/ files' = files /\ made' = made
        \/ /\ files' = Opened(files, id) /\ last' = Result("success", 0)
           /\ made' = [made EXCEPT !.file = id]
        \/ /\ files' = Closed(Opened(files, id), i, NextFileGen(gen))
           /\ made' = [made EXCEPT !.file = id]
    BY <1>4 DEF CreateFile
  <2> HIDE DEF i, id, gen
  <2> QED
    BY <1>1, <2>3, <2>4, <2>5, <2>6 DEF FilesInv
<1>5. ASSUME NEW r \in refs, NtClose(r)
      PROVE  /\ FilesInv'
             /\ last'.status = "error" => OpenFiles(files') = OpenFiles(files)
  <2> DEFINE v == r.value
  <2>1. CASE ~Valid(objects, v) /\ v.gen # 0 /\ Valid(files, v)
    <3>1. /\ files' = Closed(files, v.index, NextFileGen(v.gen)) /\ made' = made
          /\ last' = Result("success", 0)
      BY <1>5, <2>1 DEF NtClose
    <3>2. v.index \in DOMAIN files /\ files[v.index].gen = v.gen
      BY <2>1 DEF Valid
    <3>3. v.gen \in Nat
      BY <1>1, <3>2, SlotFields
    <3>4. NextFileGen(v.gen) \in Nat
      BY <3>3, NextFileGenNat
    <3>5. Closed(files, v.index, NextFileGen(v.gen)) \in Seq(AnySlot)
      BY <1>1, <3>2, <3>4, ClosedFacts, Zenon
    <3>6. last'.status # "error"
      BY <3>1 DEF Result
    <3> QED
      BY <1>1, <3>1, <3>5, <3>6 DEF FilesInv
  <2>2. CASE ~(~Valid(objects, v) /\ v.gen # 0 /\ Valid(files, v))
    <3>1. files' = files /\ made' = made
      BY <1>5, <2>2 DEF NtClose
    <3> QED
      BY <1>1, <3>1 DEF FilesInv
  <2> QED
    BY <2>1, <2>2
<1>6. CASE MoveStep
  <2>1. MovesOnly /\ made' = made
    BY <1>1, <1>6, MoveStepMoves
  <2>2. CASE UNCHANGED files
    BY <1>1, <2>1, <2>2 DEF FilesInv
  <2>3. CASE \E i \in DOMAIN files, p \in Int : files' = [files EXCEPT ![i].pos = p]
    <3>1. PICK i \in DOMAIN files, p \in Int : files' = [files EXCEPT ![i].pos = p]
      BY <2>3, Zenon
    <3>2. files \in Seq(AnySlot)
      BY <1>1 DEF FilesInv
    <3>3. files' \in Seq(AnySlot) /\ OpenFiles(files') = OpenFiles(files)
      BY <3>1, <3>2, MoveKeepsTyped, Zenon
    <3> QED
      BY <1>1, <2>1, <3>3 DEF FilesInv
  <2> QED
    BY <2>1, <2>2, <2>3 DEF MovesOnly
<1>7. CASE ResetHandles
  <2>1. files' = <<>> /\ made' = made /\ last'.status # "error"
    BY <1>7 DEF ResetHandles, Result
  <2> QED
    BY <1>1, <2>1 DEF FilesInv
<1> QED
  BY <1>2, <1>3, <1>4, <1>5, <1>6, <1>7, HandlesNextCases

LEMMA FilesInit ==
    HandlesInit => FilesInv
BY DEF HandlesInit, FilesInv

\* NtCreateFile, NtClose, NtReadFile or SetFilePointer, wherever in its steps it
\* fails, leaves the same files open, for every size of the table and of the files.
THEOREM FailuresKeep ==
    HandlesSpec => FailureKeepsFiles
<1>1. FilesInv /\ [HandlesNext]_handleVars
         => [last'.status = "error" => OpenFiles(files') = OpenFiles(files)]_handleVars
  BY FilesNext
<1> QED
  BY <1>1, FilesInit, FilesNext, PTL DEF HandlesSpec, FailureKeepsFiles

\* The step of ReadFile on a buffer that is not a device's registers.
LEMMA ReadDelivers ==
    ASSUME FilesInv, NEW r \in refs, NEW length \in 1 .. MaxRead,
           NEW buffer \in Pointers \ {"null", "mmio"}, r.value.index \in DOMAIN files,
           ReadFile(r.value, length, buffer)
    PROVE  files'[r.value.index].pos = files[r.value.index].pos + last'.bytes
<1> DEFINE i == r.value.index
           pos == files[i].pos
           n == Smaller(length, FileSize - pos)
<1>1. files \in Seq(AnySlot)
  BY DEF FilesInv
<1>2. pos \in Int
  BY <1>1, SlotFields
<1>3. CASE buffer \notin {"ram", "mmio"} \/ r.value.gen = 0 \/ ~Valid(files, r.value)
           \/ pos >= FileSize
  <2>1. last' = Refused /\ files' = files
    BY <1>3 DEF ReadFile
  <2>2. last'.bytes = 0
    BY <2>1 DEF Refused, Result
  <2> QED
    BY <1>2, <2>1, <2>2
<1>4. CASE ~(buffer \notin {"ram", "mmio"} \/ r.value.gen = 0 \/ ~Valid(files, r.value)
             \/ pos >= FileSize)
  <2>1. files' = [files EXCEPT ![i].pos = pos + n] /\ last' = Result("success", n)
    BY <1>4 DEF ReadFile
  <2>2. last'.bytes = n
    BY <2>1 DEF Result
  <2>3. files[i] \in AnySlot
    BY <1>1
  <2>4. files'[i] = [files[i] EXCEPT !.pos = pos + n]
    BY <1>1, <2>1
  <2>5. files'[i].pos = pos + n
    BY <2>3, <2>4 DEF AnySlot
  <2> QED
    BY <2>2, <2>5
<1> QED
  BY <1>3, <1>4

\* NtReadFile moves the position of its file by exactly the bytes the title got, and
\* not at all when it fails, for every size of the files and of the reads.
THEOREM Delivery ==
    HandlesSpec => PositionFollowsDelivery
<1>1. ASSUME FilesInv, [HandlesNext]_handleVars
      PROVE  [\A r \in refs, length \in 1 .. MaxRead, buffer \in Pointers \ {"null", "mmio"} :
                 LET i == r.value.index
                 IN  r.kind = "file" /\ i \in DOMAIN files /\ ReadFile(r.value, length, buffer) =>
                         files'[i].pos = files[i].pos + last'.bytes]_handleVars
  BY <1>1, ReadDelivers
<1> QED
  BY <1>1, FilesInit, FilesNext, PTL DEF HandlesSpec, PositionFollowsDelivery

-----------------------------------------------------------------------------
(* The traversal of a disc.                                                 *)

\* A set of numbers that holds 0, and with a number below n the next, holds all up to n.
LEMMA Counting ==
    ASSUME NEW n \in Nat, NEW T, 0 \in T, \A i \in 0 .. n : i \in T /\ i < n => i + 1 \in T
    PROVE  \A i \in 0 .. n : i \in T
<1> DEFINE F == {i \in 0 .. n : i \notin T}
<1>1. ASSUME F # {} PROVE FALSE
  <2> F \in SUBSET Nat
    OBVIOUS
  <2>1. PICK m \in F : \A k \in F : m <= k
    BY <1>1, LeastElement, Zenon
  <2>2. m \in 0 .. n /\ m # 0 /\ m - 1 \in 0 .. n /\ m - 1 \notin F
    BY <2>1
  <2>3. m - 1 \in T /\ m - 1 < n /\ (m - 1) + 1 = m
    BY <2>1, <2>2
  <2> QED
    BY <2>1, <2>3
<1> QED
  BY <1>1

\* A vector.
IsList(s) == \E S : s \in Seq(S)

\* What push_back does to a vector.
LEMMA ListAppend ==
    ASSUME NEW s, IsList(s), NEW e
    PROVE  /\ IsList(Append(s, e)) /\ Len(s) \in Nat /\ Len(Append(s, e)) = Len(s) + 1
           /\ \A i \in 1 .. Len(s) : Append(s, e)[i] = s[i]
           /\ Append(s, e)[Len(s) + 1] = e
<1>1. PICK S : s \in Seq(S)
  BY DEF IsList
<1> DEFINE T == S \cup {e}
<1>2. s \in Seq(T) /\ e \in T
  BY <1>1
<1> HIDE DEF T
<1>3. Append(s, e) \in Seq(T) /\ Len(s) \in Nat /\ Len(Append(s, e)) = Len(s) + 1
  BY <1>2
<1>4. /\ \A i \in 1 .. Len(s) : Append(s, e)[i] = s[i]
      /\ Append(s, e)[Len(s) + 1] = e
  BY <1>2, <1>3
<1> QED
  BY <1>3, <1>4 DEF IsList

\* No directory is listed twice, and all that are listed were marked as visited.
Distinct(r) ==
    \A i, j \in 1 .. Len(r) :
        r[i].entry.dir /\ r[j].entry.dir /\ r[i].entry.sector = r[j].entry.sector => i = j
\* Every directory listed has its sector in V.
Marked(r, V) == \A i \in 1 .. Len(r) : r[i].entry.dir => r[i].entry.sector \in V

\* The fields of a walk.
IsWalk(w) ==
    w = [on |-> w.on, stack |-> w.stack, visited |-> w.visited, result |-> w.result,
         outcome |-> w.outcome]

\* What a traversal keeps: its listing names no directory twice and marks each as visited.
Walking(w) == IsWalk(w) /\ IsList(w.result) /\ Distinct(w.result) /\ Marked(w.result, w.visited)

\* Listing another entry, if it is no directory or one not yet visited.
LEMMA ListKeeps ==
    ASSUME NEW r, IsList(r), Distinct(r), NEW V, Marked(r, V), NEW x, NEW U,
           x.entry.dir => x.entry.sector \notin V /\ x.entry.sector \in U, V \subseteq U
    PROVE  IsList(Append(r, x)) /\ Distinct(Append(r, x)) /\ Marked(Append(r, x), U)
<1> DEFINE n == Len(r)
           q == Append(r, x)
<1>1. /\ IsList(q) /\ n \in Nat /\ Len(q) = n + 1
      /\ \A i \in 1 .. n : q[i] = r[i]
      /\ q[n + 1] = x
  BY ListAppend, Zenon
<1> HIDE DEF q, n
<1>2. \A i \in 1 .. n + 1 : i \in 1 .. n \/ i = n + 1
  BY <1>1
<1>3. \A i \in 1 .. n : r[i].entry.dir => r[i].entry.sector \in V
  BY Zenon DEF Marked, n
<1>4. Marked(q, U)
  BY <1>1, <1>2, <1>3, Zenon DEF Marked
<1>5. Distinct(q)
  <2> SUFFICES ASSUME NEW i \in 1 .. n + 1, NEW j \in 1 .. n + 1,
                      q[i].entry.dir, q[j].entry.dir, q[i].entry.sector = q[j].entry.sector
               PROVE  i = j
    BY <1>1, Zenon DEF Distinct
  <2>1. CASE i \in 1 .. n /\ j \in 1 .. n
    BY <1>1, <2>1, Zenon DEF Distinct, n
  <2>2. CASE i = n + 1 /\ j \in 1 .. n
    BY <1>1, <1>3, <2>2, Zenon
  <2>3. CASE i \in 1 .. n /\ j = n + 1
    BY <1>1, <1>3, <2>3, Zenon
  <2> QED
    BY <1>2, <2>1, <2>2, <2>3, Zenon
<1> QED
  BY <1>1, <1>4, <1>5, Zenon DEF q

\* One entry (the body of TraverseAll's inner loop).
LEMMA VisitKeeps ==
    ASSUME NEW w, Walking(w), NEW frame, NEW e
    PROVE  Walking(VisitEntry(w, frame, e))
<1> DEFINE x == [path |-> Append(frame.path, e.name), entry |-> e]
           u == VisitEntry(w, frame, e)
           f == Frame(e.sector, Append(frame.path, e.name), frame.depth + 1)
           V == w.visited \cup {e.sector}
           failed == [w EXCEPT !.outcome = "Error"]
           file == [w EXCEPT !.result = Append(@, x)]
           directory == [w EXCEPT !.result = Append(@, x), !.visited = @ \cup {e.sector},
                                  !.stack = Append(@, f)]
<1>0. IsWalk(w) /\ IsList(w.result) /\ Distinct(w.result) /\ Marked(w.result, w.visited)
  BY Zenon DEF Walking
<1>1. u = IF Len(w.result) >= MaxTotal \/ (e.dir /\ e.sector \in w.visited) THEN failed
          ELSE IF ~e.dir THEN file ELSE directory
  BY Zenon DEF VisitEntry
<1>2. x.entry = e /\ e.sector \in V /\ w.visited \subseteq V
  OBVIOUS
<1> HIDE DEF x, f
<1>3. Walking(failed)
  <2>1. IsWalk(failed) /\ failed.result = w.result /\ failed.visited = w.visited
    BY <1>0 DEF IsWalk
  <2> HIDE DEF failed
  <2> QED
    BY <1>0, <2>1, Zenon DEF Walking
<1>4. ASSUME ~e.dir PROVE Walking(file)
  <2>1. IsWalk(file) /\ file.result = Append(w.result, x) /\ file.visited = w.visited
    BY <1>0 DEF IsWalk
  <2>2. IsList(Append(w.result, x)) /\ Distinct(Append(w.result, x))
        /\ Marked(Append(w.result, x), w.visited)
    BY <1>0, <1>2, <1>4, ListKeeps, Zenon
  <2> HIDE DEF file
  <2> QED
    BY <2>1, <2>2, Zenon DEF Walking
<1>5. ASSUME e.sector \notin w.visited PROVE Walking(directory)
  <2>1. IsWalk(directory) /\ directory.result = Append(w.result, x) /\ directory.visited = V
    <3>1. directory = [on |-> w.on, stack |-> Append(w.stack, f), visited |-> V,
                       result |-> Append(w.result, x), outcome |-> w.outcome]
      <4> DEFINE a == w.on
                 b == w.stack
                 c == w.visited
                 d == w.result
                 o == w.outcome
                 b1 == Append(b, f)
                 c1 == c \cup {e.sector}
                 d1 == Append(d, x)
      <4>1. w = [on |-> a, stack |-> b, visited |-> c, result |-> d, outcome |-> o]
        BY <1>0, Zenon DEF IsWalk
      <4>2. directory = [w EXCEPT !.result = d1, !.visited = c1, !.stack = b1]
        OBVIOUS
      <4> HIDE DEF a, b, c, d, o, b1, c1, d1, directory
      <4>3. directory = [on |-> a, stack |-> b1, visited |-> c1, result |-> d1, outcome |-> o]
        BY <4>1, <4>2
      <4> QED
        BY <4>3 DEF a, b, c, d, o, b1, c1, d1
    <3> HIDE DEF V, directory
    <3> QED
      BY <3>1 DEF IsWalk
  <2>3. x.entry.sector \notin w.visited /\ x.entry.sector \in V /\ w.visited \subseteq V
    BY <1>2, <1>5
  <2> HIDE DEF V, directory
  <2>2. IsList(Append(w.result, x)) /\ Distinct(Append(w.result, x)) /\ Marked(Append(w.result, x), V)
    BY <1>0, <2>3, ListKeeps, Zenon
  <2> QED
    BY <2>1, <2>2, Zenon DEF Walking
<1> HIDE DEF failed, file, directory
<1> QED
  BY <1>1, <1>3, <1>4, <1>5, Zenon

\* The loop over the entries es of a directory, as VisitEntries defines it.
IsVisit(f, w, frame, es) ==
    f = [i \in 0 .. Len(es) |->
           IF i = 0 THEN w
           ELSE IF f[i - 1].outcome # "none" THEN f[i - 1]
           ELSE VisitEntry(f[i - 1], frame, es[i])]

\* There is such a loop.
LEMMA VisitExists ==
    ASSUME NEW w, NEW frame, NEW es, Len(es) \in Nat
    PROVE  \E f : IsVisit(f, w, frame, es)
<1> DEFINE n == Len(es)
           Turn(f, i) == IF i = 0 THEN w
                         ELSE IF f[i - 1].outcome # "none" THEN f[i - 1]
                         ELSE VisitEntry(f[i - 1], frame, es[i])
           T == {k \in 0 .. n : \E f : f = [i \in 0 .. k |-> Turn(f, i)]}
<1>1. 0 \in T
  <2> DEFINE f == [i \in 0 .. 0 |-> w]
  <2>0. \A i \in 0 .. 0 : i = 0
    OBVIOUS
  <2>1. \A i \in 0 .. 0 : Turn(f, i) = w
    BY <2>0, Zenon
  <2>2. f = [i \in 0 .. 0 |-> Turn(f, i)]
    BY <2>1
  <2> HIDE DEF f, Turn
  <2> QED
    BY <2>2
<1>2. ASSUME NEW k \in 0 .. n, k \in T, k < n PROVE k + 1 \in T
  <2>1. PICK f : f = [i \in 0 .. k |-> Turn(f, i)]
    BY <1>2, Zenon
  <2> DEFINE g == [i \in 0 .. k + 1 |-> IF i = k + 1 THEN Turn(f, k + 1) ELSE f[i]]
  <2>2. ASSUME NEW i \in 0 .. k + 1 PROVE g[i] = Turn(g, i)
    <3>1. CASE i = k + 1
      <4> HIDE DEF g, Turn
      <4>1. i - 1 \in 0 .. k + 1 /\ i - 1 # k + 1
        BY <3>1
      <4> USE DEF g
      <4>2. g[i - 1] = f[i - 1]
        BY <4>1, Zenon
      <4>3. g[i] = Turn(f, i)
        BY <3>1, Zenon
      <4> USE DEF Turn
      <4> HIDE DEF g
      <4> QED
        BY <4>2, <4>3, Zenon
    <3>2. CASE i # k + 1
      <4> HIDE DEF g, Turn
      <4>1. i \in 0 .. k /\ (i # 0 => i - 1 \in 0 .. k + 1 /\ i - 1 # k + 1)
        BY <3>2
      <4>2. f[i] = Turn(f, i)
        BY <2>1, <4>1, Zenon
      <4> USE DEF g
      <4>3. g[i] = f[i]
        BY <3>2, Zenon
      <4>4. i # 0 => g[i - 1] = f[i - 1]
        BY <4>1, Zenon
      <4> USE DEF Turn
      <4> HIDE DEF g
      <4> QED
        BY <4>2, <4>3, <4>4, Zenon
    <3> QED
      BY <3>1, <3>2
  <2>3. g = [i \in 0 .. k + 1 |-> g[i]]
    OBVIOUS
  <2> HIDE DEF g, Turn
  <2>4. g = [i \in 0 .. k + 1 |-> Turn(g, i)]
    BY <2>2, <2>3
  <2> QED
    BY <1>2, <2>4
<1>3. n \in T
  <2> HIDE DEF T
  <2>1. \A k \in 0 .. n : k \in T /\ k < n => k + 1 \in T
    BY <1>2
  <2> HIDE DEF n
  <2>2. \A k \in 0 .. n : k \in T
    BY <1>1, <2>1, Counting DEF n
  <2> QED
    BY <2>2 DEF n
<1>4. PICK f : f = [i \in 0 .. n |-> Turn(f, i)]
  BY <1>3, Zenon
<1>5. IsVisit(f, w, frame, es)
  BY <1>4, Zenon DEF IsVisit
<1> QED
  BY <1>5

\* All entries of a directory.
LEMMA VisitsKeep ==
    ASSUME NEW w, Walking(w), NEW frame, NEW es, Len(es) \in Nat
    PROVE  Walking(VisitEntries(w, frame, es))
<1> DEFINE n == Len(es)
           f == CHOOSE f : IsVisit(f, w, frame, es)
           T == {k \in 0 .. n : Walking(f[k])}
<1>1. VisitEntries(w, frame, es) = f[n]
  BY Zenon DEF VisitEntries, IsVisit
<1>2. IsVisit(f, w, frame, es)
  BY VisitExists, Zenon
<1>3. f = [i \in 0 .. n |-> IF i = 0 THEN w
                            ELSE IF f[i - 1].outcome # "none" THEN f[i - 1]
                            ELSE VisitEntry(f[i - 1], frame, es[i])]
  BY <1>2, Zenon DEF IsVisit
<1> HIDE DEF f
<1>4. 0 \in T
  <2>1. 0 \in 0 .. n
    OBVIOUS
  <2> HIDE DEF n
  <2>2. f[0] = w
    BY <1>3, <2>1, Zenon
  <2> QED
    BY <2>1, <2>2, Zenon
<1>5. ASSUME NEW k \in 0 .. n, k \in T, k < n PROVE k + 1 \in T
  <2>1. k + 1 \in 0 .. n /\ k + 1 # 0 /\ (k + 1) - 1 = k
    BY <1>5
  <2> HIDE DEF n
  <2>2. f[k + 1] = IF f[k].outcome # "none" THEN f[k] ELSE VisitEntry(f[k], frame, es[k + 1])
    BY <1>3, <2>1, Zenon
  <2>3. Walking(VisitEntry(f[k], frame, es[k + 1]))
    BY <1>5, VisitKeeps, Zenon
  <2> QED
    BY <1>5, <2>1, <2>2, <2>3, Zenon
<1>6. n \in T
  <2>1. \A k \in 0 .. n : k \in T /\ k < n => k + 1 \in T
    BY <1>5, Zenon
  <2>2. n \in Nat /\ n \in 0 .. n
    OBVIOUS
  <2> HIDE DEF T, n
  <2>3. \A k \in 0 .. n : k \in T
    BY <1>4, <2>1, <2>2, Counting, Zenon
  <2> QED
    BY <2>2, <2>3, Zenon
<1> QED
  BY <1>1, <1>6, Zenon

-----------------------------------------------------------------------------
(* The parsing of a directory.                                              *)

\* The parser before its first node.
ParseStart == [ok |-> TRUE, stack |-> <<[at |-> 0, depth |-> 1]>>, visited |-> {}, seen |-> {},
               entries |-> <<>>]

\* The loop of ParseDirectoryTableEntries.
IsParse(f, table) ==
    f = [n \in 0 .. MaxEntries + 1 |->
           IF n = 0 THEN ParseStart
           ELSE IF ~f[n - 1].ok \/ f[n - 1].stack = <<>> THEN f[n - 1]
           ELSE ParseNode(table, f[n - 1])]

\* There is such a loop.
LEMMA ParseExists ==
    ASSUME NEW table
    PROVE  \E f : IsParse(f, table)
<1> DEFINE n == MaxEntries + 1
           Turn(f, i) == IF i = 0 THEN ParseStart
                         ELSE IF ~f[i - 1].ok \/ f[i - 1].stack = <<>> THEN f[i - 1]
                         ELSE ParseNode(table, f[i - 1])
           T == {k \in 0 .. n : \E f : f = [i \in 0 .. k |-> Turn(f, i)]}
<1>0. n \in Nat
  BY DiscAssumption
<1>1. 0 \in T
  <2> DEFINE f == [i \in 0 .. 0 |-> ParseStart]
  <2>1. \A i \in 0 .. 0 : Turn(f, i) = ParseStart
    OBVIOUS
  <2>2. f = [i \in 0 .. 0 |-> Turn(f, i)]
    BY <2>1
  <2> HIDE DEF f, Turn
  <2> QED
    BY <1>0, <2>2
<1>2. ASSUME NEW k \in 0 .. n, k \in T, k < n PROVE k + 1 \in T
  <2>1. PICK f : f = [i \in 0 .. k |-> Turn(f, i)]
    BY <1>2, Zenon
  <2> DEFINE g == [i \in 0 .. k + 1 |-> IF i = k + 1 THEN Turn(f, k + 1) ELSE f[i]]
  <2>2. ASSUME NEW i \in 0 .. k + 1 PROVE g[i] = Turn(g, i)
    <3>1. CASE i = k + 1
      <4> HIDE DEF g, Turn
      <4>1. i - 1 \in 0 .. k + 1 /\ i - 1 # k + 1
        BY <3>1
      <4> USE DEF g
      <4>2. g[i - 1] = f[i - 1]
        BY <4>1, Zenon
      <4>3. g[i] = Turn(f, i)
        BY <3>1, Zenon
      <4> USE DEF Turn
      <4> HIDE DEF g
      <4> QED
        BY <4>2, <4>3, Zenon
    <3>2. CASE i # k + 1
      <4> HIDE DEF g, Turn
      <4>1. i \in 0 .. k /\ (i # 0 => i - 1 \in 0 .. k + 1 /\ i - 1 # k + 1)
        BY <3>2
      <4>2. f[i] = Turn(f, i)
        BY <2>1, <4>1, Zenon
      <4> USE DEF g
      <4>3. g[i] = f[i]
        BY <3>2, Zenon
      <4>4. i # 0 => g[i - 1] = f[i - 1]
        BY <4>1, Zenon
      <4> USE DEF Turn
      <4> HIDE DEF g
      <4> QED
        BY <4>2, <4>3, <4>4, Zenon
    <3> QED
      BY <3>1, <3>2
  <2>3. g = [i \in 0 .. k + 1 |-> g[i]]
    OBVIOUS
  <2> HIDE DEF g, Turn
  <2>4. g = [i \in 0 .. k + 1 |-> Turn(g, i)]
    BY <2>2, <2>3
  <2> QED
    BY <1>0, <1>2, <2>4
<1>3. n \in T
  <2> HIDE DEF T
  <2>1. \A k \in 0 .. n : k \in T /\ k < n => k + 1 \in T
    BY <1>2
  <2> HIDE DEF n
  <2>2. \A k \in 0 .. n : k \in T
    BY <1>0, <1>1, <2>1, Counting
  <2> QED
    BY <1>0, <2>2
<1>4. PICK f : f = [i \in 0 .. n |-> Turn(f, i)]
  BY <1>3, Zenon
<1>5. IsParse(f, table)
  BY <1>4, Zenon DEF IsParse
<1> QED
  BY <1>5

\* The state of the loop has its fields, of which entries is a list.
Parsing(p) ==
    /\ p = [ok |-> p.ok, stack |-> p.stack, visited |-> p.visited, seen |-> p.seen,
            entries |-> p.entries]
    /\ IsList(p.entries)

\* A node of the tree adds at most one entry.
LEMMA ParseNodeKeeps ==
    ASSUME NEW table, NEW p, Parsing(p)
    PROVE  Parsing(ParseNode(table, p))
<1>1. PICK ok, stack, visited, seen, entries :
          p = [ok |-> ok, stack |-> stack, visited |-> visited, seen |-> seen, entries |-> entries]
  BY Zenon DEF Parsing
<1>2. IsList(entries)
  BY <1>1 DEF Parsing
<1>3. \/ ParseNode(table, p) = [p EXCEPT !.ok = FALSE]
      \/ \E s, v, m, x : ParseNode(table, p) =
           [ok |-> TRUE, stack |-> s, visited |-> v, seen |-> m, entries |-> Append(p.entries, x)]
  BY Zenon DEF ParseNode
<1>4. CASE ParseNode(table, p) = [p EXCEPT !.ok = FALSE]
  <2>1. ParseNode(table, p) = [ok |-> FALSE, stack |-> stack, visited |-> visited, seen |-> seen,
                               entries |-> entries]
    BY <1>1, <1>4
  <2> QED
    BY <1>2, <2>1 DEF Parsing
<1>5. ASSUME NEW s, NEW v, NEW m, NEW x,
             ParseNode(table, p) = [ok |-> TRUE, stack |-> s, visited |-> v, seen |-> m,
                                    entries |-> Append(p.entries, x)]
      PROVE  Parsing(ParseNode(table, p))
  <2>1. p.entries = entries
    BY <1>1
  <2>2. IsList(Append(p.entries, x))
    BY <1>2, <2>1, ListAppend, Zenon
  <2> QED
    BY <1>5, <2>2 DEF Parsing
<1> QED
  BY <1>3, <1>4, <1>5, Zenon

\* What a directory is parsed to is a list.
LEMMA ParsedIsList ==
    ASSUME NEW table
    PROVE  IsList(ParseDirectoryTableEntries(table).entries)
<1> DEFINE n == MaxEntries + 1
           f == CHOOSE f : IsParse(f, table)
           T == {k \in 0 .. n : Parsing(f[k])}
<1>0. n \in Nat /\ 0 \in 0 .. n /\ n \in 0 .. n
  BY DiscAssumption
<1>1. ParseDirectoryTableEntries(table) =
        IF f[n].ok THEN [ok |-> TRUE, entries |-> f[n].entries] ELSE Failed
  BY Zenon DEF ParseDirectoryTableEntries, IsParse, ParseStart
<1>2. IsParse(f, table)
  BY ParseExists, Zenon
<1>3. f = [i \in 0 .. n |-> IF i = 0 THEN ParseStart
                            ELSE IF ~f[i - 1].ok \/ f[i - 1].stack = <<>> THEN f[i - 1]
                            ELSE ParseNode(table, f[i - 1])]
  BY <1>2, Zenon DEF IsParse
<1> HIDE DEF f, n
<1>e. IsList(<<>>)
  BY DEF IsList
<1>4. 0 \in T
  <2>1. f[0] = ParseStart
    BY <1>0, <1>3, Zenon
  <2>2. Parsing(ParseStart)
    BY <1>e DEF Parsing, ParseStart
  <2> QED
    BY <1>0, <2>1, <2>2, Zenon
<1>5. ASSUME NEW k \in 0 .. n, k \in T, k < n PROVE k + 1 \in T
  <2>1. k + 1 \in 0 .. n /\ k + 1 # 0 /\ (k + 1) - 1 = k
    BY <1>0, <1>5
  <2>2. f[k + 1] = IF ~f[k].ok \/ f[k].stack = <<>> THEN f[k] ELSE ParseNode(table, f[k])
    BY <1>3, <2>1, Zenon
  <2>3. Parsing(ParseNode(table, f[k]))
    BY <1>5, ParseNodeKeeps, Zenon
  <2> QED
    BY <1>5, <2>1, <2>2, <2>3, Zenon
<1>6. Parsing(f[n])
  <2>1. \A k \in 0 .. n : k \in T /\ k < n => k + 1 \in T
    BY <1>5, Zenon
  <2> HIDE DEF T
  <2>2. \A k \in 0 .. n : k \in T
    BY <1>0, <1>4, <2>1, Counting, Zenon
  <2>3. n \in T
    BY <1>0, <2>2, Zenon
  <2> QED
    BY <2>3, Zenon DEF T
<1>7. IsList(f[n].entries)
  BY <1>6, Zenon DEF Parsing
<1> QED
  BY <1>1, <1>7, <1>e DEF Failed

\* What a directory table parses to is a vector.
LEMMA TableIsList ==
    ASSUME NEW sector
    PROVE  Len(ParseDirectoryTable(sector).entries) \in Nat
<1>1. IsList(<<>>)
  BY DEF IsList
<1>2. IsList(ParseDirectoryTable(sector).entries)
  BY <1>1, ParsedIsList DEF ParseDirectoryTable, Failed
<1> QED
  BY <1>2, ListAppend, Zenon

-----------------------------------------------------------------------------
(* The invariant.                                                           *)

\* While a traversal goes on, all directories listed are marked.
Sound(w) ==
    /\ IsWalk(w) /\ IsList(w.result) /\ Distinct(w.result)
    /\ w.on => Marked(w.result, w.visited)

\* The inductive invariant of the disc.
DiscInv == Sound(walk)

\* A traversal that is over.
Over(r, o) == [on |-> FALSE, stack |-> <<>>, visited |-> {}, result |-> r, outcome |-> o]

\* Its listing is all it keeps.
LEMMA OverSound ==
    ASSUME NEW r, IsList(r), Distinct(r), NEW o
    PROVE  Sound(Over(r, o))
<1>1. /\ Over(r, o).on = FALSE /\ Over(r, o).result = r
      /\ IsWalk(Over(r, o))
  BY DEF Over, IsWalk
<1> QED
  BY <1>1 DEF Sound

\* The empty listing names no directory twice.
LEMMA EmptyList == IsList(<<>>) /\ Len(<<>>) = 0 /\ Distinct(<<>>) /\ \A V : Marked(<<>>, V)
  BY DEF IsList, Distinct, Marked

\* The beginning of a traversal.
LEMMA TraverseAllKeeps ==
    ASSUME NEW start, TraverseAll(start)
    PROVE  DiscInv'
<1> DEFINE f == FindEntry(start)
           V == {f.entry.sector}
           k == <<Frame(f.entry.sector, start, 1)>>
<1>1. \/ walk' = [NoWalk EXCEPT !.outcome = "Error"]
      \/ walk' = [NoWalk EXCEPT !.on = TRUE, !.visited = V, !.stack = k]
  BY Zenon DEF TraverseAll
<1> HIDE DEF V, k
<1>2. CASE walk' = [NoWalk EXCEPT !.outcome = "Error"]
  <2>1. walk' = Over(<<>>, "Error")
    BY <1>2 DEF NoWalk, Over
  <2> QED
    BY <2>1, OverSound, EmptyList, Zenon DEF DiscInv
<1>3. CASE walk' = [NoWalk EXCEPT !.on = TRUE, !.visited = V, !.stack = k]
  <2>1. walk' = [on |-> TRUE, stack |-> k, visited |-> V, result |-> <<>>, outcome |-> "none"]
    BY <1>3 DEF NoWalk
  <2> QED
    BY <2>1, EmptyList DEF DiscInv, Sound, IsWalk
<1> QED
  BY <1>1, <1>2, <1>3

\* One directory.
LEMMA TraverseStepKeeps ==
    ASSUME DiscInv, TraverseStep
    PROVE  DiscInv'
<1> DEFINE frame == walk.stack[Len(walk.stack)]
           w == [walk EXCEPT !.stack = SubSeq(@, 1, Len(@) - 1)]
           t == ParseDirectoryTable(frame.sector)
           after == VisitEntries(w, frame, t.entries)
<1>0. walk.on /\ IsWalk(walk) /\ IsList(walk.result) /\ Distinct(walk.result)
      /\ Marked(walk.result, walk.visited)
  BY DEF DiscInv, Sound, TraverseStep
<1>1. \/ walk' = [NoWalk EXCEPT !.result = walk.result, !.outcome = "Ok"]
      \/ walk' = [NoWalk EXCEPT !.outcome = "Error"]
      \/ walk' = after
  BY Zenon DEF TraverseStep
<1>2. CASE walk' = [NoWalk EXCEPT !.result = walk.result, !.outcome = "Ok"]
  <2>1. PICK r : /\ walk' = [NoWalk EXCEPT !.result = r, !.outcome = "Ok"]
                 /\ IsList(r) /\ Distinct(r)
    BY <1>0, <1>2, Zenon
  <2>2. walk' = Over(r, "Ok")
    BY <2>1 DEF NoWalk, Over
  <2> QED
    BY <2>1, <2>2, OverSound DEF DiscInv
<1>3. CASE walk' = [NoWalk EXCEPT !.outcome = "Error"]
  <2>1. walk' = Over(<<>>, "Error")
    BY <1>3 DEF NoWalk, Over
  <2> QED
    BY <2>1, OverSound, EmptyList, Zenon DEF DiscInv
<1>4. CASE walk' = after
  <2>1. Walking(w)
    <3> DEFINE s == SubSeq(walk.stack, 1, Len(walk.stack) - 1)
    <3>1. w = [walk EXCEPT !.stack = s]
      OBVIOUS
    <3> HIDE DEF s, w
    <3>2. IsWalk(w) /\ w.result = walk.result /\ w.visited = walk.visited
      BY <1>0, <3>1 DEF IsWalk
    <3> QED
      BY <1>0, <3>2, Zenon DEF Walking
  <2>2. Len(t.entries) \in Nat
    BY TableIsList, Zenon
  <2> HIDE DEF w, t, frame
  <2>3. Walking(after)
    BY <2>1, <2>2, VisitsKeep, Zenon
  <2>4. Walking(walk')
    BY <1>4, <2>3, Zenon
  <2> QED
    BY <2>4, Zenon DEF DiscInv, Sound, Walking
<1> QED
  BY <1>1, <1>2, <1>3, <1>4

\* Every step keeps the invariant; mounting does not touch a traversal.
THEOREM DiscInvariant == DiscSpec => []DiscInv
<1>1. DiscInit => DiscInv
  BY EmptyList DEF DiscInit, NoWalk, DiscInv, Sound, IsWalk
<1>2. DiscInv /\ [DiscNext]_discVars => DiscInv'
  <2> SUFFICES ASSUME DiscInv, [DiscNext]_discVars PROVE DiscInv'
    OBVIOUS
  <2>1. ASSUME UNCHANGED walk PROVE DiscInv'
    BY <2>1, Zenon DEF DiscInv
  <2>2. CASE UNCHANGED discVars
    BY <2>1, <2>2 DEF discVars
  <2>3. ASSUME NEW start, TraverseAll(start) PROVE DiscInv'
    BY <2>3, TraverseAllKeeps
  <2>4. CASE TraverseStep
    BY <2>4, TraverseStepKeeps
  <2>5. CASE Mount
    BY <2>1, <2>5 DEF Mount
  <2>6. ASSUME NEW a, Unmount(a) PROVE DiscInv'
    BY <2>1, <2>6 DEF Unmount
  <2> QED
    BY <2>2, <2>3, <2>4, <2>5, <2>6, Zenon DEF DiscNext
<1> QED
  BY <1>1, <1>2, PTL DEF DiscSpec

\* A traversal that succeeds lists each directory once, on every disc, whatever its
\* directories refer to (visited_dirs of TraverseAll).
THEOREM DirectoriesOnce == DiscSpec => []EachDirectoryOnce
<1>1. DiscInv => EachDirectoryOnce
  <2> SUFFICES ASSUME DiscInv PROVE EachDirectoryOnce
    OBVIOUS
  <2>1. PICK S : walk.result \in Seq(S)
    BY DEF DiscInv, Sound, IsList
  <2>2. DOMAIN walk.result = 1 .. Len(walk.result)
    BY <2>1
  <2> QED
    BY <2>2, Zenon DEF DiscInv, Sound, Distinct, EachDirectoryOnce
<1> QED
  BY <1>1, DiscInvariant, PTL

=============================================================================

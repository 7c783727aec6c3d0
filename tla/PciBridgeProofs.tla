-------------------------- MODULE PciBridgeProofs --------------------------
(***************************************************************************)
(* For every set of devices, BAR sizes, fixed mappings and address width,  *)
(* and every sequence of configuration writes, an access reaches at most   *)
(* one device, the one whose BAR register covers it, and ProgramBar is all *)
(* or nothing.                                                             *)
(*                                                                         *)
(* The bridge works in steps between which register and mapping disagree,  *)
(* so the invariant is relative to the BARs that have just moved.          *)
(***************************************************************************)
EXTENDS PciBridge, FiniteSetTheorems, TLAPS

\* The values of a PciBar and of an entry of active_mappings_.
Register == [programmed : BOOLEAN, probe : BOOLEAN, base : Nat]
Entry == [bdf : Bdfs, idx : BarIdx, base : Nat, size : Nat \ {0}]

\* The bus mapping that belongs to an entry of active_mappings_.
Mapping(a) == [base |-> a.base, size |-> a.size, owner |-> <<a.bdf, a.idx>>]

\* The states the bridge threads through its operations.
PciState == [bar : [Bdfs -> [BarIdx -> Register]], mem : [Bdfs -> BOOLEAN],
             bus : SUBSET (FixedMaps \cup {Mapping(a) : a \in Entry}),
             active : SUBSET Entry]

\* A record of four such parts is a state.
LEMMA StateRecord ==
    ASSUME NEW b \in [Bdfs -> [BarIdx -> Register]], NEW m \in [Bdfs -> BOOLEAN],
           NEW u \in SUBSET (FixedMaps \cup {Mapping(a) : a \in Entry}), NEW v \in SUBSET Entry
    PROVE  [bar |-> b, mem |-> m, bus |-> u, active |-> v] \in PciState
  BY DEF PciState

\* An entry is where its register says, while its device decodes memory.
Current(s, a) == s.bar[a.bdf][a.idx].base = a.base /\ s.mem[a.bdf]

\* What holds between the steps of an operation while the BARs in moved may have
\* a new address, or have lost memory space, that their mappings do not follow yet.
Agree(s, moved) ==
    /\ s \in PciState
    /\ FixedMaps \subseteq s.bus
    /\ \A m, n \in s.bus : m # n => ~Overlap(m.base, m.size, n.base, n.size)
    /\ \A a \in s.active : Mapping(a) \in s.bus \ FixedMaps
    /\ \A m \in s.bus \ FixedMaps : \E a \in s.active : m = Mapping(a)
    /\ \A a, b \in s.active : a.bdf = b.bdf /\ a.idx = b.idx => a = b
    /\ \A a \in s.active : /\ a.size = Size(a.bdf, a.idx) /\ HasDevice[a.bdf][a.idx]
                           /\ s.bar[a.bdf][a.idx].programmed
    /\ \A a \in s.active : <<a.bdf, a.idx>> \notin moved => Current(s, a)

\* What is on the bus has a place and a size.
LEMMA BusTypes ==
    ASSUME NEW s \in PciState, NEW m \in s.bus
    PROVE  m.base \in Nat /\ m.size \in Nat \ {0}
<1>1. m \in FixedMaps \/ \E a \in Entry : m = Mapping(a)
  BY DEF PciState
<1>2. ASSUME NEW a \in Entry, m = Mapping(a) PROVE m.base \in Nat /\ m.size \in Nat \ {0}
  BY <1>2 DEF Entry, Mapping
<1> QED
  BY <1>1, <1>2, PciAssumption

\* UnmapBar takes the BAR's entry and its mapping away and nothing else.
LEMMA UnmapBarFields ==
    ASSUME NEW s \in PciState, NEW d \in Bdfs, NEW i \in BarIdx,
           \A a, b \in s.active : a.bdf = b.bdf /\ a.idx = b.idx => a = b
    PROVE  /\ UnmapBar(s, d, i) \in PciState
           /\ UnmapBar(s, d, i).bar = s.bar /\ UnmapBar(s, d, i).mem = s.mem
           /\ UnmapBar(s, d, i).active = s.active \ BarIsMapped(s, d, i)
           /\ UnmapBar(s, d, i).bus
                = {m \in s.bus : \A a \in BarIsMapped(s, d, i) : a.base # m.base}
           /\ BarIsMapped(UnmapBar(s, d, i), d, i) = {}
<1>1. CASE BarIsMapped(s, d, i) = {}
  BY <1>1 DEF UnmapBar, PciState
<1>2. CASE BarIsMapped(s, d, i) # {}
  <2>1. PICK a \in BarIsMapped(s, d, i) : TRUE
    BY <1>2
  <2>2. BarIsMapped(s, d, i) = {a}
    BY <2>1 DEF BarIsMapped
  <2>3. (CHOOSE x \in BarIsMapped(s, d, i) : TRUE) = a
    BY <2>2
  <2>4. UnmapBar(s, d, i) = [[s EXCEPT !.bus = {m \in s.bus : m.base # a.base}]
                               EXCEPT !.active = s.active \ {a}]
    BY <1>2, <2>3, Zenon DEF UnmapBar, UnmapDevice, PciState
  <2>5. UnmapBar(s, d, i) = [bar |-> s.bar, mem |-> s.mem,
                             bus |-> {m \in s.bus : m.base # a.base},
                             active |-> s.active \ {a}]
    BY <2>4, Zenon DEF PciState
  <2> HIDE DEF UnmapBar
  <2>6. {m \in s.bus : m.base # a.base}
          = {m \in s.bus : \A b \in BarIsMapped(s, d, i) : b.base # m.base}
    BY <2>2
  <2>7. BarIsMapped(UnmapBar(s, d, i), d, i) = {}
    BY <2>2, <2>5 DEF BarIsMapped
  <2> QED
    BY <2>2, <2>5, <2>6, <2>7 DEF PciState
<1> QED
  BY <1>1, <1>2

\* The same between the steps of an operation.
LEMMA UnmapBarAgree ==
    ASSUME NEW s, NEW moved, Agree(s, moved), NEW d \in Bdfs, NEW i \in BarIdx
    PROVE  /\ UnmapBar(s, d, i) \in PciState
           /\ UnmapBar(s, d, i).bar = s.bar /\ UnmapBar(s, d, i).mem = s.mem
           /\ UnmapBar(s, d, i).active = s.active \ BarIsMapped(s, d, i)
           /\ UnmapBar(s, d, i).bus
                = {m \in s.bus : \A a \in BarIsMapped(s, d, i) : a.base # m.base}
           /\ BarIsMapped(UnmapBar(s, d, i), d, i) = {}
<1>1. s \in PciState /\ \A a, b \in s.active : a.bdf = b.bdf /\ a.idx = b.idx => a = b
  BY DEF Agree
<1> QED
  BY <1>1, UnmapBarFields

\* Two mappings with one base are the same mapping.
LEMMA BaseIsKey ==
    ASSUME NEW s, NEW moved, Agree(s, moved), NEW m \in s.bus, NEW n \in s.bus,
           m.base = n.base
    PROVE  m = n
<1>1. m.base \in Nat /\ m.size \in Nat \ {0} /\ n.size \in Nat \ {0}
  BY BusTypes DEF Agree
<1>2. Overlap(m.base, m.size, n.base, n.size)
  BY <1>1 DEF Overlap
<1> QED
  BY <1>2 DEF Agree

\* UnmapBar keeps the agreement, and a BAR that moved is no longer out of step.
LEMMA UnmapBarKeeps ==
    ASSUME NEW s, NEW moved, Agree(s, moved), NEW d \in Bdfs, NEW i \in BarIdx
    PROVE  Agree(UnmapBar(s, d, i), moved \ {<<d, i>>})
<1> DEFINE u == UnmapBar(s, d, i)
           own == BarIsMapped(s, d, i)
<1>1. s \in PciState /\ \A a, b \in s.active : a.bdf = b.bdf /\ a.idx = b.idx => a = b
  BY DEF Agree
<1>2. /\ u \in PciState /\ u.bar = s.bar /\ u.mem = s.mem /\ u.active = s.active \ own
      /\ u.bus = {m \in s.bus : \A a \in own : a.base # m.base}
  BY <1>1, UnmapBarFields
<1> HIDE DEF u
<1>3. own = {a \in s.active : a.bdf = d /\ a.idx = i}
  BY DEF BarIsMapped
<1> HIDE DEF own
<1>4. \A a \in Entry : Mapping(a).base = a.base /\ Mapping(a).owner = <<a.bdf, a.idx>>
  BY DEF Mapping
<1>5. s.active \subseteq Entry
  BY <1>1 DEF PciState
<1>6. ASSUME NEW m \in s.bus, NEW a \in own, a.base = m.base PROVE m = Mapping(a)
  <2>1. Mapping(a) \in s.bus /\ Mapping(a).base = m.base
    BY <1>3, <1>4, <1>5, <1>6 DEF Agree
  <2> QED
    BY <2>1, BaseIsKey
<1>7. FixedMaps \subseteq u.bus
  BY <1>2, <1>3, <1>6 DEF Agree
<1>8. ASSUME NEW a \in u.active PROVE Mapping(a) \in u.bus \ FixedMaps
  <2>1. a \in s.active /\ a \notin own /\ Mapping(a) \in s.bus \ FixedMaps
    BY <1>2, <1>8 DEF Agree
  <2>2. ASSUME NEW b \in own, b.base = Mapping(a).base PROVE FALSE
    <3>1. Mapping(a) = Mapping(b)
      BY <1>6, <2>1, <2>2
    <3>2. <<a.bdf, a.idx>> = <<b.bdf, b.idx>>
      BY <3>1, <1>3, <1>4, <1>5, <2>1
    <3> QED
      BY <3>2, <2>1, <1>3
  <2> QED
    BY <1>2, <2>1, <2>2
<1>9. ASSUME NEW m \in u.bus \ FixedMaps PROVE \E a \in u.active : m = Mapping(a)
  <2>1. PICK a \in s.active : m = Mapping(a)
    BY <1>2, <1>9 DEF Agree
  <2>2. a \notin own
    BY <2>1, <1>2, <1>4, <1>5, <1>9
  <2> QED
    BY <1>2, <2>1, <2>2
<1>10. ASSUME NEW a \in u.active, <<a.bdf, a.idx>> \notin moved \ {<<d, i>>} PROVE Current(u, a)
  <2>1. a \in s.active /\ a \notin own
    BY <1>2, <1>10
  <2>2. <<a.bdf, a.idx>> # <<d, i>>
    BY <1>3, <2>1
  <2> QED
    BY <1>2, <1>10, <2>1, <2>2 DEF Agree, Current
<1> QED
  BY <1>2, <1>7, <1>8, <1>9, <1>10 DEF Agree, u

\* The three ways MapBar ends: nothing to do,
MapSkipped(s, d, i) ==
    /\ MapBar(s, d, i) = [st |-> s, ok |-> TRUE]
    /\ \/ ~IsActive(s, d, i) \/ ~HasDevice[d][i] \/ ~s.mem[d]
       \/ \E a \in BarIsMapped(s, d, i) : a.base = s.bar[d][i].base /\ a.size = Size(d, i)

\* refused by the bus,
MapRefused(s, d, i) ==
    LET u == UnmapBar(s, d, i)
        base == s.bar[d][i].base
    IN  /\ MapBar(s, d, i) = [st |-> u, ok |-> FALSE]
        /\ \/ base + Size(d, i) > Limit
           \/ \E o \in u.bus : Overlap(base, Size(d, i), o.base, o.size)

\* mapped.
MapDone(s, d, i) ==
    LET u == UnmapBar(s, d, i)
        base == s.bar[d][i].base
    IN  /\ MapBar(s, d, i)
             = [st |-> [bar |-> s.bar, mem |-> s.mem,
                        bus |-> u.bus \cup {[base |-> base, size |-> Size(d, i), owner |-> <<d, i>>]},
                        active |-> u.active
                          \cup {[bdf |-> d, idx |-> i, base |-> base, size |-> Size(d, i)]}],
                ok |-> TRUE]
        /\ IsActive(s, d, i) /\ HasDevice[d][i] /\ s.mem[d]
        /\ \A o \in u.bus : ~Overlap(base, Size(d, i), o.base, o.size)

\* There is no other way.
LEMMA MapBarCases ==
    ASSUME NEW s, NEW moved, Agree(s, moved), NEW d \in Bdfs, NEW i \in BarIdx
    PROVE  MapSkipped(s, d, i) \/ MapRefused(s, d, i) \/ MapDone(s, d, i)
<1> DEFINE b == s.bar[d][i]
           z == Size(d, i)
           u == UnmapBar(s, d, i)
           r == MapBar(s, d, i)
           new == [base |-> b.base, size |-> z, owner |-> <<d, i>>]
           ent == [bdf |-> d, idx |-> i, base |-> b.base, size |-> z]
           here == {a \in BarIsMapped(s, d, i) : a.base = b.base /\ a.size = z}
           q == MapDevice(u, new)
<1>1. u \in PciState /\ u.bar = s.bar /\ u.mem = s.mem
  BY UnmapBarAgree
<1>2. u = [bar |-> s.bar, mem |-> s.mem, bus |-> u.bus, active |-> u.active]
  BY <1>1 DEF PciState
<1>3. r = IF ~IsActive(s, d, i) \/ ~HasDevice[d][i] \/ ~s.mem[d] \/ here # {}
          THEN [st |-> s, ok |-> TRUE]
          ELSE IF ~q.ok THEN q
          ELSE [st |-> [q.st EXCEPT !.active = q.st.active \cup {ent}], ok |-> TRUE]
  BY DEF MapBar
<1>4. new.base = b.base /\ new.size = z
  OBVIOUS
<1> HIDE DEF u, r, z
<1>5. CASE ~IsActive(s, d, i) \/ ~HasDevice[d][i] \/ ~s.mem[d] \/ here # {}
  <2>1. r = [st |-> s, ok |-> TRUE]
    BY <1>3, <1>5
  <2> QED
    BY <1>5, <2>1 DEF MapSkipped, r, z
<1>6. CASE ~(~IsActive(s, d, i) \/ ~HasDevice[d][i] \/ ~s.mem[d] \/ here # {})
  <2>1. z # 0
    BY <1>6, PciAssumption DEF IsActive, Size, z
  <2>2. CASE b.base + z > Limit \/ \E o \in u.bus : Overlap(b.base, z, o.base, o.size)
    <3>1. q = [st |-> u, ok |-> FALSE]
      BY <1>4, <2>2 DEF MapDevice
    <3> HIDE DEF q, new, ent, here
    <3>2. q.ok = FALSE
      BY <3>1
    <3>3. r = q
      BY <1>3, <1>6, <3>2
    <3>4. r = [st |-> u, ok |-> FALSE]
      BY <3>1, <3>3
    <3> QED
      BY <2>2, <3>4 DEF MapRefused, r, u, z
  <2>3. CASE ~(b.base + z > Limit \/ \E o \in u.bus : Overlap(b.base, z, o.base, o.size))
    <3>1. q = [st |-> [u EXCEPT !.bus = u.bus \cup {new}], ok |-> TRUE]
      BY <1>4, <2>1, <2>3 DEF MapDevice
    <3> HIDE DEF q, new, ent, here
    <3>2. /\ q.ok = TRUE
          /\ q.st = [bar |-> s.bar, mem |-> s.mem, bus |-> u.bus \cup {new}, active |-> u.active]
      BY <1>2, <3>1
    <3>3. r = [st |-> [q.st EXCEPT !.active = q.st.active \cup {ent}], ok |-> TRUE]
      BY <1>3, <1>6, <3>2
    <3>4. [q.st EXCEPT !.active = q.st.active \cup {ent}]
            = [bar |-> s.bar, mem |-> s.mem, bus |-> u.bus \cup {new}, active |-> u.active \cup {ent}]
      BY <3>2
    <3>5. r = [st |-> [bar |-> s.bar, mem |-> s.mem, bus |-> u.bus \cup {new},
                       active |-> u.active \cup {ent}], ok |-> TRUE]
      BY <3>3, <3>4, Zenon
    <3>6. IsActive(s, d, i) /\ HasDevice[d][i] /\ s.mem[d]
      BY <1>6
    <3> QED
      BY <2>3, <3>5, <3>6 DEF MapDone, new, ent, r, u, z
  <2> QED
    BY <2>2, <2>3
<1> QED
  BY <1>5, <1>6

\* MapBar keeps the agreement and brings the BAR in step: unless it is refused, and
\* then the BAR is not mapped at all.
LEMMA MapBarKeeps ==
    ASSUME NEW s, NEW moved, Agree(s, moved), NEW d \in Bdfs, NEW i \in BarIdx,
           s.mem[d] \/ BarIsMapped(s, d, i) = {}
    PROVE  /\ Agree(MapBar(s, d, i).st, moved \ {<<d, i>>})
           /\ MapBar(s, d, i).st.bar = s.bar /\ MapBar(s, d, i).st.mem = s.mem
           /\ ~MapBar(s, d, i).ok => BarIsMapped(MapBar(s, d, i).st, d, i) = {}
<1> DEFINE b == s.bar[d][i]
           z == Size(d, i)
           u == UnmapBar(s, d, i)
           r == MapBar(s, d, i)
           new == [base |-> b.base, size |-> z, owner |-> <<d, i>>]
           ent == [bdf |-> d, idx |-> i, base |-> b.base, size |-> z]
           skip == /\ r = [st |-> s, ok |-> TRUE]
                   /\ \/ ~IsActive(s, d, i) \/ ~HasDevice[d][i] \/ ~s.mem[d]
                      \/ \E a \in BarIsMapped(s, d, i) : a.base = b.base /\ a.size = z
           refused == r = [st |-> u, ok |-> FALSE]
           mapped == /\ r = [st |-> [bar |-> s.bar, mem |-> s.mem, bus |-> u.bus \cup {new},
                                     active |-> u.active \cup {ent}], ok |-> TRUE]
                     /\ IsActive(s, d, i) /\ HasDevice[d][i] /\ s.mem[d]
                     /\ \A o \in u.bus : ~Overlap(b.base, z, o.base, o.size)
<1>1. skip \/ refused \/ mapped
  <2>1. CASE MapSkipped(s, d, i)
    BY <2>1 DEF MapSkipped
  <2>2. CASE MapRefused(s, d, i)
    BY <2>2 DEF MapRefused
  <2>3. CASE MapDone(s, d, i)
    BY <2>3 DEF MapDone
  <2> QED
    BY <2>1, <2>2, <2>3, MapBarCases
<1>2. /\ u \in PciState /\ u.bar = s.bar /\ u.mem = s.mem
      /\ BarIsMapped(u, d, i) = {}
  BY UnmapBarAgree
<1>3. Agree(u, moved \ {<<d, i>>})
  BY UnmapBarKeeps
<1>4. b \in Register /\ z \in Nat
  BY PciAssumption DEF Agree, PciState, Size
<1> HIDE DEF u, r, b, z
<1>5. CASE skip
  <2>1. ASSUME NEW a \in s.active, a.bdf = d, a.idx = i PROVE Current(s, a)
    <3>1. a \in BarIsMapped(s, d, i)
      BY <2>1 DEF BarIsMapped
    <3>2. a.size \in Nat \ {0} /\ a.size = Size(d, i) /\ HasDevice[d][i] /\ b.programmed
      BY <2>1 DEF Agree, PciState, Entry, b
    <3>3. IsActive(s, d, i) /\ s.mem[d]
      BY <3>1, <3>2 DEF IsActive, b
    <3>4. PICK x \in BarIsMapped(s, d, i) : x.base = b.base
      BY <1>5, <3>2, <3>3
    <3>5. x = a
      BY <2>1, <3>4 DEF BarIsMapped, Agree
    <3> QED
      BY <2>1, <3>3, <3>4, <3>5 DEF Current, b
  <2>2. Agree(s, moved \ {<<d, i>>})
    BY <2>1 DEF Agree
  <2> QED
    BY <1>5, <2>2 DEF r
<1>6. CASE refused
  BY <1>2, <1>3, <1>6 DEF r
<1>7. CASE mapped
  <2>1. z \in Nat \ {0} /\ b.base \in Nat /\ b.programmed
    <3>1. z > 0 /\ b.programmed
      BY <1>7 DEF IsActive, b, z
    <3>2. b.base \in Nat
      BY <1>4 DEF Register
    <3> QED
      BY <1>4, <3>1, <3>2
  <2>2. ent \in Entry /\ new = Mapping(ent) /\ new.base = b.base /\ new.size = z
    BY <2>1 DEF Entry, Mapping
  <2>3. ent.bdf = d /\ ent.idx = i /\ ent.base = b.base /\ ent.size = z
    OBVIOUS
  <2> HIDE DEF ent, new
  <2> DEFINE v == r.st
  <2>4. v.bar = s.bar /\ v.mem = s.mem /\ v.bus = u.bus \cup {new} /\ v.active = u.active \cup {ent}
    BY <1>7
  <2>5. v \in PciState
    BY <1>2, <1>7, <2>2, <2>4 DEF PciState
  <2> HIDE DEF v
  <2>6. ASSUME NEW o \in u.bus
        PROVE  /\ ~Overlap(new.base, new.size, o.base, o.size)
               /\ ~Overlap(o.base, o.size, new.base, new.size)
    <3>1. o.base \in Nat /\ o.size \in Nat \ {0}
      BY <1>2, BusTypes
    <3> QED
      BY <1>7, <2>1, <2>2, <3>1 DEF Overlap
  <2>7. new \notin u.bus
    BY <2>1, <2>2, <2>6 DEF Overlap
  <2>8. FixedMaps \subseteq v.bus /\ new \notin FixedMaps
    BY <1>3, <2>4, <2>7 DEF Agree
  <2>9. \A m, n \in v.bus : m # n => ~Overlap(m.base, m.size, n.base, n.size)
    BY <1>3, <2>4, <2>6 DEF Agree
  <2>10. /\ \A a \in v.active : Mapping(a) \in v.bus \ FixedMaps
         /\ \A m \in v.bus \ FixedMaps : \E a \in v.active : m = Mapping(a)
    BY <1>3, <2>2, <2>4, <2>8 DEF Agree
  <2>11. \A a \in u.active : ~(a.bdf = d /\ a.idx = i)
    BY <1>2 DEF BarIsMapped
  <2>12. \A x, y \in v.active : x.bdf = y.bdf /\ x.idx = y.idx => x = y
    BY <1>3, <2>3, <2>4, <2>11 DEF Agree
  <2>13. Current(v, ent)
    BY <1>7, <2>3, <2>4 DEF Current, b
  <2>14. \A a \in v.active : <<a.bdf, a.idx>> \notin moved \ {<<d, i>>} => Current(v, a)
    <3> SUFFICES ASSUME NEW a \in v.active, <<a.bdf, a.idx>> \notin moved \ {<<d, i>>}, a # ent
                 PROVE  Current(v, a)
      BY <2>13
    <3>1. Current(u, a)
      BY <1>3, <2>4 DEF Agree
    <3> QED
      BY <1>2, <2>4, <3>1 DEF Current
  <2>15. \A a \in v.active : /\ a.size = Size(a.bdf, a.idx) /\ HasDevice[a.bdf][a.idx]
                              /\ v.bar[a.bdf][a.idx].programmed
    BY <1>2, <1>3, <1>7, <2>1, <2>3, <2>4 DEF Agree, b, z
  <2>16. Agree(v, moved \ {<<d, i>>})
    BY <2>5, <2>8, <2>9, <2>10, <2>12, <2>14, <2>15 DEF Agree
  <2>17. r.ok
    BY <1>7
  <2> QED
    BY <2>4, <2>16, <2>17 DEF v, r
<1> QED
  BY <1>1, <1>5, <1>6, <1>7

\* The state after a write to a BAR register.
SetBar(s, d, i, g) ==
    [bar |-> [s.bar EXCEPT ![d] = [s.bar[d] EXCEPT ![i] = g]], mem |-> s.mem, bus |-> s.bus,
     active |-> s.active]

\* The assignment to one register, part by part.
LEMMA SetBarIs ==
    ASSUME NEW s \in PciState, NEW d \in Bdfs, NEW i \in BarIdx, NEW g,
           NEW t, t = [s EXCEPT !.bar[d][i] = g]
    PROVE  t = SetBar(s, d, i, g)
<1>1. t = [bar |-> [s.bar EXCEPT ![d] = [s.bar[d] EXCEPT ![i] = g]], mem |-> s.mem,
           bus |-> s.bus, active |-> s.active]
  BY Zenon DEF PciState
<1> QED
  BY <1>1, Zenon DEF SetBar

\* It changes that register and nothing else.
LEMMA SetBarFields ==
    ASSUME NEW s \in PciState, NEW d \in Bdfs, NEW i \in BarIdx, NEW g \in Register,
           NEW t, t = SetBar(s, d, i, g)
    PROVE  /\ t \in PciState /\ t.mem = s.mem /\ t.bus = s.bus /\ t.active = s.active
           /\ t.bar[d][i] = g
           /\ \A e \in Bdfs, j \in BarIdx : e # d \/ j # i => t.bar[e][j] = s.bar[e][j]
<1> DEFINE w == [s.bar EXCEPT ![d] = [s.bar[d] EXCEPT ![i] = g]]
<1>1. /\ w \in [Bdfs -> [BarIdx -> Register]] /\ w[d][i] = g
      /\ \A e \in Bdfs, j \in BarIdx : e # d \/ j # i => w[e][j] = s.bar[e][j]
  BY DEF PciState
<1>2. t = [bar |-> w, mem |-> s.mem, bus |-> s.bus, active |-> s.active]
  BY DEF SetBar
<1> HIDE DEF w
<1>3. /\ s.mem \in [Bdfs -> BOOLEAN] /\ s.active \in SUBSET Entry
      /\ s.bus \in SUBSET (FixedMaps \cup {Mapping(a) : a \in Entry})
  BY DEF PciState
<1>4. t \in PciState
  <2>1. [bar |-> w, mem |-> s.mem, bus |-> s.bus, active |-> s.active] \in PciState
    BY <1>1, <1>3, StateRecord, Zenon
  <2> QED
    BY <1>2, <2>1
<1>5. t.bar = w /\ t.mem = s.mem /\ t.bus = s.bus /\ t.active = s.active
  BY <1>2
<1> QED
  BY <1>1, <1>4, <1>5

\* A register written behind the bridge's back is out of step at most for its own BAR.
LEMMA SetBarKeeps ==
    ASSUME NEW s, NEW moved, Agree(s, moved), NEW d \in Bdfs, NEW i \in BarIdx,
           NEW g \in Register, s.bar[d][i].programmed => g.programmed
    PROVE  /\ Agree(SetBar(s, d, i, g), moved \cup {<<d, i>>})
           /\ g.base = s.bar[d][i].base => Agree(SetBar(s, d, i, g), moved)
<1>0. PICK t : t = SetBar(s, d, i, g)
  OBVIOUS
<1>1. s \in PciState
  BY DEF Agree
<1>2. /\ t \in PciState /\ t.mem = s.mem /\ t.bus = s.bus /\ t.active = s.active
      /\ t.bar[d][i] = g
      /\ \A e \in Bdfs, j \in BarIdx : e # d \/ j # i => t.bar[e][j] = s.bar[e][j]
  BY <1>0, <1>1, SetBarFields
<1>3. \A a \in s.active : a.bdf \in Bdfs /\ a.idx \in BarIdx
  BY <1>1 DEF PciState, Entry
<1>4. \A a \in s.active : s.bar[a.bdf][a.idx].programmed => t.bar[a.bdf][a.idx].programmed
  BY <1>2, <1>3
<1>5. ASSUME NEW a \in s.active, Current(s, a), a.bdf # d \/ a.idx # i \/ g.base = s.bar[d][i].base
      PROVE  Current(t, a)
  <2>1. t.bar[a.bdf][a.idx].base = s.bar[a.bdf][a.idx].base
    BY <1>2, <1>3, <1>5
  <2> QED
    BY <1>2, <1>5, <2>1 DEF Current
<1>6. ASSUME NEW M, \A a \in s.active : <<a.bdf, a.idx>> \notin M => Current(t, a)
      PROVE  Agree(t, M)
  <2>1. \A a \in t.active : /\ a.size = Size(a.bdf, a.idx) /\ HasDevice[a.bdf][a.idx]
                             /\ t.bar[a.bdf][a.idx].programmed
    BY <1>2, <1>4 DEF Agree
  <2>0. t.bus = s.bus /\ t.active = s.active
    BY <1>2
  <2>2. /\ FixedMaps \subseteq t.bus
        /\ \A m, n \in t.bus : m # n => ~Overlap(m.base, m.size, n.base, n.size)
        /\ \A a \in t.active : Mapping(a) \in t.bus \ FixedMaps
        /\ \A m \in t.bus \ FixedMaps : \E a \in t.active : m = Mapping(a)
        /\ \A a, b \in t.active : a.bdf = b.bdf /\ a.idx = b.idx => a = b
    BY <2>0 DEF Agree
  <2>3. \A a \in t.active : <<a.bdf, a.idx>> \notin M => Current(t, a)
    BY <1>2, <1>6
  <2> QED
    BY <1>2, <2>1, <2>2, <2>3 DEF Agree
<1>7. \A a \in s.active : <<a.bdf, a.idx>> \notin moved => Current(s, a)
  BY DEF Agree
<1>8. Agree(t, moved \cup {<<d, i>>})
  <2>1. ASSUME NEW a \in s.active, <<a.bdf, a.idx>> \notin moved \cup {<<d, i>>}
        PROVE  Current(t, a)
    BY <1>5, <1>7, <2>1
  <2> QED
    BY <1>6, <2>1
<1>9. ASSUME g.base = s.bar[d][i].base PROVE Agree(t, moved)
  <2>1. \A a \in s.active : <<a.bdf, a.idx>> \notin moved => Current(t, a)
    BY <1>5, <1>7, <1>9
  <2> QED
    BY <1>6, <2>1
<1> QED
  BY <1>0, <1>8, <1>9

\* A BAR without a mapping cannot be out of step.
LEMMA UnmappedIsInStep ==
    ASSUME NEW s, NEW moved, NEW d \in Bdfs, NEW i \in BarIdx, Agree(s, moved \cup {<<d, i>>}),
           BarIsMapped(s, d, i) = {}
    PROVE  Agree(s, moved)
  BY DEF Agree, BarIsMapped

\* The two ways PciBar::ProgramAddress ends.
LEMMA ProgramAddressCases ==
    ASSUME NEW s \in PciState, NEW d \in Bdfs, NEW i \in BarIdx, NEW addr \in Nat,
           NEW g, g = [programmed |-> TRUE, probe |-> FALSE, base |-> addr]
    PROVE  \/ ProgramAddress(s, d, i, addr) = [st |-> s, ok |-> FALSE]
           \/ ProgramAddress(s, d, i, addr) = [st |-> SetBar(s, d, i, g), ok |-> TRUE]
<1> DEFINE p == ProgramAddress(s, d, i, addr)
<1>1. PICK x : x = [s EXCEPT !.bar[d][i] = g]
  BY Zenon
<1>2. p = [st |-> s, ok |-> FALSE] \/ p = [st |-> x, ok |-> TRUE]
  BY <1>1 DEF ProgramAddress
<1>3. x = SetBar(s, d, i, g)
  BY <1>1, SetBarIs, Zenon
<1> QED
  BY <1>2, <1>3

\* ProgramAddress leaves at most its own BAR out of step.
LEMMA ProgramAddressKeeps ==
    ASSUME NEW s, Agree(s, {}), NEW d \in Bdfs, NEW i \in BarIdx, NEW addr \in Nat,
           NEW p, p = ProgramAddress(s, d, i, addr)
    PROVE  Agree(p.st, {<<d, i>>})
<1>1. PICK g : g = [programmed |-> TRUE, probe |-> FALSE, base |-> addr]
  BY Zenon
<1>2. s \in PciState /\ g \in Register /\ g.programmed
  BY <1>1 DEF Register, Agree
<1>3. p.st = s \/ p.st = SetBar(s, d, i, g)
  <2>1. p = [st |-> s, ok |-> FALSE] \/ p = [st |-> SetBar(s, d, i, g), ok |-> TRUE]
    BY <1>1, <1>2, ProgramAddressCases
  <2> QED
    BY <2>1
<1>4. PICK t : t = SetBar(s, d, i, g)
  OBVIOUS
<1>5. Agree(t, {} \cup {<<d, i>>})
  BY <1>2, <1>4, SetBarKeeps
<1>6. {} \cup {<<d, i>>} = {<<d, i>>}
  OBVIOUS
<1>7. Agree(s, {<<d, i>>})
  BY DEF Agree
<1>8. Agree(t, {<<d, i>>})
  BY <1>5, <1>6
<1> QED
  BY <1>3, <1>4, <1>7, <1>8

\* Where it succeeds on a BAR without a mapping, nothing is out of step.
LEMMA SetBarUnmapped ==
    ASSUME NEW s, Agree(s, {}), NEW d \in Bdfs, NEW i \in BarIdx, NEW g \in Register,
           BarIsMapped(s, d, i) = {}, g.programmed, NEW t, t = SetBar(s, d, i, g)
    PROVE  /\ Agree(t, {}) /\ BarIsMapped(t, d, i) = {}
           /\ t.mem = s.mem /\ t.bus = s.bus /\ t.bar[d][i] = g
<1>1. s \in PciState
  BY DEF Agree
<1>2. t.mem = s.mem /\ t.bus = s.bus /\ t.active = s.active /\ t.bar[d][i] = g
  BY <1>1, SetBarFields
<1>3. Agree(t, {} \cup {<<d, i>>})
  BY SetBarKeeps
<1>4. BarIsMapped(t, d, i) = {}
  BY <1>2 DEF BarIsMapped
<1>5. Agree(t, {})
  BY <1>3, <1>4, UnmappedIsInStep
<1> QED
  BY <1>2, <1>4, <1>5

\* SyncDevice brings every BAR of the device in step.
LEMMA SyncDeviceKeeps ==
    ASSUME NEW s, NEW d \in Bdfs, Agree(s, {<<d, 0>>, <<d, 1>>})
    PROVE  Agree(SyncDevice(s, d), {})
<1> DEFINE both == {<<d, 0>>, <<d, 1>>}
<1>0. 0 \in BarIdx /\ 1 \in BarIdx /\ (both \ {<<d, 0>>}) \ {<<d, 1>>} = {}
  BY DEF BarIdx
<1> HIDE DEF both
<1>1. CASE s.mem[d]
  <2> DEFINE v == MapBar(s, d, 0).st
  <2>0. Agree(s, both)
    BY DEF both
  <2>1. Agree(v, both \ {<<d, 0>>}) /\ v.mem = s.mem
    <3>1. s.mem[d] \/ BarIsMapped(s, d, 0) = {}
      BY <1>1
    <3>2. Agree(MapBar(s, d, 0).st, both \ {<<d, 0>>})
      BY <1>0, <2>0, <3>1, MapBarKeeps, Zenon
    <3>3. MapBar(s, d, 0).st.mem = s.mem
      BY <1>0, <2>0, <3>1, MapBarKeeps, Zenon
    <3> QED
      BY <3>2, <3>3
  <2> HIDE DEF v
  <2>2. Agree(MapBar(v, d, 1).st, (both \ {<<d, 0>>}) \ {<<d, 1>>})
    BY <1>0, <1>1, <2>1, MapBarKeeps, Zenon
  <2>3. Agree(MapBar(v, d, 1).st, {})
    BY <1>0, <2>2
  <2> QED
    BY <1>1, <2>3 DEF SyncDevice, MapBars, v
<1>2. CASE ~s.mem[d]
  <2>1. Agree(UnmapBar(s, d, 0), both \ {<<d, 0>>})
    BY <1>0, UnmapBarKeeps DEF both
  <2>2. Agree(UnmapBar(UnmapBar(s, d, 0), d, 1), {})
    BY <1>0, <2>1, UnmapBarKeeps
  <2> QED
    BY <1>2, <2>2 DEF SyncDevice, UnmapBars
<1> QED
  BY <1>1, <1>2

\* The mappings UnmapBar leaves are those that are not the BAR's.
LEMMA OthersStay ==
    ASSUME NEW s, NEW moved, Agree(s, moved), NEW d \in Bdfs, NEW i \in BarIdx
    PROVE  UnmapBar(s, d, i).bus = {m \in s.bus : m.owner # <<d, i>>}
<1>1. s \in PciState /\ s.active \subseteq Entry
  BY DEF Agree, PciState
<1>2. UnmapBar(s, d, i).bus = {m \in s.bus : \A a \in BarIsMapped(s, d, i) : a.base # m.base}
  BY UnmapBarAgree
<1>3. \A a \in s.active : /\ Mapping(a) \in s.bus /\ Mapping(a).base = a.base
                          /\ Mapping(a).owner = <<a.bdf, a.idx>>
  BY DEF Agree, Mapping
<1>4. ASSUME NEW m \in s.bus, m.owner = <<d, i>> PROVE \E a \in BarIsMapped(s, d, i) : a.base = m.base
  <2>0. <<d, i>> \in Bar
    BY DEF Bar
  <2>1. m \notin FixedMaps
    BY <1>4, <2>0, PciAssumption, Zenon
  <2>2. PICK a \in s.active : m = Mapping(a)
    BY <2>1 DEF Agree
  <2> QED
    BY <1>3, <1>4, <2>2 DEF BarIsMapped
<1>5. ASSUME NEW m \in s.bus, NEW a \in BarIsMapped(s, d, i), a.base = m.base
      PROVE  m.owner = <<d, i>>
  <2>1. a \in s.active /\ a.bdf = d /\ a.idx = i
    BY DEF BarIsMapped
  <2>2. m = Mapping(a)
    BY <1>3, <1>5, <2>1, BaseIsKey
  <2> QED
    BY <1>3, <2>1, <2>2
<1> QED
  BY <1>2, <1>4, <1>5

\* The bus has room for a BAR of this device at the address.
HasRoom(s, d, i, addr) ==
    /\ ~(addr + Size(d, i) > Limit)
    /\ \A o \in s.bus : ~Overlap(addr, Size(d, i), o.base, o.size)

\* MapBar puts the BAR there and changes nothing else.
MapsAt(s, d, i, addr) ==
    /\ MapBar(s, d, i).ok /\ MapBar(s, d, i).st.bar = s.bar
    /\ MapBar(s, d, i).st.bus
         = s.bus \cup {[base |-> addr, size |-> Size(d, i), owner |-> <<d, i>>]}
    /\ Agree(MapBar(s, d, i).st, {})

\* An unmapped BAR at a free address is mapped there.
LEMMA MapBarAccepts ==
    ASSUME NEW s, Agree(s, {}), NEW d \in Bdfs, NEW i \in BarIdx, NEW addr \in Nat,
           s.bar[d][i].base = addr, IsActive(s, d, i), HasDevice[d][i], s.mem[d],
           BarIsMapped(s, d, i) = {}, HasRoom(s, d, i, addr)
    PROVE  MapsAt(s, d, i, addr)
<1> DEFINE r == MapBar(s, d, i)
           z == Size(d, i)
           b == s.bar[d][i]
           new == [base |-> b.base, size |-> z, owner |-> <<d, i>>]
           ent == [bdf |-> d, idx |-> i, base |-> b.base, size |-> z]
<1>1. UnmapBar(s, d, i) = s
  BY DEF UnmapBar
<1>2. \/ /\ r = [st |-> s, ok |-> TRUE]
         /\ \/ ~IsActive(s, d, i) \/ ~HasDevice[d][i] \/ ~s.mem[d]
            \/ \E a \in BarIsMapped(s, d, i) : a.base = b.base /\ a.size = z
      \/ b.base + z > Limit
      \/ \E o \in s.bus : Overlap(b.base, z, o.base, o.size)
      \/ r = [st |-> [bar |-> s.bar, mem |-> s.mem, bus |-> s.bus \cup {new},
                      active |-> s.active \cup {ent}], ok |-> TRUE]
  <2>1. CASE MapSkipped(s, d, i)
    BY <2>1 DEF MapSkipped
  <2>2. CASE MapRefused(s, d, i)
    BY <1>1, <2>2 DEF MapRefused
  <2>3. CASE MapDone(s, d, i)
    BY <1>1, <2>3 DEF MapDone
  <2> QED
    BY <2>1, <2>2, <2>3, MapBarCases
<1> HIDE DEF r, z, b, new, ent
<1>3. r = [st |-> [bar |-> s.bar, mem |-> s.mem, bus |-> s.bus \cup {new},
                   active |-> s.active \cup {ent}], ok |-> TRUE]
  BY <1>2 DEF HasRoom, z, b
<1>4. r.ok /\ r.st.bar = s.bar /\ r.st.bus = s.bus \cup {new}
  BY <1>3
<1>5. Agree(r.st, {} \ {<<d, i>>})
  BY MapBarKeeps, Zenon DEF r
<1>6. {} \ {<<d, i>>} = {}
  OBVIOUS
<1> QED
  BY <1>4, <1>5, <1>6 DEF MapsAt, r, new, z, b

\* What ProgramBar leaves behind when it succeeds: register and mapping at the new
\* address, the other mappings as they were.
Programmed(s, d, i, addr, r) ==
    /\ r.ok = TRUE /\ Agree(r.st, {})
    /\ r.st.bar[d][i] = [programmed |-> TRUE, probe |-> FALSE, base |-> addr]
    /\ LET others == {m \in s.bus : m.owner # <<d, i>>}
       IN  r.st.bus = IF s.mem[d] /\ HasDevice[d][i]
                      THEN others \cup {[base |-> addr, size |-> Size(d, i), owner |-> <<d, i>>]}
                      ELSE others

\* What ProgramBar refuses it refuses before it has changed anything, and what it
\* accepts the register and the bus accept as well: the two rollbacks are never taken.
LEMMA ProgramBarExact ==
    ASSUME NEW s, Agree(s, {}), NEW d \in Bdfs, NEW i \in BarIdx, NEW addr \in Nat,
           NEW r, r = ProgramBarResult(s, d, i, addr)
    PROVE  (r.st = s /\ r.ok = FALSE) \/ Programmed(s, d, i, addr, r)
<1> DEFINE z == Size(d, i)
           others == {m \in s.bus : m.owner # <<d, i>>}
           old == s.bar[d][i].base
           back == BarIsMapped(s, d, i) # {} /\ IsActive(s, d, i)
           u == UnmapBar(s, d, i)
           p == ProgramAddress(u, d, i, addr)
           m == MapBar(p.st, d, i)
           undo == ProgramAddress(m.st, d, i, old).st
           g == [programmed |-> TRUE, probe |-> FALSE, base |-> addr]
           bad == \/ z = 0 \/ addr + z > Limit \/ addr % z # 0
                  \/ HasCollision(s, d, i, addr, z)
           decodes == s.mem[d] /\ HasDevice[d][i]
<1>1. r = IF bad THEN [st |-> s, ok |-> FALSE]
          ELSE IF ~p.ok
               THEN [st |-> IF back THEN MapBar(ProgramAddress(u, d, i, old).st, d, i).st ELSE u,
                     ok |-> FALSE]
          ELSE IF s.mem[d] /\ HasDevice[d][i] /\ ~m.ok
               THEN [st |-> IF back THEN MapBar(undo, d, i).st ELSE undo, ok |-> FALSE]
          ELSE [st |-> IF s.mem[d] /\ HasDevice[d][i] THEN m.st ELSE p.st, ok |-> TRUE]
  BY DEF ProgramBarResult
<1> HIDE DEF undo, back, m
<1> SUFFICES ASSUME ~bad
             PROVE  /\ r.ok = TRUE /\ Agree(r.st, {}) /\ r.st.bar[d][i] = g
                    /\ r.st.bus = IF decodes
                                  THEN others \cup {[base |-> addr, size |-> z, owner |-> <<d, i>>]}
                                  ELSE others
  <2>1. CASE bad
    <3>1. r = [st |-> s, ok |-> FALSE]
      BY <1>1, <2>1
    <3> QED BY <3>1
  <2> QED BY <2>1, Zenon DEF Programmed
<1>2. Agree(u, {}) /\ u.bar = s.bar /\ u.mem = s.mem /\ BarIsMapped(u, d, i) = {} /\ u.bus = others
  <2>1. Agree(u, {} \ {<<d, i>>})
    BY UnmapBarKeeps
  <2>2. {} \ {<<d, i>>} = {}
    OBVIOUS
  <2>3. u.bar = s.bar /\ u.mem = s.mem /\ BarIsMapped(u, d, i) = {}
    BY UnmapBarAgree
  <2>4. u.bus = others
    BY OthersStay
  <2> HIDE DEF u
  <2> QED BY <2>1, <2>2, <2>3, <2>4
<1>3. u.bus = {x \in s.bus : \A a \in BarIsMapped(s, d, i) : a.base # x.base}
  BY UnmapBarAgree
<1>4. p.ok /\ p.st = SetBar(u, d, i, g)
  <2> HIDE DEF u
  <2>1. PICK x : x = [u EXCEPT !.bar[d][i] = g]
    BY Zenon
  <2>2. x = SetBar(u, d, i, g)
    <3> HIDE DEF g
    <3>1. u \in PciState
      BY <1>2 DEF Agree
    <3> QED BY <2>1, <3>1, SetBarIs
  <2>3. p = [st |-> x, ok |-> TRUE]
    BY <2>1 DEF ProgramAddress
  <2> QED BY <2>2, <2>3
<1>5. /\ p.st.bar[d][i] = g /\ p.st.mem = s.mem /\ p.st.bus = others
      /\ Agree(p.st, {}) /\ BarIsMapped(p.st, d, i) = {}
  <2>1. g \in Register /\ g.programmed
    BY DEF Register
  <2> HIDE DEF u, g, p
  <2> DEFINE x == p.st
  <2>2. x = SetBar(u, d, i, g)
    BY <1>4
  <2> HIDE DEF x
  <2>3. /\ Agree(x, {}) /\ BarIsMapped(x, d, i) = {}
        /\ x.mem = u.mem /\ x.bus = u.bus /\ x.bar[d][i] = g
    BY <1>2, <2>1, <2>2, SetBarUnmapped
  <2> QED BY <1>2, <2>3 DEF x
<1>6. CASE ~decodes
  <2> HIDE DEF p, bad
  <2>1. r = [st |-> p.st, ok |-> TRUE]
    BY <1>1, <1>4, <1>6, Zenon
  <2>2. r.ok = TRUE /\ r.st = p.st
    BY <2>1
  <2> HIDE DEF g, z
  <2> QED BY <2>2, <1>5, <1>6
<1>7. CASE decodes
  <2>1. z \in Nat \ {0} /\ ~(addr + z > Limit)
    BY PciAssumption DEF Size
  <2>2. \A o \in others : ~Overlap(addr, z, o.base, o.size)
    BY <1>2, <1>3 DEF HasCollision
  <2>3. IsActive(p.st, d, i) /\ p.st.bar[d][i].base = addr
    BY <1>5, <2>1 DEF IsActive
  <2> HIDE DEF p, g, bad
  <2>4. /\ m.ok /\ m.st.bar = p.st.bar /\ Agree(m.st, {})
        /\ m.st.bus = others \cup {[base |-> addr, size |-> z, owner |-> <<d, i>>]}
    <3> DEFINE w == p.st
    <3>1. /\ Agree(w, {}) /\ w.bar[d][i].base = addr /\ IsActive(w, d, i) /\ HasDevice[d][i]
          /\ w.mem[d] /\ BarIsMapped(w, d, i) = {}
      BY <1>5, <1>7, <2>1, <2>2, <2>3
    <3>2. HasRoom(w, d, i, addr)
      BY <1>5, <2>1, <2>2 DEF HasRoom
    <3> HIDE DEF w
    <3>3. MapsAt(w, d, i, addr)
      BY <3>1, <3>2, MapBarAccepts
    <3> QED
      BY <1>5, <3>3 DEF MapsAt, m, w
  <2> HIDE DEF z
  <2>5. r = [st |-> m.st, ok |-> TRUE]
    BY <1>1, <1>4, <1>7, <2>4
  <2>6. r.ok = TRUE /\ r.st = m.st
    BY <2>5
  <2> QED BY <2>4, <2>6, <1>5, <1>7
<1> QED BY <1>6, <1>7, Zenon

\* The sizing probe leaves address and mappings alone.
LEMMA ProbeKeeps ==
    ASSUME NEW s, Agree(s, {}), NEW d \in Bdfs, NEW i \in BarIdx,
           NEW t, t = [s EXCEPT !.bar[d][i].probe = TRUE]
    PROVE  Agree(t, {})
<1>1. s \in PciState /\ s.bar[d][i] \in Register
  BY DEF Agree, PciState
<1>2. PICK g : g = [s.bar[d][i] EXCEPT !.probe = TRUE]
  BY Zenon
<1>3. g \in Register /\ g.base = s.bar[d][i].base /\ (s.bar[d][i].programmed => g.programmed)
  BY <1>1, <1>2 DEF Register
<1>4. t = [bar |-> [s.bar EXCEPT ![d] = [s.bar[d] EXCEPT ![i] = g]], mem |-> s.mem,
           bus |-> s.bus, active |-> s.active]
  BY <1>1, <1>2 DEF PciState
<1>5. t = SetBar(s, d, i, g)
  BY <1>4 DEF SetBar
<1>6. g.base = s.bar[d][i].base => Agree(SetBar(s, d, i, g), {})
  BY <1>3, SetBarKeeps
<1> QED
  BY <1>3, <1>5, <1>6, Zenon

\* PciBar::Write, which knows nothing of the bus.
LEMMA WriteBarKeeps ==
    ASSUME NEW s, Agree(s, {}), NEW d \in Bdfs, NEW i \in BarIdx, NEW value \in Nat,
           NEW r, r = WriteBar(s, d, i, value)
    PROVE  /\ Agree(r.st, {<<d, i>>})
           /\ value = Limit => Agree(r.st, {})
           /\ r.ok = FALSE => Agree(r.st, {})
<1>1. Agree(s, {<<d, i>>})
  BY DEF Agree
<1>2. CASE Size(d, i) = 0
  BY <1>1, <1>2 DEF WriteBar
<1>3. CASE Size(d, i) # 0 /\ value = Limit
  <2>1. PICK t : t = [s EXCEPT !.bar[d][i].probe = TRUE]
    BY Zenon
  <2>2. r = [st |-> t, ok |-> TRUE]
    BY <1>3, <2>1 DEF WriteBar
  <2>3. Agree(t, {})
    BY <2>1, ProbeKeeps
  <2>4. Agree(t, {<<d, i>>})
    BY <2>3 DEF Agree
  <2> QED
    BY <2>2, <2>3, <2>4
<1>4. CASE Size(d, i) # 0 /\ value # Limit
  <2>1. r = ProgramAddress(s, d, i, value)
    BY <1>4 DEF WriteBar
  <2>2. Agree(r.st, {<<d, i>>})
    BY <2>1, ProgramAddressKeeps, Zenon
  <2>3. r.st = s \/ r.ok = TRUE
    <3>1. PICK g : g = [programmed |-> TRUE, probe |-> FALSE, base |-> value]
      OBVIOUS
    <3>2. s \in PciState
      BY DEF Agree
    <3>3. r = [st |-> s, ok |-> FALSE] \/ r = [st |-> SetBar(s, d, i, g), ok |-> TRUE]
      BY <2>1, <3>1, <3>2, ProgramAddressCases
    <3> QED BY <3>3
  <2> QED
    BY <1>4, <2>2, <2>3
<1> QED
  BY <1>2, <1>3, <1>4

\* A narrow write, with the synchronisation that follows it.
LEMMA NarrowKeeps ==
    ASSUME NEW s, Agree(s, {}), NEW d \in Bdfs, NEW i \in BarIdx, NEW high \in BOOLEAN,
           NEW v \in Nat, NEW r, r = WriteBarHalf(s, d, i, high, v)
    PROVE  Agree(IF r.ok THEN SyncDevice(r.st, d) ELSE r.st, {})
<1> DEFINE cur == ReadBar(s.bar[d][i], Size(d, i))
           value == IF high THEN v * Half + (cur % Half) ELSE (cur \div Half) * Half + v
<1>1. cur \in Nat /\ Half \in Nat \ {0}
  <2>1. /\ s.bar[d][i] \in Register /\ Size(d, i) \in Nat /\ Limit \in Int
        /\ Size(d, i) < Limit /\ Half \in Nat \ {0}
    BY PciAssumption DEF Agree, PciState, Size, Limit
  <2> QED BY <2>1 DEF ReadBar, Register
<1>2. r = WriteBar(s, d, i, value)
  BY DEF WriteBarHalf
<1> HIDE DEF cur
<1>3. value \in Nat
  BY <1>1
<1> HIDE DEF value
<1>4. Agree(r.st, {<<d, i>>}) /\ (r.ok = FALSE => Agree(r.st, {}))
  BY <1>2, <1>3, WriteBarKeeps, Zenon
<1>5. r.ok \in BOOLEAN
  BY <1>2 DEF WriteBar, ProgramAddress
<1>6. i = 0 \/ i = 1
  BY DEF BarIdx
<1>7. Agree(r.st, {<<d, 0>>, <<d, 1>>})
  BY <1>4, <1>6 DEF Agree
<1>8. Agree(SyncDevice(r.st, d), {})
  BY <1>7, SyncDeviceKeeps
<1> QED
  BY <1>4, <1>5, <1>8

\* A write that reaches the memory space bit.
LEMMA CommandKeeps ==
    ASSUME NEW s, Agree(s, {}), NEW d \in Bdfs, NEW enabled \in BOOLEAN,
           NEW t, t = [s EXCEPT !.mem[d] = enabled]
    PROVE  Agree(SyncDevice(t, d), {})
<1>1. s \in PciState
  BY DEF Agree
<1>2. PICK w : w = [s.mem EXCEPT ![d] = enabled]
  BY Zenon
<1>3. w \in [Bdfs -> BOOLEAN] /\ \A e \in Bdfs : e # d => w[e] = s.mem[e]
  BY <1>1, <1>2 DEF PciState
<1>4. t = [bar |-> s.bar, mem |-> w, bus |-> s.bus, active |-> s.active]
  BY <1>1, <1>2, Zenon DEF PciState
<1>5. t.bar = s.bar /\ t.mem = w /\ t.bus = s.bus /\ t.active = s.active
  BY <1>4
<1>6. t \in PciState
  <2>1. /\ s.bar \in [Bdfs -> [BarIdx -> Register]] /\ s.active \in SUBSET Entry
        /\ s.bus \in SUBSET (FixedMaps \cup {Mapping(a) : a \in Entry})
    BY <1>1 DEF PciState
  <2>2. [bar |-> s.bar, mem |-> w, bus |-> s.bus, active |-> s.active] \in PciState
    BY <1>3, <2>1, StateRecord, Zenon
  <2> QED BY <1>4, <2>2, Zenon
<1>7. ASSUME NEW a \in s.active, <<a.bdf, a.idx>> \notin {<<d, 0>>, <<d, 1>>} PROVE Current(t, a)
  <2>1. a.bdf \in Bdfs /\ a.idx \in {0, 1}
    BY <1>1 DEF PciState, Entry, BarIdx
  <2>2. a.bdf # d
    BY <1>7, <2>1
  <2>3. Current(s, a)
    BY DEF Agree
  <2> QED
    BY <1>3, <1>5, <2>1, <2>2, <2>3 DEF Current
<1>8. Agree(t, {<<d, 0>>, <<d, 1>>})
  BY <1>5, <1>6, <1>7 DEF Agree
<1> QED
  BY <1>8, SyncDeviceKeeps

\* ProgramBar keeps the agreement, whether it succeeds or not.
LEMMA ProgramBarKeeps ==
    ASSUME NEW s, Agree(s, {}), NEW d \in Bdfs, NEW i \in BarIdx, NEW addr \in Nat,
           NEW r, r = ProgramBarResult(s, d, i, addr)
    PROVE  Agree(r.st, {})
<1>1. r.st = s \/ Programmed(s, d, i, addr, r)
  BY ProgramBarExact, Zenon
<1> QED
  BY <1>1 DEF Programmed

-----------------------------------------------------------------------------
(* The specification.                                                       *)

\* The inductive invariant: between two accesses nothing is out of step.
Inv == Agree(Here, {})

\* Nothing is programmed or mapped at the start but the fixed mappings.
LEMMA InitAgrees == PciInit => Inv
<1> SUFFICES ASSUME PciInit PROVE Inv
  OBVIOUS
<1>1. /\ bar \in [Bdfs -> [BarIdx -> Register]] /\ memSpace \in [Bdfs -> BOOLEAN]
      /\ bus = FixedMaps /\ active = {}
  BY DEF PciInit, Register
<1>2. Here \in PciState
  BY <1>1, StateRecord, Zenon DEF Here
<1>3. Here.bus = FixedMaps /\ Here.active = {}
  BY <1>1 DEF Here
<1> QED
  BY <1>2, <1>3, PciAssumption DEF Inv, Agree

\* The primed state is the state an operation becomes.
LEMMA BecomeIs ==
    ASSUME NEW s, s \in PciState, Become(s)
    PROVE  Here' = s
  BY DEF Become, Here, PciState

\* Every configuration access keeps the agreement.
LEMMA StepAgrees == Inv /\ [PciNext]_pciVars => Inv'
<1> SUFFICES ASSUME Inv, [PciNext]_pciVars PROVE Inv'
  OBVIOUS
<1>0. ASSUME NEW s, Agree(s, {}), Become(s) PROVE Inv'
  <2>1. Here' = s
    BY <1>0, BecomeIs DEF Agree
  <2> QED
    BY <1>0, <2>1 DEF Inv, Agree
<1>1. ASSUME NEW d \in Bdfs, NEW i \in BarIdx, NEW a \in 0..(Limit - 1), ProgramBar(d, i, a)
      PROVE  Inv'
  <2> DEFINE r == ProgramBarResult(Here, d, i, a)
  <2>1. a \in Nat
    OBVIOUS
  <2>2. Agree(r.st, {})
    BY <2>1, ProgramBarKeeps DEF Inv
  <2> HIDE DEF r
  <2>3. Become(r.st)
    BY <1>1 DEF ProgramBar, r
  <2> QED
    BY <1>0, <2>2, <2>3
<1>2. ASSUME NEW d \in Bdfs, NEW i \in BarIdx, ProbeBar(d, i) PROVE Inv'
  <2> DEFINE r == WriteBar(Here, d, i, Limit)
  <2>1. Limit \in Nat
    BY PciAssumption DEF Limit
  <2>2. Agree(r.st, {})
    BY <2>1, WriteBarKeeps, Zenon DEF Inv
  <2>3. Become(r.st)
    BY <1>2 DEF ProbeBar
  <2> QED
    BY <1>0, <2>2, <2>3
<1>3. ASSUME NEW d \in Bdfs, NEW i \in BarIdx, NEW high \in BOOLEAN, NEW v \in 0..(Half - 1),
             NarrowWrite(d, i, high, v)
      PROVE  Inv'
  <2> DEFINE r == WriteBarHalf(Here, d, i, high, v)
             t == IF r.ok THEN SyncDevice(r.st, d) ELSE r.st
  <2>1. v \in Nat
    OBVIOUS
  <2>2. Agree(t, {})
    BY <2>1, NarrowKeeps DEF Inv
  <2>3. Become(t)
    BY <1>3 DEF NarrowWrite
  <2> HIDE DEF t
  <2> QED
    BY <1>0, <2>2, <2>3
<1>4. ASSUME NEW d \in Bdfs, NEW enabled \in BOOLEAN, SetMemorySpaceEnabled(d, enabled) PROVE Inv'
  <2>1. PICK t : t = [Here EXCEPT !.mem[d] = enabled]
    BY Zenon
  <2>2. Agree(SyncDevice(t, d), {})
    BY <2>1, CommandKeeps DEF Inv
  <2>3. Become(SyncDevice(t, d))
    BY <1>4, <2>1 DEF SetMemorySpaceEnabled
  <2> QED
    BY <1>0, <2>2, <2>3
<1>5. ASSUME NEW d \in Bdfs, SyncAll(d) PROVE Inv'
  <2>1. Agree(Here, {<<d, 0>>, <<d, 1>>})
    BY DEF Inv, Agree
  <2>2. Agree(SyncDevice(Here, d), {})
    BY <2>1, SyncDeviceKeeps
  <2> QED
    BY <1>0, <1>5, <2>2 DEF SyncAll
<1>6. ASSUME UNCHANGED pciVars PROVE Inv'
  <2>1. Here' = Here
    BY <1>6 DEF pciVars, Here
  <2> QED
    BY <2>1 DEF Inv, Agree
<1> QED
  BY <1>1, <1>2, <1>3, <1>4, <1>5, <1>6 DEF PciNext

\* Where nothing is out of step, an access reaches at most one device, and the BAR
\* it reaches is the one whose register covers it.
LEMMA AgreeRoutes == Inv => AccessReachesItsBar
<1> SUFFICES ASSUME Inv PROVE AccessReachesItsBar
  OBVIOUS
<1>1. /\ Here \in PciState /\ Here.bar = bar /\ Here.mem = memSpace /\ Here.bus = bus
      /\ Here.active = active
  BY DEF Inv, Agree, Here
<1>2. ASSUME NEW a \in 0..(Limit - 1) PROVE Cardinality(Route(a)) <= 1
  <2>1. ASSUME NEW m \in Route(a), NEW n \in Route(a) PROVE m = n
    <3>1. m \in bus /\ n \in bus /\ m.base <= a /\ a < m.base + m.size /\ n.base <= a
          /\ a < n.base + n.size
      BY DEF Route
    <3>2. m.base \in Nat /\ m.size \in Nat /\ n.base \in Nat /\ n.size \in Nat
      BY <1>1, <3>1, BusTypes
    <3>3. Overlap(m.base, m.size, n.base, n.size)
      BY <3>1, <3>2 DEF Overlap
    <3> QED
      BY <1>1, <3>1, <3>3 DEF Inv, Agree
  <2>2. CASE Route(a) = {}
    BY <2>2, FS_EmptySet
  <2>3. CASE Route(a) # {}
    <3>1. PICK m : Route(a) = {m}
      BY <2>1, <2>3
    <3> QED
      BY <3>1, FS_Singleton
  <2> QED
    BY <2>2, <2>3
<1>3. \A a \in active : a \in Entry /\ Mapping(a) \in bus \ FixedMaps /\ Current(Here, a)
                        /\ bar[a.bdf][a.idx].programmed
  BY <1>1 DEF Inv, Agree, PciState
<1>4. \A m \in bus \ FixedMaps : \E a \in active : m = Mapping(a)
  BY <1>1 DEF Inv, Agree
<1>5. \A a \in Entry : /\ Mapping(a).base = a.base /\ Mapping(a).size = a.size
                       /\ Mapping(a).owner[1] = a.bdf /\ Mapping(a).owner[2] = a.idx
  BY DEF Mapping
<1>6. ASSUME NEW m \in bus \ FixedMaps
      PROVE  /\ bar[m.owner[1]][m.owner[2]].programmed
             /\ bar[m.owner[1]][m.owner[2]].base = m.base /\ memSpace[m.owner[1]]
  <2>1. PICK a \in active : m = Mapping(a)
    BY <1>4
  <2>2. Here.bar = bar /\ Here.mem = memSpace
    BY DEF Here
  <2>3. bar[a.bdf][a.idx].base = a.base /\ memSpace[a.bdf]
    BY <1>3, <2>2 DEF Current
  <2> QED
    BY <1>3, <1>5, <2>1, <2>3
<1>7. FixedMaps \subseteq bus
  BY <1>1 DEF Inv, Agree
<1>8. {<<a.bdf, a.idx, a.base, a.size>> : a \in active}
        = {<<m.owner[1], m.owner[2], m.base, m.size>> : m \in bus \ FixedMaps}
  BY <1>3, <1>4, <1>5
<1> QED
  BY <1>2, <1>6, <1>7, <1>8 DEF AccessReachesItsBar

\* Where nothing is out of step, ProgramBar is all or nothing.
LEMMA AgreeIsAtomic == Inv => ProgramBarIsAtomic
<1> SUFFICES ASSUME Inv, NEW d \in Bdfs, NEW i \in BarIdx, NEW a \in 0..(Limit - 1)
             PROVE  LET r == ProgramBarResult(Here, d, i, a)
                        own(B) == {m \in B : m.owner = <<d, i>>}
                    IN  IF r.ok
                        THEN /\ r.st.bar[d][i] = [programmed |-> TRUE, probe |-> FALSE, base |-> a]
                             /\ {m.base : m \in own(r.st.bus)}
                                  = IF memSpace[d] /\ HasDevice[d][i] THEN {a} ELSE {}
                             /\ r.st.bus \ own(r.st.bus) = bus \ own(bus)
                        ELSE r.st = Here
  BY DEF ProgramBarIsAtomic
<1> DEFINE r == ProgramBarResult(Here, d, i, a)
<1>1. (r.st = Here /\ r.ok = FALSE) \/ Programmed(Here, d, i, a, r)
  <2>1. a \in Nat
    OBVIOUS
  <2> QED BY <2>1, ProgramBarExact, Zenon DEF Inv
<1> HIDE DEF r
<1>2. CASE r.st = Here /\ r.ok = FALSE
  BY <1>2 DEF r
<1>3. CASE Programmed(Here, d, i, a, r)
  <2> DEFINE others == {m \in bus : m.owner # <<d, i>>}
             new == [base |-> a, size |-> Size(d, i), owner |-> <<d, i>>]
             decodes == memSpace[d] /\ HasDevice[d][i]
             B == r.st.bus
  <2>1. /\ r.ok = TRUE
        /\ r.st.bar[d][i] = [programmed |-> TRUE, probe |-> FALSE, base |-> a]
    BY <1>3 DEF Programmed
  <2>2. B = IF decodes THEN others \cup {new} ELSE others
    BY <1>3 DEF Programmed, Here
  <2>3. new.owner = <<d, i>> /\ new.base = a
    OBVIOUS
  <2> HIDE DEF new, B
  <2>4. {n \in B : n.owner = <<d, i>>} = IF decodes THEN {new} ELSE {}
    BY <2>2, <2>3
  <2>5. {m.base : m \in {n \in B : n.owner = <<d, i>>}} = IF decodes THEN {a} ELSE {}
    BY <2>3, <2>4
  <2>6. B \ {n \in B : n.owner = <<d, i>>} = bus \ {n \in bus : n.owner = <<d, i>>}
    BY <2>2, <2>3
  <2> QED
    BY <2>1, <2>5, <2>6 DEF B, r
<1> QED
  BY <1>1, <1>2, <1>3

\* After every sequence of configuration writes, narrow ones included, no guest
\* address reaches two devices, every BAR on the bus answers where its register says
\* and only with memory space enabled, and active_mappings_ is what Bus has mapped.
THEOREM Routing == PciSpec => []AccessReachesItsBar
<1>1. PciInit => Inv
  BY InitAgrees
<1>2. Inv /\ [PciNext]_pciVars => Inv'
  BY StepAgrees
<1>3. Inv => AccessReachesItsBar
  BY AgreeRoutes
<1> QED
  BY <1>1, <1>2, <1>3, PTL DEF PciSpec

\* In every reachable state and for every address, ProgramBar either fails and leaves
\* register and mappings as they were, or moves the BAR and nothing else: its two
\* rollbacks are never needed.
THEOREM Programming == PciSpec => []ProgramBarIsAtomic
<1>1. PciInit => Inv
  BY InitAgrees
<1>2. Inv /\ [PciNext]_pciVars => Inv'
  BY StepAgrees
<1>3. Inv => ProgramBarIsAtomic
  BY AgreeIsAtomic
<1> QED
  BY <1>1, <1>2, <1>3, PTL DEF PciSpec
=============================================================================

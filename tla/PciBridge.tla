----------------------------- MODULE PciBridge -----------------------------
(***************************************************************************)
(* PCI configuration space and the MMIO bus: the base address registers     *)
(* (BARs) of the registered devices, the bridge that maps an enabled BAR on *)
(* the bus, and the bus mappings that route a guest access to a device.     *)
(*                                                                         *)
(* Addresses count units of the smallest BAR.  An address has a high and a  *)
(* low half of Half units each, the parts a narrow (byte or word) BAR write *)
(* replaces.  The registry is fixed: the program registers its devices in   *)
(* MachineSession's constructor and never unregisters one.                  *)
(***************************************************************************)
EXTENDS Integers, FiniteSets

CONSTANTS
    Bdfs,          \* the registered devices
    BarSize,       \* BarSize[d][i]: the size of BAR i of device d, 0 if none
    HasDevice,     \* HasDevice[d][i]: a bus device stands behind the BAR
    FixedMaps,     \* mappings made on the bus directly (the OHCI registers)
    Half           \* units of a narrow write; addresses are 0..Half*Half - 1

VARIABLES
    bar,           \* bar[d][i]: programmed, probe and base of a PciBar
    memSpace,      \* memSpace[d]: the memory space bit of the command register
    bus,           \* mappings_ of Bus
    active         \* active_mappings_ of PciBusBridge

pciVars == <<bar, memSpace, bus, active>>

Limit == Half * Half       \* the end of the 32-bit address space
BarIdx == 0..1
Bar == Bdfs \X BarIdx

Overlap(b1, s1, b2, s2) == b1 < b2 + s2 /\ b2 < b1 + s1

\* The devices mapped directly are mapped through Bus::MapDevice as well.
ASSUME PciAssumption ==
    /\ Half \in Nat \ {0}
    /\ BarSize \in [Bdfs -> [BarIdx -> Nat]]
    /\ \A d \in Bdfs, i \in BarIdx : BarSize[d][i] < Limit
    /\ HasDevice \in [Bdfs -> [BarIdx -> BOOLEAN]]
    /\ \A m \in FixedMaps : m.base \in Nat /\ m.size \in Nat \ {0} /\ m.owner \notin Bar
    /\ \A m, n \in FixedMaps : m # n => ~Overlap(m.base, m.size, n.base, n.size)

\* The part of the state the bridge threads through its operations.
Here == [bar |-> bar, mem |-> memSpace, bus |-> bus, active |-> active]

-----------------------------------------------------------------------------
(* Bus.                                                                     *)

\* Bus::MapDevice.
MapDevice(s, m) ==
    IF \/ m.size = 0
       \/ m.base + m.size > Limit
       \/ \E o \in s.bus : Overlap(m.base, m.size, o.base, o.size)
    THEN [st |-> s, ok |-> FALSE]
    ELSE [st |-> [s EXCEPT !.bus = @ \cup {m}], ok |-> TRUE]

\* Bus::UnmapDevice, by base address.
UnmapDevice(s, base) == [s EXCEPT !.bus = {m \in @ : m.base # base}]

\* Bus::Read and Bus::Write: the mapping that contains the access.
Route(a) == {m \in bus : m.base <= a /\ a < m.base + m.size}

-----------------------------------------------------------------------------
(* PciBar.                                                                  *)

Size(d, i) == BarSize[d][i]
IsActive(s, d, i) == Size(d, i) > 0 /\ s.bar[d][i].programmed

\* PciBar::Read without its flag bits: sizing answers with the size mask.
ReadBar(b, size) ==
    IF size = 0 THEN 0
    ELSE IF b.probe THEN Limit - size
    ELSE IF b.programmed THEN b.base ELSE 0

\* PciBar::ProgramAddress.
ProgramAddress(s, d, i, addr) ==
    IF Size(d, i) = 0 \/ addr + Size(d, i) > Limit \/ addr % Size(d, i) # 0
    THEN [st |-> s, ok |-> FALSE]
    ELSE [st |-> [s EXCEPT !.bar[d][i] =
                    [programmed |-> TRUE, probe |-> FALSE, base |-> addr]],
          ok |-> TRUE]

\* PciBar::Write; value Limit stands for all ones, the sizing probe.  Its
\* rollback restores what a failed ProgramAddress never changed.
WriteBar(s, d, i, value) ==
    IF Size(d, i) = 0 THEN [st |-> s, ok |-> TRUE]
    ELSE IF value = Limit THEN [st |-> [s EXCEPT !.bar[d][i].probe = TRUE], ok |-> TRUE]
    ELSE ProgramAddress(s, d, i, value)

\* PciConfigHeader::Write of one half of a BAR: the other half is the one a
\* read shows.
WriteBarHalf(s, d, i, high, v) ==
    LET cur == ReadBar(s.bar[d][i], Size(d, i))
    IN  WriteBar(s, d, i, IF high THEN v * Half + (cur % Half)
                          ELSE (cur \div Half) * Half + v)

-----------------------------------------------------------------------------
(* PciBusBridge.                                                            *)

BarIsMapped(s, d, i) == {m \in s.active : m.bdf = d /\ m.idx = i}

\* Mutant: only the BARs of the registry are compared, not the bus mappings.
HasCollisionRegistryOnly(s, d, i, base, size) ==
    \E o \in Bar \ {<<d, i>>} :
       IsActive(s, o[1], o[2])
         /\ Overlap(base, size, s.bar[o[1]][o[2]].base, Size(o[1], o[2]))

\* HasCollision: against every other active BAR, whether or not its device
\* has memory space enabled, and every bus mapping that is not this BAR's.
HasCollision(s, d, i, base, size) ==
    \/ \E o \in Bar \ {<<d, i>>} :
          IsActive(s, o[1], o[2])
            /\ Overlap(base, size, s.bar[o[1]][o[2]].base, Size(o[1], o[2]))
    \/ \E m \in s.bus : /\ \A a \in BarIsMapped(s, d, i) : a.base # m.base
                        /\ Overlap(base, size, m.base, m.size)

UnmapBar(s, d, i) ==
    IF BarIsMapped(s, d, i) = {} THEN s
    ELSE LET a == CHOOSE a \in BarIsMapped(s, d, i) : TRUE
         IN  [UnmapDevice(s, a.base) EXCEPT !.active = @ \ {a}]

\* MapBar: a BAR that moved is unmapped first.
MapBar(s, d, i) ==
    LET b    == s.bar[d][i]
        here == {a \in BarIsMapped(s, d, i) : a.base = b.base /\ a.size = Size(d, i)}
        r    == MapDevice(UnmapBar(s, d, i),
                          [base |-> b.base, size |-> Size(d, i), owner |-> <<d, i>>])
    IN  IF ~IsActive(s, d, i) \/ ~HasDevice[d][i] \/ ~s.mem[d] \/ here # {}
        THEN [st |-> s, ok |-> TRUE]
        ELSE IF ~r.ok THEN r
        ELSE [st |-> [r.st EXCEPT !.active = @ \cup
                        {[bdf |-> d, idx |-> i, base |-> b.base, size |-> Size(d, i)]}],
              ok |-> TRUE]

MapBars(s, d) == MapBar(MapBar(s, d, 0).st, d, 1).st
UnmapBars(s, d) == UnmapBar(UnmapBar(s, d, 0), d, 1)

SyncDevice(s, d) == IF s.mem[d] THEN MapBars(s, d) ELSE UnmapBars(s, d)

\* ProgramBar, with the two rollbacks of its later steps.
ProgramBarResult(s, d, i, addr) ==
    LET old  == s.bar[d][i].base
        was  == BarIsMapped(s, d, i) # {}
        back == was /\ IsActive(s, d, i)
        u    == UnmapBar(s, d, i)
        p    == ProgramAddress(u, d, i, addr)
        m    == MapBar(p.st, d, i)
        undo == ProgramAddress(m.st, d, i, old).st
    IN  IF \/ Size(d, i) = 0 \/ addr + Size(d, i) > Limit
           \/ addr % Size(d, i) # 0 \/ HasCollision(s, d, i, addr, Size(d, i))
        THEN [st |-> s, ok |-> FALSE]
        ELSE IF ~p.ok
             THEN [st |-> IF back THEN MapBar(ProgramAddress(u, d, i, old).st, d, i).st ELSE u,
                   ok |-> FALSE]
        ELSE IF s.mem[d] /\ HasDevice[d][i] /\ ~m.ok
             THEN [st |-> IF back THEN MapBar(undo, d, i).st ELSE undo, ok |-> FALSE]
        ELSE [st |-> IF s.mem[d] /\ HasDevice[d][i] THEN m.st ELSE p.st, ok |-> TRUE]

-----------------------------------------------------------------------------
(* The configuration accesses of WriteConfig.                               *)

Become(s) ==
    bar' = s.bar /\ memSpace' = s.mem /\ bus' = s.bus /\ active' = s.active

\* A dword write to a BAR programs it.
ProgramBar(d, i, addr) == Become(ProgramBarResult(Here, d, i, addr).st)

\* The sizing probe goes to the register only.
ProbeBar(d, i) == Become(WriteBar(Here, d, i, Limit).st)

\* A narrow write goes to the register unchecked, then the device is synced.
NarrowWrite(d, i, high, v) ==
    LET r == WriteBarHalf(Here, d, i, high, v)
    IN  Become(IF r.ok THEN SyncDevice(r.st, d) ELSE r.st)

\* A word write to the command register, or any other write that reaches its
\* memory space bit.
SetMemorySpaceEnabled(d, enabled) ==
    Become(SyncDevice([Here EXCEPT !.mem[d] = enabled], d))

\* One turn of SyncAll, which nothing calls: each device in its turn.
SyncAll(d) == Become(SyncDevice(Here, d))

\* Devices are registered with their BARs configured and not yet programmed.
PciInit ==
    /\ bar = [d \in Bdfs |-> [i \in BarIdx |->
                [programmed |-> FALSE, probe |-> FALSE, base |-> 0]]]
    /\ memSpace = [d \in Bdfs |-> FALSE]
    /\ bus = FixedMaps
    /\ active = {}

PciNext ==
    \/ \E d \in Bdfs, i \in BarIdx, a \in 0..(Limit - 1) : ProgramBar(d, i, a)
    \/ \E d \in Bdfs, i \in BarIdx : ProbeBar(d, i)
    \/ \E d \in Bdfs, i \in BarIdx, high \in BOOLEAN, v \in 0..(Half - 1) :
          NarrowWrite(d, i, high, v)
    \/ \E d \in Bdfs, enabled \in BOOLEAN : SetMemorySpaceEnabled(d, enabled)
    \/ \E d \in Bdfs : SyncAll(d)

PciSpec == PciInit /\ [][PciNext]_pciVars

-----------------------------------------------------------------------------
(* Properties.                                                              *)

\* No guest address ever reaches two devices, although narrow writes move a BAR
\* without the bridge's collision test (Bus::MapDevice, HasCollision).  A BAR answers
\* only where its register says, and only while its device has memory space enabled;
\* what the bridge believes is mapped is what the bus has mapped, so no sequence of
\* moves leaves a stale window behind.
AccessReachesItsBar ==
    /\ \A a \in 0..(Limit - 1) : Cardinality(Route(a)) <= 1
    /\ \A m \in bus \ FixedMaps :
          LET b == bar[m.owner[1]][m.owner[2]]
          IN  b.programmed /\ b.base = m.base /\ memSpace[m.owner[1]]
    /\ FixedMaps \subseteq bus
    /\ {<<a.bdf, a.idx, a.base, a.size>> : a \in active}
         = {<<m.owner[1], m.owner[2], m.base, m.size>> : m \in bus \ FixedMaps}

\* Programming a BAR is all or nothing, from every state and for every address:
\* an error leaves the register and the mappings as they were, and success
\* leaves an enabled BAR answering at the new address and nowhere else, with
\* every other mapping in place (ProgramBar and its rollbacks).
ProgramBarIsAtomic ==
    \A d \in Bdfs, i \in BarIdx, a \in 0..(Limit - 1) :
      LET r == ProgramBarResult(Here, d, i, a)
          own(B) == {m \in B : m.owner = <<d, i>>}
      IN  IF r.ok
          THEN /\ r.st.bar[d][i] = [programmed |-> TRUE, probe |-> FALSE, base |-> a]
               /\ {m.base : m \in own(r.st.bus)}
                    = IF memSpace[d] /\ HasDevice[d][i] THEN {a} ELSE {}
               /\ r.st.bus \ own(r.st.bus) = bus \ own(bus)
          ELSE r.st = Here
=============================================================================

-------------------------- MODULE VirtualMemoryHle --------------------------
(***************************************************************************)
(* VirtualMemoryManager of libs/kernel, behind NtAllocateVirtualMemory,    *)
(* NtFreeVirtualMemory, NtProtectVirtualMemory and NtQueryVirtualMemory.   *)
(* Addresses and sizes are in pages: Allocate, Free and Protect round the  *)
(* size up to pages, and a base that is not on a page is refused.          *)
(* regions_, a map from bases, is a set of regions here.  Calls that are   *)
(* refused change nothing and are not steps.                               *)
(***************************************************************************)
EXTENDS Naturals, FiniteSetsExt

CONSTANTS
    UserBase,   \* user_base_
    UserLimit,  \* user_limit_
    Granule,    \* kAllocationGranularity
    MaxSize,    \* bound on the size_bytes arguments
    Protects    \* the protect arguments considered

ASSUME VmAssumption ==
    /\ UserBase \in Nat \ {0} /\ UserLimit \in Nat /\ UserBase <= UserLimit
    /\ MaxSize \in Nat
    /\ Granule \in Nat \ {0} /\ "noaccess" \notin Protects

VARIABLES
    regions,    \* regions_
    nextAuto    \* next_auto_addr_

vmVars == <<regions, nextAuto>>

End(r) == r.base + r.size
AlignUp(n, a) == ((n + a - 1) \div a) * a

VmInit == regions = {} /\ nextAuto = UserBase

\* Mutant: a range that ends inside a region does not collide with it.
OverlapsInside(r, base, size) == r.base <= base /\ base < End(r)

\* The collision test of OverlapsExisting and of FindFreeRange.
Overlaps(r, base, size) == base < End(r) /\ base + size > r.base

OverlapsExisting(base, size) == \E r \in regions : Overlaps(r, base, size)

\* What FindFreeRange returns: the first free granule from next_auto_addr_ on.
IsFreeRange(c, size) ==
    /\ c % Granule = 0 /\ c + size <= UserLimit /\ ~OverlapsExisting(c, size)

IsFirstFree(c, size) ==
    /\ c >= nextAuto /\ IsFreeRange(c, size)
    /\ \A d \in nextAuto .. c - 1 : ~IsFreeRange(d, size)

\* Mutant: the search goes on one page behind the region it met.
FindFreeRangeUnaligned(size) ==
    LET search[c \in Nat] ==
            IF c + size > UserLimit THEN 0
            ELSE LET met == {r \in regions : Overlaps(r, c, size)}
                 IN  IF met = {} THEN c ELSE search[Min({End(r) : r \in met}) + 1]
    IN  search[AlignUp(nextAuto, Granule)]

\* The loop of FindFreeRange: the region with the lowest base that collides
\* moves the candidate behind it; 0 when the space is used up.
FindFreeRange(size) ==
    LET search[c \in Nat] ==
            IF c + size > UserLimit THEN 0
            ELSE LET met == {r \in regions : Overlaps(r, c, size)}
                 IN  IF met = {} THEN c
                     ELSE LET first == Min({r.base : r \in met})
                              r == CHOOSE x \in met : x.base = first
                          IN  search[AlignUp(End(r), Granule)]
    IN  search[AlignUp(nextAuto, Granule)]

State(type) == IF "commit" \in type THEN "commit" ELSE "reserve"

Add(base, size, type, protect) ==
    /\ regions' = regions \cup {[base |-> base, size |-> size, state |-> State(type),
                                 protect |-> protect, initial |-> protect]}
    /\ nextAuto' = IF base >= nextAuto THEN base + size ELSE nextAuto

\* Allocate without a base.
AllocateAuto(size, type, protect) ==
    \E c \in UserBase .. UserLimit : IsFirstFree(c, size) /\ Add(c, size, type, protect)

InLimits(base, size) == UserBase <= base /\ base + size <= UserLimit

\* Allocate at a base: MEM_RESERVE, or MEM_COMMIT where no region has that base.
AllocateAt(base, size, type, protect) ==
    /\ InLimits(base, size)
    /\ "reserve" \notin type => \A r \in regions : r.base # base
    /\ ~OverlapsExisting(base, size)
    /\ Add(base, size, type, protect)

\* Allocate with MEM_COMMIT only, at the base of a region: all of it is committed.
Commit(r, size, protect) ==
    /\ size <= r.size
    /\ regions' = (regions \ {r}) \cup {[r EXCEPT !.state = "commit", !.protect = protect]}
    /\ UNCHANGED nextAuto

\* Free with MEM_RELEASE, of size 0 or of the whole region.
Release(r) == regions' = regions \ {r} /\ UNCHANGED nextAuto

\* Free with MEM_DECOMMIT: all of the region is decommitted, whatever the size.
Decommit(r, size) ==
    /\ size <= r.size
    /\ regions' = (regions \ {r}) \cup {[r EXCEPT !.state = "reserve", !.protect = "noaccess"]}
    /\ UNCHANGED nextAuto

\* Protect; it does not look at the region's state.
Protect(r, size, protect) ==
    /\ size <= r.size
    /\ regions' = (regions \ {r}) \cup {[r EXCEPT !.protect = protect]}
    /\ UNCHANGED nextAuto

\* VirtualMemoryHle::Reset, called by KernelHle::Reset.
ResetVm == regions' = {} /\ nextAuto' = UserBase

Types == SUBSET {"reserve", "commit"} \ {{}}

VmNext ==
    \/ \E size \in 1 .. MaxSize, type \in Types, p \in Protects : AllocateAuto(size, type, p)
    \/ \E base \in 1 .. UserLimit, size \in 1 .. MaxSize, type \in Types, p \in Protects :
           AllocateAt(base, size, type, p)
    \/ \E r \in regions, size \in 1 .. MaxSize, p \in Protects : Commit(r, size, p)
    \/ \E r \in regions : Release(r)
    \/ \E r \in regions, size \in 0 .. MaxSize : Decommit(r, size)
    \/ \E r \in regions, size \in 0 .. MaxSize, p \in Protects : Protect(r, size, p)
    \/ ResetVm

VmSpec == VmInit /\ [][VmNext]_vmVars

\* Query of the page addr.
Query(addr) ==
    LET holder == {r \in regions : r.base <= addr /\ addr < End(r)}
    IN  IF holder = {} THEN [allocation |-> 0, size |-> 1, state |-> "free"]
        ELSE LET r == CHOOSE x \in holder : TRUE
             IN  [allocation |-> r.base, size |-> r.size - (addr - r.base), state |-> r.state]

-----------------------------------------------------------------------------
(* Properties. *)

Region == [base : Nat, size : Nat, state : {"reserve", "commit"},
           protect : Protects \cup {"noaccess"}, initial : Protects]

\* Every variable has its type.
VmTypeOK == regions \subseteq Region /\ nextAuto \in UserBase .. UserLimit

\* No page is in two regions and no region leaves the user range, whatever the
\* order of reservations, commits, releases and searches for a base.
RegionsDisjoint ==
    /\ \A r \in regions : r.size > 0 /\ UserBase <= r.base /\ End(r) <= UserLimit
    /\ \A r, s \in regions : r # s => End(r) <= s.base \/ End(s) <= r.base

\* The loop of FindFreeRange stops at the lowest granule from next_auto_addr_ on
\* that is free, and at 0 only when there is none.
SearchFindsFirst ==
    \A size \in 1 .. MaxSize :
        LET c == FindFreeRange(size)
        IN  IF c = 0 THEN \A d \in nextAuto .. UserLimit : ~IsFreeRange(d, size)
            ELSE IsFirstFree(c, size)

\* A title that walks its memory with NtQueryVirtualMemory, adding region_size to
\* the address each time, meets every region: the pages a Query covers all
\* belong to one allocation and are in one state.
QueryIsUniform ==
    \A a \in UserBase .. UserLimit - 1 :
        \A b \in a .. a + Query(a).size - 1 :
            /\ Query(b).allocation = Query(a).allocation /\ Query(b).state = Query(a).state
            /\ a + Query(a).size = b + Query(b).size

\* "Espaço virtual esgotado" is reported only when no granule is free.  Violated:
\* next_auto_addr_ never goes back, so released ranges are never found again.
ExhaustedMeansFull ==
    \A size \in 1 .. MaxSize :
        FindFreeRange(size) = 0 => \A c \in UserBase .. UserLimit : ~IsFreeRange(c, size)

=============================================================================

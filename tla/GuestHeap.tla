------------------------------ MODULE GuestHeap ------------------------------
(***************************************************************************)
(* GuestHeap of libs/kernel: a first-fit allocator over one range of guest *)
(* addresses.  free_blocks_ is a vector sorted by address and              *)
(* active_allocations_ a map from addresses to sizes; both are sets of     *)
(* blocks here, and "the first" block is the one with the lowest address.  *)
(* Calls that are rejected change nothing and are not steps.               *)
(***************************************************************************)
EXTENDS Naturals, FiniteSets

CONSTANTS
    Base,       \* base_addr_
    Total,      \* total_size_
    Align,      \* alignment_
    MaxRequest, \* bound on the size_bytes arguments
    Alignments  \* the alignment arguments of AllocateAligned considered

ASSUME HeapAssumption ==
    /\ Base \in Nat /\ Total \in Nat /\ MaxRequest \in Nat
    /\ Align \in Nat \ {0} /\ Alignments \subseteq Nat \ {0}

VARIABLES
    free,       \* free_blocks_
    active,     \* active_allocations_
    allocated   \* allocated_bytes_

heapVars == <<free, active, allocated>>

Block(addr, size) == [addr |-> addr, size |-> size]
BlockEnd(b) == b.addr + b.size
AlignSize(n, a) == ((n + a - 1) \div a) * a

HeapInit ==
    /\ free = IF Total > 0 THEN {Block(Base, Total)} ELSE {}
    /\ active = {} /\ allocated = 0

Grant(b) == active' = active \cup {b} /\ allocated' = allocated + b.size

IsFirst(b, blocks) == b \in blocks /\ \A c \in blocks : b.addr <= c.addr

\* Mutant: the rest of a split block starts one unit early.
AllocateInside(size) ==
    \E b \in free :
        LET need == AlignSize(size, Align)
            rest == b.size - need
        IN  /\ IsFirst(b, {c \in free : c.size >= need})
            /\ free' = (free \ {b}) \cup IF rest >= Align THEN {Block(b.addr + need - 1, rest)} ELSE {}
            /\ Grant(Block(b.addr, IF rest >= Align THEN need ELSE b.size))

Allocate(size) ==
    \E b \in free :
        LET need == AlignSize(size, Align)
            rest == b.size - need
        IN  /\ IsFirst(b, {c \in free : c.size >= need})
            /\ free' = (free \ {b}) \cup IF rest >= Align THEN {Block(b.addr + need, rest)} ELSE {}
            /\ Grant(Block(b.addr, IF rest >= Align THEN need ELSE b.size))

\* Mutant: the suffix behind an aligned block is dropped.
AllocateAlignedNoSuffix(size, alignment) ==
    LET a == IF alignment > Align THEN alignment ELSE Align
        need == AlignSize(size, a)
        candidate(b) == AlignSize(b.addr, a)
        padding(b) == candidate(b) - b.addr
    IN  \E b \in free :
            /\ IsFirst(b, {c \in free : c.size >= padding(c) + need})
            /\ free' = (free \ {b}) \cup IF padding(b) > 0 THEN {Block(b.addr, padding(b))} ELSE {}
            /\ Grant(Block(candidate(b), need))

\* AllocateAligned.  With padding in front, a rest below alignment_ is in no
\* block afterwards.
AllocateAligned(size, alignment) ==
    LET a == IF alignment > Align THEN alignment ELSE Align
        need == AlignSize(size, a)
        candidate(b) == AlignSize(b.addr, a)
        padding(b) == candidate(b) - b.addr
    IN  \E b \in free :
            LET rest == b.size - (padding(b) + need)
                suffix == IF rest >= Align THEN {Block(candidate(b) + need, rest)} ELSE {}
            IN  /\ IsFirst(b, {c \in free : c.size >= padding(c) + need})
                /\ IF padding(b) > 0
                   THEN /\ free' = (free \ {b}) \cup {Block(b.addr, padding(b))} \cup suffix
                        /\ Grant(Block(candidate(b), need))
                   ELSE /\ free' = (free \ {b}) \cup suffix
                        /\ Grant(Block(b.addr, IF rest >= Align THEN need ELSE b.size))

\* Coalesce: every maximal run of adjacent blocks becomes one block.
Coalesce(blocks) ==
    LET firsts == {b \in blocks : \A c \in blocks : BlockEnd(c) # b.addr}
        lasts == {b \in blocks : \A c \in blocks : BlockEnd(b) # c.addr}
        lastOf(b) == CHOOSE l \in lasts : IsFirst(l, {c \in lasts : c.addr >= b.addr})
    IN  {Block(b.addr, BlockEnd(lastOf(b)) - b.addr) : b \in firsts}

\* Free of the allocation b.
Free(b) ==
    /\ b \in active
    /\ active' = active \ {b} /\ allocated' = allocated - b.size
    /\ free' = Coalesce(free \cup {b})

\* ReAllocate of the allocation b: the new block is taken while b is allocated,
\* then b is freed; a new size of zero only frees.
ReAllocate(b, size) ==
    \E f \in free :
        LET need == AlignSize(size, Align)
            rest == f.size - need
            new == Block(f.addr, IF rest >= Align THEN need ELSE f.size)
        IN  /\ b \in active
            /\ IsFirst(f, {c \in free : c.size >= need})
            /\ active' = (active \cup {new}) \ {b}
            /\ allocated' = allocated + new.size - b.size
            /\ free' = Coalesce((free \ {f}) \cup {b} \cup
                            IF rest >= Align THEN {Block(f.addr + need, rest)} ELSE {})

HeapNext ==
    \/ \E size \in 1 .. MaxRequest : Allocate(size)
    \/ \E size \in 1 .. MaxRequest, a \in Alignments : AllocateAligned(size, a)
    \/ \E b \in active : Free(b)
    \/ \E b \in active, size \in 1 .. MaxRequest : ReAllocate(b, size)

HeapSpec == HeapInit /\ [][HeapNext]_heapVars

-----------------------------------------------------------------------------
(* Properties. *)

Blocks == free \cup active
Disjoint(b, c) == BlockEnd(b) <= c.addr \/ BlockEnd(c) <= b.addr

\* Every variable has its type.
HeapTypeOK ==
    /\ free \subseteq [addr : Nat, size : Nat] /\ active \subseteq [addr : Nat, size : Nat]
    /\ allocated \in 0 .. Total

\* No two blocks share an address, free or allocated, and all lie in the heap:
\* whatever the allocations, splits, frees and merges, memory is handed out once.
BlocksDisjoint ==
    /\ \A b \in Blocks : b.size > 0 /\ Base <= b.addr /\ BlockEnd(b) <= Base + Total
    /\ \A b, c \in Blocks : b # c => Disjoint(b, c)
    /\ free \cap active = {}

\* Two free blocks are never adjacent: a range that is free is one block, so a
\* request that fits is not refused because of the order of earlier frees.
Coalesced == \A b, c \in free : BlockEnd(b) # c.addr

Covered(blocks) == UNION {b.addr .. BlockEnd(b) - 1 : b \in blocks}

\* allocated_bytes_ counts exactly the allocated addresses, and nothing leaks:
\* every address of the heap is in a block.
NothingLeaks ==
    /\ allocated = Cardinality(Covered(active))
    /\ Covered(Blocks) = Base .. Base + Total - 1

=============================================================================

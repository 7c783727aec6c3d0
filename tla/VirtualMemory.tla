---------------------------- MODULE VirtualMemory ----------------------------
(***************************************************************************)
(* VirtualMemory of libs/memory: two-level IA-32 translation with a TLB    *)
(* over the physical AddressSpace.  Addresses are page numbers; a byte of  *)
(* a page stands for all of them, and an access across a page boundary     *)
(* touches two pages.  A page directory holds one entry per directory      *)
(* index, and all directories that point to tables point to the one table  *)
(* of their root, so that an entry's frame matters in page tables only.    *)
(* The tables lie in mapped memory: the walk's reads succeed.              *)
(***************************************************************************)
EXTENDS Naturals, FiniteSets

CONSTANTS
    Roots,      \* the page directories CR3 may point to
    Dirs,       \* directory indices
    Slots,      \* table indices; a page is a pair <<d, t>>
    Frames,     \* physical page numbers
    Mapped,     \* the frames that AddressSpace maps as writable RAM
    Flags       \* the flags of an entry considered

ASSUME PagingAssumption ==
    /\ Mapped \subseteq Frames
    /\ Flags \subseteq SUBSET {"present", "writable", "user"} /\ {} \in Flags

Pages == Dirs \X Slots

\* The entries of a table; those that are not present differ in nothing.
Absent == [flags |-> {}, frame |-> 0]
Pte == {Absent} \cup [flags : Flags \ {{}}, frame : Frames]

VARIABLES
    pde,        \* the entries of each directory, in physical memory
    pte,        \* the entries of each root's table, in physical memory
    cr3, paging, writeProtect, cpl,
    tlb,        \* tlb_: a function on the cached pages
    ram,        \* the contents of the mapped frames that are not page tables
    outcome,    \* how the last access ended
    changed     \* history: pages whose entries changed since they were invalidated

vars == <<pde, pte, cr3, paging, writeProtect, cpl, tlb, ram, outcome, changed>>

Entry == [frame : Frames, user : BOOLEAN, writable : BOOLEAN]
Accesses == {"read", "write", "execute"}
NoFault == [kind |-> "none", code |-> {}]

Init ==
    /\ pde = [r \in Roots |-> [d \in Dirs |-> {}]]
    /\ pte = [r \in Roots |-> [p \in Pages |-> Absent]]
    /\ cr3 \in Roots /\ paging = FALSE /\ writeProtect = FALSE /\ cpl = 0
    /\ tlb = <<>> /\ ram = [f \in Mapped |-> 0]
    /\ outcome = "none" /\ changed = {}

-----------------------------------------------------------------------------
(* Translate. *)

\* The page fault error code of an access: present, write, user, instruction.
Code(present, access) ==
    (IF present THEN {"P"} ELSE {}) \cup (IF access = "write" THEN {"W"} ELSE {})
        \cup (IF cpl = 3 THEN {"U"} ELSE {}) \cup (IF access = "execute" THEN {"I"} ELSE {})

Fault(code) == [kind |-> "fault", code |-> code]

\* The privilege and write checks on a present translation, the same lines for a
\* hit and after a walk.
Check(entry, access) ==
    IF \/ cpl = 3 /\ (~entry.user \/ (access = "write" /\ ~entry.writable))
       \/ cpl # 3 /\ access = "write" /\ writeProtect /\ ~entry.writable
    THEN Fault(Code(TRUE, access)) ELSE NoFault

Present(p) == "present" \in pde[cr3][p[1]] /\ "present" \in pte[cr3][p].flags

\* What the walk reads: permissions combine those of both levels.
Walk(p) ==
    LET both == pde[cr3][p[1]] \cap pte[cr3][p].flags
    IN  [frame |-> pte[cr3][p].frame, user |-> "user" \in both, writable |-> "writable" \in both]

WalkOutcome(p, access) ==
    IF ~Present(p) THEN Fault(Code(FALSE, access)) ELSE Check(Walk(p), access)

\* Mutant: CR0.WP is not consulted when a supervisor's write hits.
HitOutcomeNoWp(p, access) ==
    IF cpl = 3 THEN Check(tlb[p], access) ELSE NoFault

HitOutcome(p, access) == Check(tlb[p], access)

\* The outcome of Translate, and the TLB it leaves: a walk that passes is cached.
Outcome(p, access) ==
    IF ~paging THEN NoFault
    ELSE IF p \in DOMAIN tlb THEN HitOutcome(p, access) ELSE WalkOutcome(p, access)

Fill(ps) ==
    IF ~paging THEN tlb
    ELSE [p \in DOMAIN tlb \cup ps |-> IF p \in DOMAIN tlb THEN tlb[p] ELSE Walk(p)]

-----------------------------------------------------------------------------
(* Operations. *)

\* Read8, Fetch8 and the bytes of ReadBytes and FetchBytes.
Access(p, access) ==
    /\ access # "write"
    /\ LET o == Outcome(p, access)
       IN  outcome' = o.kind /\ tlb' = IF o = NoFault THEN Fill({p}) ELSE tlb
    /\ UNCHANGED <<pde, pte, cr3, paging, writeProtect, cpl, ram, changed>>

\* The frame a translated page has; with paging off the pages are not used here.
FrameOf(p, cache) == cache[p].frame

\* Mutant: the first page is written before the second is translated.
WriteEager(p, q, v) ==
    /\ paging
    /\ LET o1 == Outcome(p, "write")
           o2 == Outcome(q, "write")
           cache == Fill((IF o1 = NoFault THEN {p} ELSE {}) \cup
                         (IF o1 = NoFault /\ o2 = NoFault THEN {q} ELSE {}))
       IN  /\ tlb' = cache
           /\ outcome' = IF o1 # NoFault THEN o1.kind ELSE o2.kind
           /\ ram' = [x \in Mapped |->
                        IF o1 = NoFault /\ x = FrameOf(p, cache) THEN v ELSE ram[x]]
    /\ UNCHANGED <<pde, pte, cr3, paging, writeProtect, cpl, changed>>

\* Write16, Write32 and WriteBytes over the pages p and q (p = q inside a page):
\* all translations first, then the physical writes one after the other.
Write(p, q, v) ==
    /\ paging
    /\ LET o1 == Outcome(p, "write")
           o2 == IF o1 = NoFault THEN Outcome(q, "write") ELSE o1
           cache == Fill((IF o1 = NoFault THEN {p} ELSE {}) \cup
                         (IF o2 = NoFault THEN {q} ELSE {}))
       IN  /\ tlb' = cache
           /\ IF o2 # NoFault THEN outcome' = o2.kind /\ UNCHANGED ram
              ELSE LET f == FrameOf(p, cache)
                       g == FrameOf(q, cache)
                   IN  /\ outcome' = IF f \in Mapped /\ g \in Mapped THEN "none"
                                     ELSE "physical"
                       /\ ram' = [x \in Mapped |->
                                    IF x = f \/ (x = g /\ f \in Mapped) THEN v ELSE ram[x]]
    /\ UNCHANGED <<pde, pte, cr3, paging, writeProtect, cpl, changed>>

Flush == tlb' = <<>> /\ changed' = {}

\* Mutant: CR3 is reloaded without a flush.
SetCr3NoFlush(r) ==
    /\ cr3' = r /\ tlb' = tlb /\ changed' = {}
    /\ outcome' = "none" /\ UNCHANGED <<pde, pte, paging, writeProtect, cpl, ram>>

SetCr3(r) ==
    /\ cr3' = r /\ Flush
    /\ outcome' = "none" /\ UNCHANGED <<pde, pte, paging, writeProtect, cpl, ram>>

SetCr0(pg, wp) ==
    /\ paging' = pg /\ writeProtect' = wp
    /\ IF pg # paging THEN Flush ELSE UNCHANGED <<tlb, changed>>
    /\ outcome' = "none" /\ UNCHANGED <<pde, pte, cr3, cpl, ram>>

SetCpl(l) ==
    /\ cpl' = l
    /\ outcome' = "none" /\ UNCHANGED <<pde, pte, cr3, paging, writeProtect, tlb, ram, changed>>

\* InvalidateTranslation of one page.
InvalidateTranslation(p) ==
    /\ tlb' = [q \in DOMAIN tlb \ {p} |-> tlb[q]] /\ changed' = changed \ {p}
    /\ outcome' = "none" /\ UNCHANGED <<pde, pte, cr3, paging, writeProtect, cpl, ram>>

InvalidateAll ==
    /\ Flush
    /\ outcome' = "none" /\ UNCHANGED <<pde, pte, cr3, paging, writeProtect, cpl, ram>>

\* The guest writes an entry of a directory or of a table.
SetPde(r, d, flags) ==
    /\ pde' = [pde EXCEPT ![r][d] = flags]
    /\ changed' = IF r = cr3 THEN changed \cup {p \in Pages : p[1] = d} ELSE changed
    /\ outcome' = "none" /\ UNCHANGED <<pte, cr3, paging, writeProtect, cpl, tlb, ram>>

SetPte(r, p, entry) ==
    /\ pte' = [pte EXCEPT ![r][p] = entry]
    /\ changed' = IF r = cr3 THEN changed \cup {p} ELSE changed
    /\ outcome' = "none" /\ UNCHANGED <<pde, cr3, paging, writeProtect, cpl, tlb, ram>>

Next ==
    \/ \E p \in Pages, a \in Accesses : Access(p, a)
    \/ \E p, q \in Pages, v \in {1} : Write(p, q, v)
    \/ \E r \in Roots : SetCr3(r)
    \/ \E pg, wp \in BOOLEAN : SetCr0(pg, wp)
    \/ \E l \in {0, 3} : SetCpl(l)
    \/ \E p \in Pages : InvalidateTranslation(p)
    \/ InvalidateAll
    \/ \E r \in Roots, d \in Dirs, f \in Flags : SetPde(r, d, f)
    \/ \E r \in Roots, p \in Pages, e \in Pte : SetPte(r, p, e)

Spec == Init /\ [][Next]_vars

-----------------------------------------------------------------------------
(* Properties. *)

\* Every variable has its type.
TypeOK ==
    /\ pde \in [Roots -> [Dirs -> Flags]] /\ pte \in [Roots -> [Pages -> Pte]]
    /\ cr3 \in Roots /\ paging \in BOOLEAN /\ writeProtect \in BOOLEAN /\ cpl \in {0, 3}
    /\ DOMAIN tlb \subseteq Pages /\ \A p \in DOMAIN tlb : tlb[p] \in Entry
    /\ ram \in [Mapped -> {0, 1}]
    /\ outcome \in {"none", "fault", "physical"} /\ changed \subseteq Pages

\* A cached translation is what the tables say now, unless the guest changed the
\* entry and has not invalidated the page since: a change is seen after explicit
\* invalidation, a CR3 load or a switch of paging, as IA-32 promises.
TlbIsCurrent ==
    \A p \in DOMAIN tlb : p \notin changed => Present(p) /\ tlb[p] = Walk(p)

\* An access that hits the TLB faults exactly when the walk would, with the same
\* error code, though CPL and CR0.WP may have changed since the entry was cached.
HitAgreesWithWalk ==
    \A p \in DOMAIN tlb, a \in Accesses :
        p \notin changed => HitOutcome(p, a) = WalkOutcome(p, a)

\* A write that ends in a page fault leaves memory as it was, though its first page
\* may be writable and only its second page faults.
FaultLeavesMemory == [][outcome' = "fault" => ram' = ram]_vars

\* A write that fails leaves memory as it was.  Violated: WriteBytes, Write16 and
\* Write32 translate all pages first, but a physical write may still fail after
\* earlier ones were done, and they are not undone.
FailureLeavesMemory == [][outcome' # "none" => ram' = ram]_vars

=============================================================================

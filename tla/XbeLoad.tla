------------------------------ MODULE XbeLoad ------------------------------
(***************************************************************************)
(* Booting a title: the physical address space, the XBE loader's plan and   *)
(* its transactional application, and the preparation of a session from an  *)
(* executable or a disc image.                                              *)
(*                                                                         *)
(* An image is a record of the header fields and sections the loader looks  *)
(* at.  Memory is a sequence of cells that hold tokens: <<"head", 0, k>>,   *)
(* <<"section", i, k>>, <<"thunk", ordinal, k>>, <<"zero", 0, 0>> and what  *)
(* was there before.  Any read of the source may fail.  The loader runs     *)
(* under the session mutex; its steps are kept apart to let each one fail.  *)
(***************************************************************************)
EXTENDS Integers, Sequences, FiniteSets

CONSTANTS
    SpaceEnd,      \* the end of the guest address space (2^32)
    RamSize,       \* cells of physical RAM
    ThunkSize,     \* bytes of a trampoline (8)
    HeaderMin,     \* the least size of the headers (0x14C)
    SectionHeader, \* the size of a section header (56)
    Ordinals,      \* the imports of kAllowlist
    Media,         \* the media offered to the session
    ExtraRegions,  \* the regions that may be mapped before the boot
    MaxPrepares    \* bound: calls of PrepareMedia

VARIABLES
    space,         \* regions_ of AddressSpace
    memory,        \* the contents of RAM
    load,          \* XbeLoader::Apply in progress
    boot,          \* state, entry point and mounted volume of the session
    prepares       \* calls of PrepareMedia so far

bootVars == <<space, memory, load, boot, prepares>>

Span(base, size) == base..(base + size - 1)

\* The sequences of q, one after the other.
Flatten(q) == LET upto[i \in 0..Len(q)] == IF i = 0 THEN <<>> ELSE upto[i - 1] \o q[i]
              IN  upto[Len(q)]

\* A sequence, whatever its elements are.
IsSequence(s) == Len(s) \in Nat /\ DOMAIN s = 1..Len(s)

\* The fields of a parsed image are unsigned numbers.
IsImage(img) ==
    /\ img.base \in Nat /\ img.headers \in Nat /\ IsSequence(img.sections)
    /\ \A i \in DOMAIN img.sections :
          LET s == img.sections[i]
          IN  /\ s.va \in Nat /\ s.vsize \in Nat /\ s.raw \in Nat /\ IsSequence(s.imports)
              /\ \A k \in DOMAIN s.imports : s.imports[k].offset \in Nat
                                            /\ s.imports[k].ordinal \in Nat

ASSUME BootAssumption ==
    /\ SpaceEnd \in Nat \ {0} /\ RamSize \in Nat /\ ThunkSize \in Nat
    /\ \A r \in ExtraRegions : r.base \in Nat /\ r.size \in Nat /\ r.offset \in Nat
    /\ \A m \in Media : IsImage(m.xbe)

-----------------------------------------------------------------------------
(* AddressSpace.                                                            *)

\* MapRam and MapMmio: refused when empty, out of range or overlapping.
Mappable(r) ==
    /\ r.size > 0 /\ r.base + r.size <= SpaceEnd
    /\ r.type = "Ram" => r.offset + r.size <= RamSize
    /\ \A o \in space : ~(o.base < r.base + r.size /\ r.base < o.base + o.size)

\* ResolveRegion: the region that holds the whole range with the permission.
Resolve(base, size, perm) ==
    {r \in space : /\ r.base <= base /\ base + size <= r.base + r.size
                   /\ perm \in r.perms}

\* ReadBytes and WriteBytes work on RAM regions only; an empty range is fine.
Accessible(base, size, perm) ==
    size = 0 \/ \E r \in Resolve(base, size, perm) : r.type = "Ram"

CellOf(a) == LET r == CHOOSE o \in space : o.base <= a /\ a < o.base + o.size
             IN  r.offset + (a - r.base)

ReadBytes(base, size) == [k \in 1..size |-> memory[CellOf(base + k - 1)]]

\* WriteBytes on the memory m; a range that is not writable is left alone.
WriteBytes(m, base, data) ==
    IF ~Accessible(base, Len(data), "Write") THEN m
    ELSE [c \in DOMAIN m |->
            IF \E k \in 1..Len(data) : CellOf(base + k - 1) = c
            THEN data[CHOOSE k \in 1..Len(data) : CellOf(base + k - 1) = c]
            ELSE m[c]]

-----------------------------------------------------------------------------
(* XbeParser::Parse.                                                        *)

InBounds(offset, size, limit) == offset + size <= limit

ParseHeader(img) == img.file >= HeaderMin /\ img.headers >= HeaderMin /\ img.headers <= img.file

\* The certificate is optional; its own size decides which fields it has.
ParseCertificate(img) ==
    \A c \in img.certificate :
        img.base <= c.va /\ c.size > 0 /\ InBounds(c.va - img.base, c.size, img.headers)

ParseSections(img) ==
    img.sections # <<>> =>
        /\ img.base <= img.table
        /\ InBounds(img.table - img.base, Len(img.sections) * SectionHeader, img.headers)
        /\ \A i \in DOMAIN img.sections :
              LET s == img.sections[i] IN s.raw > 0 => InBounds(s.at, s.raw, img.file)

Parse(img) == ParseHeader(img) /\ ParseCertificate(img) /\ ParseSections(img)

-----------------------------------------------------------------------------
(* XbeLoader::Plan.                                                         *)

Sections(img) == DOMAIN img.sections
SectionEnd(s) == s.va + s.vsize

\* The comparison with every section planned before.
OverlapsEarlier(img, i) ==
    LET s == img.sections[i]
    IN  \E j \in 1..(i - 1) : s.va < SectionEnd(img.sections[j])
                              /\ img.sections[j].va < SectionEnd(s)

PlanSection(img, i) ==
    LET s == img.sections[i]
    IN  /\ s.name # ".tls" /\ s.flags = "supported"
        /\ s.raw <= s.vsize /\ s.at + s.raw <= img.file
        /\ img.base <= s.va /\ SectionEnd(s) <= img.base + img.size
        /\ ~(s.va < img.base + img.headers /\ img.base < SectionEnd(s))
        /\ ~OverlapsEarlier(img, i)

\* The import thunks of all .thunk sections, in order.
SectionThunks(s) ==
    IF s.name # ".thunk" THEN <<>>
    ELSE [k \in DOMAIN s.imports |-> [ordinal |-> s.imports[k].ordinal,
                                      at |-> (s.va + s.imports[k].offset) % SpaceEnd]]
ThunksOf(img) == Flatten([i \in DOMAIN img.sections |-> SectionThunks(img.sections[i])])

\* XbeLoader::Plan succeeds.
Plannable(img) ==
    /\ Parse(img) /\ ~img.tls
    /\ img.headers > 0 /\ img.headers <= img.size
    /\ img.base + img.size <= SpaceEnd
    /\ img.base <= img.entry /\ img.entry < img.base + img.size
    /\ \A i \in Sections(img) : PlanSection(img, i)
    /\ LET t == ThunksOf(img)
       IN  \A k \in DOMAIN t : /\ t[k].ordinal \in Ordinals
                               /\ \A l \in 1..(k - 1) : t[l].ordinal # t[k].ordinal

\* XdvdfsVolume::Open: a descriptor at one of two places, with a root
\* directory inside the image.
OpenVolume(m) ==
    /\ m.descriptor \in {"trimmed", "raw"}
    /\ m.root.size > 0 /\ InBounds(m.root.at, m.root.size, m.size)

\* MediaBootPipeline::Plan: an executable, or a disc with default.xbe on it.
Bootable(m) ==
    /\ m.kind = "Xbe" \/ (OpenVolume(m) /\ m.hasDefaultXbe)
    /\ Plannable(m.xbe)

-----------------------------------------------------------------------------
(* XbeLoader::Apply, as the sequence of its steps.                          *)

Backup(base, size) == [op |-> "Backup", base |-> base, size |-> size, data |-> <<>>]
ReadSource == [op |-> "Read", base |-> 0, size |-> 0, data |-> <<>>]
WriteStep(base, data) == [op |-> "Write", base |-> base, size |-> Len(data), data |-> data]

SectionSteps(s, i) ==
    (IF s.raw > 0
     THEN <<ReadSource, WriteStep(s.va, [k \in 1..s.raw |-> <<"section", i, k>>])>> ELSE <<>>)
    \o (IF s.vsize > s.raw
        THEN <<WriteStep(s.va + s.raw, [k \in 1..(s.vsize - s.raw) |-> <<"zero", 0, 0>>])>>
        ELSE <<>>)

Trampoline(ordinal) == [k \in 1..ThunkSize |-> <<"thunk", ordinal, k>>]

ThunkSteps(t) == <<Backup(t.at, ThunkSize), WriteStep(t.at, Trampoline(t.ordinal))>>

ApplySteps(img) ==
    LET t == ThunksOf(img)
    IN  <<Backup(img.base, img.headers)>>
        \o [i \in Sections(img) |-> Backup(img.sections[i].va, img.sections[i].vsize)]
        \o <<ReadSource, WriteStep(img.base, [k \in 1..img.headers |-> <<"head", 0, k>>])>>
        \o Flatten([i \in Sections(img) |-> SectionSteps(img.sections[i], i)])
        \o Flatten([k \in DOMAIN t |-> ThunkSteps(t[k])])

\* Mutant: the patches are undone in the order they were made.
RollbackPatchesForward(m, patches) ==
    LET n == Len(patches)
        undo[k \in 0..n] ==
          IF k = 0 THEN m ELSE WriteBytes(undo[k - 1], patches[k].base, patches[k].original)
    IN  undo[n]

\* RollbackPatches, last patch first; write errors are ignored.
RollbackPatches(m, patches) ==
    LET n == Len(patches)
        undo[k \in 0..n] ==
          IF k = 0 THEN m
          ELSE WriteBytes(undo[k - 1], patches[n + 1 - k].base, patches[n + 1 - k].original)
    IN  undo[n]

NoLoad == [active |-> FALSE, media |-> <<>>, steps |-> <<>>, patches |-> <<>>, before |-> <<>>,
           outcome |-> "none"]

\* A failed step: all patches are undone, and the session stays Created.
ApplyFails ==
    /\ memory' = RollbackPatches(memory, load.patches)
    /\ load' = [load EXCEPT !.active = FALSE, !.outcome = "failed"]
    /\ UNCHANGED <<space, boot, prepares>>

ApplyStep ==
    /\ load.active /\ load.steps # <<>>
    /\ LET s  == Head(load.steps)
           ok == CASE s.op = "Backup" -> Accessible(s.base, s.size, "Read")
                   [] s.op = "Write" -> Accessible(s.base, s.size, "Write")
                   [] OTHER -> TRUE
       IN  IF ~ok THEN ApplyFails
           ELSE /\ memory' = IF s.op = "Write" THEN WriteBytes(memory, s.base, s.data) ELSE memory
                /\ load' = [load EXCEPT
                     !.steps = Tail(@),
                     !.patches = IF s.op # "Backup" \/ s.size = 0 THEN @
                                 ELSE Append(@, [base |-> s.base,
                                                 original |-> ReadBytes(s.base, s.size)])]
                /\ UNCHANGED <<space, boot, prepares>>

\* The source fails to deliver the bytes of a header or section.
SourceFails ==
    /\ load.active /\ load.steps # <<>> /\ Head(load.steps).op = "Read"
    /\ ApplyFails

-----------------------------------------------------------------------------
(* The session.                                                             *)

RamRegion == [base |-> 0, size |-> RamSize, type |-> "Ram", offset |-> 0,
              perms |-> {"Read", "Write", "Execute"}]
RamMapped == \E r \in space : r.base = 0 /\ r.type = "Ram"

\* AddressSpace::MapRam or MapMmio before the boot.  MachineSession's constructor maps
\* two device windows and RamRegion; a caller of XbeLoader::Apply brings any space.
MapRegion(r) ==
    /\ ~load.active /\ prepares = 0 /\ Mappable(r)
    /\ space' = space \cup {r}
    /\ UNCHANGED <<memory, load, boot, prepares>>

\* MachineSession::PrepareMedia up to XbeLoader::Apply; the plan fails, too,
\* when the source cannot be read.
PrepareMedia(m, readable) ==
    /\ ~load.active /\ prepares < MaxPrepares
    /\ boot.state = "Created"
    /\ prepares' = prepares + 1
    /\ LET proceed == readable /\ Bootable(m) /\ (RamMapped \/ Mappable(RamRegion))
       IN  /\ space' = IF proceed /\ ~RamMapped THEN space \cup {RamRegion} ELSE space
           /\ load' = IF proceed
                      THEN [active |-> TRUE, media |-> m, steps |-> ApplySteps(m.xbe),
                            patches |-> <<>>, before |-> memory, outcome |-> "none"]
                      ELSE [NoLoad EXCEPT !.before = memory, !.outcome = "failed"]
    /\ UNCHANGED <<memory, boot>>

\* The rest of PrepareMedia, once Apply has succeeded: CreateInitialContext,
\* the volume under D: for a disc, and the state Prepared.
PrepareCommits ==
    /\ load.active /\ load.steps = <<>>
    /\ boot' = [state |-> "Prepared", eip |-> load.media.xbe.entry,
                volume |-> IF load.media.kind # "Xbe" THEN {"D"} ELSE {}]
    /\ load' = [load EXCEPT !.active = FALSE, !.outcome = "done"]
    /\ UNCHANGED <<space, memory, prepares>>

BootInit ==
    /\ space = {}
    /\ memory = [c \in 0..(RamSize - 1) |-> <<"old", 0, c>>]
    /\ load = NoLoad
    /\ boot = [state |-> "Created", eip |-> SpaceEnd, volume |-> {}]
    /\ prepares = 0

BootNext ==
    \/ \E r \in ExtraRegions : MapRegion(r)
    \/ \E m \in Media, readable \in BOOLEAN : PrepareMedia(m, readable)
    \/ ApplyStep
    \/ SourceFails
    \/ PrepareCommits

BootSpec == BootInit /\ [][BootNext]_bootVars

-----------------------------------------------------------------------------
(* Properties.                                                              *)

\* A boot that fails, at whatever step and for whatever reason, leaves memory
\* and session as they were, so that another medium can be tried: trampolines
\* that lie in a section just written, thunks that overlap each other and
\* regions that alias the same RAM included (Apply, RollbackPatches).
FailedBootLeavesNoTrace ==
    (load.outcome = "failed") =>
        /\ memory = load.before
        /\ boot.state = "Created" /\ boot.volume = {}

\* What a successful boot leaves at guest address a: the trampoline written
\* last over it, else the section or header byte the image has for it.
Expected(img, a) ==
    LET t    == ThunksOf(img)
        over == {k \in DOMAIN t : a \in Span(t[k].at, ThunkSize)}
        sec  == {i \in Sections(img) : a \in Span(img.sections[i].va, img.sections[i].vsize)}
    IN  IF over # {}
        THEN LET k == CHOOSE k \in over : \A l \in over : l <= k
             IN  <<"thunk", t[k].ordinal, a - t[k].at + 1>>
        ELSE IF sec # {}
        THEN LET i == CHOOSE i \in sec : TRUE
                 s == img.sections[i]
             IN  IF a - s.va < s.raw THEN <<"section", i, a - s.va + 1>> ELSE <<"zero", 0, 0>>
        ELSE <<"head", 0, a - img.base + 1>>

ImageSpan(img) ==
    Span(img.base, img.headers)
    \cup UNION {Span(img.sections[i].va, img.sections[i].vsize) : i \in Sections(img)}

\* The guest addresses Apply writes to.
TouchedSpan(img) ==
    ImageSpan(img) \cup UNION {Span(ThunksOf(img)[k].at, ThunkSize) : k \in DOMAIN ThunksOf(img)}

\* A boot that succeeds leaves every byte of the image where the image has it:
\* no section, zero fill or header is overwritten by another, unless two of the
\* guest addresses written share a RAM cell (Plan's overlap checks, Apply's order).
BootedImageIsComplete ==
    LET img == load.media.xbe
    IN  (load.outcome = "done" /\ \A a, b \in TouchedSpan(img) : CellOf(a) = CellOf(b) => a = b)
            => \A a \in ImageSpan(img) : memory[CellOf(a)] = Expected(img, a)

\* A boot is all or nothing: when it fails it leaves no trace, when it succeeds the
\* whole image is in place.
BootIsAllOrNothing == FailedBootLeavesNoTrace /\ BootedImageIsComplete
=============================================================================

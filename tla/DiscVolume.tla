---------------------------- MODULE DiscVolume ----------------------------
(***************************************************************************)
(* The XDVDFS disc volume and the virtual file system over it: parsing of a *)
(* directory's binary tree of entries, traversal of the whole disc, lookup  *)
(* of a path, and the mount table that routes a guest path to the volume.   *)
(*                                                                         *)
(* A disc maps directory sectors to their tables.  A table is a sequence of *)
(* nodes [left, right, name, dir, sector]; children are positions counted   *)
(* from 0, and the values 0 and Nil stand for no child, as on the disc.  A  *)
(* name is <<letters, case>>; names are compared without regard to case.  A *)
(* path is the sequence of its parts between separators, empty ones kept.   *)
(* The contents of the disc are arbitrary: trees may share nodes or loop.   *)
(***************************************************************************)
EXTENDS Integers, Sequences, FiniteSets

CONSTANTS
    Discs,         \* the discs tried: functions from sectors to tables
    RootSector,    \* the sector of the root directory
    MaxDepth,      \* XdvdfsBudgetConfig::max_depth
    MaxEntries,    \* max_entries_per_dir
    MaxTotal,      \* max_total_entries
    ImageEnd,      \* the first sector past the image
    Forbidden,     \* names a path may not hold: "..", or with a ":" in them
    Nil            \* the child value 0xFFFF

ASSUME DiscAssumption == MaxEntries \in Nat

VARIABLES
    disc,          \* the disc
    walk,          \* TraverseAll in progress: stack, visited, result, outcome
    mounts         \* the keys of Vfs::mounts_; they all lead to this volume

discVars == <<disc, walk, mounts>>

Fold(name) == name[1]
Empty   == <<"", "lower">>       \* the part between two separators
Drive   == <<"D:", "upper">>
Device  == <<"DEVICE", "upper">>
CdRom0  == <<"CDROM0", "upper">>

-----------------------------------------------------------------------------
(* ParseDirectoryTableEntries.                                              *)

Failed == [ok |-> FALSE, entries |-> <<>>]

\* Mutant: names are compared as they are spelt.
SeenExactly(seen, name) == name \in seen

\* The test for a duplicate name, on lower-case copies.
SeenBefore(seen, name) == Fold(name) \in {Fold(n) : n \in seen}

Child(c, depth) == IF c \in {0, Nil} THEN <<>> ELSE <<[at |-> c, depth |-> depth]>>

\* One iteration on the state p of the loop: the node on top of the stack is
\* checked and listed, and its children are pushed, the left one last.
ParseNode(table, p) ==
    LET item == p.stack[Len(p.stack)]
        rest == SubSeq(p.stack, 1, Len(p.stack) - 1)
        node == table[item.at + 1]
        inTable(c) == c \in {0, Nil} \/ c < Len(table)
    IN  IF \/ item.depth > MaxDepth
           \/ item.at \in p.visited
           \/ Cardinality(p.visited) + 1 > MaxEntries
           \/ SeenBefore(p.seen, node.name)
           \/ ~inTable(node.left) \/ ~inTable(node.right)
        THEN [p EXCEPT !.ok = FALSE]
        ELSE [ok      |-> TRUE,
              stack   |-> rest \o Child(node.right, item.depth + 1)
                               \o Child(node.left, item.depth + 1),
              visited |-> p.visited \cup {item.at},
              seen    |-> p.seen \cup {node.name},
              entries |-> Append(p.entries, node)]

\* The loop.  It visits another node each time, and one more than MaxEntries is
\* an error: it has ended after MaxEntries + 1 iterations.
ParseDirectoryTableEntries(table) ==
    LET loop[n \in 0..MaxEntries + 1] ==
          IF n = 0
          THEN [ok |-> TRUE, stack |-> <<[at |-> 0, depth |-> 1]>>, visited |-> {}, seen |-> {},
                entries |-> <<>>]
          ELSE LET p == loop[n - 1]
               IN  IF ~p.ok \/ p.stack = <<>> THEN p ELSE ParseNode(table, p)
        end == loop[MaxEntries + 1]
    IN  IF end.ok THEN [ok |-> TRUE, entries |-> end.entries] ELSE Failed

\* A directory's entries; its range must lie in the image.
ParseDirectoryTable(sector) ==
    IF sector \notin DOMAIN disc \/ sector >= ImageEnd THEN Failed
    ELSE ParseDirectoryTableEntries(disc[sector])

-----------------------------------------------------------------------------
(* XdvdfsVolume.                                                            *)

NotFound == [ok |-> FALSE]
Found(e) == [ok |-> TRUE, entry |-> e]

\* SplitAndValidateXboxPath: a drive prefix and the outer separators go, an
\* inner empty part or a forbidden one is an error.
SplitAndValidateXboxPath(parts) ==
    LET bare   == IF parts # <<>> /\ parts[1] = Drive THEN Tail(parts) ELSE parts
        full   == {i \in DOMAIN bare : bare[i] # Empty}
        lo     == CHOOSE i \in full : \A j \in full : i <= j
        hi     == CHOOSE i \in full : \A j \in full : j <= i
        comps  == IF full = {} THEN <<>> ELSE SubSeq(bare, lo, hi)
    IN  [ok |-> \A i \in DOMAIN comps : comps[i] # Empty /\ comps[i] \notin Forbidden,
         comps |-> comps]

\* FindEntry: the entry of each component is looked for in the directory before it,
\* beginning with the root.
FindEntry(parts) ==
    LET path == SplitAndValidateXboxPath(parts)
        find[n \in 0..Len(path.comps)] ==
          IF n = 0 THEN Found([dir |-> TRUE, sector |-> RootSector])
          ELSE LET d    == find[n - 1]
                   t    == ParseDirectoryTable(d.entry.sector)
                   hits == {i \in DOMAIN t.entries :
                              Fold(t.entries[i].name) = Fold(path.comps[n])}
               IN  IF ~d.ok \/ ~d.entry.dir \/ ~t.ok \/ hits = {} THEN NotFound
                   ELSE Found(t.entries[CHOOSE i \in hits : \A j \in hits : i <= j])
    IN  IF path.ok THEN find[Len(path.comps)] ELSE NotFound

\* ListDirectory: every component must be a directory.
ListDirectory(parts) ==
    LET f == FindEntry(parts)
    IN  IF f.ok /\ f.entry.dir THEN ParseDirectoryTable(f.entry.sector) ELSE Failed

\* XdvdfsVolume::OpenFile: a file whose data lies in the image.
OpenVolumeFile(parts) ==
    LET f == FindEntry(parts)
    IN  IF f.ok /\ ~f.entry.dir /\ f.entry.sector < ImageEnd THEN f ELSE NotFound

Frame(sector, path, depth) == [sector |-> sector, path |-> path, depth |-> depth]
NoWalk == [on |-> FALSE, stack |-> <<>>, visited |-> {}, result |-> <<>>, outcome |-> "none"]

\* TraverseAll is called on a start path; an empty one is the root.
TraverseAll(start) ==
    LET f == FindEntry(start)
    IN  /\ ~walk.on
        /\ walk' = IF ~f.ok \/ ~f.entry.dir
                   THEN [NoWalk EXCEPT !.outcome = "Error"]
                   ELSE [NoWalk EXCEPT !.on = TRUE, !.visited = {f.entry.sector},
                                       !.stack = <<Frame(f.entry.sector, start, 1)>>]
        /\ UNCHANGED <<disc, mounts>>

\* Mutant: the sectors visited are not consulted.
VisitEntryAgain(w, frame, e) ==
    LET p == Append(frame.path, e.name)
    IN  IF Len(w.result) >= MaxTotal THEN [w EXCEPT !.outcome = "Error"]
        ELSE IF ~e.dir THEN [w EXCEPT !.result = Append(@, [path |-> p, entry |-> e])]
        ELSE [w EXCEPT !.result = Append(@, [path |-> p, entry |-> e]),
                       !.stack = Append(@, Frame(e.sector, p, frame.depth + 1))]

\* The loop body for one entry of the directory: it is listed and, if it is a
\* directory, pushed; the total, or a sector seen before, ends the traversal.
VisitEntry(w, frame, e) ==
    LET p == Append(frame.path, e.name)
    IN  IF \/ Len(w.result) >= MaxTotal
           \/ e.dir /\ e.sector \in w.visited
        THEN [w EXCEPT !.outcome = "Error"]
        ELSE IF ~e.dir THEN [w EXCEPT !.result = Append(@, [path |-> p, entry |-> e])]
        ELSE [w EXCEPT !.result = Append(@, [path |-> p, entry |-> e]),
                       !.visited = @ \cup {e.sector},
                       !.stack = Append(@, Frame(e.sector, p, frame.depth + 1))]

VisitEntries(w, frame, es) ==
    LET loop[i \in 0..Len(es)] ==
          IF i = 0 THEN w
          ELSE IF loop[i - 1].outcome # "none" THEN loop[i - 1]
          ELSE VisitEntry(loop[i - 1], frame, es[i])
    IN  loop[Len(es)]

\* One iteration of TraverseAll's outer loop.  An error discards the result.
TraverseStep ==
    /\ walk.on
    /\ IF walk.stack = <<>>
       THEN walk' = [NoWalk EXCEPT !.result = walk.result, !.outcome = "Ok"]
       ELSE LET frame == walk.stack[Len(walk.stack)]
                w     == [walk EXCEPT !.stack = SubSeq(@, 1, Len(@) - 1)]
                t     == ParseDirectoryTable(frame.sector)
                after == VisitEntries(w, frame, t.entries)
            IN  walk' = IF frame.depth > MaxDepth \/ ~t.ok \/ after.outcome # "none"
                        THEN [NoWalk EXCEPT !.outcome = "Error"]
                        ELSE after
    /\ UNCHANGED <<disc, mounts>>

-----------------------------------------------------------------------------
(* Vfs.                                                                     *)

BadPath == [ok |-> FALSE, alias |-> "", rel |-> <<>>]

\* The normalising loop: empty parts are skipped, a forbidden one is an error.
Normalize(parts) ==
    [ok  |-> \A i \in DOMAIN parts : parts[i] \notin Forbidden,
     rel |-> SelectSeq(parts, LAMBDA c : c # Empty)]

\* ParseAndNormalizeXboxPath: the alias a path names and its components.
ParseAndNormalizeXboxPath(parts) ==
    LET rem    == IF Len(parts) > 1 /\ parts[1] = Empty THEN Tail(parts) ELSE parts
        device == Fold(rem[1]) = "DEVICE"
        alias  == IF device /\ Fold(rem[2]) # "CDROM0" THEN "DEVICE" ELSE "D"
        tail   == IF device THEN Tail(Tail(rem)) ELSE IF rem[1] = Drive THEN Tail(rem) ELSE rem
        n      == Normalize(tail)
    IN  IF parts = <<Empty>> \/ (device /\ Len(rem) = 1) THEN BadPath
        ELSE [ok |-> n.ok, alias |-> alias, rel |-> n.rel]

\* Vfs::QueryPath.
QueryPath(parts) ==
    LET p == ParseAndNormalizeXboxPath(parts)
    IN  IF ~p.ok \/ p.alias \notin mounts THEN NotFound ELSE FindEntry(p.rel)

\* Vfs::OpenFile up to the handle it allocates.
OpenFile(parts) ==
    LET p == ParseAndNormalizeXboxPath(parts)
        q == QueryPath(parts)
    IN  IF ~q.ok \/ q.entry.dir THEN NotFound ELSE OpenVolumeFile(p.rel)

\* Vfs::OpenDirectory up to the handle it allocates.
OpenDirectory(parts) ==
    LET p == ParseAndNormalizeXboxPath(parts)
        q == QueryPath(parts)
    IN  IF ~q.ok \/ ~q.entry.dir THEN Failed ELSE ListDirectory(p.rel)

\* Mount of the volume, under the two aliases MediaBootPipeline::Plan gives it.
Mount ==
    /\ mounts' = mounts \cup {"D", "DEVICE\\CDROM0"}
    /\ UNCHANGED <<disc, walk>>

Unmount(a) ==
    /\ mounts' = mounts \ {a}
    /\ UNCHANGED <<disc, walk>>

DiscInit ==
    /\ disc \in Discs
    /\ walk = NoWalk
    /\ mounts = {}

DiscNext ==
    \/ \E start \in {<<>>, <<Drive, <<"a", "upper">>>>} :
          walk.outcome = "none" /\ TraverseAll(start)
    \/ TraverseStep
    \/ Mount
    \/ \E a \in mounts : Unmount(a)

DiscSpec == DiscInit /\ [][DiscNext]_discVars

-----------------------------------------------------------------------------
(* Properties.                                                              *)

\* A traversal that succeeds lists each directory once: no sector is entered
\* on two paths, however the directories of the disc refer to one another
\* (visited_dirs of TraverseAll).
EachDirectoryOnce ==
    walk.outcome = "Ok" =>
        \A i, j \in DOMAIN walk.result :
            (walk.result[i].entry.dir /\ walk.result[j].entry.dir
             /\ walk.result[i].entry.sector = walk.result[j].entry.sector) => i = j

\* What a successful traversal lists can be used: while the volume is mounted,
\* a listed path resolves through the VFS to the very entry listed, written
\* with a drive letter or a device prefix and with doubled separators, and
\* opens as the kind of node it is.  The names a path may not hold are the
\* exception: ParseDirectoryTableEntries lists them, both path parsers refuse
\* them.
ListedPathsResolve ==
    (walk.outcome = "Ok" /\ "D" \in mounts) =>
        \A i \in DOMAIN walk.result :
            LET r == walk.result[i]
                tail == IF r.path[1] = Drive THEN Tail(r.path) ELSE r.path
                doubled == [k \in 1..2 * Len(tail) |-> IF k % 2 = 1 THEN Empty ELSE tail[k \div 2]]
            IN  (\A k \in DOMAIN tail : tail[k] \notin Forbidden) =>
                  \A prefix \in {<<Drive>>, <<Empty, Device, CdRom0>>} :
                    LET q == prefix \o doubled
                    IN  /\ QueryPath(q).ok /\ QueryPath(q).entry = r.entry
                        /\ OpenFile(q).ok <=> (~r.entry.dir /\ r.entry.sector < ImageEnd)
                        /\ OpenDirectory(q).ok <=> r.entry.dir

=============================================================================

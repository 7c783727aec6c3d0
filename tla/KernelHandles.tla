---------------------------- MODULE KernelHandles ----------------------------
(***************************************************************************)
(* The handles of a title: the kernel's HandleTable (events, mutexes,      *)
(* semaphores, timers and threads), the VfsHandleTable (open files), and   *)
(* the exports over them: NtClose, NtCreateFile, NtReadFile and            *)
(* SetFilePointer.  Both tables encode a handle as a slot index and a      *)
(* generation in the same way, and NtClose gets only the value.            *)
(*                                                                         *)
(* What a title was given is in refs: each reference has the value and the *)
(* object it stands for, and remembers whether the title closed it.  All   *)
(* files have the same size; the bytes of a file are not modelled.  A      *)
(* guest pointer is null, to RAM, to read-only memory, to the registers of *)
(* a device, or to none of these; ReadFile's two are of one kind.          *)
(***************************************************************************)
EXTENDS Integers, Sequences, FiniteSets

CONSTANTS
    Generations,  \* the number of values of a generation: 2^16 in the code
    MaxHandles,   \* max_handles_ of the VfsHandleTable
    MaxObjects,   \* bound on kernel objects created in a session
    MaxFiles,     \* bound on files opened in a session
    FileSize,     \* size of a file
    MaxRead,      \* bound on the length of a read
    Pointers,     \* the kinds of guest pointers passed
    Resets        \* whether the session is reset

ASSUME HandlesAssumption ==
    /\ Generations \in Nat \ {0, 1} /\ MaxHandles \in Nat /\ FileSize \in Nat
    /\ {MaxObjects, MaxFiles, MaxRead} \subseteq Nat
    /\ Pointers \subseteq {"null", "ram", "rom", "mmio", "none"} /\ Resets \in BOOLEAN

VARIABLES
    objects,   \* HandleTable slots_
    files,     \* VfsHandleTable slots_
    refs,      \* history: the handles the title was given
    made,      \* history: how many objects and files were opened, which names them
    last       \* the result of the last export and the bytes it delivered

handleVars == <<objects, files, refs, made, last>>

Value(i, gen) == [index |-> i, gen |-> gen]
Result(status, bytes) == [status |-> status, bytes |-> bytes]
Refused == Result("error", 0)

HandlesInit ==
    /\ objects = <<>> /\ files = <<>> /\ refs = {}
    /\ made = [object |-> 0, file |-> 0] /\ last = Result("success", 0)

-----------------------------------------------------------------------------
(* The two tables. *)

FreeSlots(table) == {i \in DOMAIN table : ~table[i].open}

\* The first free slot, or a new one with generation 1.
SlotFor(table) ==
    IF FreeSlots(table) = {} THEN Len(table) + 1
    ELSE CHOOSE i \in FreeSlots(table) : \A j \in FreeSlots(table) : i <= j

GenAt(table, i) == IF i <= Len(table) THEN table[i].gen ELSE 1

Opened(table, id) ==
    LET i == SlotFor(table)
        slot == [open |-> TRUE, gen |-> GenAt(table, i), id |-> id, pos |-> 0]
    IN  [j \in 1 .. (IF i > Len(table) THEN i ELSE Len(table)) |->
            IF j = i THEN slot ELSE table[j]]

\* ValidateSlotOnly, and the tests that open every VfsHandleTable operation.
Valid(table, v) ==
    v.index \in DOMAIN table /\ table[v.index].open /\ table[v.index].gen = v.gen

\* Mutant: a closed file keeps its generation.
NextFileGenSame(gen) == gen

\* The generation after a file is closed: 0 is skipped.
NextFileGen(gen) == IF gen + 1 = Generations THEN 1 ELSE gen + 1

\* The generation after a kernel handle is closed: it wraps to 0.
NextObjectGen(gen) == (gen + 1) % Generations

Closed(table, i, gen) == [table EXCEPT ![i] = [open |-> FALSE, gen |-> gen, id |-> 0, pos |-> 0]]

Give(kind, v, id) == refs' = refs \cup {[kind |-> kind, value |-> v, id |-> id, closed |-> FALSE]}

-----------------------------------------------------------------------------
(* Exports. *)

\* An export creates an event, mutex, semaphore or thread and returns its handle.
CreateObject ==
    LET i == SlotFor(objects)
        id == made.object + 1
    IN  /\ made.object < MaxObjects
        /\ objects' = Opened(objects, id) /\ made' = [made EXCEPT !.object = id]
        /\ Give("object", Value(i, GenAt(objects, i)), id)
        /\ last' = Result("success", 0) /\ UNCHANGED files

\* Mutant: when the handle cannot be delivered the file stays open.
CreateFileLeaks(out) ==
    LET i == SlotFor(files)
        id == made.file + 1
    IN  /\ made.file < MaxFiles
        /\ i <= MaxHandles
        /\ files' = Opened(files, id) /\ made' = [made EXCEPT !.file = id]
        /\ IF out = "ram" THEN Give("file", Value(i, GenAt(files, i)), id) /\ last' = Result("success", 0)
           ELSE UNCHANGED refs /\ last' = Refused
        /\ UNCHANGED objects

\* NtCreateFile of a file that exists, for reading: the out pointer is validated,
\* the file opened and the handle written; if that fails the file is closed.
CreateFile(out) ==
    LET i == SlotFor(files)
        id == made.file + 1
        gen == GenAt(files, i)
    IN  /\ made.file < MaxFiles /\ UNCHANGED objects
        /\ IF out \in {"none", "rom"} \/ i > MaxHandles
           THEN last' = Refused /\ UNCHANGED <<files, refs, made>>
           ELSE /\ made' = [made EXCEPT !.file = id]
                /\ \/ /\ out \in {"ram", "null", "mmio"}
                      /\ files' = Opened(files, id) /\ last' = Result("success", 0)
                      /\ IF out = "ram" THEN Give("file", Value(i, gen), id) ELSE UNCHANGED refs
                   \/ /\ out = "mmio"
                      /\ files' = Closed(Opened(files, id), i, NextFileGen(gen))
                      /\ last' = Refused /\ UNCHANGED refs

MarkClosed(r, success) ==
    refs' = IF success THEN (refs \ {r}) \cup {[r EXCEPT !.closed = TRUE]} ELSE refs

\* NtClose of the value of the reference r: the HandleTable is asked first.
NtClose(r) ==
    LET v == r.value
        object == Valid(objects, v)
        file == ~object /\ v.gen # 0 /\ Valid(files, v)
    IN  /\ objects' = IF object THEN Closed(objects, v.index, NextObjectGen(v.gen)) ELSE objects
        /\ files' = IF file THEN Closed(files, v.index, NextFileGen(v.gen)) ELSE files
        /\ last' = IF object \/ file THEN Result("success", 0) ELSE Refused
        /\ MarkClosed(r, object \/ file) /\ UNCHANGED made

Smaller(a, b) == IF a < b THEN a ELSE b

\* Mutant: the position is advanced before the buffer is validated.
ReadFileEarly(v, length, buffer) ==
    LET pos == files[v.index].pos
        n == Smaller(length, FileSize - pos)
    IN  /\ UNCHANGED <<objects, refs, made>>
        /\ IF v.gen = 0 \/ ~Valid(files, v) \/ pos >= FileSize
           THEN last' = Refused /\ UNCHANGED files
           ELSE /\ files' = [files EXCEPT ![v.index].pos = pos + n]
                /\ last' = IF buffer = "ram" THEN Result("success", n) ELSE Refused

\* NtReadFile: the buffer is validated for writing, Vfs::Read moves the position,
\* then the bytes are written to the buffer, which fails on a device's registers.
ReadFile(v, length, buffer) ==
    LET pos == files[v.index].pos
        n == Smaller(length, FileSize - pos)
    IN  /\ UNCHANGED <<objects, refs, made>>
        /\ IF buffer \notin {"ram", "mmio"} \/ v.gen = 0 \/ ~Valid(files, v) \/ pos >= FileSize
           THEN last' = Refused /\ UNCHANGED files
           ELSE /\ files' = [files EXCEPT ![v.index].pos = pos + n]
                /\ last' = IF buffer = "ram" THEN Result("success", n) ELSE Refused

\* The positions from which SetFilePointer counts: begin, current, end.
Origins(pos) == {0, pos, FileSize}

\* SetFilePointer: the high half of the distance is read through high, the
\* position moved, and the high half of the new position written through high.
\* A device's registers may refuse either access.
SetFilePointer(v, origin, distance, high) ==
    /\ UNCHANGED <<objects, refs, made>>
    /\ IF v.gen = 0 \/ high = "none" \/ ~Valid(files, v) \/ origin + distance < 0
       THEN last' = Refused /\ UNCHANGED files
       ELSE /\ files' = [files EXCEPT ![v.index].pos = origin + distance]
            /\ \/ high # "rom" /\ last' = Result("success", 0)
               \/ high \in {"rom", "mmio"} /\ last' = Refused

\* A session reset: KernelHle::Reset clears the HandleTable and the session makes
\* a new Vfs; the title and the handles it was given are gone.
ResetHandles ==
    /\ Resets /\ objects' = <<>> /\ files' = <<>> /\ refs' = {}
    /\ last' = Result("success", 0) /\ UNCHANGED made

HandlesNext ==
    \/ CreateObject
    \/ \E out \in Pointers : CreateFile(out)
    \/ \E r \in refs : NtClose(r)
    \/ \E r \in refs, length \in 1 .. MaxRead, buffer \in Pointers \ {"null"} :
           r.kind = "file" /\ r.value.index \in DOMAIN files /\ ReadFile(r.value, length, buffer)
    \/ \E r \in refs, distance \in -1 .. 1, high \in Pointers :
           /\ r.kind = "file" /\ r.value.index \in DOMAIN files
           /\ \E origin \in Origins(files[r.value.index].pos) :
                  /\ origin + distance <= FileSize + 1
                  /\ SetFilePointer(r.value, origin, distance, high)
    \/ ResetHandles

HandlesSpec == HandlesInit /\ [][HandlesNext]_handleVars

-----------------------------------------------------------------------------
(* Properties. *)

Slot == [open : BOOLEAN, gen : 0 .. Generations - 1, id : Nat, pos : 0 .. FileSize + 1]

\* Every variable has its type.
HandlesTypeOK ==
    /\ objects \in Seq(Slot) /\ files \in Seq(Slot) /\ Len(files) <= MaxHandles
    /\ \A r \in refs : r.kind \in {"object", "file"} /\ r.closed \in BOOLEAN
    /\ made \in [object : 0 .. MaxObjects, file : 0 .. MaxFiles]
    /\ last \in [status : {"success", "error"}, bytes : 0 .. MaxRead]

TableOf(kind) == IF kind = "object" THEN objects ELSE files

\* No file and kernel object were given the same handle value.  The tables number
\* their slots alike, so this holds for a title as long as it uses only kernel
\* objects or only files; what happens beyond is DoubleCloseFails.
NoSharedValue == \A r, s \in refs : r.value = s.value => r.kind = s.kind

\* A handle leads to the object it was given for exactly as long as the title holds
\* it: however slots are closed and reused, an open one never leads elsewhere and a
\* closed one is refused from then on.
HandlesAreExact ==
    NoSharedValue => \A r \in refs :
        IF r.closed THEN ~Valid(TableOf(r.kind), r.value)
        ELSE Valid(TableOf(r.kind), r.value) /\ TableOf(r.kind)[r.value.index].id = r.id

OpenFiles(table) == {table[i].id : i \in {j \in DOMAIN table : table[j].open}}

\* A call that fails neither opens nor closes a file: whenever NtCreateFile reports
\* an error, after opening or before, the slot of the bounded table is free again.
FailureKeepsFiles == [][last'.status = "error" => OpenFiles(files') = OpenFiles(files)]_handleVars

\* A read moves the position of its file by exactly the bytes it delivered, and a
\* read that fails leaves it alone (for a buffer that is not a device's registers).
PositionFollowsDelivery ==
    [][\A r \in refs, length \in 1 .. MaxRead, buffer \in Pointers \ {"null", "mmio"} :
          LET i == r.value.index
          IN  r.kind = "file" /\ i \in DOMAIN files /\ ReadFile(r.value, length, buffer) =>
                  files'[i].pos = files[i].pos + last'.bytes]_handleVars

\* Closing a handle twice fails the second time.  Violated: the first file and the
\* first kernel object of a title have the same handle, and NtClose asks the
\* HandleTable first.
DoubleCloseFails ==
    [][\A r \in refs : r.closed /\ NtClose(r) => last'.status = "error"]_handleVars

=============================================================================

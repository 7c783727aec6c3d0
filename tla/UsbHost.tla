------------------------------ MODULE UsbHost ------------------------------
(***************************************************************************)
(* The OHCI host controller, its endpoint list traversal and the XID        *)
(* gamepad behind root hub port 0, as MachineSession wires them.            *)
(*                                                                         *)
(* The guest driver fills transfer descriptors (TDs) in guest memory and    *)
(* hangs them on endpoint descriptors (EDs); once per USB frame the         *)
(* controller walks the enabled lists, talks to the device and publishes    *)
(* the retired TDs as the done queue.  Host input arrives as numbered       *)
(* snapshots on another thread; the session mutex makes a frame, a register *)
(* access and a snapshot atomic with respect to each other.                 *)
(*                                                                         *)
(* Addresses are model values: an ED or TD pointer is the descriptor itself *)
(* or Null.  Lengths are counted in units of half a gamepad report.         *)
(***************************************************************************)
EXTENDS Integers, Sequences, FiniteSets

CONSTANTS
    Ctl,           \* the ED of endpoint 0, the control endpoint
    Intr,          \* the ED of endpoint 1, the interrupt IN endpoint
    TDs,           \* transfer descriptors of guest memory
    Null,          \* the null descriptor pointer
    Templates,     \* Templates[e]: the TDs the driver queues on endpoint e
    PtrWrites,     \* <<register, pointer>> pairs the driver writes
    PortWrites,    \* values the driver writes to the port status register
    Budgets,       \* bounds: register writes, transfers and host events of a run
    MaxSeq,        \* bound: snapshots carry the numbers 1..MaxSeq
    EdBudget,      \* kMaxEdTraversalBudget
    TdBudget       \* kMaxTdTraversalBudget

ASSUME UsbAssumption == EdBudget \in Nat /\ TdBudget \in Nat /\ MaxSeq \in Nat

VARIABLES
    hc,            \* the registers of OhciController
    port,          \* root hub port 0 and whether a device is attached to it
    dev,           \* the XidController
    ed, td,        \* the descriptors in guest memory
    hccaDone,      \* the done head word of the HCCA, in guest memory
    ses,           \* control_sessions_ of the traversal engine
    frameOk,       \* the result of the last ProcessFrame
    polled,        \* the newest report the guest has been given
    left           \* operations the environment may still perform

usbVars == <<hc, port, dev, ed, td, hccaDone, ses, frameOk, polled, left>>

Eds == {Ctl, Intr}
Lists == {"periodic", "control", "bulk"}
IntBits == {"StartOfFrame", "WritebackDoneHead", "RootHubStatusChange"}
PtrRegs == {"PeriodCurrentED", "ControlHeadED", "ControlCurrentED",
            "BulkHeadED", "BulkCurrentED"}
Addresses == {0, 1}
Keys == Addresses \X {0, 1}

ReportSize == 2        \* kXidGamepadReportSize
DescriptorSize == 2
SetupSize == 1         \* the eight bytes of a setup packet
MaxUnsupported == 2    \* bound on the counted unsupported requests

Lesser(a, b) == IF a < b THEN a ELSE b

-----------------------------------------------------------------------------
(* The XID gamepad.                                                         *)

\* A device as constructed: connected, unaddressed, with no snapshot yet.
XidInit == [connected |-> TRUE, address |-> 0, configuration |-> 0,
            halted |-> FALSE, report |-> 0, rumble |-> FALSE,
            lastSequence |-> 0, unsupported |-> 0]

\* XidController::Reset keeps connected_ and last_sequence_.
XidReset(d) == [d EXCEPT !.address = 0, !.configuration = 0, !.halted = FALSE,
                         !.report = 0, !.rumble = FALSE, !.unsupported = 0]

Reply(d, status, bytes) == [dev |-> d, status |-> status, bytes |-> bytes]

\* RecordUnsupportedRequestLocked, and the stall its callers answer with.
Unsupported(d) ==
    Reply([d EXCEPT !.unsupported = Lesser(@ + 1, MaxUnsupported)],
          "Stalled", 0)

\* XidController::HandleControlTransfer for request req, with out units of
\* payload and room for in units of answer.
HandleControlTransfer(d, req, out, in) ==
    IF ~d.connected THEN Reply(d, "Disconnected", 0)
    ELSE CASE req \in {"GetDescriptor", "GetCapabilities"}
                -> Reply(d, "Success", Lesser(in, DescriptorSize))
           [] req = "SetAddress" -> Reply([d EXCEPT !.address = 1], "Success", 0)
           [] req = "SetConfiguration"
                -> Reply([d EXCEPT !.configuration = 1], "Success", 0)
           [] req \in {"GetConfiguration", "GetInterface", "GetStatus"}
                -> Reply(d, "Success", Lesser(in, 1))
           [] req = "SetFeature" -> Reply([d EXCEPT !.halted = TRUE], "Success", 0)
           [] req = "ClearFeature" -> Reply([d EXCEPT !.halted = FALSE], "Success", 0)
           [] req = "SetInterface" -> Reply(d, "Success", 0)
           [] req = "SetReport"
                -> Reply([d EXCEPT !.rumble = (@ \/ out > 0)], "Success", out)
           [] OTHER -> Unsupported(d)

\* XidController::HandleInterruptTransfer into a buffer of room units.
HandleInterruptTransfer(d, ep, room) ==
    IF ~d.connected THEN Reply(d, "Disconnected", 0)
    ELSE IF ep # 1 \/ d.halted THEN Reply(d, "Stalled", 0)
    ELSE IF room < ReportSize THEN Reply(d, "BufferUnderrun", 0)
    ELSE Reply(d, "Success", ReportSize)

\* Requests whose setup packet asks for an answer of length > 0.
DeviceToHost == {"GetDescriptor", "GetCapabilities", "GetConfiguration",
                 "GetStatus", "GetInterface", "UnknownDescriptor"}

-----------------------------------------------------------------------------
(* One transfer descriptor.  A walk is the state ProcessFrame threads        *)
(* through the lists: the descriptors, the sessions, the device, the done    *)
(* queue accumulator, the reports delivered, and whether the last TD retired.*)

\* Mutant: the endpoint does not halt, so the next frame tries the TD again.
HaltOnKeepsRunning(w, e, t, cc) == [w EXCEPT !.td[t].cc = cc, !.retired = FALSE]

\* The TD fails: its condition code is set and its endpoint halts.
HaltOn(w, e, t, cc) ==
    [w EXCEPT !.td[t].cc = cc, !.ed[e].halted = TRUE, !.retired = FALSE]

\* The TD completes: the endpoint moves on, and the TD joins the done queue
\* unless its delay counter says no interrupt.
Retire(w, e, t) ==
    LET linked == w.td[t].delay # 7
    IN  [w EXCEPT !.ed[e].head = w.td[t].next,
                  !.td[t].cc = "NoError",
                  !.td[t].len = 0,
                  !.td[t].next = IF linked THEN w.acc ELSE @,
                  !.acc = IF linked THEN t ELSE @,
                  !.retired = TRUE]

SetupTd(w, e, t, key) ==
    LET x    == w.td[t]
        open == [w EXCEPT !.ses[key] = [active |-> TRUE, req |-> x.req, avail |-> 0]]
        ans  == HandleControlTransfer(w.dev, x.req, 0, DescriptorSize)
    IN  IF x.len < SetupSize THEN HaltOn(w, e, t, "InvalidDescriptor")
        ELSE IF x.bad THEN HaltOn(w, e, t, "MemoryFault")
        ELSE IF x.req \notin DeviceToHost THEN Retire(open, e, t)
        ELSE IF ans.status = "Success"
             THEN Retire([open EXCEPT !.dev = ans.dev, !.ses[key].avail = ans.bytes], e, t)
        ELSE HaltOn([open EXCEPT !.dev = ans.dev, !.ses[key].active = FALSE,
                                 !.ses[key].avail = DescriptorSize], e, t, ans.status)

ControlInTd(w, e, t, key) ==
    LET x    == w.td[t]
        copy == Lesser(x.len, w.ses[key].avail)
    IN  IF ~w.ses[key].active THEN HaltOn(w, e, t, "Stalled")
        ELSE IF x.len = 0 THEN Retire([w EXCEPT !.ses[key].active = FALSE], e, t)
        ELSE IF copy > 0 /\ x.bad THEN HaltOn(w, e, t, "MemoryFault")
        ELSE Retire([w EXCEPT !.ses[key].avail = @ - copy], e, t)

InterruptInTd(w, e, t, ep) ==
    LET x    == w.td[t]
        room == IF x.len > 0 THEN x.len ELSE ReportSize
        ans  == HandleInterruptTransfer(w.dev, ep, room)
        some == Lesser(ans.bytes, x.len) > 0
    IN  IF ans.status # "Success" THEN HaltOn(w, e, t, ans.status)
        ELSE IF some /\ x.bad THEN HaltOn(w, e, t, "MemoryFault")
        ELSE Retire(IF some THEN [w EXCEPT !.got = Append(@, w.dev.report)] ELSE w, e, t)

ControlOutTd(w, e, t, key) ==
    LET x   == w.td[t]
        ans == HandleControlTransfer(w.dev, w.ses[key].req, x.len, 0)
    IN  IF ~w.ses[key].active /\ x.len > 0 THEN HaltOn(w, e, t, "Stalled")
        ELSE IF x.len = 0 THEN Retire([w EXCEPT !.ses[key].active = FALSE], e, t)
        ELSE IF x.bad THEN HaltOn(w, e, t, "MemoryFault")
        ELSE IF ans.status # "Success"
             THEN HaltOn([w EXCEPT !.dev = ans.dev], e, t, ans.status)
        ELSE Retire([w EXCEPT !.dev = ans.dev], e, t)

\* OhciTraversalEngine::ProcessSingleTd; found says whether the lookup by
\* function address gave a device.
ProcessSingleTd(w, e, t, found) ==
    LET ep  == w.ed[e].endpoint
        key == <<w.ed[e].address, ep>>
        pid == IF w.ed[e].direction = "FromTd" THEN w.td[t].pid ELSE w.ed[e].direction
    IN  IF ~found \/ ~w.dev.connected THEN HaltOn(w, e, t, "DeviceNotResponding")
        ELSE CASE pid = "Setup" -> SetupTd(w, e, t, key)
               [] pid = "In" /\ ep = 0 -> ControlInTd(w, e, t, key)
               [] pid = "In" /\ ep # 0 -> InterruptInTd(w, e, t, ep)
               [] pid = "Out" /\ ep = 0 -> ControlOutTd(w, e, t, key)
               [] OTHER -> Retire(w, e, t)

-----------------------------------------------------------------------------
(* The lists.                                                               *)

\* One turn of the loop over endpoint e's TDs, of which it has seen p.seen.
TdTurn(p, e, found) ==
    LET t == p.w.ed[e].head
        s == ProcessSingleTd([p.w EXCEPT !.tds = @ + 1], e, t, found)
    IN  IF ~p.more \/ t = Null \/ t = p.w.ed[e].tail THEN [p EXCEPT !.more = FALSE]
        ELSE IF p.w.tds >= TdBudget \/ t \in p.seen
             THEN [p EXCEPT !.w.failed = TRUE, !.more = FALSE]
        ELSE [w |-> s, seen |-> p.seen \cup {t}, more |-> s.retired]

\* The TDs of one endpoint, until its queue is empty or a TD does not retire.
\* Every turn but the last counts a TD.
ProcessTds(w, e, found) ==
    LET loop[n \in 0 .. TdBudget + 1] ==
            IF n = 0 THEN [w |-> w, seen |-> {}, more |-> TRUE]
            ELSE TdTurn(loop[n - 1], e, found)
    IN  loop[TdBudget + 1].w

\* One turn of the loop over the EDs of a list, which has come to p.e.
EdTurn(p) ==
    LET x     == p.w.ed[p.e]
        idle  == x.skip \/ x.halted \/ x.head = x.tail
        found == port.attached /\ p.w.dev.address = x.address
    IN  IF p.e = Null \/ p.w.failed THEN p
        ELSE IF Cardinality(p.seen) >= EdBudget \/ p.e \in p.seen
             THEN [p EXCEPT !.w.failed = TRUE]
        ELSE [w |-> IF idle THEN p.w ELSE ProcessTds(p.w, p.e, found),
              seen |-> p.seen \cup {p.e}, e |-> x.next]

ProcessEds(w, head) ==
    LET loop[n \in 0 .. EdBudget + 1] ==
            IF n = 0 THEN [w |-> w, seen |-> {}, e |-> head] ELSE EdTurn(loop[n - 1])
    IN  loop[EdBudget + 1].w

\* Mutant: the done queue starts afresh for every list.
ProcessEndpointListForgets(w, head) ==
    ProcessEds([w EXCEPT !.tds = 0, !.acc = Null], head)

\* ProcessEndpointList: the budgets start afresh for every list, the done
\* queue accumulator does not.
ProcessEndpointList(w, head) == ProcessEds([w EXCEPT !.tds = 0], head)

\* Mutant: the periodic list does not fall back to the HCCA table.
ListHeadIgnoresHcca(l) ==
    CASE l = "periodic" -> hc.ptr["PeriodCurrentED"]
      [] l = "control" -> hc.ptr["ControlHeadED"]
      [] l = "bulk" -> hc.ptr["BulkHeadED"]

\* Where a list starts: the current pointer if set, the head otherwise; the
\* periodic list falls back to the HCCA table, whose odd slots hold Intr.
ListHead(l) ==
    LET either(cur, head) == IF hc.ptr[cur] # Null THEN hc.ptr[cur] ELSE hc.ptr[head]
    IN  CASE l = "periodic" ->
               IF hc.ptr["PeriodCurrentED"] # Null THEN hc.ptr["PeriodCurrentED"]
               ELSE IF hc.hcca /\ (hc.frame + 1) % 2 = 1 THEN Intr ELSE Null
          [] l = "control" -> either("ControlCurrentED", "ControlHeadED")
          [] l = "bulk" -> either("BulkCurrentED", "BulkHeadED")

RunList(w, l) ==
    IF w.failed \/ l \notin hc.lists THEN w ELSE ProcessEndpointList(w, ListHead(l))

\* The three lists in their order, sharing one done queue.
RunLists(w) == RunList(RunList(RunList(w, "periodic"), "control"), "bulk")

Newest(old, got) ==
    IF got = <<>> \/ got[Len(got)] = 0 THEN old ELSE got[Len(got)]

\* OhciController::ProcessFrame.  A list that fails ends the frame before the
\* done queue of the TDs already retired is published.
ProcessFrame ==
    LET w0 == [ed |-> ed, td |-> td, ses |-> ses, dev |-> dev, acc |-> Null,
               got |-> <<>>, tds |-> 0, retired |-> FALSE, failed |-> FALSE]
        w  == RunLists(w0)
        publish == ~w.failed /\ w.acc # Null
        sof == [hc EXCEPT !.frame = (@ + 1) % 2, !.int = @ \cup {"StartOfFrame"}]
    IN  IF hc.state # "Operational"
        THEN /\ hc' = sof
             /\ frameOk' = TRUE
             /\ UNCHANGED <<port, dev, ed, td, hccaDone, ses, polled>>
        ELSE /\ hc' = IF publish
                      THEN [sof EXCEPT !.doneHead = w.acc,
                                       !.int = @ \cup {"WritebackDoneHead"}]
                      ELSE sof
             /\ hccaDone' = IF publish /\ hc.hcca THEN w.acc ELSE hccaDone
             /\ ed' = w.ed /\ td' = w.td /\ ses' = w.ses /\ dev' = w.dev
             /\ polled' = Newest(polled, w.got)
             /\ frameOk' = ~w.failed
             /\ UNCHANGED port

-----------------------------------------------------------------------------
(* The registers.                                                           *)

RegistersReset ==
    [state |-> "Reset", lists |-> {}, int |-> {}, enable |-> {}, hcca |-> FALSE,
     ptr |-> [r \in PtrRegs |-> Null], doneHead |-> Null, frame |-> 0]

NoSession == [active |-> FALSE, req |-> "None", avail |-> 0]

\* OhciController::Reset: the port keeps its device, which is reset too.
HostControllerReset ==
    LET there == port.attached /\ dev.connected
    IN  /\ hc' = RegistersReset
        /\ ses' = [k \in Keys |-> NoSession]
        /\ port' = [port EXCEPT !.connect = there, !.connectChange = there,
                                !.enable = FALSE, !.resetChange = FALSE]
        /\ dev' = IF there THEN XidReset(dev) ELSE dev
        /\ UNCHANGED <<ed, td, hccaDone, frameOk, polled>>

\* WriteRegister: HcControl.
WriteControl(state, lists) ==
    /\ hc' = [hc EXCEPT !.state = state, !.lists = lists]
    /\ UNCHANGED <<port, dev, ed, td, hccaDone, ses, frameOk, polled>>

\* WriteRegister: HcInterruptStatus is write-one-to-clear.
WriteInterruptStatus(bits) ==
    /\ hc' = [hc EXCEPT !.int = @ \ bits]
    /\ UNCHANGED <<port, dev, ed, td, hccaDone, ses, frameOk, polled>>

\* WriteRegister: HcInterruptEnable and HcInterruptDisable.
WriteInterruptEnable(bits, set) ==
    /\ hc' = [hc EXCEPT !.enable = IF set THEN @ \cup bits ELSE @ \ bits]
    /\ UNCHANGED <<port, dev, ed, td, hccaDone, ses, frameOk, polled>>

\* WriteRegister: HcHCCA and the descriptor pointer registers.
WriteHcca ==
    /\ hc' = [hc EXCEPT !.hcca = TRUE]
    /\ UNCHANGED <<port, dev, ed, td, hccaDone, ses, frameOk, polled>>

WritePointer(reg, p) ==
    /\ hc' = [hc EXCEPT !.ptr[reg] = p]
    /\ UNCHANGED <<port, dev, ed, td, hccaDone, ses, frameOk, polled>>

\* CompletePortReset, and the write of a port status register around it.
WritePort(clear, reset, enable) ==
    LET resets == reset /\ port.connect
        p      == [port EXCEPT !.connectChange = @ /\ "connect" \notin clear,
                               !.resetChange = (@ /\ "reset" \notin clear) \/ resets,
                               !.enable = @ \/ resets \/ (enable /\ port.connect)]
    IN  /\ port' = p
        /\ dev' = IF resets /\ port.attached THEN XidReset(dev) ELSE dev
        /\ hc' = IF resets THEN [hc EXCEPT !.int = @ \cup {"RootHubStatusChange"}] ELSE hc
        /\ UNCHANGED <<ed, td, hccaDone, ses, frameOk, polled>>

\* AttachDevice of the gamepad, and DetachDevice.
AttachDevice ==
    /\ port' = [port EXCEPT !.attached = TRUE, !.connect = TRUE, !.connectChange = TRUE]
    /\ hc' = [hc EXCEPT !.int = @ \cup {"RootHubStatusChange"}]
    /\ UNCHANGED <<dev, ed, td, hccaDone, ses, frameOk, polled>>

DetachDevice ==
    /\ port' = [port EXCEPT !.attached = FALSE, !.connect = FALSE,
                            !.connectChange = TRUE, !.enable = FALSE]
    /\ hc' = [hc EXCEPT !.int = @ \cup {"RootHubStatusChange"}]
    /\ UNCHANGED <<dev, ed, td, hccaDone, ses, frameOk, polled>>

\* IsIrqAsserted: the line the interrupt controller samples.
IsIrqAsserted == "Master" \in hc.enable /\ hc.int \cap hc.enable # {}

\* Mutant: a snapshot that arrives late is taken for the newest.
SubmitSnapshotUnordered(seq, connected) ==
    /\ dev' = [dev EXCEPT !.lastSequence = seq, !.connected = connected, !.report = seq]
    /\ UNCHANGED <<hc, port, ed, td, hccaDone, ses, frameOk, polled>>

\* XidController::SubmitSnapshot: snapshots may arrive late, twice or never.
SubmitSnapshot(seq, connected) ==
    /\ seq > dev.lastSequence
    /\ dev' = [dev EXCEPT !.lastSequence = seq, !.connected = connected, !.report = seq]
    /\ UNCHANGED <<hc, port, ed, td, hccaDone, ses, frameOk, polled>>

-----------------------------------------------------------------------------
(* The guest driver.  It is not part of the repository: it follows the OHCI  *)
(* convention of a dummy TD at the tail of every queue, reuses a TD only     *)
(* when nothing refers to it, and walks the done queue after an interrupt.   *)

Elements(s) == {s[i] : i \in 1..Len(s)}

\* The TDs linked from p up to stop, each once.
QueueFrom(p, stop, t) ==
    LET walk[seen \in SUBSET TDs, q \in TDs \cup {Null}] ==
            IF q \in {Null, stop} \cup seen THEN <<>>
            ELSE <<q>> \o walk[seen \cup {q}, t[q].next]
    IN  walk[{}, p]

\* The TDs waiting on endpoint e, oldest first.
Queue(e, eds, tds) == QueueFrom(eds[e].head, eds[e].tail, tds)

\* The TDs of the done queue that starts at p, most recent first.
DoneChain(p, tds) == QueueFrom(p, Null, tds)

EmptyTd == [pid |-> "Out", req |-> "None", len |-> 0, bad |-> FALSE, delay |-> 0,
            next |-> Null, cc |-> "NotAccessed"]

InUse(eds, tds, done) ==
    Elements(DoneChain(done, tds))
      \cup UNION {Elements(Queue(e, eds, tds)) \cup {eds[e].tail} : e \in Eds}

\* The driver clears the TDs it no longer refers to.
Recycle(eds, tds, done) ==
    LET used == InUse(eds, tds, done)
    IN  [t \in TDs |-> IF t \in used THEN tds[t] ELSE EmptyTd]

QueueTd(e, x) ==
    LET free == TDs \ InUse(ed, td, hccaDone)
        n    == CHOOSE t \in free : TRUE
    IN  /\ free # {}
        /\ td' = [Recycle(ed, td, hccaDone) EXCEPT ![ed[e].tail] =
                    [pid |-> x.pid, req |-> x.req, len |-> x.len, bad |-> x.bad,
                     delay |-> x.delay, next |-> n, cc |-> "NotAccessed"]]
        /\ ed' = [ed EXCEPT ![e].tail = n]
        /\ UNCHANGED <<hc, port, dev, hccaDone, ses, frameOk, polled>>

\* Recovery from a halt: the failed TD is dropped and the endpoint goes on.
ResumeEndpoint(e) ==
    /\ ed[e].halted
    /\ ed' = [ed EXCEPT ![e].halted = FALSE, ![e].head = td[ed[e].head].next]
    /\ td' = Recycle(ed', td, hccaDone)
    /\ UNCHANGED <<hc, port, dev, hccaDone, ses, frameOk, polled>>

SkipEndpoint(e, skip) ==
    /\ ed' = [ed EXCEPT ![e].skip = skip]
    /\ UNCHANGED <<hc, port, dev, td, hccaDone, ses, frameOk, polled>>

\* The driver takes the done queue.  If it finds a completed SET_ADDRESS it
\* talks to the new address from then on.
TakeDone ==
    LET moved == \E t \in Elements(DoneChain(hccaDone, td)) : td[t].req = "SetAddress"
    IN  /\ "WritebackDoneHead" \in hc.int
        /\ hccaDone' = Null
        /\ ed' = [e \in Eds |-> IF moved THEN [ed[e] EXCEPT !.address = 1] ELSE ed[e]]
        /\ td' = Recycle(ed', td, Null)
        /\ UNCHANGED <<hc, port, dev, ses, frameOk, polled>>

-----------------------------------------------------------------------------
\* MachineSession's constructor has attached the gamepad to port 0, and the
\* driver has set the controller up and reset the port or is about to; the
\* control list is or is not circular.
UsbInit ==
    /\ hc \in {[RegistersReset EXCEPT !.int = {"RootHubStatusChange"}],
               [RegistersReset EXCEPT !.state = "Operational", !.lists = Lists,
                                      !.hcca = TRUE, !.ptr["ControlHeadED"] = Ctl,
                                      !.enable = {"Master", "WritebackDoneHead"}]}
    /\ port = [attached |-> TRUE, connect |-> TRUE, connectChange |-> TRUE,
               enable |-> FALSE, resetChange |-> FALSE]
    /\ dev = XidInit
    /\ td = [t \in TDs |-> EmptyTd]
    /\ \E loop \in {Null, Ctl} :
        LET d == CHOOSE d \in [Eds -> TDs] : d[Ctl] # d[Intr] IN
          ed = [e \in Eds |->
                  [address |-> 0, endpoint |-> IF e = Ctl THEN 0 ELSE 1,
                   direction |-> IF e = Ctl THEN "FromTd" ELSE "In",
                   head |-> d[e], tail |-> d[e], halted |-> FALSE, skip |-> FALSE,
                   next |-> IF e = Ctl THEN loop ELSE Null]]
    /\ hccaDone = Null
    /\ ses = [k \in Keys |-> NoSession]
    /\ frameOk = TRUE
    /\ polled = 0
    /\ left \in Budgets

\* The operations of the driver and of the user that a run explores.
Spend(kind) == left[kind] > 0 /\ left' = [left EXCEPT ![kind] = @ - 1]

WriteRegister ==
    \/ HostControllerReset
    \/ \E lists \in {{}, Lists} : WriteControl("Operational", lists)
    \/ WriteInterruptStatus(IntBits)
    \/ \E set \in BOOLEAN : WriteInterruptEnable({"Master", "WritebackDoneHead"}, set)
    \/ WriteHcca
    \/ \E w \in PtrWrites : WritePointer(w[1], w[2])
    \/ \E w \in PortWrites : WritePort(w.clear, w.reset, w.enable)

UsbNext ==
    \/ ProcessFrame /\ UNCHANGED left
    \/ Spend("registers") /\ WriteRegister
    \/ Spend("transfers") /\ \E e \in Eds : \E x \in Templates[e] : QueueTd(e, x)
    \/ \E e \in Eds : ResumeEndpoint(e) /\ UNCHANGED left
    \/ Spend("registers") /\ \E e \in Eds, skip \in BOOLEAN : SkipEndpoint(e, skip)
    \/ TakeDone /\ UNCHANGED left
    \/ Spend("host") /\ (AttachDevice \/ DetachDevice)
    \/ Spend("host") /\ \E seq \in 1..MaxSeq, connected \in BOOLEAN :
                            SubmitSnapshot(seq, connected)

\* The session runs a USB frame every kUsbFrameCycleInterval cycles, so frames
\* keep coming while the machine runs.  ProcessFrame is enabled in every state,
\* which makes this its weak fairness.
UsbSpec == /\ UsbInit /\ [][UsbNext]_usbVars
           /\ []<><<ProcessFrame>>_usbVars

-----------------------------------------------------------------------------
(* Properties.                                                              *)

Failures == {"InvalidDescriptor", "MemoryFault", "Stalled", "Disconnected",
             "BufferUnderrun", "DeviceNotResponding"}

\* Every TD a frame took off an endpoint queue.
RetiredOn(e) == SelectSeq(Queue(e, ed, td),
                          LAMBDA t : t \notin Elements(Queue(e, ed', td')))

Reported(e) == SelectSeq(RetiredOn(e), LAMBDA t : td[t].delay # 7)

Reverse(s) == [i \in 1..Len(s) |-> s[Len(s) + 1 - i]]

\* The done queue a frame publishes holds exactly the TDs that frame retired
\* and reports, each once, those of one endpoint most recent first, although
\* the TDs come from three lists and the link overwrites the very pointer the
\* endpoint queue hung by (ProcessSingleTd, ProcessFrame).  A frame that
\* retires nothing of the kind leaves the published queue alone.
DoneQueueIsTheFrame ==
    [][ ProcessFrame /\ frameOk' =>
          LET done == DoneChain(hc'.doneHead, td')
              mine == UNION {Elements(Reported(e)) : e \in Eds}
          IN  IF mine = {} THEN hc'.doneHead = hc.doneHead /\ hccaDone' = hccaDone
              ELSE /\ Elements(done) = mine
                   /\ Len(done) = Cardinality(mine)
                   /\ "WritebackDoneHead" \in hc'.int
                   /\ hc.hcca => hccaDone' = hc'.doneHead
                   /\ \A e \in Eds :
                        SelectSeq(done, LAMBDA t : t \in Elements(Reported(e)))
                          = Reverse(Reported(e)) ]_usbVars

\* A TD that failed is still the head of its endpoint queue, and that endpoint
\* is halted until the driver resumes it: no later TD overtakes a failed one,
\* and a halted endpoint always shows the driver why it stopped
\* (ProcessSingleTd's advance_and_retire).
FailedTdBlocksItsQueue ==
    \A e \in Eds :
      LET q == Queue(e, ed, td)
      IN  /\ ed[e].halted <=> (q # <<>> /\ td[q[1]].cc \in Failures)
          /\ \A i \in 2..Len(q) : td[q[i]].cc = "NotAccessed"

\* Host snapshots reach the guest in order: a report the guest polls is the
\* neutral one or at least as new as every report it polled before, although
\* snapshots arrive late or twice and a reset clears the report but not the
\* sequence (SubmitSnapshot, Reset).
ReportsNeverRetreat == [][polled' >= polled]_usbVars

\* As long as the controller runs the periodic list and the driver neither
\* skips the endpoint nor moves the list away, the interrupt endpoint's queue
\* empties or halts again and again: no TD waits for ever.
IntrServed == /\ hc.state = "Operational" /\ "periodic" \in hc.lists
              /\ hc.hcca \/ hc.ptr["PeriodCurrentED"] = Intr
              /\ hc.ptr["PeriodCurrentED"] \in {Null, Intr}
              /\ ~ed[Intr].skip
PolledTdSettles ==
    <>[]IntrServed => []<>(ed[Intr].head = ed[Intr].tail \/ ed[Intr].halted)

\* What the driver may rely on after enumeration: a gamepad that is plugged in
\* and connected answers every transfer addressed to it.  Violated: a request
\* without a data stage, SET_ADDRESS included, is completed but not handed to the device.
EnumeratedDeviceAnswers ==
    [][ ProcessFrame /\ port.attached /\ dev.connected =>
          \A e \in Eds : ed'[e].halted /\ ~ed[e].halted =>
             td'[ed'[e].head].cc # "DeviceNotResponding" ]_usbVars

=============================================================================

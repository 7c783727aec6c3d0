-------------------------- MODULE ExecutionProofs --------------------------
(***************************************************************************)
(* Theorems about what a slice of the machine executes.                    *)
(*                                                                         *)
(* EventScheduler, for any clock range, any number of events and any       *)
(* max_events: the indexes agree and events fire in order.                 *)
(*                                                                         *)
(* CpuStep, for every program, interrupt table and memory map: what a step *)
(* that faults leaves.  Every executor checks what may fail before it      *)
(* changes anything, DIV, CMPXCHG and INT excepted; a gate changes the     *)
(* context after the last word of its frame is written.                    *)
(***************************************************************************)
EXTENDS EventScheduler, CpuStep, TLAPS

-----------------------------------------------------------------------------
(* The event scheduler.                                                     *)

\* Ids grow, and the event fired last lies behind the clock and behind the target
\* of the run: what keeps newly scheduled events after it.
FiredBehind ==
    /\ \A e \in queue : e.id < nextId /\ e.id > 0
    /\ fired.id < nextId
    /\ fired.target <= clock
    /\ run.phase # "idle" => fired.target <= run.target

LimitInv ==
    /\ run.phase = "loop" => run.count <= run.limit
    /\ run.phase = "callback" => run.count < run.limit

\* The inductive invariant of the scheduler.
Inv == TypeOK /\ IndexesAgree /\ FiringOrder /\ FiredBehind /\ LimitInv

LEMMA InvInit == Init => Inv
  BY SchedulerAssumption
  DEF Init, Inv, TypeOK, IndexesAgree, FiringOrder, FiredBehind, LimitInv, Event, Ids

LEMMA InvStep == Inv /\ [Next]_vars => Inv'
  <1> SUFFICES ASSUME Inv, [Next]_vars PROVE Inv'
    OBVIOUS
  <1>0. TypeOK /\ IndexesAgree /\ FiringOrder /\ FiredBehind /\ LimitInv
    BY DEF Inv
  <1> USE SchedulerAssumption DEF book
  <1>1. ASSUME NEW delta \in 0 .. MaxCycle, AdvanceCycles(delta) PROVE Inv'
    BY <1>0, <1>1
    DEF AdvanceCycles, Inv, TypeOK, IndexesAgree, FiringOrder, FiredBehind, LimitInv, Ids, Before
  <1>2. ASSUME NEW t \in 0 .. MaxCycle, ScheduleEvent(t) PROVE Inv'
    <2> DEFINE e == Event(nextId, t)
    <2>1. /\ e \in [id : Nat, target : 0 .. MaxCycle] /\ e.id = nextId /\ e.target = t
          /\ queue' = queue \cup {e}
      BY <1>0, <1>2 DEF ScheduleEvent, Event, TypeOK
    <2> HIDE DEF e
    <2>2. TypeOK'
      BY <2>1, <1>0, <1>2 DEF ScheduleEvent, TypeOK
    <2>3. FiringOrder'
      BY <2>1, <1>0, <1>2 DEF ScheduleEvent, TypeOK, FiringOrder, FiredBehind, Before
    <2>4. FiredBehind' /\ LimitInv'
      BY <2>1, <1>0, <1>2 DEF ScheduleEvent, TypeOK, FiredBehind, LimitInv
    <2>5. IndexesAgree'
      <3>1. nextId \notin pendingIds \cup canceledIds
        BY <1>0 DEF IndexesAgree, FiredBehind, TypeOK, Ids
      <3>2. Ids' = Ids \cup {nextId}
        BY <2>1 DEF Ids
      <3>3. \A f, g \in queue' : f.id = g.id => f = g
        BY <2>1, <1>0 DEF IndexesAgree, FiredBehind, TypeOK
      <3> QED BY <3>1, <3>2, <3>3, <1>0, <1>2 DEF IndexesAgree, ScheduleEvent
    <2> QED BY <2>2, <2>3, <2>4, <2>5 DEF Inv
  <1>3. ASSUME NEW id \in pendingIds, CancelEvent(id) PROVE Inv'
    BY <1>0, <1>3
    DEF CancelEvent, Inv, TypeOK, IndexesAgree, FiringOrder, FiredBehind, LimitInv, Ids
  <1>4. ASSUME NEW t \in 0 .. MaxCycle, NEW l \in 0 .. MaxLimit, RunUntil(t, l) PROVE Inv'
    BY <1>0, <1>4
    DEF RunUntil, Inv, TypeOK, IndexesAgree, FiringOrder, FiredBehind, LimitInv, Ids
  <1>5. CASE DropCanceled
    <2>1. PICK e \in queue : /\ e.id \in canceledIds /\ queue' = queue \ {e}
                             /\ canceledIds' = canceledIds \ {e.id}
      BY <1>5 DEF DropCanceled
    <2>2. Ids' = Ids \ {e.id}
      BY <2>1, <1>0 DEF Ids, IndexesAgree
    <2>3. IndexesAgree'
      BY <2>1, <2>2, <1>0, <1>5 DEF DropCanceled, IndexesAgree
    <2> QED
      BY <2>1, <2>3, <1>0, <1>5
      DEF DropCanceled, Inv, TypeOK, FiringOrder, FiredBehind, LimitInv
  <1>6. CASE FireEvent
    <2>1. PICK e \in queue : /\ Due(e) /\ queue' = queue \ {e}
                             /\ pendingIds' = pendingIds \ {e.id}
                             /\ clock' = e.target /\ fired' = e
      BY <1>6 DEF FireEvent
    <2>2. Ids' = Ids \ {e.id}
      BY <2>1, <1>0 DEF Ids, IndexesAgree
    <2>3. IndexesAgree'
      BY <2>1, <2>2, <1>0, <1>6 DEF FireEvent, IndexesAgree, Due
    <2>4. FiringOrder'
      BY <2>1 DEF FiringOrder, Due, Top
    <2>5. TypeOK'
      BY <2>1, <1>0, <1>6 DEF FireEvent, TypeOK
    <2>6. FiredBehind' /\ LimitInv'
      BY <2>1, <1>0, <1>6 DEF FireEvent, TypeOK, FiredBehind, LimitInv, Due
    <2> QED BY <2>3, <2>4, <2>5, <2>6 DEF Inv
  <1>7. CASE CallbackReturns
    <2>1. run' = [phase |-> "loop", target |-> run.target, limit |-> run.limit, count |-> run.count + 1]
      BY <1>0, <1>7, Zenon DEF CallbackReturns, TypeOK
    <2>2. TypeOK'
      BY <2>1, <1>0, <1>7 DEF CallbackReturns, TypeOK
    <2>3. FiredBehind' /\ LimitInv'
      BY <2>1, <1>0, <1>7 DEF CallbackReturns, FiredBehind, LimitInv, TypeOK
    <2>4. IndexesAgree' /\ FiringOrder'
      BY <1>0, <1>7 DEF CallbackReturns, IndexesAgree, FiringOrder, Ids
    <2> QED BY <2>2, <2>3, <2>4 DEF Inv
  <1>8. CASE EventLimitReached \/ TargetReached
    <2>1. /\ UNCHANGED <<queue, pendingIds, canceledIds, nextId, fired>>
          /\ run' = [run EXCEPT !.phase = "idle"]
          /\ clock' \in {clock, run.target} /\ run.phase = "loop"
      BY <1>8 DEF EventLimitReached, TargetReached
    <2>2. TypeOK'
      BY <2>1, <1>0, <1>8 DEF EventLimitReached, TargetReached, TypeOK
    <2>3. FiredBehind' /\ LimitInv'
      BY <2>1, <1>0 DEF FiredBehind, LimitInv, TypeOK
    <2>4. IndexesAgree' /\ FiringOrder'
      BY <2>1, <1>0 DEF IndexesAgree, FiringOrder, Ids
    <2> QED BY <2>2, <2>3, <2>4 DEF Inv
  <1>9. CASE UNCHANGED vars
    BY <1>0, <1>9
    DEF vars, Inv, TypeOK, IndexesAgree, FiringOrder, FiredBehind, LimitInv, Ids
  <1>10. clock \in Nat
    BY <1>0 DEF TypeOK
  <1>11. ASSUME NEW delta \in 0 .. MaxCycle, NEW l \in 0 .. MaxLimit,
                ScheduleRelative(delta) \/ StepCycles(delta, l)
         PROVE Inv'
    <2>1. clock + delta \in 0 .. MaxCycle
      BY <1>10, <1>11 DEF ScheduleRelative, StepCycles
    <2> QED BY <2>1, <1>2, <1>4, <1>11 DEF ScheduleRelative, StepCycles
  <1>12. ASSUME NEW delta \in 0 .. MaxCycle, ScheduleRelative(delta) PROVE Inv'
    BY <1>11, <1>12
  <1> QED
    BY <1>1, <1>2, <1>3, <1>4, <1>5, <1>6, <1>7, <1>8, <1>9, <1>11, <1>12 DEF Next, Call, Loop

\* Events fire in the order (cycle, insertion) whatever callbacks and clients do,
\* although AdvanceCycles lets the clock pass pending events.
THEOREM Order == Spec => []FiringOrder
  BY InvInit, InvStep, PTL DEF Spec, Inv

\* The queue, pending_ids_ and canceled_ids_ never disagree.
THEOREM Indexes == Spec => []IndexesAgree
  BY InvInit, InvStep, PTL DEF Spec, Inv

\* max_events bounds the events of every run.
THEOREM Limit == Spec => []LimitRespected
  <1>1. Inv => LimitRespected
    BY DEF Inv, LimitInv, LimitRespected, TypeOK
  <1> QED BY <1>1, InvInit, InvStep, PTL DEF Spec

\* What RunUntil reports is true of the queue it leaves: at TargetReached no live event
\* up to the target is left although cancelled ones may hide it, and at
\* EventLimitReached exactly max_events were fired and one more is due.
THEOREM Outcomes == Spec => RunOutcome
  <1>1. Inv /\ [Next]_vars => [run.phase = "loop" /\ run'.phase = "idle" => RunReturns]_vars
    <2> SUFFICES ASSUME Inv, Next, run.phase = "loop", run'.phase = "idle" PROVE RunReturns
      OBVIOUS
    <2>0. TypeOK /\ IndexesAgree /\ LimitInv
      BY DEF Inv
    <2>1. EventLimitReached \/ TargetReached
      BY <2>0 DEF Next, Call, Loop, TypeOK, MayCall, AdvanceCycles, ScheduleEvent,
         ScheduleRelative, CancelEvent, RunUntil, StepCycles, DropCanceled, FireEvent,
         CallbackReturns
    <2>2. CASE EventLimitReached
      <3>1. PICK e \in queue : Due(e)
        BY <2>2 DEF EventLimitReached
      <3>2. e \in Live /\ e.target <= run.target
        BY <3>1, <2>0 DEF Due, Live, IndexesAgree, Ids
      <3>3. run.count = run.limit
        BY <2>0, <2>2 DEF EventLimitReached, LimitInv, TypeOK
      <3> QED BY <3>2, <3>3, <2>2 DEF EventLimitReached, RunReturns
    <2>3. CASE TargetReached
      <3>1. ASSUME NEW e \in Live PROVE e.target > run.target
        <4>1. PICK f \in queue : Top(f) /\ f.target > run.target
          BY <3>1, <2>3 DEF TargetReached, Live
        <4> QED BY <3>1, <4>1, <2>0 DEF Top, Before, Live, TypeOK
      <3> QED BY <3>1, <2>3 DEF TargetReached, RunReturns
    <2> QED BY <2>1, <2>2, <2>3
  <1> QED BY <1>1, InvInit, InvStep, PTL DEF Spec, RunOutcome

\* Lazy cancellation, the id sets and the loop of RunUntil implement the agenda:
\* every step of the scheduler adds, removes or fires the earliest live event, or
\* leaves the agenda alone.
THEOREM Refinement == Spec => ImplementsAgenda
  <1>1. Init => Agenda!AgendaInit
    BY DEF Init, Agenda!AgendaInit, Live, Event
  <1>2. Inv /\ [Next]_vars => [Agenda!AgendaNext]_(Agenda!agendaVars)
    <2> SUFFICES ASSUME Inv, [Next]_vars
                 PROVE Agenda!AgendaNext \/ (Live' = Live /\ fired' = fired)
      BY DEF Agenda!agendaVars
    <2>0. TypeOK /\ IndexesAgree /\ FiringOrder /\ FiredBehind
      BY DEF Inv
    <2>1. ASSUME UNCHANGED <<queue, pendingIds, fired>> PROVE Live' = Live /\ fired' = fired
      BY <2>1 DEF Live
    <2>2. ASSUME NEW t \in 0 .. MaxCycle, ScheduleEvent(t) PROVE Agenda!Add
      <3> DEFINE e == Event(nextId, t)
      <3>1. e \in Agenda!Events /\ e.id = nextId /\ e.target = t
        BY <2>0, <2>2 DEF ScheduleEvent, Event, TypeOK, Agenda!Events
      <3>2. queue' = queue \cup {e} /\ pendingIds' = pendingIds \cup {nextId} /\ fired' = fired
        BY <2>2 DEF ScheduleEvent
      <3> HIDE DEF e
      <3>3. \A f \in queue : f.id < e.id
        BY <3>1, <2>0 DEF FiredBehind
      <3>4. Agenda!Before(fired, e)
        BY <3>1, <2>0, <2>2, SchedulerAssumption
        DEF FiredBehind, ScheduleEvent, TypeOK, Agenda!Before
      <3>5. Live' = Live \cup {e}
        BY <3>1, <3>2, <3>3, <2>0 DEF Live, TypeOK
      <3>6. \A f \in Live : f.id < e.id
        BY <3>3 DEF Live
      <3> QED BY <3>1, <3>2, <3>4, <3>5, <3>6 DEF Agenda!Add
    <2>3. ASSUME NEW id \in pendingIds, CancelEvent(id) PROVE Agenda!Remove
      <3>1. PICK e \in queue : e.id = id
        BY <2>0 DEF IndexesAgree, Ids
      <3>2. e \in Live /\ Live' = Live \ {e} /\ fired' = fired
        BY <3>1, <2>0, <2>3 DEF CancelEvent, Live, IndexesAgree
      <3> QED BY <3>2 DEF Agenda!Remove
    <2>4. CASE DropCanceled
      <3>1. Live' = Live /\ fired' = fired
        BY <2>0, <2>4 DEF DropCanceled, Live, IndexesAgree
      <3> QED BY <3>1
    <2>5. CASE FireEvent
      <3>1. PICK e \in queue : /\ Due(e) /\ queue' = queue \ {e}
                               /\ pendingIds' = pendingIds \ {e.id} /\ fired' = e
        BY <2>5 DEF FireEvent
      <3>2. e \in Live
        BY <3>1, <2>0 DEF Due, Live, IndexesAgree, Ids
      <3>3. Live' = Live \ {e}
        BY <3>1, <2>0 DEF Live, IndexesAgree
      <3>4. \A f \in Live \ {e} : Agenda!Before(e, f)
        BY <3>1 DEF Due, Top, Live, Before, Agenda!Before
      <3> QED BY <3>1, <3>2, <3>3, <3>4 DEF Agenda!AgendaNext, Agenda!Fire
    <2>6. ASSUME NEW delta \in 0 .. MaxCycle, ScheduleRelative(delta) PROVE Agenda!Add
      <3>1. clock + delta \in 0 .. MaxCycle
        BY <2>0, <2>6, SchedulerAssumption DEF ScheduleRelative, TypeOK
      <3> QED BY <3>1, <2>2, <2>6 DEF ScheduleRelative
    <2>7. CASE CallbackReturns \/ EventLimitReached \/ TargetReached \/ UNCHANGED vars
      BY <2>7, <2>1 DEF CallbackReturns, EventLimitReached, TargetReached, vars, book
    <2>8. ASSUME NEW t, NEW l, AdvanceCycles(t) \/ RunUntil(t, l) \/ StepCycles(t, l)
          PROVE Live' = Live /\ fired' = fired
      BY <2>8, <2>1 DEF AdvanceCycles, RunUntil, StepCycles, book
    <2>9. ASSUME NEW t, AdvanceCycles(t) PROVE Live' = Live /\ fired' = fired
      BY <2>8, <2>9
    <2> QED
      BY <2>2, <2>3, <2>4, <2>5, <2>6, <2>7, <2>8, <2>9 DEF Next, Call, Loop, Agenda!AgendaNext
  <1> QED
    BY <1>1, <1>2, InvInit, InvStep, PTL DEF Spec, ImplementsAgenda, Agenda!AgendaSpec

-----------------------------------------------------------------------------
(* An instruction that faults leaves no trace.                              *)

\* x is s but for the page fault the memory remembers.
Quiet(x, s) == [x EXCEPT !.pf = NoPageFault] = [s EXCEPT !.pf = NoPageFault]

\* What an executor outside LeavesPart returns: with an error it has changed nothing, and
\* it raises no exception.
Clean(r, s) ==
    /\ r.err # "none" => Quiet(r.s, s)
    /\ r.err = "none" => r.exc = NoException

\* A refused memory access is clean.
LEMMA DeniedClean == \A s, a : Clean(Denied(s, a), s)
  BY DEF Clean, Denied, Fail, Result, Quiet, NoException

\* So is an error found before anything was changed,
LEMMA FailClean == \A s, err : err # "none" => Clean(Fail(s, err), s)
  BY DEF Clean, Fail, Result, Quiet, NoException

\* and an instruction that succeeds, however it ends.
LEMMA FallClean == \A s, x : Clean(Fall(x), s)
  BY DEF Clean, Fall, Result, NoException

\* A taken branch is a success.
LEMMA BranchClean == \A s, x, t : Clean(Branch(x, t), s)
  BY DEF Clean, Branch, Result, NoException

\* So is HLT.
LEMMA HaltClean == \A s, x : Clean(Halt(x), s)
  BY DEF Clean, Halt, Result, NoException

\* A push changes ESP only once the word is written.
LEMMA PushWordClean == \A s, v : Clean(PushWord(s, v), s)
  BY DeniedClean, FallClean, Zenon DEF PushWord

\* The moves: both accesses are checked before the write.
LEMMA DataClean == \A s, i : Clean(ExecuteData(s, i), s)
  BY DeniedClean, FallClean, Zenon DEF ExecuteData

\* The ALU instructions: the flags come after the write.
LEMMA AluClean == \A s, i : Clean(ExecuteAlu(s, i), s)
  BY DeniedClean, FallClean, Zenon DEF ExecuteAlu

\* Jumps.
LEMMA BranchInstructionClean == \A s, i : Clean(ExecuteBranch(s, i), s)
  BY FallClean, BranchClean, Zenon DEF ExecuteBranch

\* IRET reads its whole frame before it changes the context.
LEMMA IretClean == \A s : Clean(ExecuteIret(s), s)
  BY DeniedClean, FailClean, BranchClean, Zenon DEF ExecuteIret

\* One element of a string instruction.
LEMMA ElementClean == \A s, i : Clean(StringElement(s, i), s)
<1> SUFFICES ASSUME NEW s, NEW i
             PROVE  Clean(StringElement(s, i), s)
  OBVIOUS
<1>1. (\E a : StringElement(s, i) = Denied(s, a)) \/ (\E x : StringElement(s, i) = Fall(x))
  BY Zenon DEF StringElement
<1> QED
  BY <1>1, DeniedClean, FallClean, Zenon

\* A step of a string instruction: ECX is counted down once the element is done.
LEMMA StringClean == \A s, i : Clean(ExecuteString(s, i), s)
  BY ElementClean, FallClean, BranchClean, Zenon DEF ExecuteString

\* XCHG.
LEMMA XchgClean == \A s, i : i.id = "Xchg" => Clean(ExecuteAtomic(s, i), s)
  BY DeniedClean, FallClean, Zenon DEF ExecuteAtomic

\* The stack instructions.
LEMMA StackClean ==
  \A s, i : i.id \in {"Push", "Pop", "Pushf", "Popf", "Call", "Ret"} => Clean(ExecuteStack(s, i), s)
<1> SUFFICES ASSUME NEW s, NEW i, i.id \in {"Push", "Pop", "Pushf", "Popf", "Call", "Ret"}
             PROVE  Clean(ExecuteStack(s, i), s)
  OBVIOUS
<1>1. CASE i.id = "Push"
  BY <1>1, DeniedClean, PushWordClean, Zenon DEF ExecuteStack
<1>2. CASE i.id = "Pushf"
  BY <1>2, PushWordClean, Zenon DEF ExecuteStack
<1>3. CASE i.id = "Call"
  BY <1>3, PushWordClean, BranchClean, Zenon DEF ExecuteStack
<1>4. CASE i.id = "Pop"
  BY <1>4, DeniedClean, FallClean, Zenon DEF ExecuteStack
<1>5. CASE i.id = "Popf"
  BY <1>5, DeniedClean, FallClean, Zenon DEF ExecuteStack
<1>6. CASE i.id = "Ret"
  BY <1>6, DeniedClean, BranchClean, Zenon DEF ExecuteStack
<1> QED
  BY <1>1, <1>2, <1>3, <1>4, <1>5, <1>6

\* The interrupt instructions other than INT.
LEMMA FlagClean ==
  \A s, i : i.id \in {"Cli", "Sti", "Iret"} => Clean(ExecuteInterruptInstruction(s, i), s)
<1> SUFFICES ASSUME NEW s, NEW i, i.id \in {"Cli", "Sti", "Iret"}
             PROVE  Clean(ExecuteInterruptInstruction(s, i), s)
  OBVIOUS
<1>1. CASE i.id = "Cli"
  BY <1>1, FallClean, Zenon DEF ExecuteInterruptInstruction
<1>2. CASE i.id = "Sti"
  BY <1>2, FallClean, Zenon DEF ExecuteInterruptInstruction
<1>3. CASE i.id = "Iret"
  BY <1>3, IretClean, Zenon DEF ExecuteInterruptInstruction
<1> QED
  BY <1>1, <1>2, <1>3

\* Every instruction outside LeavesPart.
LEMMA DispatchClean ==
  \A s, i : i.id \in Instructions \ {"Unknown", "Unsupported"} /\ ~LeavesPart(i)
              => Clean(Dispatch(s, i), s)
<1> SUFFICES ASSUME NEW s, NEW i, i.id \in Instructions \ {"Unknown", "Unsupported"}, ~LeavesPart(i)
             PROVE  Clean(Dispatch(s, i), s)
  OBVIOUS
<1>1. CASE i.id = "Nop"
  BY <1>1, FallClean, Zenon DEF Dispatch
<1>9. CASE i.id = "Hlt"
  BY <1>9, HaltClean, Zenon DEF Dispatch
<1>10. CASE i.id = "Std"
  BY <1>10, FallClean, Zenon DEF Dispatch
<1>11. CASE i.id = "Cld"
  BY <1>11, FallClean, Zenon DEF Dispatch
<1>2. CASE i.id = "Mov"
  BY <1>2, DataClean, Zenon DEF Dispatch
<1>3. CASE i.id \in {"Push", "Pop", "Pushf", "Popf", "Call", "Ret"}
  <2>1. Dispatch(s, i) = ExecuteStack(s, i)
    BY <1>3, Zenon DEF Dispatch
  <2> QED
    BY <1>3, <2>1, StackClean
<1>4. CASE i.id \in {"Dec", "Cmp"}
  <2>1. Dispatch(s, i) = ExecuteAlu(s, i)
    BY <1>4, Zenon DEF Dispatch
  <2> QED
    BY <1>4, <2>1, AluClean, Zenon
<1>5. CASE i.id \in {"Movs", "Stos", "Lods", "Cmps", "Scas"}
  <2>1. Dispatch(s, i) = ExecuteString(s, i)
    BY <1>5, Zenon DEF Dispatch
  <2> QED
    BY <2>1, StringClean, Zenon
<1>6. CASE i.id = "Xchg"
  BY <1>6, XchgClean, Zenon DEF Dispatch
<1>7. CASE i.id \in {"Jmp", "Jcc"}
  <2>1. Dispatch(s, i) = ExecuteBranch(s, i)
    BY <1>7, Zenon DEF Dispatch
  <2> QED
    BY <1>7, <2>1, BranchInstructionClean, Zenon
<1>8. CASE i.id \in {"Cli", "Sti", "Iret"}
  <2>1. Dispatch(s, i) = ExecuteInterruptInstruction(s, i)
    BY <1>8, Zenon DEF Dispatch
  <2> QED
    BY <1>8, <2>1, FlagClean
<1> QED
  BY <1>1, <1>2, <1>3, <1>4, <1>5, <1>6, <1>7, <1>8, <1>9, <1>10, <1>11 DEF Instructions, LeavesPart

\* The machine that runs is one of those given.
Chosen == \E k \in DOMAIN Systems : sys = Systems[k]

\* The four things RunInstruction does with what it decodes.
LEMMA DecodedFacts ==
  ASSUME Chosen, NEW s
  PROVE  \/ Decoded(s).id = "unfetchable" /\ RunInstruction(s) = Denied(s, s.eip)
         \/ Decoded(s).id = "Unknown" /\ RunInstruction(s) = Fail(s, "InvalidOpcode")
         \/ Decoded(s).id = "Unsupported" /\ RunInstruction(s) = Fail(s, "UnsupportedFeature")
         \/ /\ Decoded(s).id \in Instructions \ {"Unknown", "Unsupported"}
            /\ RunInstruction(s) = Dispatch(s, Decoded(s))
<1> DEFINE i == Decoded(s)
<1>1. i.id \in Instructions \cup {"unfetchable"}
  BY CpuAssumption DEF Chosen, Decoded
<1>2. CASE i.id = "unfetchable"
  BY <1>2, Zenon DEF RunInstruction
<1>3. CASE i.id = "Unknown"
  BY <1>3, Zenon DEF RunInstruction
<1>4. CASE i.id = "Unsupported"
  BY <1>4, Zenon DEF RunInstruction
<1>5. CASE i.id \in Instructions \ {"Unknown", "Unsupported"}
  <2>1. i.id \notin {"unfetchable", "Unknown", "Unsupported"}
    BY <1>5 DEF Instructions
  <2>2. RunInstruction(s) = Dispatch(s, i)
    BY <2>1 DEF RunInstruction
  <2> QED
    BY <1>5, <2>2
<1> QED
  BY <1>1, <1>2, <1>3, <1>4, <1>5

\* A fault of RunInstruction outside LeavesPart is clean.
LEMMA RunClean ==
  ASSUME Chosen, NEW s, ~LeavesPart(Decoded(s))
  PROVE  Clean(RunInstruction(s), s)
BY DecodedFacts, DeniedClean, FailClean, DispatchClean

-----------------------------------------------------------------------------
(* The machine stays a machine.                                             *)

\* x has the fields of a machine.
IsMachine(x) == DOMAIN x = MachineFields

\* A register, a word of memory, an operand, the flags, EIP or the page fault may
\* change: a machine stays a machine.
LEMMA SetGprShape == \A s, r, v : IsMachine(s) => IsMachine(SetGpr(s, r, v))
  BY DEF IsMachine, SetGpr

\* Memory and the device registers.
LEMMA StoreShape == \A s, a, v : IsMachine(s) => IsMachine(Store(s, a, v))
  BY DEF IsMachine, Store

\* An operand.
LEMMA WriteOpShape == \A s, op, v : IsMachine(s) => IsMachine(WriteOp(s, op, v))
  BY SetGprShape, StoreShape, Zenon DEF WriteOp

\* The flags.
LEMMA FlagShape == \A s, v : IsMachine(s) => IsMachine([s EXCEPT !.fl = v])
  BY DEF IsMachine

\* EIP.
LEMMA EipShape == \A s, v : IsMachine(s) => IsMachine([s EXCEPT !.eip = v])
  BY DEF IsMachine

\* The page fault.
LEMMA PfShape == \A s, v : IsMachine(s) => IsMachine([s EXCEPT !.pf = v])
  BY DEF IsMachine

\* A result holds the machine it is given.
LEMMA ResultShape ==
  \A x, a : IsMachine(x) => /\ IsMachine(Fall(x).s) /\ IsMachine(Branch(x, a).s)
                             /\ IsMachine(Halt(x).s) /\ IsMachine(Fail(x, a).s)
                             /\ IsMachine(Except(x, a).s) /\ IsMachine(Denied(x, a).s)
<1> SUFFICES ASSUME NEW x, NEW a, IsMachine(x)
             PROVE  /\ IsMachine(Fall(x).s) /\ IsMachine(Branch(x, a).s)
                    /\ IsMachine(Halt(x).s) /\ IsMachine(Fail(x, a).s)
                    /\ IsMachine(Except(x, a).s) /\ IsMachine(Denied(x, a).s)
  OBVIOUS
<1>1. Denied(x, a).s = [x EXCEPT !.pf = a]
  BY DEF Denied, Fail, Result
<1>2. Fall(x).s = x /\ Branch(x, a).s = x /\ Halt(x).s = x
  BY DEF Fall, Branch, Halt, Result
<1>3. Fail(x, a).s = x /\ Except(x, a).s = x
  BY DEF Fail, Except, Result
<1>4. IsMachine([x EXCEPT !.pf = a])
  BY PfShape
<1> QED
  BY <1>1, <1>2, <1>3, <1>4, Zenon

\* The executors one by one: each returns a machine.  PUSH,
LEMMA PushWordShape == \A s, v : IsMachine(s) => IsMachine(PushWord(s, v).s)
  BY ResultShape, SetGprShape, StoreShape, Zenon DEF PushWord

\* MOV,
LEMMA DataShape == \A s, i : IsMachine(s) => IsMachine(ExecuteData(s, i).s)
  BY ResultShape, WriteOpShape, Zenon DEF ExecuteData

\* the ALU,
LEMMA AluShape == \A s, i : IsMachine(s) => IsMachine(ExecuteAlu(s, i).s)
<1> SUFFICES ASSUME NEW s, NEW i, IsMachine(s)
             PROVE  IsMachine(ExecuteAlu(s, i).s)
  OBVIOUS
<1> DEFINE a == ReadOp(s, i.dst)
           out == IF i.id = "Dec" THEN a - 1 ELSE a - ReadOp(s, i.src)
           written == IF i.id = "Dec" THEN WriteOp(s, i.dst, out) ELSE s
           flagged == [written EXCEPT !.fl = SetFlag(@, ZF, out = 0)]
<1>1. (\E x : ExecuteAlu(s, i) = Denied(s, x)) \/ ExecuteAlu(s, i) = Fall(flagged)
  BY Zenon DEF ExecuteAlu
<1>2. IsMachine(written)
  BY WriteOpShape, Zenon
<1> HIDE DEF written
<1>3. IsMachine(flagged)
  BY <1>2 DEF IsMachine
<1> HIDE DEF flagged
<1> QED
  BY <1>1, <1>3, ResultShape, Zenon

\* DIV,
LEMMA DivShape == \A s, i : IsMachine(s) => IsMachine(ExecuteDiv(s, i).s)
  BY ResultShape, SetGprShape, Zenon DEF ExecuteDiv

\* the stack instructions,
LEMMA StackShape ==
  \A s, i : IsMachine(s) /\ i.id \in {"Push", "Pop", "Pushf", "Popf", "Call", "Ret"}
              => IsMachine(ExecuteStack(s, i).s)
<1> SUFFICES ASSUME NEW s, NEW i, IsMachine(s),
                    i.id \in {"Push", "Pop", "Pushf", "Popf", "Call", "Ret"}
             PROVE  IsMachine(ExecuteStack(s, i).s)
  OBVIOUS
<1>1. CASE i.id = "Push"
  BY <1>1, ResultShape, PushWordShape, Zenon DEF ExecuteStack
<1>2. CASE i.id = "Pushf"
  BY <1>2, PushWordShape, Zenon DEF ExecuteStack
<1>3. CASE i.id = "Call"
  BY <1>3, PushWordShape, ResultShape, Zenon DEF ExecuteStack
<1>4. CASE i.id = "Pop"
  BY <1>4, ResultShape, WriteOpShape, SetGprShape, Zenon DEF ExecuteStack
<1>5. CASE i.id = "Popf"
  BY <1>5, ResultShape, SetGprShape, FlagShape, Zenon DEF ExecuteStack
<1>6. CASE i.id = "Ret"
  BY <1>6, ResultShape, SetGprShape, Zenon DEF ExecuteStack
<1> QED
  BY <1>1, <1>2, <1>3, <1>4, <1>5, <1>6

\* the string instructions, which set ESI and EDI,
LEMMA IndexShape ==
  \A s, a, b : IsMachine(s) => IsMachine([s EXCEPT !.gpr["esi"] = a, !.gpr["edi"] = b])
  BY DEF IsMachine

\* for one element
LEMMA ElementShape == \A s, i : IsMachine(s) => IsMachine(StringElement(s, i).s)
<1> SUFFICES ASSUME NEW s, NEW i, IsMachine(s)
             PROVE  IsMachine(StringElement(s, i).s)
  OBVIOUS
<1> DEFINE src == Gpr(s, "esi")
           dst == Gpr(s, "edi")
           value == IF i.id \in {"Movs", "Lods"} THEN s.mem[src] ELSE Gpr(s, "eax")
           equal == IF i.id = "Cmps" THEN s.mem[src] = s.mem[dst] ELSE value = s.mem[dst]
           wrote == CASE i.id \in {"Movs", "Stos"} -> Store(s, dst, value)
                      [] i.id = "Lods" -> SetGpr(s, "eax", value)
                      [] OTHER -> [s EXCEPT !.fl = SetFlag(@, ZF, equal)]
<1>1. \/ \E a : StringElement(s, i) = Denied(s, a)
      \/ \E a, b : StringElement(s, i) = Fall([wrote EXCEPT !.gpr["esi"] = a, !.gpr["edi"] = b])
  BY Zenon DEF StringElement
<1>2. IsMachine(wrote)
  BY StoreShape, SetGprShape, FlagShape, Zenon
<1> HIDE DEF wrote
<1> QED
  BY <1>1, <1>2, IndexShape, ResultShape, Zenon

\* and for a step,
LEMMA StringShape == \A s, i : IsMachine(s) => IsMachine(ExecuteString(s, i).s)
  BY ElementShape, ResultShape, SetGprShape, Zenon DEF ExecuteString

\* XCHG and CMPXCHG,
LEMMA AtomicShape == \A s, i : IsMachine(s) => IsMachine(ExecuteAtomic(s, i).s)
  BY ResultShape, WriteOpShape, SetGprShape, FlagShape, Zenon DEF ExecuteAtomic

\* the jumps,
LEMMA BranchShape == \A s, i : IsMachine(s) => IsMachine(ExecuteBranch(s, i).s)
  BY ResultShape, Zenon DEF ExecuteBranch

\* IRET,
LEMMA IretShape == \A s : IsMachine(s) => IsMachine(ExecuteIret(s).s)
<1> SUFFICES ASSUME NEW s, IsMachine(s) PROVE IsMachine(ExecuteIret(s).s)
  OBVIOUS
<1>1. \A x, a, b, c : IsMachine(x) => IsMachine([x EXCEPT !.eip = a, !.cs = b, !.fl = c])
  BY DEF IsMachine
<1> QED
  BY <1>1, ResultShape, SetGprShape, Zenon DEF ExecuteIret

\* a word of a frame,
LEMMA WordShape == \A r, a, v : IsMachine(r.s) => IsMachine(WriteWord(r, a, v).s)
  BY ResultShape, StoreShape, Zenon DEF WriteWord

\* a frame,
LEMMA FrameShape == \A s, return : IsMachine(s) => IsMachine(PushFrame(s, return).s)
  BY WordShape, ResultShape, SetGprShape, Zenon DEF PushFrame

\* a gate,
LEMMA GateShape == \A s, v, q, a : IsMachine(s) => IsMachine(DeliverGate(s, v, q, a).s)
<1> SUFFICES ASSUME NEW s, NEW v, NEW q, NEW a, IsMachine(s)
             PROVE  IsMachine(DeliverGate(s, v, q, a).s)
  OBVIOUS
<1>1. \A x, b, c : IsMachine(x) => IsMachine([x EXCEPT !.cs = b, !.eip = c])
  BY DEF IsMachine
<1> QED
  BY <1>1, FrameShape, ResultShape, FlagShape, Zenon DEF DeliverGate

\* the trap handler
LEMMA TrapShape == \A s : IsMachine(s) => IsMachine(TrapHandler(s).s)
  BY EipShape, ResultShape, SetGprShape, Zenon DEF TrapHandler

\* and the interrupt instructions.
LEMMA InterruptShape ==
  \A s, i : IsMachine(s) => IsMachine(ExecuteInterruptInstruction(s, i).s)
  BY FlagShape, ResultShape, IretShape, TrapShape, GateShape, Zenon DEF ExecuteInterruptInstruction

\* Every instruction returns a machine.
LEMMA DispatchShape ==
  \A s, i : IsMachine(s) /\ i.id \in Instructions \ {"Unknown", "Unsupported"}
              => IsMachine(Dispatch(s, i).s)
<1> SUFFICES ASSUME NEW s, NEW i, IsMachine(s), i.id \in Instructions \ {"Unknown", "Unsupported"}
             PROVE  IsMachine(Dispatch(s, i).s)
  OBVIOUS
<1>1. CASE i.id = "Nop"
  BY <1>1, ResultShape, Zenon DEF Dispatch
<1>2. CASE i.id = "Hlt"
  BY <1>2, ResultShape, Zenon DEF Dispatch
<1>3. CASE i.id = "Std"
  BY <1>3, ResultShape, FlagShape, Zenon DEF Dispatch
<1>4. CASE i.id = "Cld"
  BY <1>4, ResultShape, FlagShape, Zenon DEF Dispatch
<1>5. CASE i.id = "Mov"
  BY <1>5, DataShape, Zenon DEF Dispatch
<1>6. CASE i.id = "Div"
  BY <1>6, DivShape, Zenon DEF Dispatch
<1>7. CASE i.id \in {"Push", "Pop", "Pushf", "Popf", "Call", "Ret"}
  <2>1. Dispatch(s, i) = ExecuteStack(s, i)
    BY <1>7, Zenon DEF Dispatch
  <2> QED
    BY <1>7, <2>1, StackShape
<1>8. CASE i.id \in {"Dec", "Cmp"}
  <2>1. Dispatch(s, i) = ExecuteAlu(s, i)
    BY <1>8, Zenon DEF Dispatch
  <2> QED
    BY <2>1, AluShape, Zenon
<1>9. CASE i.id \in {"Movs", "Stos", "Lods", "Cmps", "Scas"}
  <2>1. Dispatch(s, i) = ExecuteString(s, i)
    BY <1>9, Zenon DEF Dispatch
  <2> QED
    BY <2>1, StringShape, Zenon
<1>10. CASE i.id \in {"Xchg", "Cmpxchg"}
  <2>1. Dispatch(s, i) = ExecuteAtomic(s, i)
    BY <1>10, Zenon DEF Dispatch
  <2> QED
    BY <2>1, AtomicShape, Zenon
<1>11. CASE i.id \in {"Jmp", "Jcc"}
  <2>1. Dispatch(s, i) = ExecuteBranch(s, i)
    BY <1>11, Zenon DEF Dispatch
  <2> QED
    BY <2>1, BranchShape, Zenon
<1>12. CASE i.id \in {"Cli", "Sti", "Iret", "Int"}
  <2>1. Dispatch(s, i) = ExecuteInterruptInstruction(s, i)
    BY <1>12, Zenon DEF Dispatch
  <2> QED
    BY <2>1, InterruptShape, Zenon
<1> QED
  BY <1>1, <1>2, <1>3, <1>4, <1>5, <1>6, <1>7, <1>8, <1>9, <1>10, <1>11, <1>12 DEF Instructions

\* So does decoding and running one,
LEMMA RunShape ==
  ASSUME Chosen, NEW s, IsMachine(s)
  PROVE  IsMachine(RunInstruction(s).s)
BY DecodedFacts, ResultShape, DispatchShape, Zenon

\* and delivering its exception or committing its EIP.
LEMMA OutcomeShape ==
  ASSUME NEW s, IsMachine(s), NEW r, IsMachine(r.s)
  PROVE  IsMachine(InstructionOutcome(s, r).s)
<1>1. IsMachine(Commit(s, r))
  BY EipShape, Zenon DEF Commit
<1>2. IsMachine(DeliverGate(r.s, DivideVector, FALSE, r.exc.eip).s)
  BY GateShape, Zenon
<1> QED
  BY <1>1, <1>2 DEF InstructionOutcome

\* The inductive invariant: a machine of those given, with the fields of a machine.
CpuInv == Chosen /\ IsMachine(m)

\* Every reachable state satisfies the invariant (Cpu::Step, Cpu::Reset).
THEOREM CpuInvariant == CpuSpec => []CpuInv
<1>1. CpuInit => CpuInv
  BY CpuAssumption DEF CpuInit, PowerOn, CpuInv, Chosen, IsMachine
<1>2. CpuInv /\ [CpuNext]_cpuVars => CpuInv'
  <2> SUFFICES ASSUME Chosen, IsMachine(m), [CpuNext]_cpuVars
               PROVE  sys' = sys /\ IsMachine(m')
    BY DEF CpuInv, Chosen
  <2>1. CASE StepInterrupt
    BY <2>1, GateShape, Zenon DEF StepInterrupt
  <2>2. CASE StepInstruction
    <3>1. m' = InstructionOutcome(m, RunInstruction(m)).s /\ sys' = sys
      BY <2>2, Zenon DEF StepInstruction
    <3> QED
      BY <3>1, RunShape, OutcomeShape, Zenon
  <2>3. CASE \E line \in {"gpu", "usb"} : RaiseLine(line)
    BY <2>3 DEF RaiseLine, IsMachine
  <2>4. CASE Reset
    <3>1. DOMAIN sys.start = MachineFields
      BY CpuAssumption DEF Chosen
    <3> QED
      BY <2>4, <3>1 DEF Reset, IsMachine
  <2>5. CASE UNCHANGED cpuVars
    BY <2>5 DEF cpuVars
  <2> QED
    BY <2>1, <2>2, <2>3, <2>4, <2>5 DEF CpuNext
<1> QED
  BY <1>1, <1>2, PTL DEF CpuSpec

\* What FaultLeavesNoTrace says of one step.
Untraced ==
    lifecycle = "Running" /\ lifecycle' = "Faulted" /\ ~AtBoundary /\ ~LeavesPart(Decoded(m))
        => [m' EXCEPT !.pf = NoPageFault] = [m EXCEPT !.pf = NoPageFault]

\* An instruction that faults leaves registers, flags, EIP and memory as they were, for every
\* program and memory map; DIV, CMPXCHG and INT are the exceptions (the executors of libs/cpu).
THEOREM FaultsLeaveNoTrace == CpuSpec => FaultLeavesNoTrace
<1>1. CpuInv /\ [CpuNext]_cpuVars => [Untraced]_cpuVars
  <2> SUFFICES ASSUME Chosen, CpuNext, lifecycle = "Running", lifecycle' = "Faulted",
                      ~AtBoundary, ~LeavesPart(Decoded(m))
               PROVE  Quiet(m', m)
    BY DEF Untraced, Quiet, CpuInv
  <2>1. StepInstruction
    BY DEF CpuNext, StepInterrupt, RaiseLine, Reset
  <2> DEFINE r == RunInstruction(m)
             o == InstructionOutcome(m, r)
  <2>2. m' = o.s /\ o.to = "Faulted"
    BY <2>1, Zenon DEF StepInstruction
  <2>3. Clean(r, m)
    BY RunClean
  <2> HIDE DEF r
  <2>4. CASE r.err # "none"
    <3>1. o = [s |-> r.s, to |-> "Faulted", err |-> r.err]
      BY <2>4 DEF InstructionOutcome
    <3> QED
      BY <2>2, <2>3, <2>4, <3>1 DEF Clean
  <2>5. CASE r.err = "none"
    <3>1. o = [s |-> Commit(m, r), to |-> IF r.halted THEN "Halted" ELSE "Running", err |-> "none"]
      BY <2>3, <2>5 DEF InstructionOutcome, Clean
    <3> QED
      BY <2>2, <3>1
  <2> QED
    BY <2>4, <2>5
<1> QED
  BY <1>1, CpuInvariant, PTL DEF CpuSpec, FaultLeavesNoTrace, Untraced

-----------------------------------------------------------------------------
(* What a step that faults leaves.                                          *)

\* x is s but for memory at A, the lines and the page fault.
But(x, s, A) ==
    /\ DOMAIN x = MachineFields /\ DOMAIN x.mem = DOMAIN s.mem
    /\ x.gpr = s.gpr /\ x.cs = s.cs /\ x.eip = s.eip /\ x.fl = s.fl
    /\ \A a \in DOMAIN s.mem : a \notin A => x.mem[a] = s.mem[a]

\* A machine is itself but for nothing.
LEMMA ButSelf == \A s : IsMachine(s) => But(s, s, {})
  BY DEF IsMachine, But

\* A larger exception says less.
LEMMA ButMore == \A x, s, A, B : But(x, s, A) /\ A \subseteq B => But(x, s, B)
  BY DEF But

\* A store adds its address to the exception.
LEMMA ButStore ==
  ASSUME NEW x, NEW s, NEW A, But(x, s, A), NEW a, NEW v
  PROVE  But(Store(x, a, v), s, A \cup {a})
<1>1. CASE a \in DOMAIN AckOf
  BY <1>1 DEF But, Store, MachineFields
<1>2. CASE a \notin DOMAIN AckOf
  BY <1>2 DEF But, Store, MachineFields
<1> QED
  BY <1>1, <1>2

\* The page fault does not count.
LEMMA ButPf ==
  ASSUME NEW x, NEW s, NEW A, But(x, s, A), NEW a
  PROVE  But([x EXCEPT !.pf = a], s, A)
BY DEF But, MachineFields

\* A clean fault leaves the machine as it was.
LEMMA QuietBut ==
  ASSUME NEW x, NEW s, IsMachine(s), Quiet(x, s)
  PROVE  But(x, s, {})
<1>1. DOMAIN x = DOMAIN s
  BY DEF Quiet
<1>2. \A f \in MachineFields \ {"pf"} : x[f] = s[f]
  <2> TAKE f \in MachineFields \ {"pf"}
  <2>1. [x EXCEPT !.pf = NoPageFault][f] = x[f] /\ [s EXCEPT !.pf = NoPageFault][f] = s[f]
    BY <1>1 DEF IsMachine
  <2> QED
    BY <2>1 DEF Quiet
<1>3. x.gpr = s.gpr /\ x.cs = s.cs /\ x.eip = s.eip /\ x.fl = s.fl /\ x.mem = s.mem
  BY <1>2 DEF MachineFields
<1> QED
  BY <1>1, <1>3 DEF But, IsMachine

\* A word of a frame adds its address, unless it is refused.
LEMMA WordBut ==
  ASSUME NEW r, NEW s, NEW A, But(r.s, s, A), NEW a, NEW v
  PROVE  LET w == WriteWord(r, a, v)
         IN  IF w.err = "none" THEN But(w.s, s, A \cup {a}) ELSE But(w.s, s, A)
<1> DEFINE w == WriteWord(r, a, v)
<1>1. CASE r.err # "none"
  BY <1>1 DEF WriteWord
<1>2. CASE r.err = "none" /\ a \notin Writable
  <2>1. w.s = [r.s EXCEPT !.pf = a] /\ w.err = "memory"
    BY <1>2 DEF WriteWord, Denied, Fail, Result
  <2> QED
    BY <2>1, ButPf
<1>3. CASE r.err = "none" /\ a \in Writable
  <2>1. w.s = Store(r.s, a, v) /\ w.err = "none"
    BY <1>3 DEF WriteWord, Fall, Result
  <2> QED
    BY <2>1, ButStore
<1> QED
  BY <1>1, <1>2, <1>3

\* A frame that is refused has had at most its first two words written.
LEMMA FrameBut ==
  ASSUME NEW s, IsMachine(s), NEW return, PushFrame(s, return).err # "none"
  PROVE  But(PushFrame(s, return).s, s, {Gpr(s, "esp") - 1, Gpr(s, "esp") - 2})
<1> DEFINE sp == Gpr(s, "esp")
           r0 == Fall(s)
           r1 == WriteWord(r0, sp - 1, s.fl)
           r2 == WriteWord(r1, sp - 2, s.cs)
           r3 == WriteWord(r2, sp - 3, return)
<1>1. r3.err # "none" /\ PushFrame(s, return) = r3
  <2>1. PushFrame(s, return) = IF r3.err # "none" THEN r3 ELSE Fall(SetGpr(r3.s, "esp", sp - 3))
    BY Zenon DEF PushFrame
  <2>2. Fall(SetGpr(r3.s, "esp", sp - 3)).err = "none"
    BY DEF Fall, Result
  <2> HIDE DEF r3
  <2> QED
    BY <2>1, <2>2, Zenon
<1>2. r0.s = s
  BY DEF Fall, Result
<1>3. But(r0.s, s, {})
  BY <1>2, ButSelf
<1> HIDE DEF r0
<1>4. But(r1.s, s, {sp - 1})
  <2>1. PICK B : B \subseteq {sp - 1} /\ But(r1.s, s, B)
    BY <1>3, WordBut
  <2> QED
    BY <2>1, ButMore, Zenon
<1> HIDE DEF r1
<1>5. But(r2.s, s, {sp - 1, sp - 2})
  <2>1. But(r2.s, s, {sp - 1} \cup {sp - 2}) \/ But(r2.s, s, {sp - 1})
    BY <1>4, WordBut
  <2>2. {sp - 1} \cup {sp - 2} \subseteq {sp - 1, sp - 2} /\ {sp - 1} \subseteq {sp - 1, sp - 2}
    OBVIOUS
  <2> QED
    BY <2>1, <2>2, ButMore, Zenon
<1> HIDE DEF r2
<1>6. But(r3.s, s, {sp - 1, sp - 2})
  BY <1>1, <1>5, WordBut
<1> QED
  BY <1>1, <1>6

\* x is s but for the first two words of a frame.
OnlyFrame(x, s) == But(x, s, {Gpr(s, "esp") - 1, Gpr(s, "esp") - 2})

\* A clean fault leaves less than that,
LEMMA QuietOnlyFrame ==
  ASSUME NEW x, NEW s, IsMachine(s), Quiet(x, s)
  PROVE  OnlyFrame(x, s)
BY QuietBut, ButMore DEF OnlyFrame

\* and a gate that is refused no more: ESP, CS, EIP and the flags change after the last word.
LEMMA GateOnlyFrame ==
  ASSUME NEW s, IsMachine(s), NEW v, NEW q, NEW a, DeliverGate(s, v, q, a).err # "none"
  PROVE  OnlyFrame(DeliverGate(s, v, q, a).s, s)
<1> DEFINE g == DeliverGate(s, v, q, a)
           f == PushFrame(s, a)
<1>1. \/ \E e \in {"GeneralProtection", "SegmentNotPresent"} : g = Fail(s, e)
      \/ g = Denied(s, v)
      \/ g = f /\ f.err # "none"
      \/ \E x : g = Fall(x)
  BY Zenon DEF DeliverGate
<1>2. CASE \E e \in {"GeneralProtection", "SegmentNotPresent"} : g = Fail(s, e)
  <2>1. Clean(g, s)
    BY <1>2, FailClean
  <2> QED
    BY <2>1, QuietOnlyFrame DEF Clean
<1>3. CASE g = Denied(s, v)
  <2>1. Clean(g, s)
    BY <1>3, DeniedClean
  <2> QED
    BY <2>1, QuietOnlyFrame DEF Clean
<1>4. CASE g = f /\ f.err # "none"
  BY <1>4, FrameBut DEF OnlyFrame
<1>5. CASE \E x : g = Fall(x)
  BY <1>5 DEF Fall, Result
<1> QED
  BY <1>1, <1>2, <1>3, <1>4, <1>5

\* The results of CMPXCHG.
CmpxchgOutcome(r, s) ==
    /\ r.err = "none" => r.exc = NoException
    /\ r.err # "none" => r.s.gpr = s.gpr /\ r.s.cs = s.cs /\ r.s.eip = s.eip /\ r.s.mem = s.mem

\* A failed CMPXCHG has changed the flags at most.
LEMMA CmpxchgLeaves ==
  ASSUME NEW s, IsMachine(s), NEW i, i.id = "Cmpxchg"
  PROVE  CmpxchgOutcome(ExecuteAtomic(s, i), s)
<1> DEFINE dest == ReadOp(s, i.dst)
           src == ReadOp(s, i.src)
           equal == Gpr(s, "eax") = dest
           flagged == [s EXCEPT !.fl = SetFlag(@, ZF, equal)]
           r == ExecuteAtomic(s, i)
           Kept(x) == x.gpr = s.gpr /\ x.cs = s.cs /\ x.eip = s.eip /\ x.mem = s.mem
<1>1. r = IF ~CanRead(i.dst) THEN Denied(s, i.dst.at)
          ELSE IF ~equal THEN Fall(SetGpr(flagged, "eax", dest))
          ELSE IF ~CanWrite(i.dst) THEN Denied(flagged, i.dst.at)
          ELSE Fall(WriteOp(flagged, i.dst, src))
  BY DEF ExecuteAtomic
<1>2. IsMachine(flagged) /\ Kept(flagged)
  BY DEF IsMachine, MachineFields
<1> HIDE DEF flagged
<1>3. \A x, a : IsMachine(x) /\ Kept(x) => Denied(x, a).err # "none" /\ Kept(Denied(x, a).s)
  BY DEF IsMachine, MachineFields, Denied, Fail, Result
<1>4. Kept(s)
  OBVIOUS
<1>5. \A x : Fall(x).err = "none" /\ Fall(x).exc = NoException
  BY DEF Fall, Result
<1> HIDE DEF dest, src, equal, r, Kept
<1>6. (r.err = "none" => r.exc = NoException) /\ (r.err # "none" => Kept(r.s))
  BY <1>1, <1>2, <1>3, <1>4, <1>5, Zenon
<1> QED
  BY <1>6, Zenon DEF r, Kept, CmpxchgOutcome

\* A failed INT has left part of a frame, or has moved EIP for a service nobody answers.
LEMMA IntLeaves ==
  ASSUME NEW s, IsMachine(s), NEW i, i.id = "Int"
  PROVE  LET r == ExecuteInterruptInstruction(s, i)
         IN  /\ r.err = "none" => r.exc = NoException
             /\ r.err # "none" => OnlyFrame(r.s, s) \/ But(r.s, [s EXCEPT !.eip = s.eip + 1], {})
<1> DEFINE g == DeliverGate(s, i.vector, TRUE, s.eip + 1)
           r == ExecuteInterruptInstruction(s, i)
           past == [s EXCEPT !.eip = s.eip + 1]
<1>0. \A x, a : Branch(x, a).err = "none" /\ Branch(x, a).exc = NoException
  BY DEF Branch, Result
<1>1. CASE i.vector = HleVector
  <2>1. r = TrapHandler(s)
    BY <1>1, Zenon DEF ExecuteInterruptInstruction
  <2>2. past = [s EXCEPT !.eip = @ + 1]
    BY DEF IsMachine, MachineFields
  <2>3. \/ \E x, a : TrapHandler(s) = Branch(x, a)
        \/ TrapHandler(s) = Fail(past, "UnsupportedFeature")
    BY <2>2 DEF TrapHandler
  <2>4. IsMachine(past)
    BY EipShape
  <2>5. Fail(past, "UnsupportedFeature").err # "none" /\ Fail(past, "UnsupportedFeature").s = past
    BY DEF Fail, Result
  <2> HIDE DEF past, r
  <2>6. But(past, past, {})
    BY <2>4, ButSelf
  <2>7. (r.err = "none" => r.exc = NoException) /\ (r.err # "none" => But(r.s, past, {}))
    BY <1>0, <2>1, <2>3, <2>5, <2>6
  <2> QED
    BY <2>7, Zenon DEF past, r
<1>2. CASE i.vector # HleVector
  <2>1. r = IF g.err # "none" THEN g ELSE Branch(g.s, g.s.eip)
    BY <1>2, Zenon DEF ExecuteInterruptInstruction
  <2>2. g.err # "none" => OnlyFrame(g.s, s)
    BY GateOnlyFrame, Zenon
  <2> HIDE DEF g, r
  <2>3. (r.err = "none" => r.exc = NoException) /\ (r.err # "none" => OnlyFrame(r.s, s))
    BY <1>0, <2>1, <2>2, Zenon
  <2> QED
    BY <2>3, Zenon DEF r
<1> QED
  BY <1>1, <1>2

\* A failed DIV has changed nothing, and one that raises an exception neither.
LEMMA DivLeaves ==
  ASSUME NEW s, NEW i
  PROVE  LET r == ExecuteDiv(s, i)
         IN  (r.err # "none" => Quiet(r.s, s)) /\ (r.err = "none" /\ r.exc # NoException => r.s = s)
<1> DEFINE r == ExecuteDiv(s, i)
<1>1. (\E a : r = Denied(s, a)) \/ r = Except(s, "DE") \/ (\E x : r = Fall(x))
  BY Zenon DEF ExecuteDiv
<1>2. \A a : Denied(s, a).err # "none" /\ Quiet(Denied(s, a).s, s)
  BY DeniedClean DEF Denied, Fail, Result, Clean
<1>3. Except(s, "DE").err = "none" /\ Except(s, "DE").s = s
  BY DEF Except, Result
<1>4. \A x : Fall(x).err = "none" /\ Fall(x).exc = NoException
  BY DEF Fall, Result
<1> HIDE DEF r
<1>5. (r.err # "none" => Quiet(r.s, s)) /\ (r.err = "none" /\ r.exc # NoException => r.s = s)
  BY <1>1, <1>2, <1>3, <1>4, Zenon
<1> QED
  BY <1>5, Zenon DEF r

\* What FaultKeepsContext says of one step.
Surviving ==
    lifecycle = "Running" /\ lifecycle' = "Faulted" =>
        /\ m'.gpr = m.gpr /\ m'.cs = m.cs
        /\ (AtBoundary \/ Decoded(m).id # "Int") => m'.eip = m.eip
        /\ (AtBoundary \/ Decoded(m).id # "Cmpxchg") => m'.fl = m.fl
        /\ \A a \in DOMAIN m.mem :
               a \notin {Gpr(m, "esp") - 1, Gpr(m, "esp") - 2} => m'.mem[a] = m.mem[a]

\* It holds of a step that leaves no more than part of a frame.
LEMMA OnlyFrameSurvives ==
  ASSUME OnlyFrame(m', m)
  PROVE  Surviving
BY DEF OnlyFrame, But, Surviving

\* An instruction's fault.
LEMMA InstructionSurvives ==
  ASSUME Chosen, IsMachine(m), StepInstruction, lifecycle' = "Faulted"
  PROVE  Surviving
<1> DEFINE i == Decoded(m)
           r == RunInstruction(m)
           o == InstructionOutcome(m, r)
           gate == DeliverGate(r.s, DivideVector, FALSE, r.exc.eip)
<1>1. m' = o.s /\ o.to = "Faulted" /\ ~AtBoundary
  BY Zenon DEF StepInstruction
<1>2. r.err # "none" => o.s = r.s
  BY DEF InstructionOutcome
<1>3. ~(r.err = "none" /\ r.exc = NoException)
  <2>1. ASSUME r.err = "none", r.exc = NoException
        PROVE  o = [s |-> Commit(m, r), to |-> IF r.halted THEN "Halted" ELSE "Running", err |-> "none"]
    BY <2>1, Zenon DEF InstructionOutcome
  <2> HIDE DEF o
  <2> QED
    BY <1>1, <2>1
<1>4. CASE ~LeavesPart(i)
  <2>1. Clean(r, m)
    BY <1>4, RunClean
  <2>2. Quiet(m', m)
    BY <1>1, <1>2, <1>3, <2>1 DEF Clean
  <2> QED
    BY <2>2, QuietOnlyFrame, OnlyFrameSurvives
<1>5. CASE i.id = "Div"
  <2>1. r = ExecuteDiv(m, i)
    <3>1. r = Dispatch(m, i)
      BY <1>5, Zenon DEF RunInstruction
    <3> QED
      BY <1>5, <3>1, Zenon DEF Dispatch
  <2>2. (r.err # "none" => Quiet(r.s, m)) /\ (r.err = "none" /\ r.exc # NoException => r.s = m)
    BY <2>1, DivLeaves, Zenon
  <2>3. CASE r.err # "none"
    BY <1>1, <1>2, <2>2, <2>3, QuietOnlyFrame, OnlyFrameSurvives
  <2>4. CASE r.err = "none"
    <3>1. o = IF sys.limit >= 0 /\ gate.err = "none"
              THEN [s |-> gate.s, to |-> "Running", err |-> "none"]
              ELSE [s |-> IF sys.limit >= 0 THEN gate.s ELSE m, to |-> "Faulted", err |-> "exception"]
      BY <1>3, <2>4, Zenon DEF InstructionOutcome
    <3>2. r.s = m
      BY <1>3, <2>2, <2>4
    <3>3. gate.err # "none" => OnlyFrame(gate.s, m)
      BY <3>2, GateOnlyFrame, Zenon
    <3>4. Quiet(m, m)
      BY DEF Quiet
    <3>5. OnlyFrame(m, m)
      BY <3>4, QuietOnlyFrame
    <3> HIDE DEF gate, o
    <3>6. o.s = m \/ (o.s = gate.s /\ gate.err # "none")
      BY <1>1, <3>1
    <3> QED
      BY <1>1, <3>3, <3>5, <3>6, OnlyFrameSurvives
  <2> QED
    BY <2>3, <2>4
<1>6. CASE i.id = "Cmpxchg"
  <2>1. r = ExecuteAtomic(m, i)
    <3>1. r = Dispatch(m, i)
      BY <1>6, Zenon DEF RunInstruction
    <3> QED
      BY <1>6, <3>1, Zenon DEF Dispatch
  <2>2. /\ r.err = "none" => r.exc = NoException
        /\ r.err # "none" => /\ r.s.gpr = m.gpr /\ r.s.cs = m.cs
                             /\ r.s.eip = m.eip /\ r.s.mem = m.mem
    <3>1. CmpxchgOutcome(r, m)
      BY <1>6, <2>1, CmpxchgLeaves, Zenon
    <3> HIDE DEF r
    <3> QED
      BY <3>1, Zenon DEF CmpxchgOutcome
  <2>3. m' = r.s /\ r.err # "none"
    BY <1>1, <1>2, <1>3, <2>2, Zenon
  <2> HIDE DEF r, i
  <2>4. m'.gpr = m.gpr /\ m'.cs = m.cs /\ m'.eip = m.eip /\ m'.mem = m.mem
    BY <2>2, <2>3, Zenon
  <2> QED
    BY <1>1, <1>6, <2>4 DEF Surviving, i
<1>7. CASE i.id = "Int"
  <2>1. r = ExecuteInterruptInstruction(m, i)
    <3>1. r = Dispatch(m, i)
      BY <1>7, Zenon DEF RunInstruction
    <3> QED
      BY <1>7, <3>1, Zenon DEF Dispatch
  <2>2. /\ r.err = "none" => r.exc = NoException
        /\ r.err # "none" => OnlyFrame(r.s, m) \/ But(r.s, [m EXCEPT !.eip = m.eip + 1], {})
    BY <1>7, <2>1, IntLeaves, Zenon
  <2>3. CASE OnlyFrame(r.s, m)
    BY <1>1, <1>2, <1>3, <2>2, <2>3, OnlyFrameSurvives
  <2>4. CASE But(r.s, [m EXCEPT !.eip = m.eip + 1], {})
    <3> DEFINE p == [m EXCEPT !.eip = m.eip + 1]
    <3>1. p.gpr = m.gpr /\ p.cs = m.cs /\ p.fl = m.fl /\ p.mem = m.mem
      BY DEF IsMachine, MachineFields
    <3>2. m' = r.s
      BY <1>1, <1>2, <1>3, <2>2
    <3> HIDE DEF p
    <3>3. /\ m'.gpr = m.gpr /\ m'.cs = m.cs /\ m'.fl = m.fl
          /\ \A a \in DOMAIN m.mem : m'.mem[a] = m.mem[a]
      BY <2>4, <3>1, <3>2 DEF But, p
    <3> QED
      BY <1>1, <1>7, <3>3 DEF Surviving
  <2> QED
    BY <1>3, <2>2, <2>3, <2>4
<1> QED
  BY <1>4, <1>5, <1>6, <1>7 DEF LeavesPart

\* No fault, of an instruction or of the delivery of an interrupt, changes a general register
\* or CS; the flags change by CMPXCHG alone, EIP by INT alone, and memory at most in the two
\* words under ESP (Executor::DeliverGate, the executors of libs/cpu).
THEOREM ContextSurvivesFaults == CpuSpec => FaultKeepsContext
<1>1. CpuInv /\ [CpuNext]_cpuVars => [Surviving]_cpuVars
  <2> SUFFICES ASSUME Chosen, IsMachine(m), CpuNext, lifecycle = "Running", lifecycle' = "Faulted"
               PROVE  Surviving
    BY DEF CpuInv, Surviving
  <2>1. CASE StepInterrupt
    <3> DEFINE r == DeliverGate(m, AcknowledgeInterrupt, FALSE, m.eip)
    <3>1. m' = r.s /\ r.err # "none"
      BY <2>1, Zenon DEF StepInterrupt
    <3>2. OnlyFrame(r.s, m)
      BY <3>1, GateOnlyFrame, Zenon
    <3> QED
      BY <3>1, <3>2, OnlyFrameSurvives
  <2>2. CASE StepInstruction
    BY <2>2, InstructionSurvives
  <2>3. CASE \E line \in {"gpu", "usb"} : RaiseLine(line)
    BY <2>3 DEF RaiseLine
  <2>4. CASE Reset
    BY <2>4 DEF Reset
  <2> QED
    BY <2>1, <2>2, <2>3, <2>4 DEF CpuNext
<1> QED
  BY <1>1, CpuInvariant, PTL DEF CpuSpec, FaultKeepsContext, Surviving

=============================================================================

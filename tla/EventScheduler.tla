--------------------------- MODULE EventScheduler ---------------------------
(***************************************************************************)
(* DeterministicScheduler of libs/core: a virtual clock, a priority queue  *)
(* of events and lazy cancellation.  RunUntil is a loop that hands control *)
(* to a callback after each event, and the callback may call back into the *)
(* scheduler, so the loop is one action per turn.                          *)
(*                                                                         *)
(* next_event_id_ and next_sequence_ advance together, so the id stands    *)
(* for the sequence number too.  No callback in the repository calls       *)
(* RunUntil or StepCycles again; they are calls of the idle scheduler.     *)
(***************************************************************************)
EXTENDS Naturals

CONSTANTS
    MaxCycle,   \* largest representable Cycle
    MaxId,      \* bound on the number of events ever scheduled
    MaxLimit    \* bound on the max_events argument

ASSUME SchedulerAssumption == MaxCycle \in Nat /\ MaxId \in Nat /\ MaxLimit \in Nat

VARIABLES
    clock,      \* current_cycle_
    queue,      \* event_queue_
    pendingIds, \* pending_ids_
    canceledIds,\* canceled_ids_
    nextId,     \* next_event_id_ and next_sequence_
    run,        \* the RunUntil in progress: its arguments, events_fired, where it is
    status,     \* what the last RunUntil returned
    fired       \* history: the event fired last

book == <<queue, pendingIds, canceledIds, nextId>>
vars == <<clock, book, run, status, fired>>

Event(id, target) == [id |-> id, target |-> target]

\* operator> of Event, the other way round.
Before(e, f) == e.target < f.target \/ (e.target = f.target /\ e.id < f.id)

Top(e) == e \in queue /\ \A f \in queue \ {e} : Before(e, f)

Init ==
    /\ clock \in 0 .. MaxCycle
    /\ queue = {} /\ pendingIds = {} /\ canceledIds = {}
    /\ nextId = 1
    /\ run = [phase |-> "idle", target |-> 0, limit |-> 0, count |-> 0]
    /\ status = "Idle"
    /\ fired = Event(0, 0)

-----------------------------------------------------------------------------
(* Calls of a client, or of the callback RunUntil is inside. *)

MayCall == run.phase \in {"idle", "callback"}

AdvanceCycles(delta) ==
    /\ MayCall
    /\ clock + delta <= MaxCycle
    /\ clock' = clock + delta
    /\ UNCHANGED <<book, run, status, fired>>

ScheduleEvent(target) ==
    /\ MayCall
    /\ nextId <= MaxId
    /\ target >= clock
    /\ queue' = queue \cup {Event(nextId, target)}
    /\ pendingIds' = pendingIds \cup {nextId}
    /\ nextId' = nextId + 1
    /\ UNCHANGED <<clock, canceledIds, run, status, fired>>

ScheduleRelative(delta) ==
    /\ clock + delta <= MaxCycle
    /\ ScheduleEvent(clock + delta)

CancelEvent(id) ==
    /\ MayCall
    /\ id \in pendingIds
    /\ pendingIds' = pendingIds \ {id}
    /\ canceledIds' = canceledIds \cup {id}
    /\ UNCHANGED <<clock, queue, nextId, run, status, fired>>

RunUntil(target, limit) ==
    /\ run.phase = "idle"
    /\ target >= clock
    /\ run' = [phase |-> "loop", target |-> target, limit |-> limit, count |-> 0]
    /\ UNCHANGED <<clock, book, status, fired>>

StepCycles(delta, limit) ==
    /\ clock + delta <= MaxCycle
    /\ RunUntil(clock + delta, limit)

-----------------------------------------------------------------------------
(* The loop of RunUntil *)

DropCanceled ==
    /\ run.phase = "loop"
    /\ \E e \in queue :
          /\ Top(e)
          /\ e.id \in canceledIds
          /\ queue' = queue \ {e}
          /\ canceledIds' = canceledIds \ {e.id}
    /\ UNCHANGED <<clock, pendingIds, nextId, run, status, fired>>

\* Mutant: the loop does not look at canceled_ids_.
DueIgnoringCancel(e) == Top(e) /\ e.target <= run.target

Due(e) == Top(e) /\ e.id \notin canceledIds /\ e.target <= run.target

FireEvent ==
    /\ run.phase = "loop"
    /\ run.count < run.limit
    /\ \E e \in queue :
          /\ Due(e)
          /\ queue' = queue \ {e}
          /\ pendingIds' = pendingIds \ {e.id}
          /\ clock' = e.target
          /\ fired' = e
    /\ run' = [run EXCEPT !.phase = "callback"]
    /\ UNCHANGED <<canceledIds, nextId, status>>

CallbackReturns ==
    /\ run.phase = "callback"
    /\ run' = [run EXCEPT !.phase = "loop", !.count = @ + 1]
    /\ UNCHANGED <<clock, book, status, fired>>

EventLimitReached ==
    /\ run.phase = "loop"
    /\ run.count >= run.limit
    /\ \E e \in queue : Due(e)
    /\ run' = [run EXCEPT !.phase = "idle"]
    /\ status' = "EventLimitReached"
    /\ UNCHANGED <<clock, book, fired>>

\* The loop ends on an empty queue or on a live event beyond the target; the
\* second loop and the second limit test after it find nothing to do.
TargetReached ==
    /\ run.phase = "loop"
    /\ \/ queue = {}
       \/ \E e \in queue : Top(e) /\ e.id \notin canceledIds /\ e.target > run.target
    /\ clock' = run.target
    /\ run' = [run EXCEPT !.phase = "idle"]
    /\ status' = "TargetReached"
    /\ UNCHANGED <<book, fired>>

-----------------------------------------------------------------------------
Call ==
    \/ \E delta \in 0 .. MaxCycle : AdvanceCycles(delta)
    \/ \E target \in 0 .. MaxCycle : ScheduleEvent(target)
    \/ \E delta \in 0 .. MaxCycle : ScheduleRelative(delta)
    \/ \E id \in pendingIds : CancelEvent(id)
    \/ \E target \in 0 .. MaxCycle, limit \in 0 .. MaxLimit : RunUntil(target, limit)
    \/ \E delta \in 0 .. MaxCycle, limit \in 0 .. MaxLimit : StepCycles(delta, limit)

Loop == DropCanceled \/ FireEvent \/ CallbackReturns \/ EventLimitReached \/ TargetReached

Next == Call \/ Loop

Spec == Init /\ [][Next]_vars

-----------------------------------------------------------------------------
(* Properties *)

\* The clock, the queue and the run keep the types of the class members.
TypeOK ==
    /\ clock \in 0 .. MaxCycle
    /\ queue \subseteq [id : Nat, target : 0 .. MaxCycle]
    /\ pendingIds \subseteq Nat /\ canceledIds \subseteq Nat
    /\ nextId \in Nat \ {0}
    /\ run \in [phase : {"idle", "loop", "callback"}, target : 0 .. MaxCycle, limit : Nat,
                count : Nat]
    /\ status \in {"Idle", "TargetReached", "EventLimitReached"}
    /\ fired \in [id : Nat, target : 0 .. MaxCycle]

Ids == {e.id : e \in queue}

\* The three indexes of the class agree: each queued event is either pending or
\* cancelled, never both, and no id outlives its event.  pending_event_count()
\* is right and canceled_ids_ cannot leak.
IndexesAgree ==
    /\ Ids = pendingIds \cup canceledIds
    /\ pendingIds \cap canceledIds = {}
    /\ \A e, f \in queue : e.id = f.id => e = f

\* No event is ever due before one that has already been fired, even when
\* AdvanceCycles has moved the clock past pending events or a callback schedules
\* into the current cycle: events fire in the order (cycle, insertion).
FiringOrder == \A e \in queue : Before(fired, e)

\* A run never fires more than max_events events.
LimitRespected == run.phase # "idle" => run.count <= run.limit

Live == {e \in queue : e.id \in pendingIds}

RunReturns ==
    \/ /\ status' = "TargetReached"
       /\ clock' = run.target
       /\ \A e \in Live : e.target > run.target
    \/ /\ status' = "EventLimitReached"
       /\ run.count = run.limit
       /\ \E e \in Live : e.target <= run.target

\* TargetReached means no live event up to the target is left and the clock is at
\* the target; EventLimitReached means the limit was used up and an event is due.
RunOutcome == [][run.phase = "loop" /\ run'.phase = "idle" => RunReturns]_vars

Agenda == INSTANCE EventAgenda
          WITH agenda <- Live, last <- fired, Numbers <- 1 .. MaxId, Cycles <- 0 .. MaxCycle

\* The scheduler implements its agenda: cancelled events never fire, no event
\* fires twice, and the earliest live one always goes first.
ImplementsAgenda == Agenda!AgendaSpec

\* "ciclos inteiros monotônicos": the clock never runs backwards.  Not so after
\* AdvanceCycles has passed a pending event.
ClockMonotonic == [][clock' >= clock]_vars

=============================================================================

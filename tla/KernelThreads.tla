---------------------------- MODULE KernelThreads ----------------------------
(***************************************************************************)
(* Guest threads and synchronisation objects of libs/kernel: the thread    *)
(* scheduler, the events, mutexes and semaphores behind the handle table,  *)
(* and the exports that use them.  The guest is cooperative: one flow of   *)
(* control runs, and every step is a kernel call it makes (INT 0x2D), from *)
(* the trap to the return that DispatchThunk performs.                     *)
(*                                                                         *)
(* A saved CPU context is reduced to the call frame on top of its stack,   *)
(* as a number of words: the return address and the arguments of the       *)
(* export the thread is inside, nothing for a thread that has not run.  A  *)
(* flow resumed with the return of another frame runs arbitrary code, so   *)
(* it may still make any call.  Fields nothing reads any more (the saved   *)
(* context of the running thread, wait_all after the wait, all of a        *)
(* terminated thread) are forgotten.                                       *)
(*                                                                         *)
(* A handle is the number of its object: what slots and generations do is  *)
(* in KernelHandles.  No wait on a thread handle is ever satisfied and it  *)
(* has no waiting list, so a wait on one waits for no object.  Nothing in  *)
(* the repository calls CheckTimeouts: no step ends a wait at its          *)
(* deadline.  A call that is rejected, or a wait with a zero timeout that  *)
(* is not satisfied, changes nothing and is not a step.                    *)
(***************************************************************************)
EXTENDS Integers, Sequences, FiniteSets, Functions

CONSTANTS
    MaxThreads,     \* bound on the threads ever created
    MaxObjects,     \* bound on the objects ever created
    MaxSuspend,     \* bound on suspend_count
    MaxRecursion,   \* bound on recursion_count_
    MaxRelease,     \* bound on the release_count argument
    MaxI32,         \* largest i32: counts are in -(MaxI32 + 1) .. MaxI32
    Kinds,          \* the kinds of object the guest creates
    Timeouts        \* the values of has_timeout considered for waits

ASSUME KernelAssumption ==
    /\ {MaxThreads, MaxObjects, MaxSuspend, MaxRecursion, MaxRelease} \subseteq Nat
    /\ MaxI32 \in Nat \ {0} /\ MaxRelease <= MaxI32
    /\ Kinds \subseteq {"event", "mutex", "semaphore"} /\ Timeouts \subseteq BOOLEAN

VARIABLES
    threads,    \* threads_, in the order of their ids
    ready,      \* ready_queue_
    current,    \* current_tid_; 0 is kInvalidThreadId
    objects,    \* events_, mutexes_ and semaphores_
    closed      \* objects whose handle was closed

threadVars == <<threads, ready, current, objects, closed>>

Threads == DOMAIN threads

\* The frames of the exports that save a context: 1 + param_count words.
Frame == [Yield |-> 1, WaitSingle |-> 3, WaitMultiple |-> 5, Delay |-> 3]
NoFrame == 0

States == {"Ready", "Running", "Blocked", "Suspended", "Terminated"}

EventObject(manual, signaled) ==
    [kind |-> "event", manual |-> manual, count |-> IF signaled THEN 1 ELSE 0,
     max |-> 0, owner |-> 0, waiting |-> << >>]
MutexObject(owned, tid) ==
    [kind |-> "mutex", manual |-> FALSE, count |-> IF owned THEN 1 ELSE 0,
     max |-> 0, owner |-> IF owned THEN tid ELSE 0, waiting |-> << >>]
SemaphoreObject(initial, max) ==
    [kind |-> "semaphore", manual |-> FALSE, count |-> initial,
     max |-> max, owner |-> 0, waiting |-> << >>]

ThreadsInit ==
    /\ threads = << >> /\ ready = << >> /\ current = 0
    /\ objects = << >> /\ closed = {}

Open == DOMAIN objects \ closed
OpenOf(kind) == {h \in Open : objects[h].kind = kind}

-----------------------------------------------------------------------------
(* The thread scheduler. *)

FirstOf(q, n) == SubSeq(q, 1, IF n < Len(q) THEN n ELSE Len(q))

Running(th) == [th EXCEPT !.state = "Running", !.frame = NoFrame]

\* ScheduleNext with the ready queue q and the threads as the caller left them.
ScheduleNext(ts, q) ==
    LET runnable == {i \in DOMAIN q : ts[q[i]].state \notin {"Terminated", "Suspended"}}
        i == CHOOSE n \in runnable : \A m \in runnable : n <= m
    IN  IF runnable = {}
        THEN threads' = ts /\ ready' = << >> /\ UNCHANGED current
        ELSE /\ threads' = [ts EXCEPT ![q[i]] = Running(@)]
             /\ ready' = SubSeq(q, i + 1, Len(q))
             /\ current' = q[i]

\* Mutant: it goes right behind the thread that is next.
EnqueueBehindNext(q, tid) ==
    IF tid \in Range(q) THEN q
    ELSE FirstOf(q, 1) \o <<tid>> \o SubSeq(q, 2, Len(q))

EnqueueReady(q, tid) == IF tid \in Range(q) THEN q ELSE Append(q, tid)

CreateThread ==
    /\ Len(threads) < MaxThreads
    /\ LET tid == Len(threads) + 1
           first == current = 0
       IN  /\ threads' = Append(threads,
                [state |-> IF first THEN "Running" ELSE "Ready", frame |-> NoFrame,
                 waits |-> {}, all |-> FALSE, timed |-> FALSE, suspends |-> 0])
           /\ current' = IF first THEN tid ELSE current
           /\ ready' = IF first THEN ready ELSE EnqueueReady(ready, tid)
    /\ UNCHANGED <<objects, closed>>

\* Without a thread the queue is empty too and Yield does nothing.
Yield ==
    LET runs == threads[current].state = "Running"
    IN  /\ current # 0
        /\ ScheduleNext([threads EXCEPT ![current].frame = Frame["Yield"],
                                        ![current].state = IF runs THEN "Ready" ELSE @],
                        IF runs THEN EnqueueReady(ready, current) ELSE ready)
        /\ UNCHANGED <<objects, closed>>

\* BlockCurrentWithTimeout from export e; without a current thread it only
\* reports an error, which every caller drops.
BlockCurrent(e, waits, all, timed) ==
    IF current = 0
    THEN UNCHANGED <<threads, ready, current>>
    ELSE ScheduleNext(
            [threads EXCEPT ![current].frame = Frame[e], ![current].state = "Blocked",
                            ![current].waits = waits, ![current].all = all,
                            ![current].timed = timed], ready)

Delay == BlockCurrent("Delay", {}, FALSE, TRUE) /\ current # 0 /\ UNCHANGED <<objects, closed>>

Dead == [state |-> "Terminated", frame |-> NoFrame,
         waits |-> {}, all |-> FALSE, timed |-> FALSE, suspends |-> 0]

\* ExitThread, and NtTerminateThread of the calling thread.
ExitCurrent ==
    /\ current # 0
    /\ ScheduleNext([threads EXCEPT ![current] = Dead], ready)
    /\ UNCHANGED <<objects, closed>>

Position(q, tid) == CHOOSE i \in DOMAIN q : q[i] = tid

\* The queue has a thread at most once.
Without(q, tid) ==
    LET i == Position(q, tid)
    IN  IF tid \in Range(q) THEN SubSeq(q, 1, i - 1) \o SubSeq(q, i + 1, Len(q)) ELSE q

TerminateThread(tid) ==
    /\ threads' = [threads EXCEPT ![tid] = Dead]
    /\ ready' = Without(ready, tid)
    /\ UNCHANGED <<current, objects, closed>>

\* Mutant: a suspended thread stays in the ready queue.
SuspendQueued(tid) ==
    /\ threads[tid].state # "Terminated" /\ threads[tid].suspends < MaxSuspend
    /\ threads' = [threads EXCEPT ![tid].suspends = @ + 1,
                        ![tid].state = IF @ = "Ready" THEN "Suspended" ELSE @]
    /\ UNCHANGED <<ready, current, objects, closed>>

SuspendThread(tid) ==
    LET isReady == threads[tid].state = "Ready"
    IN  /\ threads[tid].state # "Terminated" /\ threads[tid].suspends < MaxSuspend
        /\ threads' = [threads EXCEPT ![tid].suspends = @ + 1,
                                      ![tid].state = IF isReady THEN "Suspended" ELSE @]
        /\ ready' = IF isReady THEN Without(ready, tid) ELSE ready
        /\ UNCHANGED <<current, objects, closed>>

ResumeThread(tid) ==
    LET released == threads[tid].suspends = 1 /\ threads[tid].state = "Suspended"
    IN  /\ threads[tid].state # "Terminated" /\ threads[tid].suspends > 0
        /\ threads' = [threads EXCEPT ![tid].suspends = @ - 1,
                                      ![tid].state = IF released THEN "Ready" ELSE @]
        /\ ready' = IF released THEN EnqueueReady(ready, tid) ELSE ready
        /\ UNCHANGED <<current, objects, closed>>

Wakes(tid) == tid \in Threads /\ threads[tid].state = "Blocked"

\* The ready queue after Wake for each of the thread ids tids, in order.
QueueAfterWake(tids) ==
    LET queue[i \in 0 .. Len(tids)] ==
            IF i = 0 THEN ready
            ELSE IF Wakes(tids[i]) THEN EnqueueReady(queue[i - 1], tids[i]) ELSE queue[i - 1]
    IN  queue[Len(tids)]

\* Wake for each of the distinct thread ids of the sequence tids.
Wake(tids) ==
    /\ threads' = [t \in Threads |->
            IF t \in Range(tids) /\ Wakes(t)
            THEN [threads[t] EXCEPT !.state = "Ready", !.waits = {}, !.all = FALSE, !.timed = FALSE]
            ELSE threads[t]]
    /\ ready' = QueueAfterWake(tids)
    /\ UNCHANGED <<current, closed>>

-----------------------------------------------------------------------------
(* Events, mutexes, semaphores and the handle table in front of them. *)

Create(o) ==
    /\ Len(objects) < MaxObjects /\ o.kind \in Kinds
    /\ objects' = Append(objects, o)
    /\ UNCHANGED <<threads, ready, current, closed>>

CreateEvent == \E manual, signaled \in BOOLEAN : Create(EventObject(manual, signaled))
CreateMutex == \E owned \in BOOLEAN : Create(MutexObject(owned, current))
CreateSemaphore ==
    \E max \in 1 .. MaxI32 : \E initial \in 0 .. max :
        max <= MaxRelease /\ Create(SemaphoreObject(initial, max))

\* CloseHandle: the object and its waiting list stay.
CloseHandle(h) == closed' = closed \cup {h} /\ UNCHANGED <<threads, ready, current, objects>>

\* SetEvent.  Whoever is first is woken, even when it no longer waits.
SetEvent(h) ==
    LET o == objects[h]
    IN  CASE o.manual ->
                /\ objects' = [objects EXCEPT ![h].count = 1, ![h].waiting = << >>]
                /\ Wake(o.waiting)
          [] ~o.manual /\ o.waiting # << >> ->
                /\ objects' = [objects EXCEPT ![h].count = 0, ![h].waiting = Tail(@)]
                /\ Wake(<<Head(o.waiting)>>)
          [] ~o.manual /\ o.waiting = << >> ->
                /\ objects' = [objects EXCEPT ![h].count = 1]
                /\ UNCHANGED <<threads, ready, current, closed>>

ResetEvent(h) ==
    /\ objects' = [objects EXCEPT ![h].count = 0]
    /\ UNCHANGED <<threads, ready, current, closed>>

PulseEvent(h) ==
    LET woken == IF objects[h].manual THEN objects[h].waiting
                 ELSE FirstOf(objects[h].waiting, 1)
    IN  /\ objects' = [objects EXCEPT ![h].count = 0,
                                      ![h].waiting = SubSeq(@, Len(woken) + 1, Len(@))]
        /\ Wake(woken)

\* ReleaseMutex: the last release hands the mutex to the first waiter.
ReleaseMutex(h) ==
    LET o == objects[h]
    IN  /\ o.owner = current /\ o.count > 0
        /\ IF o.count = 1 /\ o.waiting # << >>
           THEN /\ objects' = [objects EXCEPT ![h].owner = Head(o.waiting), ![h].waiting = Tail(@)]
                /\ Wake(<<Head(o.waiting)>>)
           ELSE /\ objects' = [objects EXCEPT ![h].count = @ - 1,
                                              ![h].owner = IF o.count = 1 THEN 0 ELSE @]
                /\ UNCHANGED <<threads, ready, current, closed>>

\* Mutant: one waiter is woken however many units are released.
ReleaseSemaphoreOne(h, n) ==
    LET o == objects[h]
        woken == FirstOf(o.waiting, 1)
    IN  /\ o.count + n <= o.max
        /\ objects' = [objects EXCEPT ![h].count = o.count + n - Len(woken),
                                      ![h].waiting = SubSeq(@, Len(woken) + 1, Len(@))]
        /\ Wake(woken)

\* SemaphoreObject::Release and the wake loop.  The sum is an i32; when it
\* overflows the build either finds it too large or wraps it below zero, and
\* then the loop wakes without acquiring.
ReleaseSemaphore(h, n) ==
    LET o == objects[h]
        woken == FirstOf(o.waiting, n)
        sum == o.count + n
    IN  /\ sum <= o.max \/ sum > MaxI32
        /\ objects' = [objects EXCEPT
                ![h].count = IF sum > MaxI32 THEN sum - 2 * (MaxI32 + 1) ELSE sum - Len(woken),
                ![h].waiting = SubSeq(@, Len(woken) + 1, Len(@))]
        /\ Wake(woken)

\* is_signaled, which is also whether SatisfyWait succeeds.
Signaled(o, tid) ==
    IF o.kind = "mutex" THEN o.count = 0 \/ o.owner = tid ELSE o.count > 0

\* What a successful SatisfyWait does to the object.
Satisfied(o, tid) ==
    CASE o.kind = "event"     -> [o EXCEPT !.count = IF o.manual THEN 1 ELSE 0]
      [] o.kind = "mutex"     -> [o EXCEPT !.count = @ + 1, !.owner = tid]
      [] o.kind = "semaphore" -> [o EXCEPT !.count = @ - 1]

SatisfyWait(os, h, tid) ==
    IF Signaled(os[h], tid) THEN [os EXCEPT ![h] = Satisfied(@, tid)] ELSE os

AddWaitingThread(o, tid) ==
    IF tid \in Range(o.waiting) THEN o ELSE [o EXCEPT !.waiting = Append(@, tid)]

\* WaitForSingleObject (hs has one handle, all is FALSE) and
\* WaitForMultipleObjects (of two handles), with a timeout that is not zero.
Wait(e, hs, all, timed) ==
    LET signaled == {i \in DOMAIN hs : Signaled(objects[hs[i]], current)}
        first == CHOOSE i \in signaled : \A j \in signaled : i <= j
        proceed == UNCHANGED <<threads, ready, current, closed>>
    IN  /\ \A i \in DOMAIN hs : LET o == objects[hs[i]] IN
            (o.kind = "mutex" /\ o.owner = current) => o.count < MaxRecursion
        /\ CASE ~all /\ signaled # {} ->
                    proceed /\ objects' = SatisfyWait(objects, hs[first], current)
             [] all /\ signaled = DOMAIN hs ->
                    proceed /\ objects' = SatisfyWait(SatisfyWait(objects, hs[1], current), hs[2], current)
             [] OTHER ->
                    /\ objects' = [h \in DOMAIN objects |->
                            IF h \in Range(hs) THEN AddWaitingThread(objects[h], current)
                            ELSE objects[h]]
                    /\ BlockCurrent(e, Range(hs), all, timed)
                    /\ UNCHANGED closed

\* A wait for a thread handle.
WaitThread(timed) ==
    /\ current # 0
    /\ BlockCurrent("WaitSingle", {}, FALSE, timed)
    /\ UNCHANGED <<objects, closed>>

ThreadsNext ==
    \/ CreateThread
    \/ Yield
    \/ Delay
    \/ ExitCurrent
    \/ \E tid \in Threads : TerminateThread(tid) \/ SuspendThread(tid) \/ ResumeThread(tid)
    \/ CreateEvent
    \/ CreateMutex
    \/ CreateSemaphore
    \/ \E h \in Open : CloseHandle(h)
    \/ \E h \in OpenOf("event") : SetEvent(h) \/ ResetEvent(h) \/ PulseEvent(h)
    \/ \E h \in OpenOf("mutex") : ReleaseMutex(h)
    \/ \E h \in OpenOf("semaphore"), n \in 1 .. MaxRelease : ReleaseSemaphore(h, n)
    \/ \E h \in Open, timed \in Timeouts : Wait("WaitSingle", <<h>>, FALSE, timed)
    \/ \E h, g \in Open, all \in BOOLEAN, timed \in Timeouts : Wait("WaitMultiple", <<h, g>>, all, timed)
    \/ \E timed \in Timeouts : WaitThread(timed)

ThreadsSpec == ThreadsInit /\ [][ThreadsNext]_threadVars

-----------------------------------------------------------------------------
(* Properties. *)

\* Every variable has its type.
ThreadsTypeOK ==
    /\ threads \in Seq([state : States, frame : 0 .. 5, waits : SUBSET DOMAIN objects,
                        all : BOOLEAN, timed : BOOLEAN, suspends : 0 .. MaxSuspend])
    /\ ready \in Seq(Threads) /\ current \in {0} \cup Threads
    /\ \A h \in DOMAIN objects :
            /\ objects[h].kind \in {"event", "mutex", "semaphore"}
            /\ objects[h].count \in -(MaxI32 + 1) .. MaxI32
            /\ objects[h].waiting \in Seq({0} \cup Threads)
    /\ closed \subseteq DOMAIN objects

\* The ready queue holds every Ready thread exactly once: a thread that may run
\* is never forgotten and never queued twice, whatever sequence of yields,
\* waits, wakes, suspends, resumes and terminations led here.  A Running thread is
\* the current one, so there is at most one.
QueueHoldsReady ==
    /\ \A t \in Threads : threads[t].state = "Running" => t = current
    /\ IsInjective(ready)
    /\ \A t \in Threads : threads[t].state = "Ready" => t \in Range(ready)
    /\ \A t \in Range(ready) : threads[t].state \notin {"Running", "Suspended"}

\* A thread blocked on objects is in the waiting list of each, and is not
\* asleep on a condition that already holds: none of the objects of a WaitAny is
\* signalled for it, nor all of those of a WaitAll.  No wakeup is lost.
NoLostWakeup ==
    \A t \in Threads :
        LET hs == threads[t].waits
            holds(h) == Signaled(objects[h], t)
        IN  (threads[t].state = "Blocked" /\ hs # {}) =>
                /\ \A h \in hs : t \in Range(objects[h].waiting)
                /\ IF threads[t].all THEN \E h \in hs : ~holds(h) ELSE \A h \in hs : ~holds(h)

\* A semaphore never counts below zero or above its maximum.
SemaphoreWithinLimit ==
    \A h \in DOMAIN objects :
        objects[h].kind = "semaphore" => objects[h].count \in 0 .. objects[h].max

\* A queued thread never moves back, and one that stays queued is not overtaken.
KeepsOrder ==
    \A t \in Range(ready) \cap Range(ready') : Position(ready', t) <= Position(ready, t)

\* Threads that may run take turns, in the order they became ready: after every step
\* the ready queue holds each of them exactly once, and none of those that stay queued
\* was overtaken, whatever yields, wakes, resumes, suspensions and terminations come
\* between.
ThreadsTakeTurns == [][QueueHoldsReady' /\ KeepsOrder]_threadVars

\* A thread that is ready gets to run, provided the running threads keep giving
\* up the CPU: the scheduler is cooperative and promises no more.
ReadyThreadsRun ==
    []<><<Yield>>_threadVars =>
        \A t \in 1 .. MaxThreads :
            (t \in Threads /\ t \in Range(ready)) ~> t \notin Range(ready)

\* A thread that waits for an object that is not signalled, or that ended, does
\* not go on running.
BlockedDoesNotRun ==
    current # 0 => threads[current].state \notin {"Blocked", "Terminated"}

\* A switch resumes a thread where it left off: the return of the call that
\* switched pops the frame of the thread it resumes.
ResumesOwnFrame ==
    [][(current' # current /\ current # 0 /\ threads'[current].state # "Terminated") =>
            threads[current'].frame = threads'[current].frame]_threadVars

\* A thread that waits for all of several objects is woken only by the signal
\* of the last one missing.
WaitAllIsComplete ==
    [][\A t \in Threads :
            (threads[t].state = "Blocked" /\ threads[t].all /\ threads'[t].state = "Ready") =>
                Cardinality({h \in threads[t].waits : ~Signaled(objects[h], t)}) <= 1]_threadVars

\* The signal of an auto-reset event goes to a thread that is waiting for it.
SignalReachesWaiter ==
    [][\A h \in DOMAIN objects :
            LET w == objects[h].waiting
            IN  (/\ objects[h].kind = "event" /\ ~objects[h].manual
                 /\ w # << >> /\ Head(w) \in Threads /\ objects'[h].waiting = Tail(w)) =>
                    threads[Head(w)].state = "Blocked" /\ h \in threads[Head(w)].waits]_threadVars

\* A wait with a deadline ends.
TimedWaitsEnd ==
    \A t \in 1 .. MaxThreads :
        (t \in Threads /\ threads[t].timed) ~> (t \in Threads /\ threads[t].state # "Blocked")

\* The guest goes on executing kernel calls.
ThreadsFairSpec == ThreadsSpec /\ WF_threadVars(ThreadsNext)
=============================================================================

--------------------------- MODULE MachineSession ---------------------------
(***************************************************************************)
(* The execution worker of libs/machine: host threads call the public      *)
(* methods of MachineSession, which change the session under mutex_, push  *)
(* a command on command_queue_ and notify cv_cmd_; one worker thread pops  *)
(* the commands in order and otherwise runs bounded instruction slices.    *)
(*                                                                         *)
(* Every method and every turn of the worker loop holds mutex_ from its    *)
(* first read to its last write, so each is one action.  What is not       *)
(* atomic is what the code does between two holds of the mutex: a call     *)
(* that waits on cv_done_ or on a future is split into the call, the       *)
(* wake-ups and the return.                                                *)
(***************************************************************************)
EXTENDS Naturals, Sequences

CONSTANTS
    Hosts,          \* host threads that own a pointer to the session
    NoHost,         \* "no promise" in a command
    Budgets,        \* ExecutionBudgets records a host may pass
    HostCalls,      \* names of the public methods the hosts call
    MaxQueue,       \* bound on command_queue_ (the code has none)
    MaxCost,        \* largest number of cycles one instruction costs
    MaxChunk        \* cap on the instructions of one slice (1000 in the code)

ASSUME SessionAssumption ==
    /\ NoHost \notin Hosts
    /\ Budgets # {}
    /\ Budgets \subseteq [inst : Nat, cyc : Nat, wall : BOOLEAN, chunk : Nat]
    /\ MaxQueue \in Nat
    /\ MaxCost \in Nat \ {0}
    /\ MaxChunk \in Nat \ {0}

VARIABLES
    state,          \* state_
    queue,          \* command_queue_
    pauseRequested, \* pause_requested_
    stopRequested,  \* stop_requested_
    workerExit,     \* worker_exit_
    cpu,            \* lifecycle_ of the CPU
    reason,         \* last_stop_reason_.code
    firstBlocker,   \* first_blocker_->code, "None" when empty
    budgets,        \* active_budgets_
    executed,       \* session_instructions_executed_
    cycles,         \* session_cycles_consumed_
    pushbuffer,     \* an event of SchedulePushbuffer is pending
    worker,         \* where the worker thread is
    call,           \* the blocking call each host thread is inside
    asleep,         \* hosts blocked on cv_done_ and not yet notified
    granted         \* history: budgets of the last accepted Start or Resume

session == <<state, pauseRequested, stopRequested, workerExit>>
guest   == <<cpu, pushbuffer>>
report  == <<reason, firstBlocker>>
account == <<budgets, executed, cycles>>
threads == <<call, asleep>>
vars    == <<session, queue, guest, report, account, threads, worker, granted>>

States == {"Created", "Prepared", "Paused", "Faulted", "Stopped", "Running"}

FaultCodes == {"UnsupportedExport", "UnsupportedOpcode", "CpuException", "MemoryFault"}

BudgetCodes == {"BudgetInstructionsExhausted", "BudgetCyclesExhausted",
                "BudgetWallTimeExhausted"}

ReasonCodes == {"None", "Paused", "StepCompleted", "Halted"} \cup FaultCodes \cup BudgetCodes

CommandTypes == {"Start", "Resume", "Step", "RunWithBudget", "Pause", "Stop"}

Commands == [type : CommandTypes, host : Hosts \cup {NoHost}, budgets : Budgets]

DefaultBudgets == CHOOSE b \in Budgets : TRUE

Command(type, h, b) == [type |-> type, host |-> h, budgets |-> b]

Init ==
    /\ state = "Created"
    /\ queue = << >>
    /\ pauseRequested = FALSE
    /\ stopRequested = FALSE
    /\ workerExit = FALSE
    /\ cpu = "Running"
    /\ reason = "None"
    /\ firstBlocker = "None"
    /\ budgets = DefaultBudgets
    /\ executed = 0
    /\ cycles = 0
    /\ pushbuffer = FALSE
    /\ worker = "ready"
    /\ call = [h \in Hosts |-> "none"]
    /\ asleep = {}
    /\ granted = DefaultBudgets

-----------------------------------------------------------------------------
(* Synchronisation *)

\* A worker that re-enters mutex_ from inside a slice never gives it back.
MutexFree == worker # "stuck"

MayCall(h, name) ==
    /\ name \in HostCalls
    /\ call[h] = "none"
    /\ ~workerExit
    /\ MutexFree

\* Mutant: push_back without notify_one.
SubmitSilently(cmd) ==
    /\ Len(queue) < MaxQueue
    /\ queue' = Append(queue, cmd)
    /\ UNCHANGED worker

\* push_back and cv_cmd_.notify_one().
Submit(cmd) ==
    /\ Len(queue) < MaxQueue
    /\ queue' = Append(queue, cmd)
    /\ worker' = IF worker = "waiting" THEN "ready" ELSE worker

\* The predicates of the three waits on cv_done_.
Done(kind) ==
    CASE kind = "pausing"  -> state # "Running"
      [] kind = "stopping" -> state = "Stopped"
      [] kind \in {"waiting", "waitingFor"} -> queue = << >> /\ state # "Running"

\* Entering a wait on cv_done_: the predicate is tested before the thread sleeps.
Block(h, kind) ==
    /\ call' = [call EXCEPT ![h] = kind]
    /\ asleep' = asleep \cup {h}

NotifyDone == asleep' = {}

-----------------------------------------------------------------------------
(* Host calls.  A call the code refuses returns an error and changes        *)
(* nothing, so a refusal is a stuttering step.                              *)

\* Prepare and PrepareMedia: either fails without a trace in this state (only
\* last_error_ is written) or leaves the session Prepared.
Prepare(h) ==
    /\ MayCall(h, "Prepare")
    /\ state = "Created"
    /\ state' = "Prepared"
    /\ UNCHANGED <<queue, pauseRequested, stopRequested, workerExit, guest, report, account,
                   threads, worker, granted>>

Start(h, b) ==
    /\ MayCall(h, "Start")
    /\ state \in {"Prepared", "Paused"}
    /\ Submit(Command("Start", NoHost, b))
    /\ state' = "Running"
    /\ budgets' = b
    /\ granted' = b
    /\ executed' = 0
    /\ cycles' = 0
    /\ pauseRequested' = FALSE
    /\ stopRequested' = FALSE
    /\ UNCHANGED <<workerExit, guest, report, threads>>

Resume(h, b) ==
    /\ MayCall(h, "Resume")
    /\ state = "Paused"
    /\ Submit(Command("Resume", NoHost, b))
    /\ state' = "Running"
    /\ budgets' = b
    /\ granted' = b
    /\ pauseRequested' = FALSE
    /\ stopRequested' = FALSE
    /\ UNCHANGED <<workerExit, guest, report, executed, cycles, threads>>

\* Step and RunWithBudget: the caller blocks on the future of its promise.
Synchronous(h, type, b) ==
    /\ MayCall(h, type)
    /\ state \in {"Prepared", "Paused"}
    /\ Submit(Command(type, h, b))
    /\ pauseRequested' = FALSE
    /\ stopRequested' = FALSE
    /\ call' = [call EXCEPT ![h] = "future"]
    /\ UNCHANGED <<state, workerExit, guest, report, account, asleep, granted>>

Step(h, b) == Synchronous(h, "Step", b)

RunWithBudget(h, b) == Synchronous(h, "RunWithBudget", b)

\* Pause before any execution takes effect in the caller, without a command.
PausePrepared(h) ==
    /\ MayCall(h, "Pause")
    /\ state = "Prepared"
    /\ state' = "Paused"
    /\ reason' = "Paused"
    /\ UNCHANGED <<queue, pauseRequested, stopRequested, workerExit, guest, firstBlocker,
                   account, threads, worker, granted>>

\* Pause in Created or Running: the request goes through the worker, and the
\* caller waits for the state to leave Running (in Created it already has).
Pause(h) ==
    /\ MayCall(h, "Pause")
    /\ state \in {"Created", "Running"}
    /\ Submit(Command("Pause", NoHost, DefaultBudgets))
    /\ pauseRequested' = TRUE
    /\ IF Done("pausing") THEN UNCHANGED threads ELSE Block(h, "pausing")
    /\ UNCHANGED <<state, stopRequested, workerExit, guest, report, account, granted>>

Stop(h) ==
    /\ MayCall(h, "Stop")
    /\ state # "Stopped"
    /\ Submit(Command("Stop", NoHost, DefaultBudgets))
    /\ stopRequested' = TRUE
    /\ Block(h, "stopping")
    /\ UNCHANGED <<state, pauseRequested, workerExit, guest, report, account, granted>>

\* WaitCompletion(0) waits without a limit, WaitCompletion(n) for n ms.
WaitCompletion(h, kind) ==
    /\ MayCall(h, "WaitCompletion")
    /\ ~Done(kind)
    /\ Block(h, kind)
    /\ UNCHANGED <<session, queue, guest, report, account, worker, granted>>

SchedulePushbuffer(h) ==
    /\ MayCall(h, "SchedulePushbuffer")
    /\ pushbuffer' = TRUE
    /\ UNCHANGED <<session, queue, cpu, report, account, threads, worker, granted>>

\* Mutant: the destructor does not notify cv_cmd_.
DestroySilently ==
    /\ "Destroy" \in HostCalls
    /\ \A h \in Hosts : call[h] = "none"
    /\ ~workerExit
    /\ MutexFree
    /\ workerExit' = TRUE
    /\ stopRequested' = TRUE
    /\ state' = "Stopped"
    /\ NotifyDone
    /\ UNCHANGED <<queue, pauseRequested, guest, report, account, call, worker, granted>>

\* ~MachineSession, once no other thread is inside a call.
Destroy ==
    /\ "Destroy" \in HostCalls
    /\ \A h \in Hosts : call[h] = "none"
    /\ ~workerExit
    /\ MutexFree
    /\ workerExit' = TRUE
    /\ stopRequested' = TRUE
    /\ state' = "Stopped"
    /\ worker' = IF worker = "waiting" THEN "ready" ELSE worker
    /\ NotifyDone
    /\ UNCHANGED <<queue, pauseRequested, guest, report, account, call, granted>>

\* A notified thread takes mutex_ again and re-tests its predicate.
Wake(h) ==
    /\ call[h] \in {"pausing", "stopping", "waiting", "waitingFor"}
    /\ h \notin asleep
    /\ MutexFree
    /\ IF Done(call[h])
         THEN call' = [call EXCEPT ![h] = "none"] /\ UNCHANGED asleep
         ELSE asleep' = asleep \cup {h} /\ UNCHANGED call
    /\ UNCHANGED <<session, queue, guest, report, account, worker, granted>>

\* wait_for gives up: Pause and Stop return Ok, WaitCompletion returns false.
WaitTimeout(h) ==
    /\ call[h] \in {"pausing", "stopping", "waitingFor"}
    /\ MutexFree
    /\ call' = [call EXCEPT ![h] = "none"]
    /\ asleep' = asleep \ {h}
    /\ UNCHANGED <<session, queue, guest, report, account, worker, granted>>

\* C++ lets a condition variable wake a thread nobody notified.
SpuriousWakeup(h) ==
    /\ h \in asleep
    /\ asleep' = asleep \ {h}
    /\ UNCHANGED <<session, queue, guest, report, account, call, worker, granted>>

-----------------------------------------------------------------------------
(* The worker thread *)

MayRun == state = "Running" /\ ~pauseRequested /\ ~stopRequested

\* The predicate of cv_cmd_.wait.
WorkerHasWork == workerExit \/ queue # << >> \/ MayRun

WorkerWait ==
    /\ worker = "ready"
    /\ ~WorkerHasWork
    /\ worker' = "waiting"
    /\ UNCHANGED <<session, queue, guest, report, account, threads, granted>>

WorkerLeave ==
    /\ worker = "ready"
    /\ workerExit
    /\ worker' = "exited"
    /\ UNCHANGED <<session, queue, guest, report, account, threads, granted>>

Popped(type) ==
    /\ worker = "ready"
    /\ ~workerExit
    /\ queue # << >>
    /\ Head(queue).type = type
    /\ queue' = Tail(queue)

ExecuteStart ==
    /\ Popped("Start")
    /\ budgets' = Head(queue).budgets
    /\ executed' = 0
    /\ cycles' = 0
    /\ reason' = "None"
    /\ UNCHANGED <<session, guest, firstBlocker, threads, worker, granted>>

\* Mutant: only the caller of Resume installs the budgets.
ExecuteResumeIgnored ==
    /\ Popped("Resume")
    /\ UNCHANGED <<session, guest, report, account, threads, worker, granted>>

ExecuteResume ==
    /\ Popped("Resume")
    /\ budgets' = Head(queue).budgets
    /\ UNCHANGED <<session, guest, report, executed, cycles, threads, worker, granted>>

\* Mutant: the Pause command leaves pause_requested_ up when it has nothing to pause.
ExecutePauseKeepsRequest ==
    /\ Popped("Pause")
    /\ IF state = "Running"
         THEN state' = "Paused" /\ reason' = "Paused" /\ pauseRequested' = FALSE /\ NotifyDone
         ELSE UNCHANGED <<state, reason, pauseRequested, asleep>>
    /\ UNCHANGED <<stopRequested, workerExit, guest, firstBlocker, account, call, worker,
                   granted>>

ExecutePause ==
    /\ Popped("Pause")
    /\ pauseRequested' = FALSE
    /\ IF state = "Running"
         THEN state' = "Paused" /\ reason' = "Paused" /\ NotifyDone
         ELSE UNCHANGED <<state, reason, asleep>>
    /\ UNCHANGED <<stopRequested, workerExit, guest, firstBlocker, account, call, worker,
                   granted>>

\* Mutant: the Stop command only stops a running session.
ExecuteStopRunning ==
    /\ Popped("Stop")
    /\ state' = IF state = "Running" THEN "Stopped" ELSE state
    /\ reason' = "None"
    /\ stopRequested' = FALSE
    /\ NotifyDone
    /\ UNCHANGED <<pauseRequested, workerExit, guest, firstBlocker, account, call, worker,
                   granted>>

ExecuteStop ==
    /\ Popped("Stop")
    /\ state' = "Stopped"
    /\ reason' = "None"
    /\ stopRequested' = FALSE
    /\ NotifyDone
    /\ UNCHANGED <<pauseRequested, workerExit, guest, firstBlocker, account, call, worker,
                   granted>>

\* set_value on the promise: the host's future.get() returns.
Resolve(h) == call' = [call EXCEPT ![h] = "none"]

\* Mutant: the early return forgets the promise.
RejectSynchronousUnresolved ==
    /\ Popped("Step") \/ Popped("RunWithBudget")
    /\ state \notin {"Prepared", "Paused"}
    /\ UNCHANGED <<session, guest, report, account, threads, worker, granted>>

\* Step and RunWithBudget commands that find the session in another state
\* resolve the promise with an error and return at once.
RejectSynchronous ==
    /\ Popped("Step") \/ Popped("RunWithBudget")
    /\ state \notin {"Prepared", "Paused"}
    /\ Resolve(Head(queue).host)
    /\ UNCHANGED <<session, guest, report, account, asleep, worker, granted>>

\* How a run of guest instructions may end, other than at its limit.
GuestStops == IF cpu = "Halted" THEN {"Halted"} ELSE {"Halted"} \cup FaultCodes

RecordFirstBlocker(code) ==
    firstBlocker' = IF firstBlocker = "None" THEN code ELSE firstBlocker

\* Halted and Faulted outcomes of cpu_.Step, as Step, RunWithBudget and the
\* slice all treat them (a fault also records the first blocker).
GuestStopped(end) ==
    /\ reason' = end
    /\ IF end = "Halted"
         THEN state' = "Paused" /\ cpu' = "Halted" /\ UNCHANGED firstBlocker
         ELSE state' = "Faulted" /\ cpu' = "Faulted" /\ RecordFirstBlocker(end)

FinishSynchronous ==
    /\ Resolve(Head(queue).host)
    /\ NotifyDone
    /\ UNCHANGED <<pauseRequested, stopRequested, workerExit, pushbuffer, account, worker,
                   granted>>

Accepted(type) == Popped(type) /\ state \in {"Prepared", "Paused"}

\* Step runs at least one instruction, RunWithBudget none when a limit is zero.
Executes(cmd) == cmd.type = "Step" \/ (cmd.budgets.inst > 0 /\ cmd.budgets.cyc > 0)

ExecuteSynchronousStopped(type) ==
    /\ Accepted(type)
    /\ Executes(Head(queue))
    /\ \E end \in GuestStops : GuestStopped(end)
    /\ FinishSynchronous

\* The last stop reason is replaced only when it is None.
ExecuteStep ==
    /\ Accepted("Step")
    /\ cpu = "Running"
    /\ state' = "Paused"
    /\ reason' = IF reason = "None" THEN "StepCompleted" ELSE reason
    /\ UNCHANGED <<cpu, firstBlocker>>
    /\ FinishSynchronous

\* The limits that can end a RunWithBudget: an instruction costs between 1 and
\* MaxCost cycles, and the instruction limit is reported when both are reached.
RunLimits(b) ==
    (IF b.inst <= b.cyc THEN {"BudgetInstructionsExhausted"} ELSE {})
    \cup (IF b.inst > 0 /\ b.cyc <= (b.inst - 1) * MaxCost THEN {"BudgetCyclesExhausted"} ELSE {})

ExecuteRunWithBudget ==
    /\ Accepted("RunWithBudget")
    /\ Executes(Head(queue)) => cpu = "Running"
    /\ state' = "Paused"
    /\ \E limit \in RunLimits(Head(queue).budgets) :
           reason' = IF reason = "None" THEN limit ELSE reason
    /\ UNCHANGED <<cpu, firstBlocker>>
    /\ FinishSynchronous

-----------------------------------------------------------------------------
(* ExecuteRunningSliceLocked.  Its first test (pause_requested_ or          *)
(* stop_requested_) repeats the guard of the loop under the same hold of    *)
(* the mutex, so those two branches are never taken.                        *)

\* Mutant: the loop tests the state but not the request flags and the queue.
SliceTurnEager == worker = "ready" /\ ~workerExit /\ state = "Running"

SliceTurn == worker = "ready" /\ ~workerExit /\ queue = << >> /\ MayRun

\* The budget checks, in the order of the code; the host clock is free.
ExhaustedBy ==
    (IF budgets.wall THEN {"BudgetWallTimeExhausted"} ELSE {})
    \cup (IF executed >= budgets.inst THEN {"BudgetInstructionsExhausted"}
          ELSE IF cycles >= budgets.cyc THEN {"BudgetCyclesExhausted"} ELSE {})

SliceExhausted ==
    /\ SliceTurn
    /\ \E code \in ExhaustedBy : reason' = code
    /\ state' = "Paused"
    /\ NotifyDone
    /\ UNCHANGED <<queue, pauseRequested, stopRequested, workerExit, guest, firstBlocker,
                   account, call, worker, granted>>

Min(a, b) == IF a < b THEN a ELSE b

Chunk == IF budgets.chunk > 0 THEN Min(budgets.chunk, MaxChunk) ELSE MaxChunk

\* Mutant: the remaining instruction budget does not bound the slice.
SliceLimitUncapped == Chunk

\* Mutant: off by one in the remaining budget.
SliceLimitShort == Min(Chunk, budgets.inst - executed - 1)

SliceLimit == Min(Chunk, budgets.inst - executed)

SliceRuns ==
    /\ SliceTurn
    /\ executed < budgets.inst
    /\ cycles < budgets.cyc

\* The slice ran all its instructions.
SliceContinues ==
    /\ SliceRuns
    /\ cpu = "Running"
    /\ executed' = executed + SliceLimit
    /\ \E c \in SliceLimit .. SliceLimit * MaxCost : cycles' = cycles + c
    /\ UNCHANGED <<session, queue, guest, report, budgets, threads, worker, granted>>

\* The slice met HLT or a fault at its n-th instruction.  A CPU already halted
\* reports Halted at once and costs nothing.
SliceStops ==
    /\ SliceRuns
    /\ \E n \in 1 .. SliceLimit, c \in 0 .. SliceLimit * MaxCost, end \in GuestStops :
          /\ IF cpu = "Halted" THEN n = 1 /\ c = 0 ELSE n - 1 <= c /\ c <= n * MaxCost
          /\ executed' = executed + n
          /\ cycles' = cycles + c
          /\ GuestStopped(end)
    /\ NotifyDone
    /\ UNCHANGED <<queue, pauseRequested, stopRequested, workerExit, pushbuffer, budgets,
                   call, worker, granted>>

\* scheduler_.StepCycles reaches the event of SchedulePushbuffer, whose callback
\* calls ExecutePushbuffer: the worker locks the mutex_ it already holds.
EventReentersMutex ==
    /\ pushbuffer
    /\ cpu = "Running"
    /\ \/ SliceRuns
       \/ /\ worker = "ready" /\ ~workerExit /\ queue # << >>
          /\ Head(queue).type \in {"Step", "RunWithBudget"}
          /\ Executes(Head(queue))
          /\ state \in {"Prepared", "Paused"}
    /\ worker' = "stuck"
    /\ UNCHANGED <<session, queue, guest, report, account, threads, granted>>

-----------------------------------------------------------------------------
HostCall(h) ==
    \/ Prepare(h)
    \/ \E b \in Budgets : Start(h, b)
    \/ \E b \in Budgets : Resume(h, b)
    \/ \E b \in Budgets : Step(h, b)
    \/ \E b \in Budgets : RunWithBudget(h, b)
    \/ PausePrepared(h)
    \/ Pause(h)
    \/ Stop(h)
    \/ WaitCompletion(h, "waiting")
    \/ WaitCompletion(h, "waitingFor")
    \/ SchedulePushbuffer(h)

Worker ==
    \/ WorkerWait
    \/ WorkerLeave
    \/ ExecuteStart
    \/ ExecuteResume
    \/ ExecutePause
    \/ ExecuteStop
    \/ RejectSynchronous
    \/ ExecuteSynchronousStopped("Step")
    \/ ExecuteSynchronousStopped("RunWithBudget")
    \/ ExecuteStep
    \/ ExecuteRunWithBudget
    \/ SliceExhausted
    \/ SliceContinues
    \/ SliceStops
    \/ EventReentersMutex

Next ==
    \/ \E h \in Hosts : HostCall(h) \/ Wake(h) \/ WaitTimeout(h) \/ SpuriousWakeup(h)
    \/ Destroy
    \/ Worker

\* The worker thread and a notified host thread are scheduled eventually, and a
\* timed wait expires; nothing obliges a host to make a call.
Fairness ==
    /\ WF_vars(Worker)
    /\ \A h \in Hosts : WF_vars(Wake(h)) /\ WF_vars(WaitTimeout(h))

Spec == Init /\ [][Next]_vars

FairSpec == Spec /\ Fairness

-----------------------------------------------------------------------------
(* Properties *)

\* Every handler writes only the states, codes and commands the headers declare.
TypeOK ==
    /\ state \in States
    /\ queue \in Seq(Commands)
    /\ pauseRequested \in BOOLEAN /\ stopRequested \in BOOLEAN /\ workerExit \in BOOLEAN
    /\ cpu \in {"Running", "Halted", "Faulted"}
    /\ reason \in ReasonCodes /\ firstBlocker \in FaultCodes \cup {"None"}
    /\ budgets \in Budgets /\ granted \in Budgets
    /\ executed \in Nat /\ cycles \in Nat
    /\ pushbuffer \in BOOLEAN
    /\ worker \in {"ready", "waiting", "exited", "stuck"}
    /\ call \in [Hosts -> {"none", "future", "pausing", "stopping", "waiting", "waitingFor"}]
    /\ asleep \subseteq Hosts

Queued(type) == \E i \in DOMAIN queue : queue[i].type = type

\* A pause or stop request is never left without the command that clears it.
\* WorkerLoop refuses to run slices while a flag is up, so a flag without its
\* command would stop the session for good while it still reports Running.
RequestsAreQueued ==
    /\ pauseRequested => Queued("Pause")
    /\ stopRequested => Queued("Stop") \/ workerExit

\* The worker never sleeps on cv_cmd_ while there is something for it to do:
\* no command, no Running session and no destructor waits for a wake-up that
\* has already been missed.
NoMissedWakeup == worker = "waiting" => ~WorkerHasWork

\* A session that says Running is really being run, or will be: the worker is
\* not asleep and has not left (unless it re-entered its own mutex).
RunningIsServed == state = "Running" => worker \in {"ready", "stuck"}

\* Whenever a slice may run, the budgets in force are those of the last Start or
\* Resume that returned Ok, whatever older Start and Resume commands the worker
\* applied since then.
BudgetsInForce == queue = << >> /\ state = "Running" => budgets = granted

\* Every future a host waits on belongs to exactly one queued command, so its
\* promise is resolved exactly once and never after the caller has returned.
PromisesArePending ==
    \A h \in Hosts :
        /\ call[h] = "future" <=> \E i \in DOMAIN queue : queue[i].host = h
        /\ \A i, j \in DOMAIN queue : queue[i].host = h /\ queue[j].host = h => i = j

\* A faulted session keeps the code of its first fault for the compatibility
\* report, whatever commands are applied to the session afterwards.
FaultIsRecorded == cpu = "Faulted" => firstBlocker \in FaultCodes

\* Stopped is final, and a faulted session can only be stopped.
LifecycleIsOneWay ==
    [][ /\ state = "Stopped" => state' = "Stopped"
        /\ state = "Faulted" => state' \in {"Faulted", "Stopped"}
        /\ state # "Created" => state' # "Created" ]_vars

\* From the moment Pause or Stop has been accepted until its command is applied,
\* no slice executes another instruction of the running session.
RequestsStopSlices ==
    [][ pauseRequested \/ stopRequested => executed' \in {executed, 0} ]_vars

\* A slice never takes the session past the instruction budget in force, even
\* after Resume lowered the budget below what had already been executed.
InstructionBudgetHolds ==
    [][ executed' > executed => executed' <= budgets.inst ]_vars

\* The cycle budget is tested between slices only: it is overrun by less than one
\* slice of the most expensive instructions.
CycleBudgetOverrun ==
    [][ cycles' > cycles => cycles' < budgets.cyc + Chunk * MaxCost ]_vars

\* Both budgets that are counted hold for every slice: instructions exactly,
\* cycles up to the overrun of one slice.
BudgetsHold == InstructionBudgetHolds /\ CycleBudgetOverrun

\* Every run ends: the instruction budget makes Running lead to another state,
\* without any help from a host.
RunningEnds == state = "Running" ~> state # "Running"

\* Step and RunWithBudget return.
FuturesReturn == \A h \in Hosts : call[h] = "future" ~> call[h] = "none"

\* A Stop that was accepted takes effect, whatever is queued before it.
StopTakesEffect == Queued("Stop") ~> state = "Stopped"

\* The destructor's join returns.
DestructorReturns == workerExit ~> worker = "exited"

\* Every call that waits without a limit of its own returns: Step and RunWithBudget
\* get their result, and the destructor joins the worker.
CallsReturn == FuturesReturn /\ DestructorReturns

-----------------------------------------------------------------------------
(* What the documents of the repository say and the code does not do.        *)

\* "sem hangs": once the session is idle for good, no WaitCompletion(0) call is
\* still blocked.  Commands that end without cv_done_.notify_all() break it.
WaitersReturn ==
    \A h \in Hosts : <>[](queue = << >> /\ state # "Running") => []<>(call[h] # "waiting")

\* "sem hangs": the worker never locks the mutex it holds.
NoSelfDeadlock == worker # "stuck"

\* A pause applies to the execution it was asked for: when the worker pauses the
\* session, no Start or Resume accepted after that Pause is still queued.
PauseIsForThisRun ==
    [][ state = "Running" /\ state' = "Paused" /\ reason' = "Paused"
        => ~\E i \in DOMAIN queue' : queue'[i].type \in {"Start", "Resume"} ]_vars

\* "watchdog pausa com motivo budget/watchdog": a RunWithBudget that ends neither
\* halted nor faulted leaves a budget code as the stop reason.
RunReportsBudget ==
    [][ /\ Len(queue) > 0 /\ Head(queue).type = "RunWithBudget" /\ queue' = Tail(queue)
        /\ state \in {"Prepared", "Paused"} /\ cpu' = "Running"
        => reason' \in BudgetCodes ]_vars

=============================================================================

------------------------ MODULE MachineSessionProofs ------------------------
(* Theorems about MachineSession, for any hosts, budgets and queue bound. *)
EXTENDS MachineSession, TLAPS

\* What push_back does to a queue.
LEMMA AppendFacts ==
    ASSUME NEW S, NEW s \in Seq(S), NEW e \in S
    PROVE  /\ Append(s, e) \in Seq(S)
           /\ Len(Append(s, e)) = Len(s) + 1
           /\ DOMAIN Append(s, e) = 1 .. Len(s) + 1
           /\ \A i \in 1 .. Len(s) : Append(s, e)[i] = s[i]
           /\ Append(s, e)[Len(s) + 1] = e
  OBVIOUS

\* What pop_front does to a queue.
LEMMA TailFacts ==
    ASSUME NEW S, NEW s \in Seq(S), s # << >>
    PROVE  /\ Tail(s) \in Seq(S)
           /\ Len(s) \in Nat \ {0}
           /\ DOMAIN s = 1 .. Len(s)
           /\ DOMAIN Tail(s) = 1 .. Len(s) - 1
           /\ \A i \in 1 .. Len(s) - 1 : Tail(s)[i] = s[i + 1]
           /\ Head(s) = s[1]
           /\ Head(s) \in S
  OBVIOUS

LEMMA DefaultBudgetsType == DefaultBudgets \in Budgets
  BY SessionAssumption DEF DefaultBudgets

\* The slice limit is a natural number between 1 and the remaining budget when
\* the slice may run.
LEMMA SliceLimitType ==
    ASSUME TypeOK, executed < budgets.inst
    PROVE  /\ SliceLimit \in Nat \ {0}
           /\ executed + SliceLimit <= budgets.inst
           /\ SliceLimit <= Chunk
           /\ Chunk \in Nat
  <1>1. budgets \in [inst : Nat, cyc : Nat, wall : BOOLEAN, chunk : Nat]
    BY SessionAssumption DEF TypeOK
  <1>2. executed \in Nat /\ budgets.inst \in Nat /\ budgets.chunk \in Nat
    BY <1>1 DEF TypeOK
  <1>3. Chunk \in Nat \ {0}
    BY <1>2, SessionAssumption DEF Chunk, Min
  <1> QED
    BY <1>2, <1>3 DEF SliceLimit, Min

-----------------------------------------------------------------------------
LEMMA TypeInit == Init => TypeOK
  <1> SUFFICES ASSUME Init PROVE TypeOK
    OBVIOUS
  <1>1. queue \in Seq(Commands) /\ call \in [Hosts -> {"none"}] /\ asleep \subseteq Hosts
    BY DEF Init
  <1>2. budgets \in Budgets /\ granted \in Budgets
    BY DefaultBudgetsType DEF Init
  <1> QED BY <1>1, <1>2 DEF Init, TypeOK, States, ReasonCodes

LEMMA TypeStep == TypeOK /\ [Next]_vars => TypeOK'
  <1> SUFFICES ASSUME TypeOK, [Next]_vars PROVE TypeOK'
    OBVIOUS
  <1>0. \A t \in CommandTypes, h \in Hosts \cup {NoHost}, b \in Budgets :
           Command(t, h, b) \in Commands
    BY DEF Command, Commands
  <1> USE DEF TypeOK, session, guest, report, account, threads
  <1>1. ASSUME NEW h \in Hosts, Prepare(h) PROVE TypeOK'
    BY <1>1 DEF Prepare, States
  <1>2. ASSUME NEW h \in Hosts, NEW b \in Budgets, Start(h, b) PROVE TypeOK'
    <2>1. Command("Start", NoHost, b) \in Commands
      BY <1>0, Zenon DEF CommandTypes
    <2>2. queue' \in Seq(Commands)
      BY <1>2, <2>1, AppendFacts DEF Start, Submit
    <2> QED BY <1>2, <2>2 DEF Start, Submit, States
  <1>3. ASSUME NEW h \in Hosts, NEW b \in Budgets, Resume(h, b) PROVE TypeOK'
    <2>1. Command("Resume", NoHost, b) \in Commands
      BY <1>0, Zenon DEF CommandTypes
    <2>2. queue' \in Seq(Commands)
      BY <1>3, <2>1, AppendFacts DEF Resume, Submit
    <2> QED BY <1>3, <2>2 DEF Resume, Submit, States
  <1>4. ASSUME NEW h \in Hosts, NEW b \in Budgets, NEW t \in {"Step", "RunWithBudget"},
               Synchronous(h, t, b)
        PROVE TypeOK'
    <2>1. Command(t, h, b) \in Commands
      BY <1>0 DEF CommandTypes
    <2>2. queue' \in Seq(Commands)
      BY <1>4, <2>1, AppendFacts DEF Synchronous, Submit
    <2> QED BY <1>4, <2>2 DEF Synchronous, Submit
  <1>5. ASSUME NEW h \in Hosts, PausePrepared(h) PROVE TypeOK'
    BY <1>5 DEF PausePrepared, States, ReasonCodes
  <1>6. ASSUME NEW h \in Hosts, Pause(h) PROVE TypeOK'
    <2>1. Command("Pause", NoHost, DefaultBudgets) \in Commands
      BY <1>0, DefaultBudgetsType, Zenon DEF CommandTypes
    <2>2. queue' \in Seq(Commands)
      BY <1>6, <2>1, AppendFacts DEF Pause, Submit
    <2> QED BY <1>6, <2>2 DEF Pause, Submit, Block
  <1>7. ASSUME NEW h \in Hosts, Stop(h) PROVE TypeOK'
    <2>1. Command("Stop", NoHost, DefaultBudgets) \in Commands
      BY <1>0, DefaultBudgetsType, Zenon DEF CommandTypes
    <2>2. queue' \in Seq(Commands)
      BY <1>7, <2>1, AppendFacts DEF Stop, Submit
    <2> QED BY <1>7, <2>2 DEF Stop, Submit, Block
  <1>8. ASSUME NEW h \in Hosts, NEW k \in {"waiting", "waitingFor"}, WaitCompletion(h, k)
        PROVE TypeOK'
    BY <1>8 DEF WaitCompletion, Block
  <1>9. ASSUME NEW h \in Hosts, SchedulePushbuffer(h) PROVE TypeOK'
    BY <1>9 DEF SchedulePushbuffer
  <1>10. ASSUME NEW h \in Hosts, Wake(h) \/ WaitTimeout(h) \/ SpuriousWakeup(h)
         PROVE TypeOK'
    BY <1>10 DEF Wake, WaitTimeout, SpuriousWakeup
  <1>11. CASE Destroy
    BY <1>11 DEF Destroy, NotifyDone, States
  <1>12. CASE WorkerWait \/ WorkerLeave \/ EventReentersMutex
    BY <1>12 DEF WorkerWait, WorkerLeave, EventReentersMutex
  <1>13. ASSUME NEW t, Popped(t)
         PROVE /\ queue' \in Seq(Commands) /\ Head(queue).budgets \in Budgets
               /\ Head(queue).host \in Hosts \cup {NoHost}
    <2>1. queue' \in Seq(Commands) /\ Head(queue) \in Commands
      BY <1>13, TailFacts DEF Popped
    <2> QED BY <2>1 DEF Commands
  <1>14. CASE ExecuteStart
    BY <1>14, <1>13 DEF ExecuteStart, ReasonCodes
  <1>15. CASE ExecuteResume
    BY <1>15, <1>13 DEF ExecuteResume
  <1>16. CASE ExecutePause
    BY <1>16, <1>13, ZenonT(30) DEF ExecutePause, States, ReasonCodes, NotifyDone
  <1>17. CASE ExecuteStop
    BY <1>17, <1>13 DEF ExecuteStop, States, ReasonCodes, NotifyDone
  <1>18. CASE RejectSynchronous
    BY <1>18, <1>13, ZenonT(30) DEF RejectSynchronous, Resolve
  <1>19. ASSUME NEW e \in GuestStops, GuestStopped(e)
         PROVE /\ state' \in States /\ reason' \in ReasonCodes
               /\ firstBlocker' \in FaultCodes \cup {"None"}
               /\ cpu' \in {"Running", "Halted", "Faulted"}
    BY <1>19 DEF GuestStopped, GuestStops, RecordFirstBlocker, States, ReasonCodes
  <1>20. ASSUME NEW t, ExecuteSynchronousStopped(t) PROVE TypeOK'
    BY <1>20, <1>13, <1>19
    DEF ExecuteSynchronousStopped, Accepted, FinishSynchronous, Resolve, NotifyDone
  <1>21. CASE ExecuteStep
    BY <1>21, <1>13
    DEF ExecuteStep, Accepted, FinishSynchronous, Resolve, NotifyDone, States, ReasonCodes
  <1>22. CASE ExecuteRunWithBudget
    BY <1>22, <1>13, ZenonT(30)
    DEF ExecuteRunWithBudget, Accepted, FinishSynchronous, Resolve, NotifyDone, States,
        RunLimits, ReasonCodes, BudgetCodes
  <1>23. CASE SliceExhausted
    BY <1>23 DEF SliceExhausted, ExhaustedBy, NotifyDone, States, ReasonCodes, BudgetCodes
  <1>24. CASE SliceContinues
    <2>1. SliceLimit \in Nat
      BY <1>24, SliceLimitType DEF SliceContinues, SliceRuns
    <2>2. executed' \in Nat /\ cycles' \in Nat
      BY <1>24, <2>1, SessionAssumption DEF SliceContinues
    <2> QED BY <1>24, <2>2 DEF SliceContinues
  <1>25. CASE SliceStops
    <2>1. PICK n \in 1 .. SliceLimit, c \in 0 .. SliceLimit * MaxCost, e \in GuestStops :
             executed' = executed + n /\ cycles' = cycles + c /\ GuestStopped(e)
      BY <1>25 DEF SliceStops
    <2>2. SliceLimit \in Nat
      BY <1>25, SliceLimitType DEF SliceStops, SliceRuns
    <2>3. executed' \in Nat /\ cycles' \in Nat
      BY <2>1, <2>2, SessionAssumption
    <2> QED BY <1>25, <1>19, <2>1, <2>3 DEF SliceStops, NotifyDone
  <1>26. CASE UNCHANGED vars
    BY <1>26 DEF vars
  <1> QED
    BY <1>1, <1>2, <1>3, <1>4, <1>5, <1>6, <1>7, <1>8, <1>9, <1>10, <1>11, <1>12, <1>14,
       <1>15, <1>16, <1>17, <1>18, <1>20, <1>21, <1>22, <1>23, <1>24, <1>25, <1>26
    DEF Next, HostCall, Worker, Step, RunWithBudget

\* Every variable of the session keeps its type: every handler writes only the
\* states, codes and commands the headers declare.
THEOREM TypeCorrect == Spec => []TypeOK
  BY TypeInit, TypeStep, PTL DEF Spec

-----------------------------------------------------------------------------
(* The worker is there when it is needed. *)

\* A destroyed session is stopped, and only a destroyed session loses its worker.
WorkerOutlivesSession ==
    /\ workerExit => state = "Stopped"
    /\ worker = "exited" => workerExit

\* The inductive invariant behind RunningIsServed.
ServiceInv == TypeOK /\ RequestsAreQueued /\ NoMissedWakeup /\ WorkerOutlivesSession

\* What Submit does to the commands a handler looks for.
LEMMA QueuedAfterSubmit ==
    ASSUME TypeOK, NEW cmd \in Commands, Submit(cmd), NEW t
    PROVE  Queued(t)' <=> Queued(t) \/ cmd.type = t
  <1>1. /\ DOMAIN queue = 1 .. Len(queue)
        /\ DOMAIN queue' = 1 .. Len(queue) + 1
        /\ \A i \in 1 .. Len(queue) : queue'[i] = queue[i]
        /\ queue'[Len(queue) + 1] = cmd
        /\ Len(queue) \in Nat
    BY AppendFacts DEF TypeOK, Submit
  <1> QED BY <1>1 DEF Queued

\* Popping a command of one type removes no command of another type.
LEMMA QueuedAfterPop ==
    ASSUME TypeOK, NEW t, NEW u, Popped(t), u # t
    PROVE  Queued(u) => Queued(u)'
  <1>1. /\ Len(queue) \in Nat \ {0}
        /\ DOMAIN queue = 1 .. Len(queue)
        /\ DOMAIN queue' = 1 .. Len(queue) - 1
        /\ \A i \in 1 .. Len(queue) - 1 : queue'[i] = queue[i + 1]
        /\ queue[1].type = t
    BY TailFacts DEF TypeOK, Popped
  <1>2. ASSUME NEW i \in DOMAIN queue, queue[i].type = u
        PROVE  i - 1 \in DOMAIN queue' /\ queue'[i - 1].type = u
    BY <1>1, <1>2
  <1> QED BY <1>2 DEF Queued


LEMMA ServiceStep == ServiceInv /\ [Next]_vars => ServiceInv'
  <1> SUFFICES ASSUME ServiceInv, [Next]_vars PROVE ServiceInv'
    OBVIOUS
  <1>0. TypeOK /\ TypeOK'
    BY TypeStep DEF ServiceInv
  <1>a. \A t \in CommandTypes, h \in Hosts \cup {NoHost}, b \in Budgets :
           Command(t, h, b) \in Commands /\ Command(t, h, b).type = t
    BY DEF Command, Commands
  <1>b. DefaultBudgets \in Budgets
    BY DefaultBudgetsType
  <1> USE DEF ServiceInv, RequestsAreQueued, NoMissedWakeup, WorkerOutlivesSession,
              WorkerHasWork, MayRun, session, guest, report, account, threads, MayCall
  <1>1. CASE UNCHANGED queue
    <2>0. \A t : Queued(t)' <=> Queued(t)
      BY <1>1 DEF Queued
    <2>1. ASSUME NEW h \in Hosts, HostCall(h) PROVE ServiceInv'
      <3>1. ASSUME NEW cmd \in Commands, Submit(cmd) PROVE FALSE
        <4>1. queue \in Seq(Commands) /\ queue' = Append(queue, cmd)
          BY <3>1, <1>0 DEF Submit, TypeOK
        <4>2. Len(queue') = Len(queue) + 1 /\ Len(queue) \in Nat
          BY <4>1, AppendFacts
        <4> QED BY <4>2, <1>1
      <3>2. \A b \in Budgets : ~(Start(h, b) \/ Resume(h, b) \/ Step(h, b) \/ RunWithBudget(h, b))
        BY <3>1, <1>a, SMTT(30) DEF Start, Resume, Step, RunWithBudget, Synchronous, CommandTypes
      <3>3. ~Pause(h) /\ ~Stop(h)
        BY <3>1, <1>a, <1>b, ZenonT(30) DEF Pause, Stop, CommandTypes
      <3> QED
        BY <2>1, <2>0, <1>0, <1>1, <3>2, <3>3
        DEF HostCall, Prepare, PausePrepared, WaitCompletion, SchedulePushbuffer
    <2>2. ASSUME NEW h \in Hosts, Wake(h) \/ WaitTimeout(h) \/ SpuriousWakeup(h)
          PROVE ServiceInv'
      BY <2>2, <2>0, <1>0, <1>1 DEF Wake, WaitTimeout, SpuriousWakeup
    <2>3. CASE Destroy
      BY <2>3, <2>0, <1>0, <1>1 DEF Destroy
    <2>4. ASSUME NEW t, Popped(t) PROVE FALSE
      BY <2>4, <1>1, <1>0, TailFacts DEF Popped, TypeOK
    <2>5. CASE Worker
      <3>1. CASE WorkerWait \/ WorkerLeave \/ EventReentersMutex
        BY <3>1, <2>0, <1>0, <1>1 DEF WorkerWait, WorkerLeave, EventReentersMutex, SliceRuns, SliceTurn
      <3>2. CASE SliceExhausted \/ SliceContinues \/ SliceStops
        BY <3>2, <2>0, <1>0, <1>1
        DEF SliceExhausted, SliceContinues, SliceStops, SliceRuns, SliceTurn
      <3> QED
        BY <2>5, <2>4, <3>1, <3>2
        DEF Worker, ExecuteStart, ExecuteResume, ExecutePause, ExecuteStop, RejectSynchronous,
            ExecuteSynchronousStopped, ExecuteStep, ExecuteRunWithBudget, Accepted
    <2>6. CASE UNCHANGED vars
      BY <2>6, <2>0, <1>0 DEF vars
    <2> QED BY <2>1, <2>2, <2>3, <2>5, <2>6 DEF Next
  <1>2. ASSUME NEW h \in Hosts, NEW b \in Budgets, Start(h, b) \/ Resume(h, b) PROVE ServiceInv'
    BY <1>2, <1>0 DEF Start, Resume, Submit
  <1>3. ASSUME NEW h \in Hosts, NEW b \in Budgets, Step(h, b) \/ RunWithBudget(h, b)
        PROVE ServiceInv'
    BY <1>3, <1>0 DEF Step, RunWithBudget, Synchronous, Submit
  <1>4. ASSUME NEW h \in Hosts, Pause(h) PROVE ServiceInv'
    <2>1. Queued("Pause")' /\ (Queued("Stop") => Queued("Stop")')
      BY <1>4, <1>a, <1>b, <1>0, QueuedAfterSubmit DEF Pause, CommandTypes
    <2> QED BY <1>4, <1>0, <2>1 DEF Pause, Submit
  <1>5. ASSUME NEW h \in Hosts, Stop(h) PROVE ServiceInv'
    <2>1. Queued("Stop")' /\ (Queued("Pause") => Queued("Pause")')
      BY <1>5, <1>a, <1>b, <1>0, QueuedAfterSubmit DEF Stop, CommandTypes
    <2> QED BY <1>5, <1>0, <2>1 DEF Stop, Submit
  <1>6. CASE ExecutePause
    <2>1. Queued("Stop") => Queued("Stop")'
      BY <1>6, <1>0, QueuedAfterPop DEF ExecutePause
    <2> QED BY <1>6, <1>0, <2>1 DEF ExecutePause, Popped
  <1>7. CASE ExecuteStop
    <2>1. Queued("Pause") => Queued("Pause")'
      BY <1>7, <1>0, QueuedAfterPop DEF ExecuteStop
    <2> QED BY <1>7, <1>0, <2>1 DEF ExecuteStop, Popped
  <1>8. ASSUME NEW t \in {"Start", "Resume", "Step", "RunWithBudget"}, Popped(t),
               UNCHANGED <<pauseRequested, stopRequested, workerExit, worker>>
        PROVE ServiceInv'
    <2>1. Queued("Pause") => Queued("Pause")'
      BY <1>8, <1>0, QueuedAfterPop
    <2>2. Queued("Stop") => Queued("Stop")'
      BY <1>8, <1>0, QueuedAfterPop
    <2> QED BY <1>8, <1>0, <2>1, <2>2 DEF Popped
  <1>9. CASE ExecuteStart \/ ExecuteResume \/ RejectSynchronous
    BY <1>9, <1>8, SMTT(30) DEF ExecuteStart, ExecuteResume, RejectSynchronous
  <1>10. CASE \/ ExecuteSynchronousStopped("Step") \/ ExecuteSynchronousStopped("RunWithBudget")
              \/ ExecuteStep \/ ExecuteRunWithBudget
    BY <1>10, <1>8
    DEF ExecuteSynchronousStopped, ExecuteStep, ExecuteRunWithBudget, Accepted, FinishSynchronous
  <1>11. CASE ~UNCHANGED queue
    <2> HIDE DEF ServiceInv
    <2>1. ~UNCHANGED vars
      BY <1>11 DEF vars
    <2>2. ASSUME NEW h \in Hosts, Wake(h) \/ WaitTimeout(h) \/ SpuriousWakeup(h) PROVE FALSE
      BY <2>2, <1>11, SMTT(30) DEF Wake, WaitTimeout, SpuriousWakeup
    <2>3. ASSUME NEW h \in Hosts, HostCall(h) PROVE ServiceInv'
      <3>1. ~Prepare(h) /\ ~PausePrepared(h) /\ ~SchedulePushbuffer(h)
        BY <1>11 DEF Prepare, PausePrepared, SchedulePushbuffer
      <3>2. ~WaitCompletion(h, "waiting") /\ ~WaitCompletion(h, "waitingFor")
        BY <1>11 DEF WaitCompletion
      <3> QED BY <2>3, <3>1, <3>2, <1>2, <1>3, <1>4, <1>5 DEF HostCall
    <2>4. CASE Worker
      BY <2>4, <1>11, <1>6, <1>7, <1>9, <1>10
      DEF Worker, WorkerWait, WorkerLeave, SliceExhausted, SliceContinues, SliceStops,
          EventReentersMutex
    <2>5. ~Destroy
      BY <1>11 DEF Destroy
    <2> QED BY <2>1, <2>2, <2>3, <2>4, <2>5 DEF Next
  <1> QED BY <1>1, <1>11

\* A session that reports Running always has a worker that is awake, for any
\* number of host threads and any interleaving of their calls with the worker:
\* a missed notify_one or a request flag without its command would break it.
THEOREM Service == Spec => []RunningIsServed
  <1>1. Init => ServiceInv
    BY TypeInit DEF Init, ServiceInv, RequestsAreQueued, NoMissedWakeup, WorkerOutlivesSession
  <1>2. ServiceInv => RunningIsServed
    BY DEF ServiceInv, TypeOK, RequestsAreQueued, NoMissedWakeup, WorkerOutlivesSession,
           RunningIsServed, WorkerHasWork, MayRun, Queued
  <1> QED BY <1>1, <1>2, ServiceStep, PTL DEF Spec

\* No wake-up of the worker is ever missed.
THEOREM WakeupsAreNotMissed == Spec => []NoMissedWakeup
  <1>1. Init => ServiceInv
    BY TypeInit DEF Init, ServiceInv, RequestsAreQueued, NoMissedWakeup, WorkerOutlivesSession
  <1> QED BY <1>1, ServiceStep, PTL DEF Spec, ServiceInv

\* No pause or stop flag stays up without the command that lowers it.
THEOREM RequestsStayQueued == Spec => []RequestsAreQueued
  <1>1. Init => ServiceInv
    BY TypeInit DEF Init, ServiceInv, RequestsAreQueued, NoMissedWakeup, WorkerOutlivesSession
  <1> QED BY <1>1, ServiceStep, PTL DEF Spec, ServiceInv

-----------------------------------------------------------------------------
(* The budgets in force. *)

IsGrant(cmd) == cmd.type \in {"Start", "Resume"}

\* Of the queued Start and Resume commands the last one carries the granted
\* budgets; with none queued the granted budgets are already in force.
LastGrantWins ==
    /\ \A i \in DOMAIN queue :
          IsGrant(queue[i]) /\ (\A j \in DOMAIN queue : j > i => ~IsGrant(queue[j]))
          => queue[i].budgets = granted
    /\ (\A i \in DOMAIN queue : ~IsGrant(queue[i])) => budgets = granted

\* The inductive invariant behind BudgetsInForce.
BudgetInv == TypeOK /\ LastGrantWins

LEMMA BudgetStep == BudgetInv /\ [Next]_vars => BudgetInv'
  <1> SUFFICES ASSUME BudgetInv, [Next]_vars PROVE LastGrantWins'
    BY TypeStep DEF BudgetInv
  <1>0. TypeOK /\ LastGrantWins
    BY DEF BudgetInv
  <1>a. \A t \in CommandTypes, h \in Hosts \cup {NoHost}, b \in Budgets :
           /\ Command(t, h, b) \in Commands
           /\ Command(t, h, b).type = t /\ Command(t, h, b).budgets = b
    BY DEF Command, Commands
  <1>b. DefaultBudgets \in Budgets
    BY DefaultBudgetsType
  <1>c. ASSUME NEW cmd \in Commands, Submit(cmd)
        PROVE  /\ Len(queue) \in Nat
               /\ DOMAIN queue = 1 .. Len(queue)
               /\ DOMAIN queue' = 1 .. Len(queue) + 1
               /\ \A i \in 1 .. Len(queue) : queue'[i] = queue[i]
               /\ queue'[Len(queue) + 1] = cmd
    BY <1>c, <1>0, AppendFacts DEF TypeOK, Submit
  <1>d. ASSUME NEW t, Popped(t)
        PROVE  /\ Len(queue) \in Nat \ {0}
               /\ DOMAIN queue = 1 .. Len(queue)
               /\ DOMAIN queue' = 1 .. Len(queue) - 1
               /\ \A i \in 1 .. Len(queue) - 1 : queue'[i] = queue[i + 1]
               /\ Head(queue) = queue[1] /\ queue[1].type = t
    BY <1>d, <1>0, TailFacts DEF TypeOK, Popped
  <1>1. ASSUME UNCHANGED <<queue, budgets, granted>> PROVE LastGrantWins'
    BY <1>1, <1>0 DEF LastGrantWins, IsGrant
  <1>2. ASSUME NEW cmd \in Commands, Submit(cmd), IsGrant(cmd), granted' = cmd.budgets
        PROVE LastGrantWins'
    BY <1>2, <1>c DEF LastGrantWins, IsGrant
  <1>3. ASSUME NEW cmd \in Commands, Submit(cmd), ~IsGrant(cmd), UNCHANGED <<budgets, granted>>
        PROVE LastGrantWins'
    <2>1. ASSUME NEW i \in DOMAIN queue', IsGrant(queue'[i]),
                 \A j \in DOMAIN queue' : j > i => ~IsGrant(queue'[j])
          PROVE queue'[i].budgets = granted'
      <3>1. i \in DOMAIN queue /\ queue'[i] = queue[i]
        BY <2>1, <1>3, <1>c
      <3>2. \A j \in DOMAIN queue : j > i => ~IsGrant(queue[j])
        BY <2>1, <1>3, <1>c
      <3> QED BY <3>1, <3>2, <2>1, <1>0, <1>3 DEF LastGrantWins
    <2>2. ASSUME \A i \in DOMAIN queue' : ~IsGrant(queue'[i]) PROVE budgets' = granted'
      <3>1. \A i \in DOMAIN queue : ~IsGrant(queue[i])
        BY <2>2, <1>3, <1>c
      <3> QED BY <3>1, <1>0, <1>3 DEF LastGrantWins
    <2> QED BY <2>1, <2>2 DEF LastGrantWins, IsGrant
  <1>4. ASSUME NEW t, Popped(t), UNCHANGED granted,
               IF IsGrant(queue[1]) THEN budgets' = queue[1].budgets ELSE UNCHANGED budgets
        PROVE LastGrantWins'
    <2>1. ASSUME NEW i \in DOMAIN queue', IsGrant(queue'[i]),
                 \A j \in DOMAIN queue' : j > i => ~IsGrant(queue'[j])
          PROVE queue'[i].budgets = granted'
      <3>1. i + 1 \in DOMAIN queue /\ queue'[i] = queue[i + 1]
        BY <2>1, <1>4, <1>d
      <3>2. ASSUME NEW j \in DOMAIN queue, j > i + 1 PROVE ~IsGrant(queue[j])
        <4>1. j - 1 \in DOMAIN queue' /\ j - 1 > i /\ queue'[j - 1] = queue[j]
          BY <3>1, <3>2, <1>4, <1>d, SMTT(30)
        <4> QED BY <4>1, <2>1
      <3> QED BY <3>1, <3>2, <2>1, <1>0, <1>4 DEF LastGrantWins
    <2>2. ASSUME \A i \in DOMAIN queue' : ~IsGrant(queue'[i]) PROVE budgets' = granted'
      <3>1. ASSUME NEW j \in DOMAIN queue, j > 1 PROVE ~IsGrant(queue[j])
        <4>1. j - 1 \in DOMAIN queue' /\ queue'[j - 1] = queue[j]
          BY <3>1, <1>4, <1>d, SMTT(30)
        <4> QED BY <4>1, <2>2
      <3>2. 1 \in DOMAIN queue /\ \A j \in DOMAIN queue : j = 1 \/ j > 1
        BY <1>4, <1>d
      <3>3. CASE IsGrant(queue[1])
        BY <3>1, <3>2, <3>3, <1>0, <1>4 DEF LastGrantWins
      <3>4. CASE ~IsGrant(queue[1])
        BY <3>1, <3>2, <3>4, <1>0, <1>4 DEF LastGrantWins
      <3> QED BY <3>3, <3>4
    <2> QED BY <2>1, <2>2 DEF LastGrantWins, IsGrant
  <1>5. ASSUME NEW h \in Hosts, HostCall(h) PROVE LastGrantWins'
    <2>1. ASSUME NEW b \in Budgets, Start(h, b) \/ Resume(h, b) PROVE LastGrantWins'
      BY <2>1, <1>2, <1>a DEF Start, Resume, IsGrant, CommandTypes
    <2>2. ASSUME NEW b \in Budgets, Step(h, b) \/ RunWithBudget(h, b) PROVE LastGrantWins'
      BY <2>2, <1>3, <1>a DEF Step, RunWithBudget, Synchronous, IsGrant, CommandTypes, account
    <2>3. CASE Pause(h) \/ Stop(h)
      BY <2>3, <1>3, <1>a, <1>b DEF Pause, Stop, IsGrant, CommandTypes, account
    <2> QED
      BY <2>1, <2>2, <2>3, <1>5, <1>1
      DEF HostCall, Prepare, PausePrepared, WaitCompletion, SchedulePushbuffer, account
  <1>6. ASSUME NEW h \in Hosts, Wake(h) \/ WaitTimeout(h) \/ SpuriousWakeup(h)
        PROVE LastGrantWins'
    BY <1>6, <1>1, SMTT(30) DEF Wake, WaitTimeout, SpuriousWakeup, account
  <1>7. CASE Worker
    <2>1. CASE ExecuteStart \/ ExecuteResume
      <3>1. PICK t \in {"Start", "Resume"} :
               Popped(t) /\ budgets' = Head(queue).budgets /\ granted' = granted
        BY <2>1 DEF ExecuteStart, ExecuteResume
      <3>2. Head(queue) = queue[1] /\ IsGrant(queue[1])
        BY <3>1, <1>d DEF IsGrant
      <3> QED BY <3>1, <3>2, <1>4
    <2>2. ASSUME NEW t, Popped(t), t \notin {"Start", "Resume"}, UNCHANGED <<budgets, granted>>
          PROVE LastGrantWins'
      BY <2>2, <1>4, <1>d DEF IsGrant
    <2>3. CASE ExecutePause \/ ExecuteStop \/ RejectSynchronous
      BY <2>2, <2>3, SMTT(30) DEF ExecutePause, ExecuteStop, RejectSynchronous, account
    <2>4. CASE \/ ExecuteSynchronousStopped("Step") \/ ExecuteSynchronousStopped("RunWithBudget")
               \/ ExecuteStep \/ ExecuteRunWithBudget
      BY <2>2, <2>4
      DEF ExecuteSynchronousStopped, ExecuteStep, ExecuteRunWithBudget, Accepted,
          FinishSynchronous, account
    <2> QED
      <3>1. CASE WorkerWait \/ WorkerLeave \/ EventReentersMutex
        BY <3>1, <1>1 DEF WorkerWait, WorkerLeave, EventReentersMutex, account
      <3>2. CASE SliceExhausted \/ SliceContinues \/ SliceStops
        BY <3>2, <1>1 DEF SliceExhausted, SliceContinues, SliceStops, account
      <3> QED BY <2>1, <2>3, <2>4, <3>1, <3>2, <1>7 DEF Worker
  <1>8. CASE Destroy
    BY <1>8, <1>1 DEF Destroy, account
  <1>9. CASE UNCHANGED vars
    BY <1>9, <1>1 DEF vars, account
  <1> QED BY <1>5, <1>6, <1>7, <1>8, <1>9 DEF Next

\* However many Start and Resume commands the worker still has to apply, it never
\* runs a slice under budgets other than those of the last accepted call.
THEOREM BudgetsAreInForce == Spec => []BudgetsInForce
  <1>1. Init => BudgetInv
    BY TypeInit DEF Init, BudgetInv, LastGrantWins
  <1>2. BudgetInv => BudgetsInForce
    BY DEF BudgetInv, LastGrantWins, BudgetsInForce
  <1> QED BY <1>1, <1>2, BudgetStep, PTL DEF Spec

-----------------------------------------------------------------------------
(* The promises of Step and RunWithBudget. *)

\* Exactly the Step and RunWithBudget commands carry a promise.
PromiseCommands ==
    \A i \in DOMAIN queue : queue[i].host = NoHost <=> queue[i].type \notin {"Step", "RunWithBudget"}

PromiseInv == TypeOK /\ PromisesArePending /\ PromiseCommands

LEMMA PromiseStep == PromiseInv /\ [Next]_vars => PromiseInv'
  <1> SUFFICES ASSUME PromiseInv, [Next]_vars PROVE (PromisesArePending /\ PromiseCommands)'
    BY TypeStep DEF PromiseInv
  <1> DEFINE Goal == (PromisesArePending /\ PromiseCommands)'
  <1>0. TypeOK /\ PromisesArePending /\ PromiseCommands
    BY DEF PromiseInv
  <1>a. \A t \in CommandTypes, h \in Hosts \cup {NoHost}, b \in Budgets :
           /\ Command(t, h, b) \in Commands
           /\ Command(t, h, b).type = t /\ Command(t, h, b).host = h
    BY DEF Command, Commands
  <1>b. DefaultBudgets \in Budgets
    BY DefaultBudgetsType
  <1>c. ASSUME NEW cmd \in Commands, Submit(cmd)
        PROVE  /\ Len(queue) \in Nat
               /\ DOMAIN queue = 1 .. Len(queue)
               /\ DOMAIN queue' = 1 .. Len(queue) + 1
               /\ \A i \in 1 .. Len(queue) : queue'[i] = queue[i]
               /\ queue'[Len(queue) + 1] = cmd
    BY <1>c, <1>0, AppendFacts DEF TypeOK, Submit
  <1>d. ASSUME NEW t, Popped(t)
        PROVE  /\ Len(queue) \in Nat \ {0}
               /\ DOMAIN queue = 1 .. Len(queue)
               /\ DOMAIN queue' = 1 .. Len(queue) - 1
               /\ \A i \in 1 .. Len(queue) - 1 : queue'[i] = queue[i + 1]
               /\ Head(queue) = queue[1] /\ queue[1].type = t
               /\ queue[1].host \in Hosts \cup {NoHost}
    <2>1. Head(queue) \in Commands
      BY <1>d, <1>0, TailFacts DEF TypeOK, Popped
    <2> QED BY <2>1, <1>d, <1>0, TailFacts DEF TypeOK, Popped, Commands
  <1>e. call = [g \in Hosts |-> call[g]]
    BY <1>0 DEF TypeOK
  \* Steps that leave the queue alone and neither start nor end a future.
  <1>1. ASSUME UNCHANGED queue, \A h \in Hosts : call'[h] = "future" <=> call[h] = "future"
        PROVE Goal
    BY <1>1, <1>0 DEF PromisesArePending, PromiseCommands
  \* A command without a promise is queued.
  <1>2. ASSUME NEW cmd \in Commands, Submit(cmd), cmd.host = NoHost,
               cmd.type \notin {"Step", "RunWithBudget"},
               \A h \in Hosts : call'[h] = "future" <=> call[h] = "future"
        PROVE Goal
    <2>1. \A i \in DOMAIN queue', h \in Hosts :
             queue'[i].host = h => i \in DOMAIN queue /\ queue[i].host = h
      BY <1>2, <1>c, SessionAssumption, SMTT(30)
    <2>2. \A i \in DOMAIN queue : i \in DOMAIN queue' /\ queue'[i] = queue[i]
      BY <1>2, <1>c
    <2>3. PromisesArePending'
      BY <2>1, <2>2, <1>2, <1>0 DEF PromisesArePending
    <2>4. PromiseCommands'
      BY <1>2, <1>c, <1>0, SMTT(30) DEF PromiseCommands
    <2> QED BY <2>3, <2>4, SMTT(30)
  \* Step or RunWithBudget is queued.
  <1>3. ASSUME NEW h \in Hosts, NEW cmd \in Commands, Submit(cmd), cmd.host = h,
               cmd.type \in {"Step", "RunWithBudget"}, call[h] = "none",
               call' = [call EXCEPT ![h] = "future"]
        PROVE Goal
    <2>0. \A i \in DOMAIN queue : queue[i].host # h
      BY <1>3, <1>0, SMTT(30) DEF PromisesArePending
    <2>1. \A i \in DOMAIN queue' :
             \/ i \in DOMAIN queue /\ queue'[i] = queue[i]
             \/ i = Len(queue) + 1 /\ queue'[i] = cmd
      BY <1>3, <1>c
    <2>2. \A i \in DOMAIN queue : i \in DOMAIN queue' /\ queue'[i] = queue[i]
      BY <1>3, <1>c, SMTT(30)
    <2>3. Len(queue) + 1 \in DOMAIN queue' /\ queue'[Len(queue) + 1] = cmd
      BY <1>3, <1>c
    <2>4. ASSUME NEW g \in Hosts
          PROVE /\ call'[g] = "future" <=> \E i \in DOMAIN queue' : queue'[i].host = g
                /\ \A i, j \in DOMAIN queue' : queue'[i].host = g /\ queue'[j].host = g => i = j
      <3>1. CASE g = h
        <4>1. call'[g] = "future"
          BY <3>1, <1>3, <1>0 DEF TypeOK
        <4> QED BY <4>1, <3>1, <2>0, <2>1, <2>3, <1>3
      <3>2. CASE g # h
        <4>1. call'[g] = call[g]
          BY <3>2, <1>3, <1>0 DEF TypeOK
        <4>2. \A i \in DOMAIN queue' : queue'[i].host = g => i \in DOMAIN queue /\ queue[i].host = g
          BY <3>2, <2>1, <1>3
        <4> QED BY <4>1, <4>2, <2>2, <1>0 DEF PromisesArePending
      <3> QED BY <3>1, <3>2
    <2>5. PromisesArePending'
      BY <2>4 DEF PromisesArePending
    <2>6. PromiseCommands'
      BY <2>1, <1>3, <1>0, SessionAssumption DEF PromiseCommands
    <2> QED BY <2>5, <2>6
  \* A command is popped; its promise, if any, is resolved.
  <1>4. ASSUME NEW t, Popped(t),
               IF t \in {"Step", "RunWithBudget"} THEN Resolve(queue[1].host) ELSE UNCHANGED call
        PROVE Goal
    <2>0. 1 \in DOMAIN queue /\ (queue[1].host = NoHost <=> t \notin {"Step", "RunWithBudget"})
      BY <1>4, <1>d, <1>0, SMTT(30) DEF PromiseCommands
    <2>1. \A i \in DOMAIN queue' :
             i + 1 \in DOMAIN queue /\ i + 1 # 1 /\ queue'[i] = queue[i + 1] /\ i \in Nat
      BY <1>4, <1>d
    <2>2. \A i \in DOMAIN queue : i = 1 \/ (i - 1 \in DOMAIN queue' /\ queue'[i - 1] = queue[i])
      BY <1>4, <1>d
    <2>3. ASSUME NEW g \in Hosts
          PROVE /\ call'[g] = "future" <=> \E i \in DOMAIN queue' : queue'[i].host = g
                /\ \A i, j \in DOMAIN queue' : queue'[i].host = g /\ queue'[j].host = g => i = j
      <3>1. \A i, j \in DOMAIN queue' : queue'[i].host = g /\ queue'[j].host = g => i = j
        <4> SUFFICES ASSUME NEW i \in DOMAIN queue', NEW j \in DOMAIN queue',
                            queue'[i].host = g, queue'[j].host = g
                     PROVE i = j
          OBVIOUS
        <4>1. i + 1 = j + 1
          BY <2>1, <1>0 DEF PromisesArePending
        <4> QED BY <4>1, <2>1
      <3>2. CASE g = queue[1].host
        <4>1. call'[g] = "none"
          BY <3>2, <2>0, <1>4, <1>0, SessionAssumption, SMTT(30) DEF Resolve, TypeOK
        <4>2. \A i \in DOMAIN queue' : queue'[i].host # g
          BY <3>2, <2>0, <2>1, <1>0 DEF PromisesArePending
        <4> QED BY <4>1, <4>2, <3>1
      <3>3. CASE g # queue[1].host
        <4>1. call'[g] = call[g]
          BY <3>3, <1>4, <1>0 DEF Resolve, TypeOK
        <4>2. (\E i \in DOMAIN queue : queue[i].host = g) <=> (\E i \in DOMAIN queue' : queue'[i].host = g)
          BY <3>3, <2>1, <2>2
        <4> QED BY <4>1, <4>2, <3>1, <1>0 DEF PromisesArePending
      <3> QED BY <3>2, <3>3
    <2>4. PromisesArePending'
      BY <2>3 DEF PromisesArePending
    <2>5. PromiseCommands'
      BY <2>1, <1>0, SMTT(30) DEF PromiseCommands
    <2> QED BY <2>4, <2>5
  <1>5. ASSUME NEW h \in Hosts, HostCall(h) PROVE Goal
    <2>0. ASSUME NEW k \in {"pausing", "stopping", "waiting", "waitingFor"}, call[h] = "none",
                 Block(h, k)
          PROVE \A g \in Hosts : call'[g] = "future" <=> call[g] = "future"
      <3>1. call' = [call EXCEPT ![h] = k] /\ k # "future"
        BY <2>0 DEF Block
      <3> QED BY <3>1, <2>0, <1>e
    <2>1. ASSUME NEW b \in Budgets, Start(h, b) \/ Resume(h, b) PROVE Goal
      <3>1. PICK t \in {"Start", "Resume"} : Submit(Command(t, NoHost, b)) /\ call' = call
        BY <2>1 DEF Start, Resume, threads
      <3>2. /\ Command(t, NoHost, b) \in Commands /\ Command(t, NoHost, b).host = NoHost
            /\ Command(t, NoHost, b).type \notin {"Step", "RunWithBudget"}
        BY <1>a DEF CommandTypes
      <3> QED BY <3>1, <3>2, <1>2
    <2>2. ASSUME NEW b \in Budgets, Step(h, b) \/ RunWithBudget(h, b) PROVE Goal
      <3>1. PICK t \in {"Step", "RunWithBudget"} :
               Submit(Command(t, h, b)) /\ call[h] = "none" /\ call' = [call EXCEPT ![h] = "future"]
        BY <2>2 DEF Step, RunWithBudget, Synchronous, MayCall
      <3>2. /\ Command(t, h, b) \in Commands /\ Command(t, h, b).host = h
            /\ Command(t, h, b).type \in {"Step", "RunWithBudget"}
        BY <1>a DEF CommandTypes
      <3> QED BY <3>1, <3>2, <1>3, Zenon
    <2>3. CASE Pause(h)
      <3>1. \A g \in Hosts : call'[g] = "future" <=> call[g] = "future"
        BY <2>3, <2>0 DEF Pause, MayCall, threads
      <3>2. Submit(Command("Pause", NoHost, DefaultBudgets))
        BY <2>3 DEF Pause
      <3>3. /\ Command("Pause", NoHost, DefaultBudgets) \in Commands
            /\ Command("Pause", NoHost, DefaultBudgets).host = NoHost
            /\ Command("Pause", NoHost, DefaultBudgets).type \notin {"Step", "RunWithBudget"}
        BY <1>a, <1>b DEF CommandTypes
      <3> QED BY <3>1, <3>2, <3>3, <1>2
    <2>4. CASE Stop(h)
      <3>1. \A g \in Hosts : call'[g] = "future" <=> call[g] = "future"
        BY <2>4, <2>0 DEF Stop, MayCall
      <3>2. Submit(Command("Stop", NoHost, DefaultBudgets))
        BY <2>4 DEF Stop
      <3>3. /\ Command("Stop", NoHost, DefaultBudgets) \in Commands
            /\ Command("Stop", NoHost, DefaultBudgets).host = NoHost
            /\ Command("Stop", NoHost, DefaultBudgets).type \notin {"Step", "RunWithBudget"}
        BY <1>a, <1>b DEF CommandTypes
      <3> QED BY <3>1, <3>2, <3>3, <1>2
    <2>5. ASSUME NEW k \in {"waiting", "waitingFor"}, WaitCompletion(h, k) PROVE Goal
      BY <2>5, <2>0, <1>1 DEF WaitCompletion, MayCall
    <2> QED
      BY <2>1, <2>2, <2>3, <2>4, <2>5, <1>5, <1>1
      DEF HostCall, Prepare, PausePrepared, SchedulePushbuffer, threads
  <1>6. ASSUME NEW h \in Hosts, Wake(h) \/ WaitTimeout(h) \/ SpuriousWakeup(h) PROVE Goal
    <2>1. \A g \in Hosts : call'[g] = "future" <=> call[g] = "future"
      <3>1. \/ call' = call
            \/ call' = [call EXCEPT ![h] = "none"] /\ call[h] # "future"
        BY <1>6, SMTT(30) DEF Wake, WaitTimeout, SpuriousWakeup
      <3> QED BY <3>1, <1>e
    <2> QED BY <2>1, <1>6, <1>1 DEF Wake, WaitTimeout, SpuriousWakeup
  <1>7. CASE Worker
    <2>1. CASE ExecuteStart \/ ExecuteResume \/ ExecutePause \/ ExecuteStop
      BY <2>1, <1>4 DEF ExecuteStart, ExecuteResume, ExecutePause, ExecuteStop, threads
    <2>2. CASE RejectSynchronous
      BY <2>2, <1>4, <1>d, SMTT(30) DEF RejectSynchronous
    <2>3. CASE \/ ExecuteSynchronousStopped("Step") \/ ExecuteSynchronousStopped("RunWithBudget")
               \/ ExecuteStep \/ ExecuteRunWithBudget
      BY <2>3, <1>4, <1>d
      DEF ExecuteSynchronousStopped, ExecuteStep, ExecuteRunWithBudget, Accepted,
          FinishSynchronous
    <2> QED
      <3>1. CASE WorkerWait \/ WorkerLeave \/ EventReentersMutex
        BY <3>1, <1>1 DEF WorkerWait, WorkerLeave, EventReentersMutex, threads
      <3>2. CASE SliceExhausted \/ SliceContinues \/ SliceStops
        BY <3>2, <1>1 DEF SliceExhausted, SliceContinues, SliceStops, threads
      <3> QED BY <2>1, <2>2, <2>3, <3>1, <3>2, <1>7 DEF Worker
  <1>8. CASE Destroy
    BY <1>8, <1>1 DEF Destroy
  <1>9. CASE UNCHANGED vars
    BY <1>9, <1>1 DEF vars, threads
  <1> QED BY <1>5, <1>6, <1>7, <1>8, <1>9 DEF Next

\* Each host blocked in Step or RunWithBudget has exactly one command in the
\* queue, so its promise is set once and its future.get() is never abandoned.
THEOREM PromisesPending == Spec => []PromisesArePending
  <1>1. Init => PromiseInv
    BY TypeInit DEF Init, PromiseInv, PromisesArePending, PromiseCommands
  <1> QED BY <1>1, PromiseStep, PTL DEF Spec, PromiseInv

-----------------------------------------------------------------------------
(* What a step may never do. *)

LEMMA ProductMonotone ==
    ASSUME NEW a \in Nat, NEW b \in Nat, NEW m \in Nat, a <= b
    PROVE  a * m <= b * m
  OBVIOUS

\* The counters grow only in a slice, by what the slice executed.
LEMMA SliceGrowth ==
    ASSUME TypeOK, [Next]_vars
    PROVE  \/ executed' \in {executed, 0} /\ cycles' \in {cycles, 0}
           \/ /\ SliceRuns
              /\ \E n \in 0 .. SliceLimit : executed' = executed + n
              /\ \E c \in 0 .. SliceLimit * MaxCost : cycles' = cycles + c
  <1>1. ASSUME NEW h \in Hosts, HostCall(h) \/ Wake(h) \/ WaitTimeout(h) \/ SpuriousWakeup(h)
        PROVE executed' \in {executed, 0} /\ cycles' \in {cycles, 0}
    BY <1>1 DEF HostCall, Prepare, Start, Resume, Step, RunWithBudget, Synchronous,
                PausePrepared, Pause, Stop, WaitCompletion, SchedulePushbuffer, Wake, WaitTimeout,
                SpuriousWakeup, account
  <1>2. CASE SliceContinues
    <2>1. SliceLimit \in Nat /\ MaxCost \in Nat
      BY <1>2, SliceLimitType, SessionAssumption DEF SliceContinues, SliceRuns
    <2>2. \E c \in 0 .. SliceLimit * MaxCost : cycles' = cycles + c
      BY <1>2, <2>1 DEF SliceContinues
    <2> QED BY <1>2, <2>1, <2>2 DEF SliceContinues
  <1>3. CASE SliceStops
    <2>1. SliceLimit \in Nat
      BY <1>3, SliceLimitType, SMTT(30) DEF SliceStops, SliceRuns
    <2> QED BY <1>3, <2>1 DEF SliceStops
  <1>4. CASE Worker /\ ~SliceContinues /\ ~SliceStops
    BY <1>4
    DEF Worker, WorkerWait, WorkerLeave, ExecuteStart, ExecuteResume, ExecutePause, ExecuteStop,
        RejectSynchronous, ExecuteSynchronousStopped, ExecuteStep, ExecuteRunWithBudget,
        FinishSynchronous, SliceExhausted, EventReentersMutex, account
  <1>5. CASE Destroy \/ UNCHANGED vars
    BY <1>5 DEF Destroy, vars, account
  <1> QED BY <1>1, <1>2, <1>3, <1>4, <1>5, SMTT(30) DEF Next

\* No slice runs past the instruction budget, whatever budgets the hosts pass and
\* however often they resume.
THEOREM InstructionBudget == Spec => InstructionBudgetHolds
  <1>1. TypeOK /\ [Next]_vars => [executed' > executed => executed' <= budgets.inst]_vars
    <2> SUFFICES ASSUME TypeOK, [Next]_vars, executed' > executed PROVE executed' <= budgets.inst
      OBVIOUS
    <2>1. executed \in Nat /\ budgets.inst \in Nat
      BY SessionAssumption DEF TypeOK
    <2>2. SliceRuns /\ \E n \in 0 .. SliceLimit : executed' = executed + n
      BY <2>1, SliceGrowth
    <2>3. SliceLimit \in Nat /\ executed + SliceLimit <= budgets.inst
      BY <2>2, SliceLimitType DEF SliceRuns
    <2> QED BY <2>1, <2>2, <2>3
  <1> QED BY <1>1, TypeCorrect, PTL DEF InstructionBudgetHolds, Spec

\* The cycle budget is overrun by less than one slice.
THEOREM CycleBudget == Spec => CycleBudgetOverrun
  <1>1. TypeOK /\ [Next]_vars => [cycles' > cycles => cycles' < budgets.cyc + Chunk * MaxCost]_vars
    <2> SUFFICES ASSUME TypeOK, [Next]_vars, cycles' > cycles
                 PROVE cycles' < budgets.cyc + Chunk * MaxCost
      OBVIOUS
    <2>1. cycles \in Nat /\ budgets.cyc \in Nat /\ MaxCost \in Nat
      BY SessionAssumption DEF TypeOK
    <2>2. PICK c \in 0 .. SliceLimit * MaxCost : cycles' = cycles + c /\ SliceRuns
      BY <2>1, SliceGrowth
    <2>3. SliceLimit \in Nat /\ Chunk \in Nat /\ SliceLimit <= Chunk /\ cycles < budgets.cyc
      BY <2>2, SliceLimitType DEF SliceRuns
    <2>4. SliceLimit * MaxCost <= Chunk * MaxCost
      BY <2>1, <2>3, ProductMonotone
    <2>5. SliceLimit * MaxCost \in Nat /\ Chunk * MaxCost \in Nat
      BY <2>1, <2>3
    <2> QED BY <2>1, <2>2, <2>3, <2>4, <2>5
  <1> QED BY <1>1, TypeCorrect, PTL DEF CycleBudgetOverrun, Spec

\* The two budgets together, as the runs check them.
THEOREM BudgetsAreHeld == Spec => BudgetsHold
  BY InstructionBudget, CycleBudget DEF BudgetsHold

\* From a Pause or Stop request on, no slice runs until its command is applied.
THEOREM RequestsStop == Spec => RequestsStopSlices
  <1>1. TypeOK /\ [Next]_vars
        => [pauseRequested \/ stopRequested => executed' \in {executed, 0}]_vars
    BY SliceGrowth DEF SliceRuns, SliceTurn, MayRun
  <1> QED BY <1>1, TypeCorrect, PTL DEF RequestsStopSlices, Spec

\* Stopped is final and Faulted can only become Stopped.
THEOREM Lifecycle == Spec => LifecycleIsOneWay
  <1> DEFINE OneWay == /\ state = "Stopped" => state' = "Stopped"
                       /\ state = "Faulted" => state' \in {"Faulted", "Stopped"}
                       /\ state # "Created" => state' # "Created"
  <1>1. [Next]_vars => [OneWay]_vars
    <2> SUFFICES ASSUME Next PROVE OneWay
      BY SMTT(30)
    <2>1. ASSUME NEW h \in Hosts, HostCall(h) \/ Wake(h) \/ WaitTimeout(h) \/ SpuriousWakeup(h)
          PROVE OneWay
      <3>0. ASSUME state' = state PROVE OneWay
        BY <3>0
      <3>1. CASE Prepare(h) \/ PausePrepared(h)
        BY <3>1 DEF Prepare, PausePrepared
      <3>2. ASSUME NEW b \in Budgets, Start(h, b) \/ Resume(h, b) PROVE OneWay
        BY <3>2 DEF Start, Resume
      <3> HIDE DEF OneWay
      <3>3. ASSUME NEW b \in Budgets, Step(h, b) \/ RunWithBudget(h, b) PROVE OneWay
        BY <3>3, <3>0 DEF Step, RunWithBudget, Synchronous
      <3>4. CASE Pause(h) \/ Stop(h) \/ SchedulePushbuffer(h)
        BY <3>4, <3>0 DEF Pause, Stop, SchedulePushbuffer, session
      <3>5. CASE WaitCompletion(h, "waiting") \/ WaitCompletion(h, "waitingFor")
        BY <3>5, <3>0 DEF WaitCompletion, session
      <3>6. CASE Wake(h) \/ WaitTimeout(h) \/ SpuriousWakeup(h)
        BY <3>6, <3>0 DEF Wake, WaitTimeout, SpuriousWakeup, session
      <3> QED BY <2>1, <3>1, <3>2, <3>3, <3>4, <3>5, <3>6 DEF HostCall
    <2>2. CASE Worker
      BY <2>2
      DEF Worker, WorkerWait, WorkerLeave, ExecuteStart, ExecuteResume, ExecutePause, ExecuteStop,
          RejectSynchronous, ExecuteSynchronousStopped, ExecuteStep, ExecuteRunWithBudget,
          Accepted, FinishSynchronous, GuestStopped, SliceExhausted, SliceContinues, SliceStops,
          SliceRuns, SliceTurn, MayRun, EventReentersMutex, session
    <2>3. CASE Destroy
      BY <2>3 DEF Destroy
    <2> QED BY <2>1, <2>2, <2>3 DEF Next
  <1> QED BY <1>1, PTL DEF LifecycleIsOneWay, Spec

\* A fault is never forgotten.
THEOREM FaultsAreRecorded == Spec => []FaultIsRecorded
  <1>1. Init => FaultIsRecorded
    BY DEF Init, FaultIsRecorded
  <1>2. TypeOK /\ FaultIsRecorded /\ [Next]_vars => FaultIsRecorded'
    <2> SUFFICES ASSUME TypeOK, FaultIsRecorded, [Next]_vars PROVE FaultIsRecorded'
      OBVIOUS
    <2>0. ASSUME UNCHANGED <<cpu, firstBlocker>> PROVE FaultIsRecorded'
      BY <2>0, SMTT(30) DEF FaultIsRecorded
    <2>1. ASSUME NEW end \in GuestStops, GuestStopped(end) PROVE FaultIsRecorded'
      BY <2>1, SMTT(30) DEF GuestStops, GuestStopped, RecordFirstBlocker, FaultIsRecorded, TypeOK
    <2>2. ASSUME NEW h \in Hosts, HostCall(h) \/ Wake(h) \/ WaitTimeout(h) \/ SpuriousWakeup(h)
          PROVE FaultIsRecorded'
      BY <2>2, <2>0, ZenonT(30) DEF HostCall, Prepare, Start, Resume, Step, RunWithBudget, Synchronous,
                PausePrepared, Pause, Stop, WaitCompletion, SchedulePushbuffer, Wake, WaitTimeout,
                SpuriousWakeup, guest, report
    <2>3. CASE Worker
      BY <2>0, <2>1, <2>3
      DEF Worker, WorkerWait, WorkerLeave, ExecuteStart, ExecuteResume, ExecutePause, ExecuteStop,
          RejectSynchronous, ExecuteSynchronousStopped, ExecuteStep, ExecuteRunWithBudget,
          SliceExhausted, SliceContinues, SliceStops, EventReentersMutex, guest, report
    <2>4. CASE Destroy \/ UNCHANGED vars
      BY <2>0, <2>4 DEF Destroy, vars, guest, report
    <2> QED BY <2>2, <2>3, <2>4 DEF Next
  <1> QED BY <1>1, <1>2, TypeCorrect, PTL DEF Spec

=============================================================================

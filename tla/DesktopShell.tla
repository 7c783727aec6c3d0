---------------------------- MODULE DesktopShell ----------------------------
(***************************************************************************)
(* The commands of the desktop shell (apps/desktop/src-tauri), which the   *)
(* panels of the user interface invoke and await concurrently.  A command  *)
(* reaches the machine through ACTIVE_SESSION, a mutex around an optional  *)
(* SafeMachineSession.  start_title_execution builds and runs a session of *)
(* its own and takes the mutex only to install it; every other command     *)
(* holds the mutex for the whole call, its waits included.                 *)
(*                                                                         *)
(* A session is seen through the C API: its state and the commands its     *)
(* worker has yet to pop, in order.  That its calls behave so is the       *)
(* subject of MachineSession.                                              *)
(***************************************************************************)
EXTENDS Naturals, Sequences

CONSTANTS
    Callers,        \* invocations the panels may have in flight
    Sessions,       \* handles of xblob_machine_create
    Nothing,        \* None, in ACTIVE_SESSION and where nobody holds the mutex
    WallTimes,      \* max_wall_time_ms a panel may pass (0 stands for no limit)
    WordLimit,      \* 2^32, the values of a u32
    Margin,         \* 500 ms, added to the wall time budget
    MaxPending      \* bound on the commands a session's worker has yet to pop

ASSUME ShellAssumption ==
    /\ Nothing \notin Sessions \cup Callers
    /\ WallTimes \subseteq Nat
    /\ WordLimit \in Nat /\ Margin \in 1 .. WordLimit - 1
    /\ MaxPending \in Nat \ {0}

VARIABLES
    machine,        \* the sessions: [state, queue]; state "None" is no session
    active,         \* the session in ACTIVE_SESSION
    holder,         \* who holds the mutex of ACTIVE_SESSION across a wait
    job             \* the command each caller is inside: [cmd, at, session, timed]

shellVars == <<machine, active, holder, job>>

Absent == [state |-> "None", queue |-> << >>]

Idle == [cmd |-> "none", at |-> "idle", session |-> Nothing, timed |-> FALSE]

ShellInit ==
    /\ machine = [s \in Sessions |-> Absent]
    /\ active = Nothing
    /\ holder = Nothing
    /\ job = [c \in Callers |-> Idle]

-----------------------------------------------------------------------------
(* The session behind the C API *)

Exists(s) == machine[s].state # "None"

Pending(s, cmd) == \E i \in DOMAIN machine[s].queue : machine[s].queue[i] = cmd

Push(s, state, cmd) ==
    /\ Len(machine[s].queue) < MaxPending
    /\ machine' = [machine EXCEPT ![s] = [state |-> state, queue |-> Append(@.queue, cmd)]]

\* The worker pops one command.  Start and Resume only install budgets; Step runs
\* its instructions, unless the session has left the states that may.
WorkerCommand(s) ==
    /\ machine[s].queue # << >>
    /\ LET cmd == Head(machine[s].queue)
           st  == machine[s].state
       IN  \E next \in CASE cmd \in {"Start", "Resume"} -> {st}
                         [] cmd = "Pause" -> {IF st = "Running" THEN "Paused" ELSE st}
                         [] cmd = "Stop" -> {"Stopped"}
                         [] cmd = "Step" -> IF st = "Paused" THEN {"Paused", "Faulted"} ELSE {st} :
              machine' = [machine EXCEPT ![s] = [state |-> next, queue |-> Tail(@.queue)]]
    /\ UNCHANGED <<active, holder, job>>

\* A slice ends the run: a budget, HLT or a fault.  Nothing says that one must.
WorkerSlice(s) ==
    /\ machine[s].state = "Running"
    /\ machine[s].queue = << >>
    /\ \E next \in {"Paused", "Faulted"} : machine' = [machine EXCEPT ![s].state = next]
    /\ UNCHANGED <<active, holder, job>>

\* The predicates of the waits inside Pause, Stop, Step and WaitCompletion.
Finished(cmd, s) ==
    CASE cmd = "pause" -> machine[s].state # "Running"
      [] cmd = "stop"  -> machine[s].state = "Stopped"
      [] cmd = "step"  -> ~Pending(s, "Step")
      [] cmd \in {"start", "resume"} -> machine[s].queue = << >> /\ machine[s].state # "Running"

-----------------------------------------------------------------------------
(* Commands *)

LeastOf(a, b) == IF a < b THEN a ELSE b

\* Mutant: the timeout of the wait is the wall time budget, and 0 waits for ever.
TimeoutExact(wall) == wall % WordLimit

\* (max_wall_time_ms as u32).saturating_add(500).
Timeout(wall) == LeastOf((wall % WordLimit) + Margin, WordLimit - 1)

Call(c, cmd, timed) ==
    job' = [job EXCEPT ![c] = [cmd |-> cmd, at |-> "called", session |-> Nothing,
                               timed |-> timed]]

\* A panel invokes a command.  The waits of Pause and Stop have a limit of their own,
\* Step waits for its future; "read" stands for the commands that only copy something
\* out of the session or hand it an input snapshot.
Invoke(c) ==
    /\ job[c].at = "idle"
    /\ \/ \E cmd \in {"start", "resume"}, w \in WallTimes : Call(c, cmd, Timeout(w) # 0)
       \/ \E cmd \in {"pause", "stop", "step", "read"} : Call(c, cmd, cmd # "step")
    /\ UNCHANGED <<machine, active, holder>>

Return(c) == job' = [job EXCEPT ![c] = Idle]

WaitIn(c, s) == job' = [job EXCEPT ![c].at = "waiting", ![c].session = s]

\* start_title_execution: a session of its own, prepared and started.  Without
\* ACTIVE_SESSION, so nobody else can reach it yet.
StartOwn(c) ==
    /\ job[c].at = "called" /\ job[c].cmd = "start"
    /\ \E s \in Sessions : ~Exists(s)
    /\ LET s == CHOOSE s \in Sessions : ~Exists(s)
       IN  /\ machine' = [machine EXCEPT ![s] = [state |-> "Running", queue |-> <<"Start">>]]
           /\ WaitIn(c, s)
    /\ UNCHANGED <<active, holder>>

\* Neither prepare_media nor prepare_xbe took the file: the session is dropped.
StartFails(c) ==
    /\ job[c].at = "called" /\ job[c].cmd = "start"
    /\ Return(c)
    /\ UNCHANGED <<machine, active, holder>>

\* wait_completion is over, in time or not; its result is ignored.
StartWaited(c) ==
    /\ job[c].at = "waiting" /\ job[c].cmd = "start"
    /\ Finished("start", job[c].session) \/ job[c].timed
    /\ job' = [job EXCEPT ![c].at = "installing"]
    /\ UNCHANGED <<machine, active, holder>>

\* *lock = Some(session): the session before it is stopped and destroyed, which has
\* joined its worker before the mutex is free again.
Install(c) ==
    /\ job[c].at = "installing"
    /\ holder = Nothing
    /\ machine' = [s \in Sessions |-> IF s = active THEN Absent ELSE machine[s]]
    /\ active' = job[c].session
    /\ Return(c)
    /\ UNCHANGED holder

\* A command that takes the mutex.
Enters(c) == job[c].at = "called" /\ holder = Nothing

\* The states in which a call on the session has something to do.  Otherwise it is
\* refused, or is idempotent and returns.
WorksIn(cmd) ==
    CASE cmd \in {"resume", "step"} -> {"Paused"}
      [] cmd = "pause" -> {"Running"}
      [] cmd = "stop"  -> {"Running", "Paused", "Faulted"}
      [] cmd = "read"  -> {}

Works(cmd) == active # Nothing /\ machine[active].state \in WorksIn(cmd)

\* NO_ACTIVE_SESSION, a session that has nothing to do, and the commands that only
\* read: one hold of the mutex.
AtOnce(c) ==
    /\ job[c].cmd # "start" /\ Enters(c)
    /\ ~Works(job[c].cmd)
    /\ Return(c)
    /\ UNCHANGED <<machine, active, holder>>

\* The others wait inside the session with the mutex held.
EnterSession(c, cmd, state, push) ==
    /\ job[c].cmd = cmd /\ Enters(c)
    /\ Works(cmd)
    /\ Push(active, state, push)
    /\ WaitIn(c, active)
    /\ holder' = c
    /\ UNCHANGED active

ResumeTitle(c) == EnterSession(c, "resume", "Running", "Resume")

PauseTitle(c) == EnterSession(c, "pause", machine[active].state, "Pause")

StopTitle(c) == EnterSession(c, "stop", machine[active].state, "Stop")

StepTitle(c) == EnterSession(c, "step", machine[active].state, "Step")

\* The wait is over: the snapshot is taken and the mutex released.
Waited(c) ==
    /\ job[c].at = "waiting" /\ job[c].cmd # "start"
    /\ Finished(job[c].cmd, job[c].session) \/ job[c].timed
    /\ Return(c)
    /\ holder' = Nothing
    /\ UNCHANGED <<machine, active>>

TakesMutex(c) ==
    Install(c) \/ AtOnce(c) \/ ResumeTitle(c) \/ PauseTitle(c) \/ StopTitle(c) \/ StepTitle(c)

Proceeds(c) == StartOwn(c) \/ StartFails(c) \/ StartWaited(c) \/ Waited(c)

ShellNext ==
    \/ \E c \in Callers : Invoke(c) \/ Proceeds(c) \/ TakesMutex(c)
    \/ \E s \in Sessions : WorkerCommand(s) \/ WorkerSlice(s)

-----------------------------------------------------------------------------
(* Properties *)

\* A session exists exactly as long as somebody can still reach it: it is the active
\* one, or a start that is not over owns it; and no command is inside a session that
\* has been dropped.
SessionsAreOwned ==
    /\ \A s \in Sessions :
          Exists(s) <=> s = active \/ \E c \in Callers : job[c].cmd = "start" /\ job[c].session = s
    /\ \A c \in Callers : job[c].session # Nothing => Exists(job[c].session)

\* Whatever the other panel does, and whether or not the title ever stops, a command
\* of the shell gives its answer.
CommandsAnswer == \A c \in Callers : job[c].at # "idle" ~> job[c].at = "idle"

\* "sem bloquear thread UI": no command that the user interface thread runs itself
\* (the readers are not async) finds the mutex held.  Not so: resume holds it until
\* the title stops or its wall time is over.
ReadersNeverWait == \A c \in Callers : job[c].cmd = "read" => holder = Nothing

=============================================================================

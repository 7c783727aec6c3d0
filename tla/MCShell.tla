------------------------------ MODULE MCShell ------------------------------
(***************************************************************************)
(* What must eventually happen in the execution of a title, in one run:    *)
(* a session with its host threads and worker, and the shell's commands    *)
(* around several sessions.  The shell sees a session through the promises *)
(* of its calls, so a behaviour is one of the two at work while the other  *)
(* stays in its initial state.                                             *)
(***************************************************************************)
EXTENDS MCMachineSession, DesktopShell

CONSTANTS s1, s2, s3

VARIABLE part

ThreeSessions == {s1, s2, s3}

\* No limit, a limit, and one that is 0 when cut to a word.
MCWallTimes == {0, 3, 8}

executionVars == <<part, vars, shellVars>>

ExecutionInit == part \in {"session", "shell"} /\ Init /\ ShellInit

ExecutionNext ==
    \/ part = "session" /\ Next /\ UNCHANGED <<part, shellVars>>
    \/ part = "shell" /\ ShellNext /\ UNCHANGED <<part, vars>>

Session(A) == part = "session" /\ A

Shell(A) == part = "shell" /\ A

\* Fairness of MachineSession.  Of the shell: a command and a worker go on, a timed
\* wait expires, and the mutex, released again and again, is not withheld from one
\* caller for ever.
ExecutionSpec ==
    /\ ExecutionInit /\ [][ExecutionNext]_executionVars
    /\ WF_vars(Session(Worker))
    /\ \A h \in Hosts : WF_vars(Session(Wake(h))) /\ WF_vars(Session(WaitTimeout(h)))
    /\ \A c \in Callers : WF_shellVars(Shell(Proceeds(c))) /\ SF_shellVars(Shell(TakesMutex(c)))
    /\ \A s \in Sessions : WF_shellVars(Shell(WorkerCommand(s)))

\* The commands of the shell keep their sessions and give their answers
\* (SessionsAreOwned and CommandsAnswer of DesktopShell).
ShellAnswers == []SessionsAreOwned /\ CommandsAnswer

=============================================================================

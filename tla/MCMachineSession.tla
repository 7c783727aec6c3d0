-------------------------- MODULE MCMachineSession --------------------------
(* Model-checking instances of MachineSession. *)
EXTENDS MachineSession, TLC

CONSTANTS h1, h2

TwoHosts == {h1, h2}

HostSymmetry == Permutations(TwoHosts)

Budget(i, c, w, k) == [inst |-> i, cyc |-> c, wall |-> w, chunk |-> k]

\* Four instructions or three cycles in slices of two, and a smaller budget that
\* Resume can install after more than its limit has been executed.
SmallBudgets == {Budget(4, 3, FALSE, 2), Budget(1, 2, TRUE, 0)}

OneBudget == {Budget(2, 3, FALSE, 1)}

AllCalls == {"Prepare", "Start", "Resume", "Step", "RunWithBudget", "Pause", "Stop",
             "WaitCompletion", "SchedulePushbuffer", "Destroy"}

\* The calls the C API and the desktop application make.
ShellCalls == AllCalls \ {"SchedulePushbuffer"}

PauseCalls == {"Prepare", "Start", "Resume", "Pause"}

RunCalls == {"Prepare", "Pause", "RunWithBudget"}

WaitCalls == {"Prepare", "Start", "Pause", "WaitCompletion"}

PushbufferCalls == {"Prepare", "Start", "SchedulePushbuffer"}

=============================================================================

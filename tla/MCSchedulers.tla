---------------------------- MODULE MCSchedulers ----------------------------
(***************************************************************************)
(* The two schedulers, explored in one run: the one that fires events on   *)
(* the virtual clock and the one that switches guest threads.  They share  *)
(* no state, so a behaviour is one of them at work while the other stays   *)
(* in its initial state.                                                   *)
(***************************************************************************)
EXTENDS EventScheduler, KernelThreads

VARIABLE part

schedulersVars == <<part, vars, threadVars>>

SchedulersInit ==
    /\ part \in {"events", "threads"}
    /\ part = "events" \/ clock = 0
    /\ Init /\ ThreadsInit

SchedulersNext ==
    \/ part = "events" /\ Next /\ UNCHANGED <<part, threadVars>>
    \/ part = "threads" /\ ThreadsNext /\ UNCHANGED <<part, vars>>

SchedulersSpec == SchedulersInit /\ [][SchedulersNext]_schedulersVars
=============================================================================

---------------------------- MODULE EventAgenda ----------------------------
(***************************************************************************)
(* What DeterministicScheduler promises: an agenda of events from which    *)
(* the earliest is fired, each once, cancelled ones never, in the order    *)
(* (cycle, insertion).                                                     *)
(***************************************************************************)
EXTENDS Naturals

CONSTANTS
    Numbers,    \* insertion numbers
    Cycles      \* points of virtual time

VARIABLES
    agenda,     \* events scheduled, not yet fired and not cancelled
    last        \* the event fired last

agendaVars == <<agenda, last>>

Events == [id : Numbers, target : Cycles]

Before(e, f) == e.target < f.target \/ (e.target = f.target /\ e.id < f.id)

AgendaInit == agenda = {} /\ last = [id |-> 0, target |-> 0]

\* An event is added to the future only.
Add ==
    \E e \in Events :
        /\ Before(last, e)
        /\ \A f \in agenda : f.id < e.id
        /\ agenda' = agenda \cup {e}
        /\ UNCHANGED last

Remove ==
    \E e \in agenda :
        /\ agenda' = agenda \ {e}
        /\ UNCHANGED last

Fire ==
    \E e \in agenda :
        /\ \A f \in agenda \ {e} : Before(e, f)
        /\ agenda' = agenda \ {e}
        /\ last' = e

AgendaNext == Add \/ Remove \/ Fire

AgendaSpec == AgendaInit /\ [][AgendaNext]_agendaVars

=============================================================================

------------------------------- MODULE AbsSem -------------------------------
(***************************************************************************)
(* What include/sem.h promises: counting semaphores.  P takes a unit or    *)
(* joins the queue; V hands its unit to the process that has waited        *)
(* longest, or gives it back when nobody waits.                            *)
(***************************************************************************)
EXTENDS Naturals, Sequences

CONSTANTS Sems, Process, Initial

VARIABLES value, queue

absVars == <<value, queue>>

Init ==
    /\ value = Initial
    /\ queue = [s \in Sems |-> << >>]

Queued(p) == \E s \in Sems : \E i \in DOMAIN queue[s] : queue[s][i] = p

Take(s) ==
    /\ value[s] > 0
    /\ queue[s] = << >>
    /\ value' = [value EXCEPT ![s] = @ - 1]
    /\ UNCHANGED queue

Join(s, p) ==
    /\ value[s] = 0
    /\ ~Queued(p)
    /\ queue' = [queue EXCEPT ![s] = Append(@, p)]
    /\ UNCHANGED value

GiveBack(s) ==
    /\ queue[s] = << >>
    /\ value' = [value EXCEPT ![s] = @ + 1]
    /\ UNCHANGED queue

HandOver(s) ==
    /\ queue[s] # << >>
    /\ queue' = [queue EXCEPT ![s] = Tail(@)]
    /\ UNCHANGED value

Next ==
    \E s \in Sems :
        \/ Take(s)
        \/ GiveBack(s)
        \/ HandOver(s)
        \/ \E p \in Process : Join(s, p)

Spec == Init /\ [][Next]_absVars
=============================================================================

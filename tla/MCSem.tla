------------------------------- MODULE MCSem -------------------------------
(* Semaphores on small process tables. *)
EXTENDS Sem

CONSTANTS k, p1, p2, p3, s1

FourPcbs == {k, p1, p2, p3}
OnePriority == {1}
NoChoice == {}
OneSem == {s1}
Zero == [s \in {s1} |-> 0]
One == [s \in {s1} |-> 1]
NoWait == {}
WaitForOne == {1}
=============================================================================

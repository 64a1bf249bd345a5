------------------------------ MODULE MCSched ------------------------------
(* The scheduler on small process tables. *)
EXTENDS Sched

CONSTANTS k, p1, p2

ThreePcbs == {k, p1, p2}

OnePriority == {1}
TwoPriorities == {0, 1}
ThreePriorities == {0, 1, 2}

FixedPriority == {"FIXED_PRIORITY_SCHED"}
ByPriority == {"FIXED_PRIORITY_SCHED", "DYNAMIC_PRIORITY_SCHED"}
=============================================================================

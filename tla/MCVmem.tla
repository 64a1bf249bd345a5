------------------------------- MODULE MCVmem -------------------------------
(* A few processes, pages and frames. *)
EXTENDS Vmem

CONSTANTS os, user, child

TwoProcesses == {os, user}
ThreeProcesses == {os, user, child}
OneOrTwoPages == {2, 3}
TwoPages == {3}
=============================================================================

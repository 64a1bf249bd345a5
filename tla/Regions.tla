------------------------------ MODULE Regions ------------------------------
(***************************************************************************)
(* What an allocator promises: every region it hands out lies apart from   *)
(* all the regions it handed out before and did not get back.  Both heaps  *)
(* of the system, gmalloc's (module Malloc) and kAlloc's (module Vmem),    *)
(* implement this.                                                         *)
(***************************************************************************)
EXTENDS Integers

CONSTANT Region         \* records [addr, size]

VARIABLE live           \* the regions that are handed out

Words(r) == r.addr .. r.addr + r.size - 1
Apart(r, s) == Words(r) \cap Words(s) = {}

RegionsInit == \A r, s \in live : r # s => Apart(r, s)

\* A call takes some regions back and hands others out.
Exchange(back, out) ==
    /\ back \subseteq live
    /\ \A r \in out : \A s \in (live \ back) \cup (out \ {r}) : Apart(r, s)
    /\ live' = (live \ back) \cup out

RegionsNext == Exchange(live \ live', live' \ live)

RegionsSpec == RegionsInit /\ [][RegionsNext]_live
=============================================================================

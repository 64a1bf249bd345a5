------------------------------- MODULE Family -------------------------------
(***************************************************************************)
(* Parents and children: add_process, do_sys_fork, do_sys_waitpid,         *)
(* do_sys_exit with free_process, and the part of the kernel heap they     *)
(* share (src/src/fork.c, sched.c, kheap.c).                               *)
(*                                                                         *)
(* A free pcb is linked in the heap's free list through its own first two  *)
(* words, which are pid and ppid while it is in use, and it stays in the   *)
(* child list it was in: who still reads it matters.  Which process runs   *)
(* is module Sched's affair; here any process of its list may take the     *)
(* next step, and what runs with interrupts off is one action.             *)
(***************************************************************************)
EXTENDS Integers, FiniteSets

CONSTANTS
    MaxPid,         \* bound: processes ever created, kmain included
    NbPcbs,         \* bound: pcbs the kernel heap has room for
    Codes,          \* what processes return
    LeavesZombies   \* do programs exit while a child they did not wait for is dead?

ASSUME FamilyAssumption ==
    MaxPid \in Nat \ {0} /\ NbPcbs \in Nat \ {0} /\ Codes \subseteq Int /\ LeavesZombies \in BOOLEAN

\* Addresses are numbers beyond every pid; kmain_process is static, the others are kAlloc'ed.
None == 0
kmain == MaxPid + 1
kernel_heap_start == MaxPid + 2
Pcb == kmain .. kmain + NbPcbs
SizeofPcb == 124
Any == -1

VARIABLES
    pid, ppid,          \* the first two words of a pcb
    status, child, brother, return_code,
    linked,             \* the processes of the scheduler's list
    freelist,           \* the free list, as far as blocks of pcb size go
    kernel_heap_top,    \* in pcbs
    pid_counter,
    kernel,             \* which kernel runs: unknown until kmain has called start_kernel
    waiter, wanted,     \* the process in do_sys_waitpid, and its argument
    process_waiting_for, previous_waiting, found,   \* do_sys_waitpid's locals
    parent,             \* history: the pid of the process that created each pcb's last owner
    exits, reported     \* history: what processes exited with, what do_sys_waitpid said

heapVars == <<freelist, kernel_heap_top>>
waitVars == <<waiter, wanted, process_waiting_for, previous_waiting, found>>
vars == <<pid, ppid, status, child, brother, return_code, linked, heapVars, pid_counter,
          kernel, waitVars, parent, exits, reported>>

Report == [pid : 0 .. MaxPid, parent : 0 .. MaxPid, code : Codes]

FamilyTypeOK ==
    /\ pid \in [Pcb -> Nat]
    /\ ppid \in [Pcb -> Nat]
    /\ status \in [Pcb -> {"READY", "TERMINATED"}]
    /\ child \in [Pcb -> Pcb \cup {None}]
    /\ brother \in [Pcb -> Pcb \cup {None}]
    /\ return_code \in [Pcb -> Codes]
    /\ linked \in SUBSET Pcb
    /\ freelist \in Pcb \cup {None}
    /\ kernel_heap_top \in kernel_heap_start .. kmain + NbPcbs + 1
    /\ pid_counter \in 1 .. MaxPid
    /\ kernel \in {"setup", "forks", "creates"}
    /\ waiter \in Pcb \cup {None}
    /\ wanted \in {Any} \cup 0 .. MaxPid
    /\ process_waiting_for \in Pcb \cup {None}
    /\ previous_waiting \in Pcb \cup {None}
    /\ found \in BOOLEAN
    /\ parent \in [Pcb -> 0 .. MaxPid]
    /\ exits \subseteq Report
    /\ reported \subseteq Report

\* sched_init.
Init ==
    /\ pid = [p \in Pcb |-> 0]
    /\ ppid = [p \in Pcb |-> 0]
    /\ status = [p \in Pcb |-> "READY"]
    /\ child = [p \in Pcb |-> None]
    /\ brother = [p \in Pcb |-> None]
    /\ return_code \in {[p \in Pcb |-> c] : c \in Codes}
    /\ linked = {kmain}
    /\ freelist = None
    /\ kernel_heap_top = kernel_heap_start
    /\ pid_counter = 1
    /\ kernel = "setup"
    /\ waiter = None
    /\ wanted = Any
    /\ process_waiting_for = None
    /\ previous_waiting = None
    /\ found = FALSE
    /\ parent = [p \in Pcb |-> 0]
    /\ exits = {}
    /\ reported = {}

-----------------------------------------------------------------------------
\* What one meets from p along a link until it is None, or for ever.
Along(link, p) ==
    LET walk[n \in 0 .. Cardinality(Pcb)] ==
            IF n = 0 THEN p ELSE IF walk[n - 1] \in Pcb THEN link[walk[n - 1]] ELSE None
    IN  {walk[n] : n \in 0 .. Cardinality(Pcb)} \ {None}

Children(p) == Along(brother, child[p])

\* The process that runs: it is in the list and not inside do_sys_waitpid.
Runs(p) == p \in linked /\ p # waiter /\ kernel # "setup"

-----------------------------------------------------------------------------
(* The kernel heap, for blocks of the size of a pcb.                       *)

\* Mutant: the block stays in the free list.
KeepsBlock(p) ==
    IF freelist # None
    THEN p = freelist /\ UNCHANGED heapVars
    ELSE /\ p = kernel_heap_top
         /\ kernel_heap_top' = kernel_heap_top + 1
         /\ UNCHANGED freelist

\* kAlloc: the first block of the free list, or one more from the top.
kAlloc(p) ==
    IF freelist # None
    THEN /\ p = freelist
         /\ freelist' = pid[p]
         /\ UNCHANGED kernel_heap_top
    ELSE /\ p = kernel_heap_top
         /\ kernel_heap_top' = kernel_heap_top + 1
         /\ UNCHANGED freelist

\* Mutant: the freed block is all that is left of the list.
KeepsLastOnly(p, times, parents) ==
    /\ pid' = IF times = 0 THEN pid ELSE [pid EXCEPT ![p] = None]
    /\ ppid' = IF times = 0 THEN parents ELSE [parents EXCEPT ![p] = SizeofPcb]
    /\ freelist' = IF times = 0 THEN freelist ELSE p
    /\ UNCHANGED kernel_heap_top

\* kFree(p, sizeof(struct pcb_s)), called "times" times in a row: the link goes into the
\* first word, the size into the second, where "parents" holds the ppids so far.
kFree(p, times, parents) ==
    /\ pid' = CASE times = 0 -> pid
                [] times = 1 -> [pid EXCEPT ![p] = freelist]
                [] OTHER -> [pid EXCEPT ![p] = p]
    /\ ppid' = IF times = 0 THEN parents ELSE [parents EXCEPT ![p] = SizeofPcb]
    /\ freelist' = IF times = 0 THEN freelist ELSE p
    /\ UNCHANGED kernel_heap_top

-----------------------------------------------------------------------------
(* Creating a process.                                                     *)

\* Mutant: the new process still points to the brother its pcb had.
KeepsBrother(creator, p) ==
    IF child[creator] = None
    THEN /\ child' = [child EXCEPT ![creator] = p, ![p] = None]
         /\ UNCHANGED brother
    ELSE \E last \in Children(creator) :
            /\ brother[last] = None
            /\ brother' = [brother EXCEPT ![last] = p]
            /\ child' = [child EXCEPT ![p] = None]

\* add_process links the new process behind the last child of its creator, which may be a freed
\* pcb, even its own: kmain's children are never taken out.
LinkChild(creator, p) ==
    IF child[creator] = None
    THEN /\ child' = [child EXCEPT ![creator] = p, ![p] = None]
         /\ brother' = [brother EXCEPT ![p] = None]
    ELSE \E last \in Children(creator) :
            /\ brother[last] = None
            /\ brother' = [brother EXCEPT ![last] = p, ![p] = None]
            /\ child' = [child EXCEPT ![p] = None]

add_process(creator, p) ==
    /\ pid_counter < MaxPid
    /\ kAlloc(p)
    /\ status' = [status EXCEPT ![p] = "READY"]
    /\ pid' = [pid EXCEPT ![p] = pid_counter]
    /\ pid_counter' = pid_counter + 1
    /\ ppid' = [ppid EXCEPT ![p] = pid[creator]]
    /\ LinkChild(creator, p)
    /\ linked' = linked \cup {p}
    /\ parent' = [parent EXCEPT ![p] = pid[creator]]
    /\ UNCHANGED <<return_code, waitVars, exits, reported>>

\* kmain creates all its processes before start_kernel, as the kernels do whose processes fork,
\* or some of them later, as test/kmain-schedulers.c does, whose processes do not fork.
create_process ==
    /\ kernel # "forks"
    /\ \E p \in Pcb : add_process(kmain, p)
    /\ UNCHANGED kernel

start_kernel ==
    /\ kernel = "setup"
    /\ kernel' \in {"forks", "creates"}
    /\ UNCHANGED <<pid, ppid, status, child, brother, return_code, linked, heapVars,
                   pid_counter, waitVars, parent, exits, reported>>

do_sys_fork(creator) ==
    /\ Runs(creator) /\ creator # kmain /\ kernel = "forks"
    /\ \E p \in Pcb : add_process(creator, p)
    /\ UNCHANGED kernel

-----------------------------------------------------------------------------
(* Exiting.                                                                *)

Zombies(p) == {c \in Children(p) : status[c] = "TERMINATED"}

\* Mutant: the children that live on keep the ppid of their dead parent.
KeepsParent(p) == ppid

\* The children that are alive become kmain's.
Adopted(p) == [q \in Pcb |-> IF q \in Children(p) \ Zombies(p) THEN 0 ELSE ppid[q]]

\* Mutant: a process is freed at exit although its parent will wait for it.
FreesAlways(p) == IF Zombies(p) # {} THEN Cardinality(Zombies(p)) ELSE 1

\* How often free_process frees p: once for every child that is TERMINATED, and once if it is
\* an orphan, which it looks up in the word kFree writes its size to.
TimesFreed(p) ==
    IF Zombies(p) # {} THEN Cardinality(Zombies(p))
    ELSE IF ppid[p] = 0 THEN 1 ELSE 0

\* do_sys_exit: elect() unlinks the process and calls free_process.
do_sys_exit(p, code) ==
    /\ Runs(p) /\ p # kmain
    /\ LeavesZombies \/ Zombies(p) = {}
    /\ status' = [status EXCEPT ![p] = "TERMINATED"]
    /\ return_code' = [return_code EXCEPT ![p] = code]
    /\ linked' = linked \ {p}
    /\ kFree(p, TimesFreed(p), Adopted(p))
    /\ exits' = exits \cup {[pid |-> pid[p], parent |-> parent[p], code |-> code]}
    /\ UNCHANGED <<child, brother, pid_counter, kernel, waitVars, parent, reported>>

-----------------------------------------------------------------------------
(* Waiting for a child.                                                    *)

\* Two calls at once would share the frame of one: they are on the only SVC stack, which
\* an interrupt does not save.  No program of the repository waits twice at a time, and none
\* waits without a child, whose pcb would be at address 0.
MayWait(p) == Runs(p) /\ p # kmain /\ waiter = None /\ child[p] # None

BeginWait(p, number, target, prev) ==
    /\ MayWait(p)
    /\ waiter' = p
    /\ wanted' = number
    /\ process_waiting_for' = target
    /\ previous_waiting' = prev
    /\ found' = FALSE
    /\ UNCHANGED <<pid, ppid, status, child, brother, return_code, linked, heapVars,
                   pid_counter, kernel, parent, exits, reported>>

\* The first child, any child, or the child behind previous_waiting; a pid that is none of
\* its caller's children changes nothing.
WaitFirst(p) == BeginWait(p, pid[child[p]], child[p], None)
WaitAny(p) == BeginWait(p, Any, child[p], None)
WaitOther(p) ==
    \E prev \in Children(p) :
        /\ brother[prev] # None
        /\ BeginWait(p, pid[brother[prev]], brother[prev], prev)

do_sys_waitpid(p) == WaitFirst(p) \/ WaitAny(p) \/ WaitOther(p)

\* Mutant: the search for a dead child ends at the last one.
StaysAtLast == IF brother[process_waiting_for] = None
               THEN process_waiting_for ELSE brother[process_waiting_for]

\* The next child to look at: behind the last one comes the first.
NextChild == IF brother[process_waiting_for] = None
             THEN child[waiter] ELSE brother[process_waiting_for]

\* One iteration of the busy waiting, with interrupts on.
Poll ==
    /\ waiter # None /\ ~found
    /\ IF status[process_waiting_for] = "TERMINATED"
       THEN found' = TRUE /\ UNCHANGED process_waiting_for
       ELSE /\ process_waiting_for' = IF wanted = Any THEN NextChild ELSE process_waiting_for
            /\ UNCHANGED found
    /\ UNCHANGED <<pid, ppid, status, child, brother, return_code, linked, heapVars,
                   pid_counter, kernel, waiter, wanted, previous_waiting, parent, exits, reported>>

\* Mutant: whoever it is, the first child is unlinked.
UnlinkFirst ==
    /\ child' = [child EXCEPT ![waiter] = brother[@]]
    /\ UNCHANGED brother

\* The child is taken out of its list; for any child, its predecessor is looked up only now.
UnlinkChild ==
    IF process_waiting_for = child[waiter]
    THEN /\ child' = [child EXCEPT ![waiter] = brother[process_waiting_for]]
         /\ UNCHANGED brother
    ELSE \E prev \in IF wanted = Any
                     THEN {q \in Children(waiter) : brother[q] = process_waiting_for}
                     ELSE {previous_waiting} :
            /\ brother' = [brother EXCEPT ![prev] = brother[process_waiting_for]]
            /\ UNCHANGED child

\* Mutant: the code of the first child, whoever was waited for.
CodeOfFirst == return_code[child[waiter]]

AnsweredCode == return_code[process_waiting_for]

\* The rest of do_sys_waitpid, with interrupts off again.
EndWait ==
    /\ waiter # None /\ found
    /\ UnlinkChild
    /\ kFree(process_waiting_for, 1, ppid)
    /\ reported' = reported \cup
          {[pid |-> IF wanted = Any THEN pid[process_waiting_for] ELSE wanted,
            parent |-> pid[waiter], code |-> AnsweredCode]}
    /\ waiter' = None
    /\ wanted' = Any
    /\ process_waiting_for' = None
    /\ previous_waiting' = None
    /\ found' = FALSE
    /\ UNCHANGED <<status, return_code, linked, pid_counter, kernel, parent, exits>>

-----------------------------------------------------------------------------
Next ==
    \/ create_process \/ start_kernel
    \/ \E p \in Pcb :
          \/ do_sys_fork(p) \/ do_sys_waitpid(p)
          \/ \E code \in Codes : do_sys_exit(p, code)
    \/ Poll \/ EndWait

Spec == Init /\ [][Next]_vars

\* The scheduler elects the waiting process again and again.
FairSpec == Spec /\ WF_vars(Poll) /\ WF_vars(EndWait)

-----------------------------------------------------------------------------
Free == Along(pid, freelist)
InUse == (kmain .. kernel_heap_top - 1) \ Free
HasParent(q) == \E p \in linked : pid[p] = parent[q]

\* The free list kAlloc and kFree thread through pid and ppid ends, and holds only pcbs that
\* were handed out and belong to no process of the scheduler's list.
FreeListSound ==
    /\ Free \subseteq kernel_heap_start .. kernel_heap_top - 1
    /\ Free # {} => \E q \in Free : pid[q] = None
    /\ Free \cap linked = {}

\* No pcb is lost or freed early: one that is neither free nor in the scheduler's list is a
\* zombie, in the child list of a process that can still wait for it.
NothingLost ==
    \A q \in InUse \ linked :
        /\ status[q] = "TERMINATED"
        /\ \E p \in linked \ {kmain} : q \in Children(p)

\* The children a process walks in add_process, do_sys_waitpid and free_process are the
\* processes it created and did not wait for, although pcbs are used again: none of them is a
\* pcb that went to somebody else.  (kmain is excepted: nobody takes its children out.)
ChildrenAreOwn ==
    \A p \in linked \ {kmain} :
        Children(p) = {q \in InUse \ {kmain} : parent[q] = pid[p]}

\* A freed pcb stays in kmain's child list and may be linked there again: still every walk over
\* brothers that add_process and do_sys_waitpid make comes to an end.
WalksEnd ==
    \A p \in linked : child[p] # None => \E last \in Children(p) : brother[last] = None

\* ppid, which decides at exit whether a process is freed or kept for its parent, names a
\* parent that can wait, or kmain.
PpidIsAlive ==
    \A q \in linked \ {kmain} : ppid[q] = IF HasParent(q) THEN parent[q] ELSE 0

\* waitpid answers the caller with the code its own child, the one it named, exited with,
\* although the child's pcb may have been given back and used in between.
AnswersAreTrue == reported \subseteq exits

\* A process that waits for a child that is dead is answered, also when it waits for any and
\* its other children live on (fork.c:94-102).
WaitReturns ==
    (waiter # None /\ (process_waiting_for \in Zombies(waiter) \/ (wanted = Any /\ Zombies(waiter) # {})))
        ~> waiter = None

\* "If orphan process, cannot become zombie" (sched.c:149): no process that is dead, and not
\* freed, has lost its parent.
OrphansAreNoZombies ==
    \A q \in InUse : status[q] = "TERMINATED" => HasParent(q)
=============================================================================

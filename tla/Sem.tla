-------------------------------- MODULE Sem --------------------------------
(***************************************************************************)
(* The semaphores of src/src/sem.c, statement by statement, called by the  *)
(* processes of module Sched.  Nothing but the I bit of the cpsr makes     *)
(* their functions atomic, so a timer interrupt is possible before every   *)
(* statement that runs with interrupts on.                                 *)
(*                                                                         *)
(* A process is inside at most one semaphore function: "step" is the       *)
(* statement it executes next and "target" the semaphore it was given.     *)
(***************************************************************************)
EXTENDS Sched, Sequences

CONSTANTS
    Sems,           \* the struct sem_s of the system
    InitialValue,   \* what sem_init was given for each of them
    WaitValues,     \* values sem_wait_for is called with
    MaxPermits,     \* bound: units a semaphore may have in hand
    Bracketed       \* do programs release exactly what they took (mutex use)?

ASSUME SemAssumption ==
    /\ InitialValue \in [Sems -> Nat]
    /\ WaitValues \subseteq Int
    /\ MaxPermits \in Nat
    /\ Bracketed \in BOOLEAN
    /\ None \notin Sems

VARIABLES
    counter, first_waiting, \* struct sem_s
    next_waiting_sem,       \* the link of a pcb in a waiting list
    step, target, awaited,  \* where each process is in sem.c, and its arguments
    permits,                \* history: initial value + sem_ups - sem_downs returned
    holding                 \* history: what a bracketing program has taken

semVars == <<counter, first_waiting, next_waiting_sem, step, target, awaited, permits, holding>>
vars == <<schedVars, semVars>>

Steps == {"idle", "dec", "block", "enqueue", "yield", "inc", "wake", "poll",
          "enable", "acquired"}

SemTypeOK ==
    /\ counter \in [Sems -> Int]
    /\ first_waiting \in [Sems -> Pcb \cup {None}]
    /\ next_waiting_sem \in [Pcb -> Pcb \cup {None}]
    /\ step \in [Pcb -> Steps]
    /\ target \in [Pcb -> Sems \cup {None}]
    /\ awaited \in [Pcb -> WaitValues \cup {0}]
    /\ permits \in [Sems -> Int]
    /\ holding \in [Pcb -> SUBSET Sems]

\* The waiting list of s, read along its links as sem_down does.
Waiting(s) ==
    LET walk[n \in 1 .. Cardinality(Pcb)] ==
            IF n = 1 THEN first_waiting[s]
            ELSE IF walk[n - 1] = None THEN None ELSE next_waiting_sem[walk[n - 1]]
    IN  [n \in 1 .. Cardinality({i \in DOMAIN walk : walk[i] # None}) |-> walk[n]]

-----------------------------------------------------------------------------
\* sem_init: init_kernel calls it before any process exists.
SemInit ==
    /\ Init
    /\ counter = InitialValue
    /\ first_waiting = [s \in Sems |-> None]
    /\ next_waiting_sem = [p \in Pcb |-> None]
    /\ step = [p \in Pcb |-> "idle"]
    /\ target = [p \in Pcb |-> None]
    /\ awaited = [p \in Pcb |-> 0]
    /\ permits = InitialValue
    /\ holding = [p \in Pcb |-> {}]

At(label) == InUser /\ step[current] = label
GoTo(label) == step' = [step EXCEPT ![current] = label]

\* Mutant: the functions do not touch the I bit.
NoMask(m) ==
    /\ Runs(cpu)
    /\ UNCHANGED armed

\* DISABLE_IRQ and ENABLE_IRQ as statements: they may find the I bit as they leave it.
SetMask(m) ==
    /\ Runs(IF cpu.user THEN cpu ELSE [cpu EXCEPT !.mask = m])
    /\ UNCHANGED armed

\* A process other than kmain calls a semaphore function, whose first statement masks.
Enter(label, s, v) ==
    /\ At("idle") /\ current # kmain
    /\ SetMask(TRUE)
    /\ GoTo(label)
    /\ target' = [target EXCEPT ![current] = s]
    /\ awaited' = [awaited EXCEPT ![current] = v]
    /\ UNCHANGED <<counter, first_waiting, next_waiting_sem, permits, holding>>

\* The last statement of every function unmasks.
Return ==
    /\ SetMask(FALSE)
    /\ GoTo("idle")
    /\ target' = [target EXCEPT ![current] = None]
    /\ awaited' = [awaited EXCEPT ![current] = 0]
    /\ UNCHANGED <<counter, first_waiting, next_waiting_sem>>

-----------------------------------------------------------------------------
sem_down(s) ==
    /\ Bracketed => s \notin holding[current]
    /\ Enter("dec", s, 0)

\* Mutant: one process too many gets through.
MustBlockLate(count) == count < -1

MustBlock(count) == count < 0

down_dec ==
    /\ At("dec")
    /\ LET s == target[current] IN
        /\ counter' = [counter EXCEPT ![s] = @ - 1]
        /\ GoTo(IF MustBlock(counter'[s]) THEN "block" ELSE "acquired")
    /\ UNCHANGED <<schedVars, first_waiting, next_waiting_sem, target, awaited, permits, holding>>

down_block ==
    /\ At("block")
    /\ Block
    /\ GoTo("enqueue")
    /\ UNCHANGED <<counter, first_waiting, next_waiting_sem, target, awaited, permits, holding>>

\* Mutant: the process joins at the head of the list.
PushWaiter(s) ==
    /\ first_waiting' = [first_waiting EXCEPT ![s] = current]
    /\ next_waiting_sem' = [next_waiting_sem EXCEPT ![current] = first_waiting[s]]

\* The process joins after the last one; its own link is left as it is.
AppendWaiter(s) ==
    \/ /\ first_waiting[s] = None
       /\ first_waiting' = [first_waiting EXCEPT ![s] = current]
       /\ UNCHANGED next_waiting_sem
    \/ /\ first_waiting[s] # None
       /\ LET w == Waiting(s)
          IN next_waiting_sem' = [next_waiting_sem EXCEPT ![w[Len(w)]] = current]
       /\ UNCHANGED first_waiting

down_enqueue ==
    /\ At("enqueue")
    /\ AppendWaiter(target[current])
    /\ GoTo("yield")
    /\ UNCHANGED <<schedVars, counter, target, awaited, permits, holding>>

\* Mutant: the context is not saved.
YieldUnsaved == CallElect("svc") /\ UNCHANGED <<saved, status, armed>>

sys_yield == do_sys_yield

down_yield ==
    /\ At("yield")
    /\ sys_yield
    /\ GoTo("acquired")
    /\ UNCHANGED <<counter, first_waiting, next_waiting_sem, target, awaited, permits, holding>>

down_enable ==
    /\ At("acquired")
    /\ Return
    /\ permits' = [permits EXCEPT ![target[current]] = @ - 1]
    /\ holding' = IF Bracketed
                  THEN [holding EXCEPT ![current] = @ \cup {target[current]}] ELSE holding

-----------------------------------------------------------------------------
sem_up(s) ==
    /\ Bracketed => s \in holding[current]
    /\ permits[s] < MaxPermits
    /\ Enter("inc", s, 0)

\* Mutant: the last waiter is forgotten.
WakesOneLess(count) == count < 0

SomeoneWaits(count) == count <= 0

up_inc ==
    /\ At("inc")
    /\ LET s == target[current] IN
        /\ counter' = [counter EXCEPT ![s] = @ + 1]
        /\ GoTo(IF SomeoneWaits(counter'[s]) /\ first_waiting[s] # None THEN "wake" ELSE "enable")
        /\ permits' = [permits EXCEPT ![s] = @ + 1]
        /\ holding' = [holding EXCEPT ![current] = @ \ {s}]
    /\ UNCHANGED <<schedVars, first_waiting, next_waiting_sem, target, awaited>>

\* Mutant: the woken process keeps its link.
KeepLink(p) == UNCHANGED next_waiting_sem

Detach(p) == next_waiting_sem' = [next_waiting_sem EXCEPT ![p] = None]

up_wake ==
    /\ At("wake")
    /\ LET s == target[current]
           unblocked_process == first_waiting[s]
       IN /\ Unblock(unblocked_process)
          /\ first_waiting' = [first_waiting EXCEPT ![s] = next_waiting_sem[unblocked_process]]
          /\ Detach(unblocked_process)
    /\ GoTo("enable")
    /\ UNCHANGED <<counter, target, awaited, permits, holding>>

enable ==
    /\ At("enable")
    /\ Return
    /\ UNCHANGED <<permits, holding>>

-----------------------------------------------------------------------------
sem_wait_for(s, v) ==
    /\ ~Bracketed
    /\ Enter("poll", s, v)

\* The loop of sem_wait_for: it yields, and looks again when it is elected next.
poll_yield ==
    /\ At("poll")
    /\ counter[target[current]] # awaited[current]
    /\ sys_yield
    /\ UNCHANGED semVars

poll_end ==
    /\ At("poll")
    /\ counter[target[current]] = awaited[current]
    /\ GoTo("enable")
    /\ UNCHANGED <<schedVars, counter, first_waiting, next_waiting_sem, target, awaited,
                   permits, holding>>

-----------------------------------------------------------------------------
SemStep ==
    \/ down_dec \/ down_block \/ down_enqueue \/ down_yield \/ down_enable
    \/ up_inc \/ up_wake \/ enable
    \/ poll_yield \/ poll_end

Call ==
    \E s \in Sems :
        \/ sem_down(s)
        \/ sem_up(s)
        \/ \E v \in WaitValues : sem_wait_for(s, v)

\* Mutant: the link of a new pcb holds what the memory held.
Garbage == 57005

NewLink == None

\* Outside the semaphore functions.  add_process clears the link of the new pcb.
Program ==
    /\ At("idle")
    /\ \/ /\ Create
          /\ next_waiting_sem' = [p \in Pcb |-> IF p \in live' \ live THEN NewLink
                                                ELSE next_waiting_sem[p]]
          /\ UNCHANGED <<counter, first_waiting, step, target, awaited, permits, holding>>
       \/ /\ \/ start_kernel \/ DropToUserMode \/ do_sys_yield
             \/ \E s \in Schedulers : do_sys_setscheduler(s)
             \/ do_sys_exit /\ holding[current] = {}
          /\ UNCHANGED semVars

Kernel == (irq_handler \/ elect) /\ UNCHANGED semVars

SemNext == Call \/ SemStep \/ Program \/ Kernel

SemSpec == SemInit /\ [][SemNext]_vars

\* A process inside a semaphore function executes its statements; a program that
\* brackets releases what it took, given infinitely many turns.
SemFairness ==
    /\ WF_vars(elect /\ UNCHANGED semVars)
    /\ WF_vars(start_kernel /\ Program)
    /\ SF_vars(irq_handler /\ UNCHANGED semVars)
    /\ WF_vars(SemStep)
    /\ \A p \in Pcb : SF_vars(current = p /\ \E s \in holding[p] : sem_up(s))

FairSemSpec == SemSpec /\ SemFairness

-----------------------------------------------------------------------------
\* The statements of a semaphore function that touch the semaphore are atomic: a process
\* at one of them is the one that runs, with interrupts masked.
Critical == {"dec", "block", "enqueue", "yield", "inc", "wake"}
InsideIsMasked ==
    \A p \in Pcb : step[p] \in Critical => p = current /\ pc = "user" /\ cpu.mask

\* No process is at such a statement of a function called on s.
Quiet(s) == \A p \in Linked : target[p] = s => step[p] \notin Critical

\* No wakeup is lost and none is invented: between two calls a negative counter is
\* exactly the number of processes in the waiting list, and a list is empty otherwise.
CounterCountsWaiters ==
    \A s \in Sems : Quiet(s) =>
        Len(Waiting(s)) = IF counter[s] < 0 THEN -counter[s] ELSE 0

\* Every blocked process can still be woken: it is in the list of the semaphore it
\* called sem_down on, in no other, and only once.
BlockedIsQueued ==
    (\A s \in Sems : Quiet(s)) =>
        \A p \in Linked :
            Cardinality({e \in Sems \X (1 .. Cardinality(Pcb)) :
                            e[2] \in DOMAIN Waiting(e[1]) /\ Waiting(e[1])[e[2]] = p})
              = IF status[p] = "BLOCKED" THEN 1 ELSE 0

\* Mutual exclusion for programs that bracket (test/kmain-sem-mutex.c): a woken process keeps
\* the unit it was handed, whoever calls sem_down before it runs again.
MutualExclusion ==
    \A s \in Sems : Cardinality({p \in Linked : s \in holding[p]}) <= InitialValue[s]

\* The lists and counters behave as FIFO counting semaphores.
Abs == INSTANCE AbsSem WITH
    Process <- Pcb,
    Initial <- InitialValue,
    value <- [s \in Sems |-> IF counter[s] > 0 THEN counter[s] ELSE 0],
    queue <- [s \in Sems |-> Waiting(s)]
ImplementsAbsSem == Abs!Spec

\* Semaphores use the scheduler only as module Sched allows: what holds of Sched holds here.
ImplementsSched == Spec

\* A process blocked in sem_down gets its unit, when programs release theirs.
WaitersServed ==
    \A p \in Pcb, s \in Sems :
        (p \in Linked /\ target[p] = s /\ status[p] = "BLOCKED") ~> s \in holding[p]
=============================================================================

------------------------------- MODULE Sched -------------------------------
(***************************************************************************)
(* The process table and the scheduler of Momo-OS: src/src/sched.c,        *)
(* schedulers.c, sched_svc.c, sched_irq.c and the process half of fork.c.  *)
(*                                                                         *)
(* There is one CPU.  "pc" says what it executes: the program of           *)
(* current_process ("user"), the head of elect() ("elect") or the loop of  *)
(* the scheduler function elect() called ("loop").  The kernel runs with   *)
(* interrupts off, so a system call that does not elect is one action, and *)
(* elect() is taken step by step, one iteration of its loop at a time,     *)
(* because it walks with current_process itself as its cursor and calls    *)
(* itself again when the process it chose cannot run.                      *)
(***************************************************************************)
EXTENDS Integers, FiniteSets

CONSTANTS
    Pcb,            \* the addresses a struct pcb_s can have
    kmain,          \* &kmain_process, the static one of them
    None,           \* NULL
    Priorities,     \* values found in memory or given to create_process_with_fix_priority
    MaxPriority,    \* 20, where the dynamic scheduler stops ageing
    Schedulers,     \* the schedulers sys_setscheduler may be asked for
    MaxPid,         \* bound: processes ever created, kmain included
    NbPhases,       \* bound: distinguishable contexts of one program
    YieldToUsed     \* does any program call sys_yieldto?

SchedulerNames == {"ROUND_ROBIN_SCHED", "RANDOM_SCHED",
                   "FIXED_PRIORITY_SCHED", "DYNAMIC_PRIORITY_SCHED"}

ASSUME PcbAssumption == IsFiniteSet(Pcb) /\ kmain \in Pcb /\ None \notin Pcb
ASSUME PriorityAssumption == Priorities \subseteq Int /\ 1 \in Priorities /\ MaxPriority \in Nat
ASSUME SchedulerAssumption == Schedulers \subseteq SchedulerNames
ASSUME BoundAssumption ==
    MaxPid \in Nat \ {0} /\ NbPhases \in Nat \ {0} /\ YieldToUsed \in BOOLEAN

VARIABLES
    current,        \* current_process
    next, previous, \* the links of the process list
    pid, status, priority,
    live,           \* the pcbs in use, counted by nb_process
    nb_process, pid_counter,
    scheduler,      \* current_scheduler
    x,              \* the low seven bits of the random generator
    pc, entry,      \* where the CPU is, and what brought it into the kernel
    victim,         \* process_to_delete of elect()
    left, choose,   \* iterations left and process_to_choose of the scheduler loop
    mmu,            \* whose page table the MMU walks
    armed,          \* the timer will interrupt
    cpu, saved,     \* the context in the registers, and in each pcb
    at              \* history: where each program really is

ringVars == <<next, previous, live, pid, pid_counter>>
loopVars == <<victim, left, choose>>
ctxVars  == <<cpu, saved, at>>
schedVars == <<current, next, previous, pid, status, priority, live, nb_process,
               pid_counter, scheduler, x, pc, entry, victim, left, choose, mmu,
               armed, cpu, saved, at>>

\* A context: the program's registers, the I bit and the USER mode bit of its cpsr.
Context == [at: 0 .. NbPhases - 1, mask: BOOLEAN, user: BOOLEAN]
Fresh   == [at |-> 0, mask |-> FALSE, user |-> FALSE]

\* The processes of the circular list: elect() unlinks a process before it frees it.
Linked == live \ {victim}

Status == {"READY", "RUNNING", "TERMINATED", "BLOCKED"}

TypeOK ==
    /\ current \in Pcb
    /\ next \in [Pcb -> Pcb]
    /\ previous \in [Pcb -> Pcb]
    /\ pid \in [Pcb -> Nat]
    /\ status \in [Pcb -> Status]
    /\ priority \in [Pcb -> Int]
    /\ live \in SUBSET Pcb
    /\ nb_process \in Nat
    /\ pid_counter \in 0 .. MaxPid
    /\ scheduler \in SchedulerNames
    /\ x \in 0 .. 127
    /\ pc \in {"user", "elect", "loop"}
    /\ entry \in {"svc", "irq"}
    /\ victim \in Pcb \cup {None}
    /\ left \in Nat
    /\ choose \in Pcb
    /\ mmu \in Pcb
    /\ armed \in BOOLEAN
    /\ cpu \in Context
    /\ saved \in [Pcb -> Context]
    /\ at \in [Pcb -> Context]

-----------------------------------------------------------------------------
\* sched_init, and the sem_init calls of init_kernel after it, which unmask interrupts.
\* The fields add_process does not set hold whatever kAlloc hands out.
Init ==
    /\ current = kmain
    /\ next = [p \in Pcb |-> kmain]
    /\ previous = [p \in Pcb |-> kmain]
    /\ pid = [p \in Pcb |-> 0]
    /\ status = [[p \in Pcb |-> "READY"] EXCEPT ![kmain] = "RUNNING"]
    /\ priority \in {f \in [Pcb -> Priorities] : f[kmain] = 1}
    /\ live = {kmain}
    /\ nb_process = 1
    /\ pid_counter = 1
    /\ scheduler = "ROUND_ROBIN_SCHED"
    /\ x = 1
    /\ pc = "user"
    /\ entry = "svc"
    /\ victim = None
    /\ left = 0
    /\ choose = kmain
    /\ mmu = kmain
    /\ armed = FALSE
    /\ cpu = Fresh
    /\ saved = [p \in Pcb |-> Fresh]
    /\ at = [p \in Pcb |-> Fresh]

-----------------------------------------------------------------------------
(* The program of current_process, between two system calls.               *)

InUser == pc = "user"

\* The program runs on: its registers change, nothing else does.
Runs(context) ==
    /\ cpu' = context
    /\ at' = [at EXCEPT ![current] = context]
    /\ UNCHANGED <<saved, ringVars, loopVars, status, priority, nb_process,
                   scheduler, x, entry, pc, current, mmu>>

UserStep ==
    /\ InUser
    /\ Runs([cpu EXCEPT !.at = (@ + 1) % NbPhases])
    /\ UNCHANGED armed

\* cpsid and cpsie change nothing in USER mode.
DISABLE_IRQ ==
    /\ InUser /\ ~cpu.user /\ ~cpu.mask
    /\ Runs([cpu EXCEPT !.mask = TRUE])
    /\ UNCHANGED armed

ENABLE_IRQ ==
    /\ InUser /\ ~cpu.user /\ cpu.mask
    /\ Runs([cpu EXCEPT !.mask = FALSE])
    /\ UNCHANGED armed

\* kmain calls start_kernel once: timer_init, then ENABLE_IRQ.
start_kernel ==
    /\ InUser /\ current = kmain /\ ~armed
    /\ Runs([cpu EXCEPT !.mask = FALSE])
    /\ armed' = TRUE

\* The "cps 0x10" of kmain: what follows cannot mask interrupts any more.
DropToUserMode ==
    /\ InUser /\ current = kmain /\ armed /\ ~cpu.mask /\ ~cpu.user
    /\ Runs([cpu EXCEPT !.user = TRUE])
    /\ UNCHANGED armed

\* sem_down marks its caller blocked; sem_up makes a waiter ready again.
Block ==
    /\ InUser /\ current # kmain
    /\ status' = [status EXCEPT ![current] = "BLOCKED"]
    /\ UNCHANGED <<ringVars, loopVars, ctxVars, priority, nb_process, scheduler, x,
                   pc, entry, current, mmu, armed>>

Unblock(p) ==
    /\ InUser /\ p # current /\ status[p] = "BLOCKED"
    /\ status' = [status EXCEPT ![p] = "READY"]
    /\ UNCHANGED <<ringVars, loopVars, ctxVars, priority, nb_process, scheduler, x,
                   pc, entry, current, mmu, armed>>

-----------------------------------------------------------------------------
(* Creating a process.                                                     *)

\* Mutant: the page table is not switched.
KeepsTable(p) == UNCHANGED mmu

switch_mmu_to(p) == mmu' = p

\* Mutant: the new process does not point back.
LinksForward(p, last) ==
    /\ next' = [next EXCEPT ![last] = p, ![p] = kmain]
    /\ UNCHANGED previous

\* The links add_process sets; kmain's previous link is not one of them.
AppendLinks(p, last) ==
    /\ next' = [next EXCEPT ![last] = p, ![p] = kmain]
    /\ previous' = [previous EXCEPT ![p] = last]

\* add_process: p is the pcb kAlloc returns; the walk from current_process stops at
\* the process whose next is kmain_process, and p is appended there.  The MMU ends on
\* current_process's table.
add_process(p, context, prio) ==
    \E last \in Linked :
        /\ p \notin live
        /\ pid_counter < MaxPid
        /\ next[last] = kmain
        /\ AppendLinks(p, last)
        /\ pid' = [pid EXCEPT ![p] = pid_counter]
        /\ pid_counter' = pid_counter + 1
        /\ status' = [status EXCEPT ![p] = "READY"]
        /\ priority' = [priority EXCEPT ![p] = prio]
        /\ live' = live \cup {p}
        /\ nb_process' = nb_process + 1
        /\ at' = [at EXCEPT ![p] = context]
        /\ switch_mmu_to(current)

\* Every caller in the repository is kmain, before the timer runs or with IRQs masked.
MayCreate == InUser /\ current = kmain /\ ~cpu.user /\ (cpu.mask \/ ~armed)

\* Without a priority, the field keeps the value the memory had.
create_process(p) ==
    /\ MayCreate
    /\ add_process(p, Fresh, priority[p])
    /\ saved' = [saved EXCEPT ![p] = Fresh]
    /\ UNCHANGED <<cpu, loopVars, scheduler, x, pc, entry, current, armed>>

create_process_with_fix_priority(p, prio) ==
    /\ MayCreate
    /\ add_process(p, Fresh, prio)
    /\ saved' = [saved EXCEPT ![p] = Fresh]
    /\ UNCHANGED <<cpu, loopVars, scheduler, x, pc, entry, current, armed>>

\* do_sys_fork saves its caller's context and copies it, with the priority, to the child.
do_sys_fork(p) ==
    /\ InUser /\ current # kmain
    /\ add_process(p, cpu, priority[current])
    /\ saved' = [saved EXCEPT ![current] = cpu, ![p] = cpu]
    /\ UNCHANGED <<cpu, loopVars, scheduler, x, pc, entry, current, armed>>

-----------------------------------------------------------------------------
(* Entering the kernel to elect another process.                           *)

do_sys_setscheduler(s) ==
    /\ InUser
    /\ scheduler' = s
    /\ UNCHANGED <<ringVars, loopVars, ctxVars, status, priority, nb_process, x, pc,
                   entry, current, mmu, armed>>

\* Mutant: the registers are lost.
SaveNothing == UNCHANGED saved

\* context_load_from_pcb_svc and context_save_to_pcb_irq: the registers go to the pcb.
SaveContext == saved' = [saved EXCEPT ![current] = cpu]

CallElect(from) ==
    /\ InUser
    /\ pc' = "elect"
    /\ entry' = from
    /\ UNCHANGED <<ringVars, loopVars, priority, nb_process, scheduler, x, current,
                   mmu, cpu, at>>

\* kmain yields only in its idle loop, after start_kernel.
do_sys_yield ==
    /\ current = kmain => armed
    /\ SaveContext
    /\ CallElect("svc")
    /\ UNCHANGED <<status, armed>>

\* The timer interrupt is taken at an instruction of a program that does not mask it.
irq_handler ==
    /\ armed /\ ~cpu.mask
    /\ armed' = FALSE
    /\ SaveContext
    /\ CallElect("irq")
    /\ UNCHANGED status

\* sys_exit, called by the program or by start_current_process when it returns.
do_sys_exit ==
    /\ current # kmain
    /\ status' = [status EXCEPT ![current] = "TERMINATED"]
    /\ CallElect("svc")
    /\ UNCHANGED <<saved, armed>>

\* Swaps contexts with dest and nothing else: no status, no page table.
do_sys_yieldto(dest) ==
    /\ YieldToUsed
    /\ InUser /\ dest \in live /\ dest # current
    /\ current = kmain => armed
    /\ SaveContext
    /\ current' = dest
    /\ cpu' = saved[dest]
    /\ UNCHANGED <<ringVars, loopVars, at, status, priority, nb_process, scheduler, x,
                   pc, entry, mmu, armed>>

-----------------------------------------------------------------------------
(* elect() and the scheduler functions.                                    *)

\* Mutant: the generator without its increment.
MultiplyOnly(seed) == (31541 * seed) % 128

\* get_random: x = a*x + c; the seven bits kept depend on the same seven bits only.
get_random(seed) == (31541 * seed + 1) % 128

\* Mutant: the priority loops stop before they meet the process that called elect().
OneIterationLess(random_nb) ==
    CASE scheduler = "ROUND_ROBIN_SCHED" -> 1
      [] scheduler = "RANDOM_SCHED" -> (random_nb % nb_process) + 1
      [] OTHER -> nb_process - 1

\* How often each scheduler function moves current_process along the list.
Iterations(random_nb) ==
    CASE scheduler = "ROUND_ROBIN_SCHED" -> 1
      [] scheduler = "RANDOM_SCHED" -> (random_nb % nb_process) + 1
      [] OTHER -> nb_process

\* choose_next_process up to the loop of the scheduler function it calls.
BeginChoice ==
    /\ pc' = "loop"
    /\ x' = IF scheduler = "RANDOM_SCHED" THEN get_random(x) ELSE x
    /\ left' = Iterations(x')
    /\ choose' = next'[current]
    /\ UNCHANGED <<current, pid, live, pid_counter, priority, nb_process, scheduler,
                   entry, mmu, armed, ctxVars>>

LastProcess == current = next[current] /\ current = previous[current]

\* Mutant: the process before the deleted one still points to it.
UnlinkBackward ==
    /\ UNCHANGED next
    /\ previous' = [previous EXCEPT ![next[current]] = previous[current]]

\* Mutant: the process after the deleted one points back to it.
UnlinkForward ==
    /\ next' = [next EXCEPT ![previous[current]] = next[current]]
    /\ previous' = [previous EXCEPT ![next'[current]] = current]

Unlink ==
    /\ next' = [next EXCEPT ![previous[current]] = next[current]]
    /\ previous' = [previous EXCEPT ![next'[current]] = previous[current]]

ElectTerminated ==
    /\ pc = "elect" /\ status[current] = "TERMINATED" /\ ~LastProcess
    /\ Unlink
    /\ victim' = current
    /\ UNCHANGED status
    /\ BeginChoice

ElectBlocked ==
    /\ pc = "elect" /\ status[current] = "BLOCKED"
    /\ UNCHANGED <<next, previous, victim, status>>
    /\ BeginChoice

ElectReady ==
    /\ pc = "elect" /\ status[current] \in {"READY", "RUNNING"}
    /\ status' = [status EXCEPT ![current] = "READY"]
    /\ UNCHANGED <<next, previous, victim>>
    /\ BeginChoice

\* One iteration of a scheduler function: current_process is the cursor.
Advance ==
    /\ pc = "loop" /\ left > 0
    /\ left' = left - 1
    /\ current' = next[current]
    /\ UNCHANGED <<ringVars, ctxVars, victim, status, nb_process, scheduler, x, pc,
                   entry, mmu, armed>>

Hop ==
    /\ scheduler \in {"ROUND_ROBIN_SCHED", "RANDOM_SCHED"}
    /\ Advance
    /\ UNCHANGED <<choose, priority>>

FixPriorityIteration ==
    /\ scheduler = "FIXED_PRIORITY_SCHED"
    /\ Advance
    /\ choose' = IF priority[choose] < priority[current'] THEN current' ELSE choose
    /\ UNCHANGED priority

DynamicPriorityIteration ==
    /\ scheduler = "DYNAMIC_PRIORITY_SCHED"
    /\ Advance
    /\ IF priority[choose] < priority[current']
       THEN choose' = current' /\ UNCHANGED priority
       ELSE /\ priority' = [priority EXCEPT ![current'] = IF @ < MaxPriority THEN @ + 1 ELSE @]
            /\ UNCHANGED choose

\* The process the scheduler function leaves in current_process.
Elected == IF scheduler \in {"FIXED_PRIORITY_SCHED", "DYNAMIC_PRIORITY_SCHED"}
           THEN choose ELSE current

\* Mutant: nb_process is decremented whether or not a process was deleted.
CountsOutAlways == live' = live \ {victim} /\ nb_process' = nb_process - 1

\* Mutant: nb_process is never decremented.
NeverCountsOut == live' = live \ {victim} /\ UNCHANGED nb_process

\* free_process: the pcb of the deleted process is given up, and nb_process counts it out.
free_process ==
    IF victim = None
    THEN UNCHANGED <<live, nb_process>>
    ELSE live' = live \ {victim} /\ nb_process' = nb_process - 1

\* The rest of choose_next_process, then free_process.
EndChoice ==
    /\ pc = "loop" /\ left = 0
    /\ current' = Elected
    /\ priority' = IF scheduler = "DYNAMIC_PRIORITY_SCHED" /\ priority[Elected] > 0
                   THEN [priority EXCEPT ![Elected] = @ - 1] ELSE priority
    /\ switch_mmu_to(Elected)
    /\ free_process
    /\ victim' = None
    /\ UNCHANGED <<next, previous, pid, pid_counter, scheduler, x, left, choose, saved, at>>

CanRun(p) == status[p] \notin {"TERMINATED", "BLOCKED"}

\* elect() calls itself when the elected process cannot run.
ElectAgain ==
    /\ EndChoice
    /\ ~CanRun(Elected)
    /\ pc' = "elect"
    /\ UNCHANGED <<status, entry, cpu, armed>>

\* Mutant: irq_handler returns without set_next_tick_default.
NotRearmed == armed

\* irq_handler re-arms the timer before it returns; a system call leaves it as it was.
TimerOnReturn == armed \/ entry = "irq"

\* elect() returns and its caller loads the context.
Dispatch ==
    /\ EndChoice
    /\ CanRun(Elected)
    /\ status' = [status EXCEPT ![Elected] = "RUNNING"]
    /\ cpu' = saved[Elected]
    /\ pc' = "user"
    /\ armed' = TimerOnReturn
    /\ entry' = "svc"

-----------------------------------------------------------------------------
elect ==
    \/ ElectTerminated \/ ElectBlocked \/ ElectReady
    \/ Hop \/ FixPriorityIteration \/ DynamicPriorityIteration
    \/ ElectAgain \/ Dispatch

Create ==
    \E p \in Pcb :
        \/ create_process(p)
        \/ \E prio \in Priorities : create_process_with_fix_priority(p, prio)
        \/ do_sys_fork(p)

UserOp ==
    \/ UserStep \/ DISABLE_IRQ \/ ENABLE_IRQ \/ start_kernel \/ DropToUserMode
    \/ Create
    \/ \E s \in Schedulers : do_sys_setscheduler(s)
    \/ do_sys_yield \/ do_sys_exit
    \/ \E dest \in Pcb : do_sys_yieldto(dest)

Semaphores == Block \/ \E p \in Pcb : Unblock(p)

Next == UserOp \/ Semaphores \/ irq_handler \/ elect

\* The kernel runs to its end; kmain starts the timer; a program that masks interrupts
\* unmasks them; a pending interrupt is taken once it is unmasked often enough.
Fairness ==
    /\ WF_schedVars(elect)
    /\ WF_schedVars(start_kernel)
    /\ WF_schedVars(ENABLE_IRQ)
    /\ SF_schedVars(irq_handler)

Spec == Init /\ [][Next]_schedVars
FairSpec == Spec /\ Fairness

-----------------------------------------------------------------------------
(* The process list.  The code never states its shape: it is circular      *)
(* through kmain, next is a bijection on it, previous undoes next except   *)
(* at kmain (whose previous is set once, to itself, and later by elect()   *)
(* only when the last process of the list goes), and pids grow along next, *)
(* so that it is one cycle and not several.                                *)

KmainLinked == kmain \in Linked /\ status[kmain] # "TERMINATED"
NextCloses == \A p \in Linked : next[p] \in Linked
NextInjective == \A p, q \in Linked : next[p] = next[q] => p = q
PreviousUndoesNext ==
    \A p \in Linked \ {kmain} : previous[p] \in Linked /\ next[previous[p]] = p
EndExists == \E p \in Linked : next[p] = kmain
PidsGrow ==
    /\ \A p \in Linked : pid[p] < pid_counter
    /\ \A p \in Linked : next[p] # kmain => pid[p] < pid[next[p]]
VictimPointsBack == victim # None => victim \in live \ {kmain} /\ next[victim] \in Linked
CursorInside ==
    /\ current \in Linked \cup {victim}
    /\ victim # None => pc = "loop"
    /\ current = victim => pc = "loop" /\ left > 0
    /\ pc = "loop" => choose \in Linked

Ring == KmainLinked /\ NextCloses /\ NextInjective /\ PreviousUndoesNext
        /\ EndExists /\ PidsGrow /\ VictimPointsBack /\ CursorInside

-----------------------------------------------------------------------------
\* The list elect() walks reaches every process in use and only those: starting at
\* kmain and following next one meets exactly the linked processes (sched.c:104-111
\* appends, schedulers.c:125-126 unlinks).
OneCycle ==
    LET walk[n \in 0 .. Cardinality(Pcb)] == IF n = 0 THEN kmain ELSE next[walk[n - 1]]
    IN  {walk[n] : n \in 0 .. Cardinality(Pcb)} = Linked

\* kmain waits for its children by comparing current_process with both its links
\* (test/kmain-schedulers.c:36): that test must succeed once it is alone, although
\* add_process never maintains kmain's previous link.
AloneMeansSelfLinked ==
    Linked = {kmain} => next[kmain] = kmain /\ previous[kmain] = kmain

\* nb_process, the bound of the scheduler loops and the divisor of electRandom, counts
\* the pcbs in use, the one being deleted included.
Counted == nb_process = Cardinality(live)

\* "So a terminated process does not wait at the end of list" (schedulers.c:120): a
\* process that has exited is never in the list once elect() has begun.
ZombieUnlinked ==
    \A p \in Linked : status[p] = "TERMINATED" => p = current /\ pc = "elect"

\* While programs run, the process the CPU executes is the only one marked RUNNING, it
\* is in the list, and the MMU walks its page table: process isolation rests on it.
RunsCurrent ==
    pc = "user" =>
        /\ current \in Linked
        /\ status[current] \in {"RUNNING", "BLOCKED"}
        /\ \A p \in Linked : status[p] = "RUNNING" => p = current
        /\ mmu = current

\* Every program resumes exactly where it was interrupted, with its own I bit and mode:
\* the CPU holds the context of the current process, the pcbs those of the others.
ContextPreserved ==
    /\ pc = "user" => cpu = at[current]
    /\ \A p \in Linked : (p # current \/ pc # "user") /\ status[p] # "TERMINATED"
                         => saved[p] = at[p]

\* The process electFixPriority returns has the highest priority in the list, the
\* process that yielded included (schedulers.c:67-83).
ElectsTopPriority ==
    [][ EndChoice /\ scheduler = "FIXED_PRIORITY_SCHED"
        => \A p \in Linked : priority[p] <= priority[current'] ]_schedVars

\* The places of a list of n processes, which does not change, that electRandom comes to in
\* its next 32 choices, a quarter of what brings the seven bits of the generator round.
PlacesDrawn(n, seed) ==
    LET draw[i \in 0 .. 32] ==
            IF i = 0 THEN [x |-> seed, place |-> 0, met |-> {}]
            ELSE LET before == draw[i - 1]
                     drawn == get_random(before.x)
                     place == (before.place + (drawn % n) + 1) % n
                 IN  [x |-> drawn, place |-> place, met |-> before.met \cup {place}]
    IN  draw[32].met

AllPlacesDrawn ==
    \A n \in 1 .. Cardinality(Pcb), seed \in 0 .. 127 : PlacesDrawn(n, seed) = 0 .. n - 1

\* electRandom chooses by a linear generator of which only the low bits count
\* (schedulers.c:23, :46-64): x keeps to seven bits, from any of whose values, and however many
\* processes there are, the choices come to each of them soon, so that elect() finds those that
\* can run.
RandomReachesAll == x \in 0 .. 127 /\ AllPlacesDrawn

\* elect() ends: it finds a process that can run however many it must skip.
ElectionTerminates == pc # "user" ~> pc = "user"

\* No ready process waits for ever: it runs (or is no longer READY because it is gone),
\* unless the scheduler compares fixed priorities, where one below another may starve.
NoStarvation ==
    \A p \in Pcb : (p \in Linked /\ status[p] = "READY")
                   ~> (\/ p \notin Linked \/ status[p] = "RUNNING"
                       \/ scheduler = "FIXED_PRIORITY_SCHED")
=============================================================================

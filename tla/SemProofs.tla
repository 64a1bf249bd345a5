----------------------------- MODULE SemProofs -----------------------------
(* What holds of the semaphores for every process table and set of semaphores. *)
EXTENDS Sem, SchedProofs

\* Only kmain ever runs in USER mode, where cpsid and cpsie do nothing.
SystemMode == \A p \in Pcb \ {kmain} : ~at[p].user

\* What a process inside a function was called with, and what it has seen.
Arguments ==
    \A p \in Pcb : step[p] # "idle" =>
        /\ p # kmain
        /\ target[p] \in Sems
        /\ step[p] = "wake" => first_waiting[target[p]] # None

SchedInv == ListInv /\ ZombieUnlinked /\ ContextPreserved
SemInv == SchedInv /\ SemTypeOK /\ SystemMode /\ Arguments /\ InsideIsMasked

\* Entering or leaving a function is a step of the scheduler's program, or none at all.
LEMMA SetMaskIsSchedStep ==
    ASSUME SchedInv, InUser, NEW m \in BOOLEAN, SetMask(m)
    PROVE  /\ [Next]_schedVars
           /\ UNCHANGED <<current, pc, live, saved>>
           /\ cpu' = IF cpu.user THEN cpu ELSE [cpu EXCEPT !.mask = m]
           /\ at' = [at EXCEPT ![current] = cpu']
<1>1. /\ UNCHANGED <<current, pc, live, saved>>
      /\ cpu' = IF cpu.user THEN cpu ELSE [cpu EXCEPT !.mask = m]
      /\ at' = [at EXCEPT ![current] = cpu']
  BY DEF SetMask, Runs, ringVars
<1>2. cpu \in Context /\ at \in [Pcb -> Context] /\ current \in Pcb /\ cpu = at[current]
  BY DEF SchedInv, ListInv, TypeOK, ContextPreserved, InUser
<1>3. CASE cpu.user \/ cpu.mask = m
  <2>1. cpu' = cpu
    BY <1>1, <1>2, <1>3 DEF Context
  <2>2. at' = at
    BY <1>1, <1>2, <2>1
  <2> QED
    BY <1>1, <2>1, <2>2 DEF SetMask, Runs, schedVars, ringVars, loopVars
<1>4. CASE ~cpu.user /\ cpu.mask # m
  <2>1. cpu.mask \in BOOLEAN
    BY <1>2 DEF Context
  <2>2. CASE m = TRUE
    <3>1. Runs([cpu EXCEPT !.mask = TRUE]) /\ UNCHANGED armed
      BY <1>4, <2>2, Zenon DEF SetMask
    <3>2. DISABLE_IRQ
      BY <1>4, <2>1, <2>2, <3>1 DEF DISABLE_IRQ
    <3> QED
      BY <1>1, <3>2 DEF Next, UserOp
  <2>3. CASE m = FALSE
    <3>1. Runs([cpu EXCEPT !.mask = FALSE]) /\ UNCHANGED armed
      BY <1>4, <2>3, Zenon DEF SetMask
    <3>2. ENABLE_IRQ
      BY <1>4, <2>1, <2>3, <3>1 DEF ENABLE_IRQ
    <3> QED
      BY <1>1, <3>2 DEF Next, UserOp
  <2> QED
    BY <2>2, <2>3
<1> QED
  BY <1>1, <1>3, <1>4

\* Every step of the semaphores is a step of the scheduler with its semaphore environment.
LEMMA SemStepIsSchedStep == SemInv /\ [SemNext]_vars => [Next]_schedVars
<1> SUFFICES ASSUME SemInv, [SemNext]_vars PROVE [Next]_schedVars
  OBVIOUS
<1>1. CASE Call
  <2>1. \E label, s, v : Enter(label, s, v)
    BY <1>1 DEF Call, sem_down, sem_up, sem_wait_for
  <2> QED
    BY <2>1, SetMaskIsSchedStep DEF Enter, At, SemInv
<1>2. CASE down_enable \/ enable
  <2>1. InUser /\ SetMask(FALSE)
    BY <1>2 DEF down_enable, enable, Return, At
  <2> QED
    BY <2>1, SetMaskIsSchedStep DEF SemInv
<1>3. CASE down_dec \/ down_enqueue \/ up_inc \/ poll_end
  BY <1>3 DEF down_dec, down_enqueue, up_inc, poll_end
<1>4. CASE down_block
  BY <1>4 DEF down_block, Next, Semaphores
<1>5. CASE down_yield \/ poll_yield
  BY <1>5 DEF down_yield, poll_yield, sys_yield, Next, UserOp
<1>6. CASE up_wake
  <2>1. step[current] = "wake" /\ current \in Pcb
    BY <1>6 DEF up_wake, At, SemInv, SchedInv, ListInv, TypeOK
  <2>2. target[current] \in Sems /\ first_waiting[target[current]] # None
    BY <2>1 DEF SemInv, Arguments
  <2>3. first_waiting[target[current]] \in Pcb
    BY <2>2 DEF SemInv, SemTypeOK
  <2> QED
    BY <1>6, <2>3 DEF up_wake, Next, Semaphores
<1>7. CASE Program
  BY <1>7 DEF Program, Next, UserOp
<1>8. CASE Kernel
  BY <1>8 DEF Kernel, Next
<1>9. CASE UNCHANGED vars
  BY <1>9 DEF vars
<1> QED
  BY <1>1, <1>2, <1>3, <1>4, <1>5, <1>6, <1>7, <1>8, <1>9 DEF SemNext, SemStep

\* The scheduler's invariants hold of the composition, one step at a time.
LEMMA SchedInvNext == SchedInv /\ [Next]_schedVars => SchedInv'
  BY ListNext, ZombieNext, ContextNext DEF SchedInv

\* The kernel does not move the programs: only their own steps and add_process do.
LEMMA AtKept == ASSUME irq_handler \/ elect PROVE UNCHANGED at
  BY DEF irq_handler, CallElect, elect, ElectTerminated, ElectBlocked, ElectReady, BeginChoice,
     Hop, FixPriorityIteration, DynamicPriorityIteration, Advance, ElectAgain, Dispatch, EndChoice,
     ctxVars

\* Entering and leaving a function keeps programs other than kmain out of USER mode.
LEMMA SetMaskKeepsMode ==
    ASSUME SchedInv, SystemMode, InUser, NEW m \in BOOLEAN, SetMask(m)
    PROVE  SystemMode'
<1>1. /\ at' = [at EXCEPT ![current] = cpu']
      /\ cpu' = IF cpu.user THEN cpu ELSE [cpu EXCEPT !.mask = m]
  BY SetMaskIsSchedStep
<1>2. cpu \in Context /\ at \in [Pcb -> Context] /\ current \in Pcb /\ cpu = at[current]
  BY DEF SchedInv, ListInv, TypeOK, ContextPreserved, InUser
<1>3. cpu'.user = cpu.user
  BY <1>1, <1>2 DEF Context
<1> QED
  BY <1>1, <1>2, <1>3 DEF SystemMode

\* kmain's "cps 0x10" is the only step that enters USER mode, and fork copies its caller.
LEMMA SystemModeNext == SemInv /\ [SemNext]_vars => SystemMode'
<1> SUFFICES ASSUME SemInv, [SemNext]_vars PROVE SystemMode'
  OBVIOUS
<1>t. /\ cpu \in Context /\ at \in [Pcb -> Context] /\ current \in Pcb
      /\ pc = "user" => cpu = at[current]
  BY DEF SemInv, SchedInv, ListInv, TypeOK, ContextPreserved
<1>1. ASSUME UNCHANGED at PROVE SystemMode'
  BY <1>1 DEF SemInv, SystemMode
<1>2. CASE Call
  <2>1. InUser /\ SetMask(TRUE)
    BY <1>2 DEF Call, sem_down, sem_up, sem_wait_for, Enter, At
  <2> QED
    BY <2>1, SetMaskKeepsMode DEF SemInv
<1>3. CASE down_enable \/ enable
  <2>1. InUser /\ SetMask(FALSE)
    BY <1>3 DEF down_enable, enable, Return, At
  <2> QED
    BY <2>1, SetMaskKeepsMode DEF SemInv
<1>4. CASE down_dec \/ down_enqueue \/ up_inc \/ poll_end \/ down_block \/ up_wake
           \/ down_yield \/ poll_yield
  BY <1>4, <1>1 DEF down_dec, down_enqueue, up_inc, poll_end, down_block, up_wake, down_yield,
     poll_yield, Block, Unblock, sys_yield, do_sys_yield, CallElect, schedVars, ctxVars
<1>5. CASE Program
  <2>1. CASE Create
    <3>1. PICK p \in Pcb :
                \/ create_process(p)
                \/ \E prio \in Priorities : create_process_with_fix_priority(p, prio)
                \/ do_sys_fork(p)
      BY <2>1 DEF Create
    <3>2. CASE do_sys_fork(p)
      <4>1. at' = [at EXCEPT ![p] = cpu] /\ current # kmain /\ pc = "user"
        BY <3>2 DEF do_sys_fork, add_process, InUser
      <4> QED
        BY <4>1, <1>t DEF SemInv, SystemMode
    <3>3. CASE ~do_sys_fork(p)
      <4>1. at' = [at EXCEPT ![p] = Fresh]
        BY <3>1, <3>3 DEF create_process, create_process_with_fix_priority, add_process
      <4> QED
        BY <4>1, <1>t DEF SemInv, SystemMode, Fresh
    <3> QED
      BY <3>2, <3>3
  <2>2. CASE start_kernel \/ DropToUserMode
    BY <2>2, <1>t DEF start_kernel, DropToUserMode, Runs, SemInv, SystemMode
  <2>3. CASE do_sys_yield \/ do_sys_exit \/ \E s \in Schedulers : do_sys_setscheduler(s)
    BY <2>3, <1>1 DEF do_sys_yield, do_sys_exit, do_sys_setscheduler, CallElect, ctxVars
  <2> QED
    BY <1>5, <2>1, <2>2, <2>3 DEF Program
<1>6. CASE Kernel
  BY <1>6, <1>1, AtKept DEF Kernel
<1>7. CASE UNCHANGED vars
  BY <1>7, <1>1 DEF vars, schedVars
<1> QED
  BY <1>2, <1>3, <1>4, <1>5, <1>6, <1>7 DEF SemNext, SemStep

\* Every statement of sem.c keeps the types of its variables.
LEMMA SemTypeNext == SemInv /\ [SemNext]_vars => SemTypeOK'
<1> SUFFICES ASSUME SemInv, [SemNext]_vars PROVE SemTypeOK'
  OBVIOUS
<1>t. /\ SemTypeOK
      /\ current \in Pcb
      /\ \A p \in Pcb : step[p] # "idle" => target[p] \in Sems
  BY DEF SemInv, SchedInv, ListInv, TypeOK, Arguments
<1>1. ASSUME NEW label \in Steps, NEW s \in Sems, NEW v \in WaitValues \cup {0}, Enter(label, s, v)
      PROVE  SemTypeOK'
  BY <1>1, <1>t DEF Enter, GoTo, SemTypeOK
<1>2. CASE Call
  BY <1>2, <1>1 DEF Call, sem_down, sem_up, sem_wait_for, Steps
<1>3. CASE down_dec
  <2>1. /\ counter' = [counter EXCEPT ![target[current]] = @ - 1]
        /\ \E label \in {"block", "acquired"} : GoTo(label)
        /\ UNCHANGED <<first_waiting, next_waiting_sem, target, awaited, permits, holding>>
    BY <1>3 DEF down_dec
  <2>s. target[current] \in Sems
    BY <1>3, <1>t DEF down_dec, At
  <2>2. counter' \in [Sems -> Int]
    BY <1>t, <2>1, <2>s DEF SemTypeOK
  <2>3. step' \in [Pcb -> Steps]
    BY <1>t, <2>1 DEF GoTo, SemTypeOK, Steps
  <2> QED
    BY <1>t, <2>1, <2>2, <2>3 DEF SemTypeOK
<1>4. CASE down_block \/ down_yield \/ poll_end
  BY <1>4, <1>t DEF down_block, down_yield, poll_end, GoTo, SemTypeOK, Steps
<1>5. CASE down_enqueue
  <2>1. target[current] \in Sems
    BY <1>5, <1>t DEF down_enqueue, At
  <2>2. AppendWaiter(target[current]) /\ GoTo("yield")
        /\ UNCHANGED <<counter, target, awaited, permits, holding>>
    BY <1>5 DEF down_enqueue
  <2>3. first_waiting' \in [Sems -> Pcb \cup {None}] /\ next_waiting_sem' \in [Pcb -> Pcb \cup {None}]
    <3>1. \/ first_waiting' = [first_waiting EXCEPT ![target[current]] = current]
          \/ UNCHANGED first_waiting
      BY <2>2 DEF AppendWaiter
    <3>2. UNCHANGED next_waiting_sem \/ \E q : next_waiting_sem' = [next_waiting_sem EXCEPT ![q] = current]
      BY <2>2, Zenon DEF AppendWaiter
    <3> QED
      BY <3>1, <3>2, <1>t, <2>1 DEF SemTypeOK
  <2> QED
    BY <1>t, <2>2, <2>3 DEF GoTo, SemTypeOK, Steps
<1>6. CASE down_enable \/ enable
  <2>1. target[current] \in Sems
    BY <1>6, <1>t DEF down_enable, enable, At
  <2>2. permits' \in [Sems -> Int] /\ holding' \in [Pcb -> SUBSET Sems]
    BY <1>6, <1>t, <2>1 DEF down_enable, enable, SemTypeOK
  <2>3. Return
    BY <1>6 DEF down_enable, enable
  <2> QED
    BY <1>t, <2>2, <2>3 DEF Return, GoTo, SemTypeOK, Steps
<1>7. CASE up_inc
  <2>1. /\ counter' = [counter EXCEPT ![target[current]] = @ + 1]
        /\ \E label \in {"wake", "enable"} : GoTo(label)
        /\ permits' = [permits EXCEPT ![target[current]] = @ + 1]
        /\ holding' = [holding EXCEPT ![current] = @ \ {target[current]}]
        /\ UNCHANGED <<first_waiting, next_waiting_sem, target, awaited>>
    BY <1>7 DEF up_inc
  <2>s. target[current] \in Sems
    BY <1>7, <1>t DEF up_inc, At
  <2>2. counter' \in [Sems -> Int] /\ permits' \in [Sems -> Int]
    BY <1>t, <2>1, <2>s DEF SemTypeOK
  <2>3. step' \in [Pcb -> Steps]
    BY <1>t, <2>1 DEF GoTo, SemTypeOK, Steps
  <2>4. holding' \in [Pcb -> SUBSET Sems]
    BY <1>t, <2>1 DEF SemTypeOK
  <2> QED
    BY <1>t, <2>1, <2>2, <2>3, <2>4 DEF SemTypeOK
<1>8. CASE up_wake
  <2>1. step[current] = "wake"
    BY <1>8 DEF up_wake, At
  <2>2. target[current] \in Sems /\ first_waiting[target[current]] \in Pcb
    BY <2>1, <1>t DEF SemInv, Arguments, SemTypeOK
  <2> QED
    BY <1>8, <1>t, <2>2 DEF up_wake, Detach, GoTo, SemTypeOK, Steps
<1>9. CASE Program
  <2>1. next_waiting_sem' \in [Pcb -> Pcb \cup {None}]
    BY <1>9, <1>t DEF Program, NewLink, SemTypeOK, semVars
  <2> QED
    BY <1>9, <1>t, <2>1 DEF Program, SemTypeOK, semVars
<1>10. CASE Kernel \/ poll_yield \/ UNCHANGED vars
  BY <1>10, <1>t DEF Kernel, poll_yield, vars, semVars, SemTypeOK
<1> QED
  BY <1>2, <1>3, <1>4, <1>5, <1>6, <1>7, <1>8, <1>9, <1>10 DEF SemNext, SemStep

\* While a process is at a critical statement no other runs, so nothing it has read moves.
LEMMA InsideNext == SemInv /\ [SemNext]_vars => InsideIsMasked' /\ Arguments'
<1> SUFFICES ASSUME SemInv, [SemNext]_vars PROVE InsideIsMasked' /\ Arguments'
  OBVIOUS
<1>t. /\ SemTypeOK /\ Arguments /\ InsideIsMasked
      /\ current \in Pcb /\ cpu \in Context
      /\ pc = "user" => cpu = at[current]
  BY DEF SemInv, SchedInv, ListInv, TypeOK, ContextPreserved
<1>c. \A p \in Pcb : step[p] = "wake" => p = current /\ pc = "user"
  BY <1>t DEF InsideIsMasked, Critical
<1>1. CASE Call
  <2>1. PICK label \in {"dec", "inc", "poll"}, s \in Sems, v \in WaitValues \cup {0} : Enter(label, s, v)
    BY <1>1 DEF Call, sem_down, sem_up, sem_wait_for
  <2>2. /\ InUser /\ step[current] = "idle" /\ current # kmain /\ SetMask(TRUE)
        /\ step' = [step EXCEPT ![current] = label]
        /\ target' = [target EXCEPT ![current] = s]
        /\ UNCHANGED first_waiting
    BY <2>1 DEF Enter, At, GoTo
  <2>3. ~cpu.user
    BY <2>2, <1>t DEF InUser, SemInv, SystemMode
  <2>4. cpu'.mask /\ UNCHANGED <<current, pc>>
    BY <2>2, <2>3, <1>t, SetMaskIsSchedStep DEF SemInv, Context
  <2>5. InsideIsMasked'
    BY <2>2, <2>4, <1>t DEF InsideIsMasked, Critical, SemTypeOK, InUser
  <2>6. Arguments'
    BY <2>2, <1>t, <1>c DEF Arguments, SemTypeOK
  <2> QED
    BY <2>5, <2>6
<1>2. CASE down_enable \/ enable
  <2>1. /\ InUser /\ step[current] \notin Critical /\ SetMask(FALSE)
        /\ step' = [step EXCEPT ![current] = "idle"]
        /\ target' = [target EXCEPT ![current] = None]
        /\ UNCHANGED first_waiting
    BY <1>2 DEF down_enable, enable, Return, At, GoTo, Critical
  <2>2. InsideIsMasked'
    BY <2>1, <1>t DEF InsideIsMasked, Critical, SemTypeOK
  <2>3. Arguments'
    BY <2>1, <1>t, <1>c DEF Arguments, SemTypeOK
  <2> QED
    BY <2>2, <2>3
\* A statement of the running process that leaves registers and arguments alone.
<1>3. ASSUME NEW label \in Steps, step' = [step EXCEPT ![current] = label], step[current] # "idle",
             UNCHANGED <<current, target>>,
             label \notin Critical \/ (pc = "user" /\ cpu.mask /\ UNCHANGED <<pc, cpu>>),
             label = "idle" => FALSE,
             label = "wake" => first_waiting'[target[current]] # None
      PROVE  InsideIsMasked' /\ Arguments'
  <2>1. InsideIsMasked'
    BY <1>3, <1>t DEF InsideIsMasked, SemTypeOK
  <2>2. Arguments'
    BY <1>3, <1>t, <1>c DEF Arguments, SemTypeOK
  <2> QED
    BY <2>1, <2>2
<1>m. step[current] \in Critical => pc = "user" /\ cpu.mask
  BY <1>t DEF InsideIsMasked
<1>4. CASE down_dec
  <2>1. \E label \in {"block", "acquired"} : step' = [step EXCEPT ![current] = label]
    BY <1>4 DEF down_dec, GoTo
  <2>2. step[current] \in Critical /\ step[current] # "idle" /\ UNCHANGED <<current, target, pc, cpu>>
    BY <1>4 DEF down_dec, At, Critical, schedVars
  <2> QED
    BY <2>1, <2>2, <1>3, <1>m DEF Steps, Critical
<1>5. CASE down_block \/ down_enqueue
  <2>1. \E label \in {"enqueue", "yield"} : step' = [step EXCEPT ![current] = label]
    BY <1>5 DEF down_block, down_enqueue, GoTo
  <2>2. step[current] \in Critical /\ step[current] # "idle" /\ UNCHANGED <<current, target, pc, cpu>>
    BY <1>5 DEF down_block, down_enqueue, Block, At, Critical, schedVars, ctxVars
  <2> QED
    BY <2>1, <2>2, <1>3, <1>m DEF Steps, Critical
<1>6. CASE down_yield
  <2>1. step' = [step EXCEPT ![current] = "acquired"] /\ step[current] # "idle"
        /\ UNCHANGED <<current, target>>
    BY <1>6 DEF down_yield, sys_yield, do_sys_yield, CallElect, At, GoTo
  <2> QED
    BY <2>1, <1>3 DEF Steps, Critical
<1>7. CASE up_inc
  <2>1. /\ step' = [step EXCEPT ![current] = "wake"] \/ step' = [step EXCEPT ![current] = "enable"]
        /\ first_waiting[target[current]] = None => step' = [step EXCEPT ![current] = "enable"]
        /\ UNCHANGED first_waiting
    BY <1>7 DEF up_inc, GoTo
  <2>2. step[current] \in Critical /\ step[current] # "idle" /\ UNCHANGED <<current, target, pc, cpu>>
    BY <1>7 DEF up_inc, At, Critical, schedVars
  <2>3. CASE first_waiting[target[current]] = None
    BY <2>1, <2>2, <2>3, <1>3 DEF Steps, Critical
  <2>4. CASE first_waiting[target[current]] # None
    BY <2>1, <2>2, <2>4, <1>3, <1>m DEF Steps, Critical
  <2> QED
    BY <2>3, <2>4
<1>8. CASE up_wake \/ poll_end
  <2>1. step' = [step EXCEPT ![current] = "enable"] /\ step[current] # "idle"
        /\ UNCHANGED <<current, target>>
    BY <1>8 DEF up_wake, poll_end, Unblock, At, GoTo, schedVars
  <2> QED
    BY <2>1, <1>3 DEF Steps, Critical
\* Elsewhere nobody is at a critical statement, and nobody moves.
<1>9. ASSUME UNCHANGED <<step, target, first_waiting>>, \A p \in Pcb : step[p] \notin Critical
      PROVE  InsideIsMasked' /\ Arguments'
  BY <1>9, <1>t DEF InsideIsMasked, Arguments
<1>10. CASE Program \/ poll_yield
  <2>1. step[current] \notin Critical /\ UNCHANGED <<step, target, first_waiting>>
    BY <1>10 DEF Program, poll_yield, At, Critical, semVars
  <2> QED
    BY <2>1, <1>9, <1>t DEF InsideIsMasked
<1>11. CASE Kernel
  <2>1. pc # "user" \/ ~cpu.mask
    BY <1>11 DEF Kernel, irq_handler, elect, ElectTerminated, ElectBlocked, ElectReady, Hop,
       FixPriorityIteration, DynamicPriorityIteration, Advance, ElectAgain, Dispatch, EndChoice
  <2>2. UNCHANGED <<step, target, first_waiting>>
    BY <1>11 DEF Kernel, semVars
  <2> QED
    BY <2>1, <2>2, <1>9, <1>t DEF InsideIsMasked
<1>12. CASE UNCHANGED vars
  BY <1>12, <1>t DEF vars, schedVars, semVars, InsideIsMasked, Arguments
<1> QED
  BY <1>1, <1>2, <1>4, <1>5, <1>6, <1>7, <1>8, <1>10, <1>11, <1>12 DEF SemNext, SemStep

\* sem_init, with no process in any function.
LEMMA SemInvInit == SemInit => SemInv
<1> SUFFICES ASSUME SemInit PROVE SemInv
  OBVIOUS
<1>1. SchedInv
  <2>1. Init
    BY DEF SemInit
  <2>2. ListInv
    BY <2>1, ListInit
  <2>3. ZombieUnlinked /\ ContextPreserved
    BY <2>1, PcbAssumption DEF Init, ZombieUnlinked, ContextPreserved, Linked
  <2> QED
    BY <2>2, <2>3 DEF SchedInv
<1>2. SemTypeOK
  BY SemAssumption DEF SemInit, SemTypeOK, Steps
<1>3. SystemMode
  BY DEF SemInit, Init, SystemMode, Fresh
<1>4. Arguments /\ InsideIsMasked
  BY DEF SemInit, Arguments, InsideIsMasked, Critical
<1> QED
  BY <1>1, <1>2, <1>3, <1>4 DEF SemInv

\* The parts of the invariant support each other: the scheduler's part needs nothing else.
LEMMA SemInvNext == SemInv /\ [SemNext]_vars => SemInv'
<1>1. SemInv /\ [SemNext]_vars => SchedInv'
  BY SemStepIsSchedStep, SchedInvNext DEF SemInv
<1> QED
  BY <1>1, SemTypeNext, SystemModeNext, InsideNext DEF SemInv

\* The inductive invariant of the semaphores.
THEOREM SemCorrect == SemSpec => []SemInv
  BY SemInvInit, SemInvNext, PTL DEF SemSpec

\* Every variable of sem.c keeps its type.
THEOREM SemTypeCorrect == SemSpec => []SemTypeOK
<1>1. SemInv => SemTypeOK
  BY DEF SemInv
<1> QED
  BY <1>1, SemCorrect, PTL

\* The statements of sem.c that touch a semaphore are never interrupted.
THEOREM InsideCorrect == SemSpec => []InsideIsMasked
<1>1. SemInv => InsideIsMasked
  BY DEF SemInv
<1> QED
  BY <1>1, SemCorrect, PTL

\* sem.c uses the scheduler only in the ways module Sched allows, so that every theorem
\* about Spec holds of a system with semaphores.
THEOREM SemImplementsSched == SemSpec => ImplementsSched
<1>1. SemInit => Init
  BY DEF SemInit
<1> QED
  BY <1>1, SemStepIsSchedStep, SemCorrect, PTL DEF SemSpec, ImplementsSched, Spec
=============================================================================

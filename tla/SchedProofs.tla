---------------------------- MODULE SchedProofs ----------------------------
(* What holds of the scheduler for every process table. *)
EXTENDS Sched, FiniteSetTheorems, TLAPS

\* What electRandom relies on: the remainder of a division by nb_process is below it.
LEMMA Remainder ==
    ASSUME NEW n \in Nat, n > 0, NEW m \in Nat
    PROVE  m % n \in Nat /\ m % n < n
  OBVIOUS

\* sched_init leaves every variable in its type.
LEMMA TypeInit == Init => TypeOK
<1> SUFFICES ASSUME Init PROVE TypeOK
  OBVIOUS
<1> USE PcbAssumption, PriorityAssumption, BoundAssumption DEF Init
<1>1. Fresh \in Context
  BY DEF Fresh, Context
<1>2. priority \in [Pcb -> Int]
  OBVIOUS
<1>3. status \in [Pcb -> Status]
  BY DEF Status
<1>4. cpu \in Context /\ saved \in [Pcb -> Context] /\ at \in [Pcb -> Context]
  BY <1>1
<1>5. pid_counter \in 0 .. MaxPid
  OBVIOUS
<1>6. current \in Pcb /\ next \in [Pcb -> Pcb] /\ previous \in [Pcb -> Pcb] /\ pid \in [Pcb -> Nat]
  OBVIOUS
<1>7. live \in SUBSET Pcb /\ nb_process \in Nat /\ victim \in Pcb \cup {None} /\ left \in Nat
  OBVIOUS
<1>8. scheduler \in SchedulerNames /\ x \in 0 .. 127
  BY DEF SchedulerNames
<1>9. choose \in Pcb /\ mmu \in Pcb /\ armed \in BOOLEAN /\ pc = "user" /\ entry = "svc"
  OBVIOUS
<1> QED
  BY <1>2, <1>3, <1>4, <1>5, <1>6, <1>7, <1>8, <1>9 DEF TypeOK

\* A program step changes contexts only, and to contexts.
LEMMA RunsType ==
    ASSUME TypeOK, NEW context \in Context, Runs(context), armed' \in BOOLEAN
    PROVE  TypeOK'
  BY DEF TypeOK, Runs, ringVars, loopVars

\* Creating a process keeps the types, whatever context and priority it starts with.
LEMMA CreateType ==
    ASSUME TypeOK, NEW p \in Pcb, NEW context \in Context, NEW prio \in Int,
           add_process(p, context, prio), saved' \in [Pcb -> Context],
           UNCHANGED <<cpu, loopVars, scheduler, x, pc, entry, current, armed>>
    PROVE  TypeOK'
<1> PICK last \in Linked : add_process(p, context, prio)!(last)
  BY DEF add_process
<1> last \in Pcb
  BY DEF Linked, TypeOK
<1> USE PcbAssumption, BoundAssumption DEF TypeOK, loopVars
<1>1. next' \in [Pcb -> Pcb] /\ previous' \in [Pcb -> Pcb]
  BY DEF AppendLinks
<1>2. pid' \in [Pcb -> Nat] /\ priority' \in [Pcb -> Int] /\ at' \in [Pcb -> Context]
  OBVIOUS
<1>3. status' \in [Pcb -> Status]
  BY DEF Status
<1>4. live' \in SUBSET Pcb /\ nb_process' \in Nat /\ pid_counter' \in 0 .. MaxPid /\ mmu' \in Pcb
  BY DEF switch_mmu_to
<1> QED
  BY <1>1, <1>2, <1>3, <1>4

\* Entering the kernel keeps the types.
LEMMA CallElectType ==
    ASSUME TypeOK, NEW from \in {"svc", "irq"}, CallElect(from),
           status' \in [Pcb -> Status], saved' \in [Pcb -> Context], armed' \in BOOLEAN
    PROVE  TypeOK'
  BY DEF TypeOK, CallElect, ringVars, loopVars

\* The head of elect() keeps the types: the loop gets a number of iterations.
LEMMA BeginChoiceType ==
    ASSUME TypeOK, nb_process > 0, BeginChoice, next' \in [Pcb -> Pcb],
           previous' \in [Pcb -> Pcb], victim' \in Pcb \cup {None}, status' \in [Pcb -> Status]
    PROVE  TypeOK' /\ left' > 0
<1>1. get_random(x) \in 0 .. 127
  BY DEF get_random, TypeOK
<1>2. x' \in 0 .. 127
  BY <1>1 DEF BeginChoice, TypeOK
<1>3. x' % nb_process \in Nat
  <2>1. x' \in Nat /\ nb_process \in Nat
    BY <1>2 DEF TypeOK
  <2> QED
    BY <2>1, Remainder
<1>4. left' \in Nat /\ left' > 0
  BY <1>3 DEF BeginChoice, Iterations, TypeOK
<1>5. choose' \in Pcb
  BY DEF BeginChoice, TypeOK
<1> QED
  BY <1>2, <1>4, <1>5 DEF BeginChoice, TypeOK, ctxVars

\* One iteration of a scheduler loop keeps the types.
LEMMA AdvanceType ==
    ASSUME TypeOK, Advance, choose' \in Pcb, priority' \in [Pcb -> Int]
    PROVE  TypeOK'
  BY DEF TypeOK, Advance, ringVars, ctxVars

\* The end of the choice keeps the types of the variables it assigns.
LEMMA EndChoiceType ==
    ASSUME TypeOK, nb_process > 0, EndChoice, status' \in [Pcb -> Status],
           pc' \in {"user", "elect", "loop"}, entry' \in {"svc", "irq"},
           cpu' \in Context, armed' \in BOOLEAN
    PROVE  TypeOK'
<1>1. Elected \in Pcb
  BY DEF Elected, TypeOK
<1>2. priority' \in [Pcb -> Int]
  BY <1>1 DEF EndChoice, TypeOK
<1>3. live' \in SUBSET Pcb /\ nb_process' \in Nat
  BY DEF EndChoice, free_process, TypeOK
<1> QED
  BY <1>1, <1>2, <1>3 DEF EndChoice, switch_mmu_to, TypeOK

\* Type correctness is preserved by every step that finds a positive nb_process.
LEMMA TypeNext ==
    ASSUME TypeOK, nb_process > 0, [Next]_schedVars
    PROVE  TypeOK'
<1>1. CASE UserStep
  <2>1. cpu.at + 1 \in Nat /\ NbPhases \in Nat /\ NbPhases > 0
    BY BoundAssumption DEF TypeOK, Context
  <2>2. (cpu.at + 1) % NbPhases \in 0 .. NbPhases - 1
    BY <2>1, Remainder
  <2>3. [cpu EXCEPT !.at = (@ + 1) % NbPhases] \in Context
    BY <2>2 DEF TypeOK, Context
  <2> QED
    BY <1>1, <2>3, RunsType DEF UserStep, TypeOK
<1>2. CASE DISABLE_IRQ \/ ENABLE_IRQ
  <2>1. [cpu EXCEPT !.mask = TRUE] \in Context /\ [cpu EXCEPT !.mask = FALSE] \in Context
    BY DEF TypeOK, Context
  <2> QED
    BY <1>2, <2>1, RunsType DEF DISABLE_IRQ, ENABLE_IRQ, TypeOK
<1>3. CASE start_kernel \/ DropToUserMode
  <2>1. [cpu EXCEPT !.mask = FALSE] \in Context /\ [cpu EXCEPT !.user = TRUE] \in Context
    BY DEF TypeOK, Context
  <2> QED
    BY <1>3, <2>1, RunsType DEF start_kernel, DropToUserMode, TypeOK
<1>4. CASE Create
  <2>1. PICK p \in Pcb :
              \/ create_process(p)
              \/ \E prio \in Priorities : create_process_with_fix_priority(p, prio)
              \/ do_sys_fork(p)
    BY <1>4 DEF Create
  <2>2. Fresh \in Context
    BY BoundAssumption DEF Fresh, Context
  <2>3. CASE create_process(p)
    BY <2>2, <2>3, CreateType DEF create_process, TypeOK
  <2>4. CASE \E prio \in Priorities : create_process_with_fix_priority(p, prio)
    BY <2>2, <2>4, CreateType, PriorityAssumption DEF create_process_with_fix_priority, TypeOK
  <2>5. CASE do_sys_fork(p)
    BY <2>5, CreateType DEF do_sys_fork, TypeOK
  <2> QED
    BY <2>1, <2>3, <2>4, <2>5
<1>5. CASE \E s \in Schedulers : do_sys_setscheduler(s)
  BY <1>5, SchedulerAssumption DEF do_sys_setscheduler, TypeOK, ringVars, loopVars, ctxVars
<1>6. CASE do_sys_yield \/ irq_handler
  <2>1. \E from \in {"svc", "irq"} : CallElect(from)
    BY <1>6 DEF do_sys_yield, irq_handler
  <2>2. status' \in [Pcb -> Status] /\ saved' \in [Pcb -> Context]
    BY <1>6 DEF do_sys_yield, irq_handler, SaveContext, TypeOK
  <2>3. armed' \in BOOLEAN
    BY <1>6, Zenon DEF do_sys_yield, irq_handler, TypeOK
  <2> QED
    BY <2>1, <2>2, <2>3, CallElectType
<1>7. CASE do_sys_exit
  <2>1. status' \in [Pcb -> Status]
    BY <1>7 DEF do_sys_exit, TypeOK, Status
  <2> QED
    BY <1>7, <2>1, CallElectType DEF do_sys_exit, TypeOK
<1>8. CASE \E dest \in Pcb : do_sys_yieldto(dest)
  BY <1>8 DEF do_sys_yieldto, SaveContext, TypeOK, ringVars, loopVars
<1>9. CASE Semaphores
  <2>1. status' \in [Pcb -> Status]
    BY <1>9 DEF Semaphores, Block, Unblock, TypeOK, Status
  <2> QED
    BY <1>9, <2>1 DEF Semaphores, Block, Unblock, TypeOK, ringVars, loopVars, ctxVars
<1>10. CASE ElectTerminated \/ ElectBlocked \/ ElectReady
  <2>1. status' \in [Pcb -> Status]
    BY <1>10 DEF ElectTerminated, ElectBlocked, ElectReady, TypeOK, Status
  <2>2. next' \in [Pcb -> Pcb] /\ previous' \in [Pcb -> Pcb] /\ victim' \in Pcb \cup {None}
    BY <1>10 DEF ElectTerminated, ElectBlocked, ElectReady, Unlink, TypeOK
  <2>3. BeginChoice
    BY <1>10 DEF ElectTerminated, ElectBlocked, ElectReady
  <2> QED
    BY <2>1, <2>2, <2>3, BeginChoiceType
<1>11. CASE Hop \/ FixPriorityIteration \/ DynamicPriorityIteration
  <2>1. Advance /\ choose' \in Pcb
    BY <1>11 DEF Hop, FixPriorityIteration, DynamicPriorityIteration, Advance, TypeOK
  <2>2. priority' \in [Pcb -> Int]
    BY <1>11 DEF Hop, FixPriorityIteration, DynamicPriorityIteration, TypeOK
  <2> QED
    BY <2>1, <2>2, AdvanceType
<1>12. CASE ElectAgain
  BY <1>12, EndChoiceType DEF ElectAgain, TypeOK
<1>13. CASE Dispatch
  <2>1. Elected \in Pcb
    BY DEF Elected, TypeOK
  <2>2. cpu' \in Context /\ armed' \in BOOLEAN /\ entry' = "svc" /\ pc' = "user"
    BY <1>13, <2>1 DEF Dispatch, TimerOnReturn, TypeOK
  <2>3. status' \in [Pcb -> Status]
    BY <1>13, <2>1 DEF Dispatch, TypeOK, Status
  <2> QED
    BY <1>13, <2>2, <2>3, EndChoiceType DEF Dispatch
<1>14. CASE UNCHANGED schedVars
  BY <1>14 DEF TypeOK, schedVars
<1> QED
  BY <1>1, <1>2, <1>3, <1>4, <1>5, <1>6, <1>7, <1>8, <1>9, <1>10, <1>11, <1>12, <1>13, <1>14
     DEF Next, UserOp, elect

-----------------------------------------------------------------------------
(* The process list.                                                       *)

ListInv == TypeOK /\ Ring /\ Counted

RingParts == KmainLinked /\ NextCloses /\ NextInjective /\ PreviousUndoesNext
             /\ EndExists /\ PidsGrow /\ VictimPointsBack

\* kmain alone is a list of one.
LEMMA ListInit == Init => ListInv
<1> SUFFICES ASSUME Init PROVE ListInv
  OBVIOUS
<1>1. TypeOK
  BY TypeInit
<1>2. Linked = {kmain} /\ next[kmain] = kmain /\ pid[kmain] = 0 /\ status[kmain] = "RUNNING"
  BY PcbAssumption DEF Init, Linked
<1>3. current = kmain /\ pc = "user" /\ victim = None /\ victim # kmain /\ pid_counter = 1
  BY PcbAssumption DEF Init
<1>4. Ring
  BY <1>2, <1>3 DEF Ring, KmainLinked, NextCloses, NextInjective, PreviousUndoesNext,
     EndExists, PidsGrow, VictimPointsBack, CursorInside
<1>5. Counted
  BY FS_Singleton DEF Init, Counted
<1> QED
  BY <1>1, <1>4, <1>5 DEF ListInv

\* nb_process is never zero: kmain is always in the list.
LEMMA CountPositive == ListInv => nb_process > 0 /\ IsFiniteSet(live)
<1> SUFFICES ASSUME ListInv PROVE nb_process > 0 /\ IsFiniteSet(live)
  OBVIOUS
<1>1. IsFiniteSet(live)
  BY PcbAssumption, FS_Subset DEF ListInv, TypeOK
<1>2. kmain \in live
  BY DEF ListInv, Ring, KmainLinked, Linked
<1>3. Cardinality(live) \in Nat /\ Cardinality(live) # 0
  BY <1>1, <1>2, FS_EmptySet, FS_CardinalityType
<1> QED
  BY <1>1, <1>3 DEF ListInv, Counted

\* Outside the scheduler loops nothing is being deleted: the list is all that is live.
LEMMA AllLinked == ListInv /\ pc # "loop" => victim = None /\ Linked = live /\ current \in Linked
  BY PcbAssumption DEF ListInv, Ring, CursorInside, VictimPointsBack, Linked, TypeOK

\* Steps that leave the list alone keep its shape.
LEMMA RingPartsKept ==
    ASSUME RingParts, UNCHANGED <<ringVars, victim>>, status'[kmain] # "TERMINATED"
    PROVE  RingParts'
  BY DEF RingParts, ringVars, Linked, KmainLinked, NextCloses, NextInjective,
     PreviousUndoesNext, EndExists, PidsGrow, VictimPointsBack

\* add_process appends: the new process becomes the one before kmain, with the largest pid.
LEMMA AddKeepsRing ==
    ASSUME ListInv, pc = "user", NEW p \in Pcb, NEW context, NEW prio,
           add_process(p, context, prio), UNCHANGED <<loopVars, pc, current>>
    PROVE  Ring' /\ Counted'
<1>0. PICK last \in Linked : add_process(p, context, prio)!(last)
  BY DEF add_process
<1>1. victim = None /\ Linked = live /\ current \in live /\ last \in live /\ p \notin live
  BY <1>0, AllLinked
<1>2. victim' = None /\ Linked' = live \cup {p} /\ p # kmain /\ p # last
  BY <1>0, <1>1, PcbAssumption DEF loopVars, Linked, ListInv, Ring, KmainLinked, TypeOK
<1>3. next' = [next EXCEPT ![last] = p, ![p] = kmain] /\ next[last] = kmain /\ next \in [Pcb -> Pcb]
  BY <1>0 DEF AppendLinks, ListInv, TypeOK
<1>4. next'[last] = p /\ next'[p] = kmain /\ \A q \in live : q # last => next'[q] = next[q]
  BY <1>1, <1>2, <1>3 DEF ListInv, TypeOK
<1>5. live \subseteq Pcb /\ kmain \in live
  BY <1>1 DEF ListInv, TypeOK, Ring, KmainLinked
<1>6. KmainLinked'
  BY <1>0, <1>2, <1>5 DEF KmainLinked, ListInv, Ring, TypeOK
<1>7. NextCloses'
  <2>1. \A q \in live : next[q] \in live
    BY <1>1 DEF NextCloses, ListInv, Ring
  <2> QED
    BY <2>1, <1>1, <1>2, <1>4, <1>5 DEF NextCloses
<1>8. NextInjective'
  BY <1>1, <1>2, <1>3, <1>4, <1>5 DEF NextInjective, NextCloses, ListInv, Ring
<1>9. PreviousUndoesNext'
  <2> SUFFICES ASSUME NEW q \in Linked', q # kmain
               PROVE  previous'[q] \in Linked' /\ next'[previous'[q]] = q
    BY DEF PreviousUndoesNext
  <2>1. CASE q = p
    BY <2>1, <1>0, <1>1, <1>2, <1>4 DEF AppendLinks, ListInv, TypeOK
  <2>2. CASE q # p
    <3>1. q \in live /\ previous'[q] = previous[q] /\ previous[q] \in live /\ next[previous[q]] = q
      BY <2>2, <1>0, <1>1, <1>2, <1>5 DEF AppendLinks, PreviousUndoesNext, ListInv, Ring, TypeOK
    <3>2. previous[q] # last
      BY <3>1, <1>3
    <3> QED
      BY <3>1, <3>2, <1>2, <1>4
  <2> QED
    BY <2>1, <2>2
<1>10. EndExists'
  BY <1>2, <1>4 DEF EndExists
<1>11. PidsGrow'
  <2>1. pid'[p] = pid_counter /\ \A q \in live : pid'[q] = pid[q] /\ pid[q] < pid_counter
    BY <1>0, <1>1, <1>5 DEF PidsGrow, ListInv, Ring, TypeOK
  <2>2. pid_counter' = pid_counter + 1 /\ pid_counter \in Nat /\ \A q \in live : pid[q] \in Nat
    BY <1>0, <1>5, BoundAssumption DEF ListInv, TypeOK
  <2>3. \A q \in live : next[q] \in live /\ (next[q] # kmain => pid[q] < pid[next[q]])
    BY <1>1 DEF PidsGrow, NextCloses, ListInv, Ring
  <2>4. \A q \in live \cup {p} : pid'[q] < pid_counter'
    BY <2>1, <2>2
  <2>5. \A q \in live \cup {p} : next'[q] # kmain => pid'[q] < pid'[next'[q]]
    BY <1>1, <1>4, <2>1, <2>2, <2>3
  <2> QED
    BY <1>2, <2>4, <2>5 DEF PidsGrow
<1>12. VictimPointsBack' /\ CursorInside'
  BY <1>0, <1>1, <1>2 DEF VictimPointsBack, CursorInside, loopVars, ListInv, Ring
<1>13. Counted'
  BY <1>0, <1>1, CountPositive, FS_AddElement DEF Counted, ListInv
<1> QED
  BY <1>6, <1>7, <1>8, <1>9, <1>10, <1>11, <1>12, <1>13 DEF Ring

\* elect() unlinks the process that has exited: what is left is the list without it.
LEMMA UnlinkKeepsRing ==
    ASSUME ListInv, ElectTerminated
    PROVE  RingParts' /\ current \in live \ {kmain} /\ next'[current] \in Linked'
<1> DEFINE c == current
           before == previous[c]
           after == next[c]
<1>1. victim = None /\ Linked = live /\ c \in live /\ c # kmain /\ live \subseteq Pcb
  BY AllLinked DEF ElectTerminated, ListInv, Ring, KmainLinked, TypeOK
<1>2. before \in live /\ next[before] = c /\ after \in live
  BY <1>1 DEF ListInv, Ring, PreviousUndoesNext, NextCloses
<1>3. after # c /\ before # c
  BY <1>1, <1>2 DEF ListInv, Ring, PidsGrow, TypeOK
<1>4. UNCHANGED <<live, pid, pid_counter, status>> /\ Linked' = live \ {c} /\ victim' = c
  BY DEF ElectTerminated, BeginChoice, Linked
<1>5. next'[before] = after /\ next'[c] = after /\ \A q \in live : q # before => next'[q] = next[q]
  BY <1>1, <1>2, <1>3 DEF ElectTerminated, Unlink, ListInv, TypeOK
<1>6. previous'[after] = before /\ \A q \in live : q # after => previous'[q] = previous[q]
  BY <1>1, <1>2, <1>5 DEF ElectTerminated, Unlink, ListInv, TypeOK
<1>7. \A q, r \in live : next[q] = next[r] => q = r
  BY <1>1 DEF ListInv, Ring, NextInjective
<1>8. \A q \in live : next[q] \in live
  BY <1>1 DEF ListInv, Ring, NextCloses
<1>9. KmainLinked'
  BY <1>1, <1>4 DEF ListInv, Ring, KmainLinked
<1>10. NextCloses'
  BY <1>1, <1>2, <1>3, <1>4, <1>5, <1>7, <1>8 DEF NextCloses
<1>11. NextInjective'
  BY <1>1, <1>2, <1>3, <1>4, <1>5, <1>7 DEF NextInjective
<1>12. PreviousUndoesNext'
  <2> SUFFICES ASSUME NEW q \in Linked', q # kmain
               PROVE  previous'[q] \in Linked' /\ next'[previous'[q]] = q
    BY DEF PreviousUndoesNext
  <2>1. CASE q = after
    BY <2>1, <1>2, <1>3, <1>4, <1>5, <1>6
  <2>2. CASE q # after
    <3>1. previous[q] \in live /\ next[previous[q]] = q /\ previous'[q] = previous[q]
      BY <2>2, <1>1, <1>4, <1>6 DEF ListInv, Ring, PreviousUndoesNext
    <3> QED
      BY <2>2, <3>1, <1>2, <1>4, <1>5
  <2> QED
    BY <2>1, <2>2
<1>13. EndExists'
  <2>1. PICK end \in live : next[end] = kmain
    BY <1>1 DEF ListInv, Ring, EndExists
  <2> QED
    BY <2>1, <1>1, <1>2, <1>3, <1>4, <1>5 DEF EndExists
<1>14. PidsGrow'
  <2>1. \A q \in live : pid[q] \in Nat /\ pid[q] < pid_counter
                       /\ (next[q] # kmain => pid[q] < pid[next[q]])
    BY <1>1 DEF ListInv, Ring, PidsGrow, TypeOK
  <2>2. after # kmain => pid[before] < pid[after]
    BY <2>1, <1>1, <1>2
  <2> QED
    BY <2>1, <2>2, <1>4, <1>5 DEF PidsGrow
<1>15. VictimPointsBack' /\ next'[c] \in Linked'
  BY <1>1, <1>2, <1>3, <1>4, <1>5 DEF VictimPointsBack
<1> QED
  BY <1>1, <1>9, <1>10, <1>11, <1>12, <1>13, <1>14, <1>15 DEF RingParts

\* Every step keeps the list circular and the count right.
LEMMA ListNext == ListInv /\ [Next]_schedVars => ListInv'
<1> SUFFICES ASSUME ListInv, [Next]_schedVars PROVE ListInv'
  OBVIOUS
<1>t. TypeOK'
  BY CountPositive, TypeNext DEF ListInv
<1>r. RingParts /\ CursorInside /\ Counted
  BY DEF ListInv, Ring, RingParts
<1>q. RingParts' /\ CursorInside' /\ Counted' => ListInv'
  BY <1>t DEF ListInv, Ring, RingParts
<1>k. kmain \in Pcb /\ status \in [Pcb -> Status] /\ status[kmain] # "TERMINATED"
  BY <1>r, PcbAssumption DEF RingParts, KmainLinked, ListInv, TypeOK
\* Programs: the list, the loop variables and current_process do not move.
<1>1. ASSUME UNCHANGED <<ringVars, loopVars, nb_process, current>>,
             pc = "user", pc' \in {"user", "elect"}, status'[kmain] # "TERMINATED"
      PROVE  ListInv'
  <2>1. RingParts'
    BY <1>1, <1>r, RingPartsKept DEF loopVars
  <2>2. CursorInside'
    BY <1>1, <1>r, AllLinked DEF CursorInside, loopVars, ringVars, Linked
  <2>3. Counted'
    BY <1>1, <1>r DEF Counted, ringVars
  <2> QED
    BY <2>1, <2>2, <2>3, <1>q
<1>2. CASE UserStep \/ DISABLE_IRQ \/ ENABLE_IRQ \/ start_kernel \/ DropToUserMode
  BY <1>2, <1>1, <1>k DEF UserStep, DISABLE_IRQ, ENABLE_IRQ, start_kernel, DropToUserMode,
     Runs, InUser
<1>3. CASE \E s \in Schedulers : do_sys_setscheduler(s)
  BY <1>3, <1>1, <1>k DEF do_sys_setscheduler, InUser
<1>4. CASE do_sys_yield \/ irq_handler
  BY <1>4, <1>1, <1>k DEF do_sys_yield, irq_handler, CallElect, InUser
<1>5. CASE do_sys_exit
  <2>1. status'[kmain] = status[kmain]
    BY <1>5, <1>k DEF do_sys_exit
  <2> QED
    BY <1>5, <1>1, <1>k, <2>1 DEF do_sys_exit, CallElect, InUser
<1>6. CASE Semaphores
  <2>1. status'[kmain] # "TERMINATED"
    BY <1>6, <1>k DEF Semaphores, Block, Unblock
  <2> QED
    BY <1>6, <1>1, <2>1 DEF Semaphores, Block, Unblock, InUser
<1>7. CASE \E dest \in Pcb : do_sys_yieldto(dest)
  <2>1. UNCHANGED <<ringVars, loopVars, nb_process, status, pc>> /\ pc = "user" /\ current' \in live
    BY <1>7 DEF do_sys_yieldto, InUser
  <2>2. RingParts'
    BY <2>1, <1>r, <1>k, RingPartsKept DEF loopVars
  <2>3. CursorInside'
    BY <2>1, <1>r, AllLinked, PcbAssumption DEF CursorInside, loopVars, ringVars, Linked, ListInv, TypeOK
  <2>4. Counted'
    BY <2>1, <1>r DEF Counted, ringVars
  <2> QED
    BY <2>2, <2>3, <2>4, <1>q
<1>8. CASE Create
  <2>1. PICK p \in Pcb :
              \/ create_process(p)
              \/ \E prio \in Priorities : create_process_with_fix_priority(p, prio)
              \/ do_sys_fork(p)
    BY <1>8 DEF Create
  <2>2. pc = "user" /\ UNCHANGED <<loopVars, pc, current>>
    BY <2>1 DEF create_process, create_process_with_fix_priority, do_sys_fork, MayCreate, InUser
  <2>3. \E context, prio : add_process(p, context, prio)
    BY <2>1 DEF create_process, create_process_with_fix_priority, do_sys_fork
  <2>4. Ring' /\ Counted'
    BY <2>2, <2>3, AddKeepsRing
  <2> QED
    BY <2>4, <1>t DEF ListInv
\* The head of elect(): the loop gets at least one iteration and a first candidate.
<1>9. ASSUME BeginChoice, RingParts', next'[current] \in Linked', status' \in [Pcb -> Status],
             current \in Linked' \/ current = victim'
      PROVE  ListInv'
  <2>1. left' > 0
    <3>1. next' \in [Pcb -> Pcb] /\ previous' \in [Pcb -> Pcb] /\ victim' \in Pcb \cup {None}
      BY <1>t DEF TypeOK
    <3> QED
      BY <3>1, <1>9, CountPositive, BeginChoiceType DEF ListInv
  <2>2. CursorInside'
    BY <2>1, <1>9 DEF CursorInside, BeginChoice
  <2>3. Counted'
    BY <1>9, <1>r DEF Counted, BeginChoice
  <2> QED
    BY <1>9, <2>2, <2>3, <1>q
<1>10. CASE ElectTerminated
  <2>1. RingParts' /\ next'[current] \in Linked'
    BY <1>10, UnlinkKeepsRing
  <2>2. BeginChoice /\ status' \in [Pcb -> Status] /\ victim' = current
    BY <1>10, <1>k DEF ElectTerminated
  <2> QED
    BY <2>1, <2>2, <1>9
<1>11. CASE ElectBlocked \/ ElectReady
  <2>1. UNCHANGED <<ringVars, victim>> /\ BeginChoice /\ pc = "elect"
    BY <1>11 DEF ElectBlocked, ElectReady, BeginChoice, ringVars
  <2>2. status' \in [Pcb -> Status] /\ status'[kmain] # "TERMINATED"
    BY <1>11, <1>k, <1>t DEF ElectBlocked, ElectReady, TypeOK
  <2>3. RingParts'
    BY <2>1, <2>2, <1>r, RingPartsKept
  <2>4. next'[current] \in Linked' /\ current \in Linked'
    BY <2>1, AllLinked DEF ListInv, Ring, NextCloses, Linked, ringVars
  <2> QED
    BY <2>1, <2>2, <2>3, <2>4, <1>9
<1>12. CASE Hop \/ FixPriorityIteration \/ DynamicPriorityIteration
  <2>1. Advance /\ (choose' = choose \/ choose' = current')
    BY <1>12 DEF Hop, FixPriorityIteration, DynamicPriorityIteration
  <2>2. RingParts'
    BY <2>1, <1>r, <1>k, RingPartsKept DEF Advance
  <2>3. current' \in Linked
    <3>1. current' = next[current] /\ current # None
      BY <2>1, PcbAssumption DEF Advance, ListInv, TypeOK
    <3>2. CASE current \in Linked
      BY <3>1, <3>2 DEF ListInv, Ring, NextCloses
    <3>3. CASE current = victim
      BY <3>1, <3>3 DEF ListInv, Ring, VictimPointsBack
    <3> QED
      BY <3>2, <3>3 DEF ListInv, Ring, CursorInside
  <2>4. CursorInside'
    BY <2>1, <2>3, <1>r DEF Advance, CursorInside, ringVars, Linked
  <2>5. Counted'
    BY <2>1, <1>r DEF Advance, Counted, ringVars
  <2> QED
    BY <2>2, <2>4, <2>5, <1>q
<1>13. CASE ElectAgain \/ Dispatch
  <2>1. EndChoice /\ pc' \in {"elect", "user"}
    BY <1>13 DEF ElectAgain, Dispatch
  <2>2. Elected \in Linked
    BY <2>1, PcbAssumption DEF EndChoice, Elected, ListInv, Ring, CursorInside, TypeOK
  <2>3. status'[kmain] # "TERMINATED"
    BY <1>13, <1>k DEF ElectAgain, Dispatch
  <2>4. live' = Linked /\ victim' = None /\ UNCHANGED <<next, previous, pid, pid_counter, choose>>
    BY <2>1, PcbAssumption DEF EndChoice, free_process, Linked, ListInv, TypeOK
  <2>5. Linked' = Linked
    BY <2>4, PcbAssumption DEF Linked, ListInv, TypeOK
  <2>6. RingParts'
    BY <2>3, <2>4, <2>5, <1>r DEF RingParts, KmainLinked, NextCloses, NextInjective,
       PreviousUndoesNext, EndExists, PidsGrow, VictimPointsBack
  <2>7. CursorInside'
    BY <2>1, <2>2, <2>4, <2>5, PcbAssumption DEF CursorInside, EndChoice, Linked, ListInv, TypeOK
  <2>8. Counted'
    <3>1. CASE victim = None
      BY <3>1, <2>1, <1>r DEF EndChoice, free_process, Counted
    <3>2. CASE victim # None
      <4>1. victim \in live /\ IsFiniteSet(live) /\ live' = live \ {victim}
            /\ nb_process' = nb_process - 1
        BY <3>2, <2>1, <1>r, CountPositive DEF EndChoice, free_process, RingParts, VictimPointsBack
      <4> QED
        BY <4>1, <1>r, FS_RemoveElement DEF Counted
    <3> QED
      BY <3>1, <3>2
  <2> QED
    BY <2>6, <2>7, <2>8, <1>q
<1>14. CASE UNCHANGED schedVars
  BY <1>14 DEF schedVars, ListInv, TypeOK, Ring, Counted, Linked, KmainLinked, NextCloses,
     NextInjective, PreviousUndoesNext, EndExists, PidsGrow, VictimPointsBack, CursorInside
<1> QED
  BY <1>2, <1>3, <1>4, <1>5, <1>6, <1>7, <1>8, <1>10, <1>11, <1>12, <1>13, <1>14
     DEF Next, UserOp, elect

\* The inductive invariant of the scheduler.
THEOREM ListCorrect == Spec => []ListInv
  BY ListInit, ListNext, PTL DEF Spec

\* Every variable of the scheduler keeps its type (sched.c, schedulers.c).
THEOREM TypeCorrect == Spec => []TypeOK
<1>1. ListInv => TypeOK
  BY DEF ListInv
<1> QED
  BY <1>1, ListCorrect, PTL

\* The process list is circular through kmain and previous undoes next on it, at every
\* step of add_process, elect and free_process.
THEOREM RingCorrect == Spec => []Ring
<1>1. ListInv => Ring
  BY DEF ListInv
<1> QED
  BY <1>1, ListCorrect, PTL

\* nb_process counts the pcbs in use, and so is never the zero electRandom divides by.
THEOREM CountCorrect == Spec => [](Counted /\ nb_process > 0)
<1>1. ListInv => Counted /\ nb_process > 0
  BY CountPositive DEF ListInv
<1> QED
  BY <1>1, ListCorrect, PTL

-----------------------------------------------------------------------------
(* Consequences of the shape of the list.                                  *)

Alone == Linked = {kmain} => previous[kmain] = kmain

\* When the last other process leaves, elect() leaves kmain linked to itself both ways.
LEMMA AloneNext == ListInv /\ Alone /\ [Next]_schedVars => Alone'
<1> SUFFICES ASSUME ListInv, Alone, [Next]_schedVars, Linked' = {kmain}
             PROVE  previous'[kmain] = kmain
  BY DEF Alone
<1>1. CASE Create
  <2>1. PICK p \in Pcb :
              \/ create_process(p)
              \/ \E prio \in Priorities : create_process_with_fix_priority(p, prio)
              \/ do_sys_fork(p)
    BY <1>1 DEF Create
  <2>2. pc = "user" /\ UNCHANGED loopVars
    BY <2>1 DEF create_process, create_process_with_fix_priority, do_sys_fork, MayCreate, InUser
  <2>3. live' = live \cup {p} /\ p \notin live
    BY <2>1 DEF create_process, create_process_with_fix_priority, do_sys_fork, add_process
  <2>4. victim' = None /\ kmain \in live /\ p # kmain
    BY <2>2, <2>3, AllLinked DEF loopVars, ListInv, Ring, KmainLinked
  <2> QED
    BY <2>3, <2>4, PcbAssumption DEF Linked
<1>2. CASE ElectTerminated
  <2>1. RingParts' /\ current \in live \ {kmain} /\ next'[current] \in Linked'
    BY <1>2, UnlinkKeepsRing
  <2>2. previous[current] \in Linked /\ next[previous[current]] = current /\ next[current] # current
        /\ victim' = current /\ live' = live /\ previous[current] \in live
    BY <1>2, <2>1, AllLinked DEF ElectTerminated, BeginChoice, ListInv, Ring, PreviousUndoesNext,
       PidsGrow, TypeOK
  <2>3. previous[current] = kmain
    BY <2>2 DEF Linked
  <2>4. next'[current] = kmain
    BY <2>1
  <2> QED
    BY <1>2, <2>3, <2>4, PcbAssumption DEF ElectTerminated, Unlink, ListInv, TypeOK
<1>3. CASE ElectAgain \/ Dispatch
  <2>1. Linked' = Linked /\ previous' = previous
    BY <1>3, PcbAssumption DEF ElectAgain, Dispatch, EndChoice, free_process, Linked, ListInv, TypeOK
  <2> QED
    BY <2>1 DEF Alone
<1>4. CASE UNCHANGED <<live, victim, previous>>
  BY <1>4 DEF Alone, Linked
<1> QED
  BY <1>1, <1>2, <1>3, <1>4 DEF Next, UserOp, elect, Semaphores, UserStep, DISABLE_IRQ, ENABLE_IRQ,
     start_kernel, DropToUserMode, Runs, do_sys_setscheduler, do_sys_yield, irq_handler, do_sys_exit,
     CallElect, do_sys_yieldto, Block, Unblock, ElectBlocked, ElectReady, BeginChoice, Hop,
     FixPriorityIteration, DynamicPriorityIteration, Advance, ringVars, loopVars, schedVars

\* What test/kmain-schedulers.c:36 waits for holds once kmain's processes are gone.
THEOREM AloneCorrect == Spec => []AloneMeansSelfLinked
<1>1. Init => Alone
  BY PcbAssumption DEF Init, Alone
<1>2. ListInv /\ Alone => AloneMeansSelfLinked
  BY DEF ListInv, Alone, AloneMeansSelfLinked, Ring, NextCloses, KmainLinked
<1> QED
  BY <1>1, <1>2, AloneNext, ListCorrect, PTL DEF Spec

-----------------------------------------------------------------------------
(* Who runs.                                                               *)

\* During an election only current_process can still be marked RUNNING, and none is once
\* the scheduler function walks the list.
RunInv ==
    /\ pc = "user" => status[current] \in {"RUNNING", "BLOCKED"} /\ mmu = current
    /\ pc # "loop" => \A p \in Linked : status[p] = "RUNNING" => p = current
    /\ pc = "loop" => \A p \in Linked : status[p] # "RUNNING"

\* The statuses and the MMU follow current_process through every step but sys_yieldto.
LEMMA RunNext ==
    ASSUME ~YieldToUsed, ListInv, RunInv, [Next]_schedVars
    PROVE  RunInv'
<1>t. status \in [Pcb -> Status] /\ live \subseteq Pcb /\ current \in Pcb
  BY DEF ListInv, TypeOK
<1>1. CASE UserStep \/ DISABLE_IRQ \/ ENABLE_IRQ \/ start_kernel \/ DropToUserMode
           \/ \E s \in Schedulers : do_sys_setscheduler(s)
  BY <1>1 DEF UserStep, DISABLE_IRQ, ENABLE_IRQ, start_kernel, DropToUserMode, Runs,
     do_sys_setscheduler, RunInv, ringVars, loopVars, Linked, InUser
<1>2. CASE Create
  <2>1. PICK p \in Pcb :
              \/ create_process(p)
              \/ \E prio \in Priorities : create_process_with_fix_priority(p, prio)
              \/ do_sys_fork(p)
    BY <1>2 DEF Create
  <2>2. pc = "user" /\ UNCHANGED <<loopVars, pc, current>>
    BY <2>1 DEF create_process, create_process_with_fix_priority, do_sys_fork, MayCreate, InUser
  <2>3. live' = live \cup {p} /\ p \notin live /\ status' = [status EXCEPT ![p] = "READY"]
        /\ mmu' = current
    BY <2>1 DEF create_process, create_process_with_fix_priority, do_sys_fork, add_process,
       switch_mmu_to
  <2>4. Linked' = Linked \cup {p} /\ current \in Linked /\ p # current /\ Linked = live
    BY <2>2, <2>3, AllLinked, PcbAssumption DEF Linked, loopVars
  <2> QED
    BY <2>2, <2>3, <2>4, <1>t DEF RunInv
<1>3. CASE do_sys_yield \/ irq_handler \/ do_sys_exit
  BY <1>3, <1>t DEF do_sys_yield, irq_handler, do_sys_exit, CallElect, InUser, RunInv, ringVars,
     loopVars, Linked
<1>4. CASE Semaphores
  BY <1>4, <1>t DEF Semaphores, Block, Unblock, InUser, RunInv, ringVars, loopVars, Linked
<1>5. CASE \E dest \in Pcb : do_sys_yieldto(dest)
  BY <1>5 DEF do_sys_yieldto
<1>6. CASE ElectTerminated \/ ElectBlocked \/ ElectReady
  <2>1. Linked' \subseteq Linked /\ pc = "elect" /\ pc' = "loop"
    BY <1>6, AllLinked DEF ElectTerminated, ElectBlocked, ElectReady, BeginChoice, Linked
  <2>2. \A p \in Linked : status'[p] # "RUNNING"
    BY <1>6, <1>t DEF ElectTerminated, ElectBlocked, ElectReady, RunInv, Linked
  <2> QED
    BY <2>1, <2>2 DEF RunInv
<1>7. CASE Hop \/ FixPriorityIteration \/ DynamicPriorityIteration
  BY <1>7 DEF Hop, FixPriorityIteration, DynamicPriorityIteration, Advance, RunInv, ringVars, Linked
<1>8. CASE ElectAgain \/ Dispatch
  <2>1. Linked' = Linked /\ pc = "loop" /\ current' = Elected /\ mmu' = Elected
    BY <1>8, PcbAssumption
       DEF ElectAgain, Dispatch, EndChoice, free_process, switch_mmu_to, Linked, ListInv, TypeOK
  <2>2. Elected \in Pcb
    BY DEF Elected, ListInv, TypeOK
  <2>3. CASE ElectAgain
    BY <2>1, <2>3 DEF ElectAgain, RunInv
  <2>4. CASE Dispatch
    BY <2>1, <2>2, <2>4, <1>t DEF Dispatch, RunInv, Linked
  <2> QED
    BY <1>8, <2>3, <2>4
<1>9. CASE UNCHANGED schedVars
  BY <1>9 DEF schedVars, RunInv, Linked
<1> QED
  BY <1>1, <1>2, <1>3, <1>4, <1>5, <1>6, <1>7, <1>8, <1>9 DEF Next, UserOp, elect

\* As long as no program calls sys_yieldto, the process the CPU executes is the only one
\* marked RUNNING and the MMU walks its page table (schedulers.c:110-151).
THEOREM RunsCurrentCorrect == ASSUME ~YieldToUsed PROVE Spec => []RunsCurrent
<1>1. Init => RunInv
  BY PcbAssumption DEF Init, RunInv, Linked
<1>2. ListInv /\ RunInv /\ [Next]_schedVars => RunInv'
  BY RunNext
<1>3. ListInv /\ RunInv => RunsCurrent
  BY AllLinked DEF RunInv, RunsCurrent
<1> QED
  BY <1>1, <1>2, <1>3, ListCorrect, PTL DEF Spec

-----------------------------------------------------------------------------
(* Processes that have exited.                                             *)

\* elect() begins by unlinking the process that has exited, and no other can exit.
LEMMA ZombieNext == ListInv /\ ZombieUnlinked /\ [Next]_schedVars => ZombieUnlinked'
<1> SUFFICES ASSUME ListInv, ZombieUnlinked, [Next]_schedVars PROVE ZombieUnlinked'
  OBVIOUS
<1>t. status \in [Pcb -> Status] /\ live \subseteq Pcb /\ current \in Pcb
  BY DEF ListInv, TypeOK
<1>1. CASE UserStep \/ DISABLE_IRQ \/ ENABLE_IRQ \/ start_kernel \/ DropToUserMode
           \/ \E s \in Schedulers : do_sys_setscheduler(s)
  BY <1>1 DEF UserStep, DISABLE_IRQ, ENABLE_IRQ, start_kernel, DropToUserMode, Runs,
     do_sys_setscheduler, ZombieUnlinked, ringVars, loopVars, Linked
<1>2. CASE Create
  <2>1. PICK p \in Pcb :
              \/ create_process(p)
              \/ \E prio \in Priorities : create_process_with_fix_priority(p, prio)
              \/ do_sys_fork(p)
    BY <1>2 DEF Create
  <2>2. pc = "user" /\ UNCHANGED <<loopVars, pc, current>>
    BY <2>1 DEF create_process, create_process_with_fix_priority, do_sys_fork, MayCreate, InUser
  <2>3. live' = live \cup {p} /\ p \notin live /\ status' = [status EXCEPT ![p] = "READY"]
    BY <2>1 DEF create_process, create_process_with_fix_priority, do_sys_fork, add_process
  <2>4. Linked' = Linked \cup {p}
    BY <2>2, <2>3, AllLinked, PcbAssumption DEF Linked, loopVars
  <2> QED
    BY <2>2, <2>3, <2>4, <1>t DEF ZombieUnlinked, Linked
<1>3. CASE do_sys_yield \/ irq_handler \/ do_sys_exit
  BY <1>3, <1>t DEF do_sys_yield, irq_handler, do_sys_exit, CallElect, InUser, ZombieUnlinked,
     ringVars, loopVars, Linked
<1>4. CASE Semaphores
  BY <1>4, <1>t DEF Semaphores, Block, Unblock, InUser, ZombieUnlinked, ringVars, loopVars, Linked
<1>5. CASE \E dest \in Pcb : do_sys_yieldto(dest)
  BY <1>5 DEF do_sys_yieldto, InUser, ZombieUnlinked, ringVars, loopVars, Linked
<1>6. CASE ElectTerminated
  <2>1. Linked' = Linked \ {current} /\ UNCHANGED status
    BY <1>6, AllLinked DEF ElectTerminated, BeginChoice, Linked
  <2> QED
    BY <2>1 DEF ZombieUnlinked
<1>7. CASE ElectBlocked \/ ElectReady
  <2>1. Linked' = Linked /\ status'[current] # "TERMINATED"
        /\ \A p \in Linked : p # current => status'[p] = status[p]
    BY <1>7, <1>t DEF ElectBlocked, ElectReady, BeginChoice, Linked
  <2> QED
    BY <2>1 DEF ZombieUnlinked
<1>8. CASE Hop \/ FixPriorityIteration \/ DynamicPriorityIteration
  BY <1>8 DEF Hop, FixPriorityIteration, DynamicPriorityIteration, Advance, ZombieUnlinked,
     ringVars, Linked
<1>9. CASE ElectAgain \/ Dispatch
  <2>1. Linked' = Linked /\ pc = "loop"
    BY <1>9, PcbAssumption DEF ElectAgain, Dispatch, EndChoice, free_process, Linked, ListInv, TypeOK
  <2>2. \A p \in Linked : status'[p] # "TERMINATED"
    BY <2>1, <1>9, <1>t DEF ElectAgain, Dispatch, ZombieUnlinked, Linked
  <2> QED
    BY <2>1, <2>2 DEF ZombieUnlinked
<1>10. CASE UNCHANGED schedVars
  BY <1>10 DEF schedVars, ZombieUnlinked, Linked
<1> QED
  BY <1>1, <1>2, <1>3, <1>4, <1>5, <1>6, <1>7, <1>8, <1>9, <1>10 DEF Next, UserOp, elect

\* A process that has exited is out of the list before another is elected.
THEOREM ZombieCorrect == Spec => []ZombieUnlinked
<1>1. Init => ZombieUnlinked
  BY PcbAssumption DEF Init, ZombieUnlinked, Linked
<1> QED
  BY <1>1, ZombieNext, ListCorrect, PTL DEF Spec

-----------------------------------------------------------------------------
(* Contexts.                                                               *)

\* Each step saves the context it takes from the CPU, and loads the one it saved.
LEMMA ContextNext ==
    ListInv /\ ZombieUnlinked /\ ContextPreserved /\ [Next]_schedVars => ContextPreserved'
<1> SUFFICES ASSUME ListInv, ZombieUnlinked, ContextPreserved, [Next]_schedVars PROVE ContextPreserved'
  OBVIOUS
<1>t. /\ status \in [Pcb -> Status] /\ live \subseteq Pcb /\ current \in Pcb
      /\ saved \in [Pcb -> Context] /\ at \in [Pcb -> Context]
  BY DEF ListInv, TypeOK
<1>1. CASE UserStep \/ DISABLE_IRQ \/ ENABLE_IRQ \/ start_kernel \/ DropToUserMode
  <2>1. PICK context : Runs(context) /\ pc = "user"
    BY <1>1 DEF UserStep, DISABLE_IRQ, ENABLE_IRQ, start_kernel, DropToUserMode, InUser
  <2> QED
    BY <2>1, <1>t DEF Runs, ContextPreserved, ringVars, loopVars, Linked
<1>2. CASE \E s \in Schedulers : do_sys_setscheduler(s)
  BY <1>2 DEF do_sys_setscheduler, ContextPreserved, ringVars, loopVars, ctxVars, Linked
<1>3. CASE Create
  <2>1. PICK p \in Pcb :
              \/ create_process(p)
              \/ \E prio \in Priorities : create_process_with_fix_priority(p, prio)
              \/ do_sys_fork(p)
    BY <1>3 DEF Create
  <2>2. pc = "user" /\ UNCHANGED <<loopVars, pc, current, cpu>>
    BY <2>1 DEF create_process, create_process_with_fix_priority, do_sys_fork, MayCreate, InUser
  <2>3. live' = live \cup {p} /\ p \notin live /\ status' = [status EXCEPT ![p] = "READY"]
    BY <2>1 DEF create_process, create_process_with_fix_priority, do_sys_fork, add_process
  <2>4. Linked' = Linked \cup {p} /\ current \in Linked /\ p # current /\ Linked = live
    BY <2>2, <2>3, AllLinked, PcbAssumption DEF Linked, loopVars
  <2>5. saved'[p] = at'[p] /\ \A q \in Pcb : q # p => at'[q] = at[q]
    BY <2>1, <1>t DEF create_process, create_process_with_fix_priority, do_sys_fork, add_process
  <2>6. \A q \in Pcb : q # p /\ q # current => saved'[q] = saved[q]
    BY <2>1, <1>t DEF create_process, create_process_with_fix_priority, do_sys_fork
  <2> QED
    BY <2>2, <2>3, <2>4, <2>5, <2>6, <1>t DEF ContextPreserved
<1>4. CASE do_sys_yield \/ irq_handler
  <2>1. saved' = [saved EXCEPT ![current] = cpu] /\ pc = "user" /\ pc' = "elect"
        /\ UNCHANGED <<status, at, live, victim, current>>
    BY <1>4 DEF do_sys_yield, irq_handler, SaveContext, CallElect, InUser, ringVars, loopVars
  <2> QED
    BY <2>1, <1>t DEF ContextPreserved, Linked
<1>5. CASE do_sys_exit
  BY <1>5, <1>t DEF do_sys_exit, CallElect, InUser, ringVars, loopVars, Linked, ContextPreserved
<1>6. CASE Semaphores
  <2>1. pc = "user" /\ UNCHANGED <<live, victim, ctxVars, pc, current>>
        /\ \A p \in Linked : p # current /\ status'[p] # "TERMINATED" => status[p] # "TERMINATED"
    BY <1>6, <1>t DEF Semaphores, Block, Unblock, InUser, ringVars, loopVars, Linked
  <2> QED
    BY <2>1 DEF ContextPreserved, ctxVars, Linked
<1>7. CASE \E dest \in Pcb : do_sys_yieldto(dest)
  <2>1. PICK dest \in Pcb : do_sys_yieldto(dest)
    BY <1>7
  <2>2. dest \in Linked /\ status[dest] # "TERMINATED" /\ dest # current /\ pc = "user"
    BY <2>1, AllLinked DEF do_sys_yieldto, InUser, ZombieUnlinked
  <2>3. Linked' = Linked /\ UNCHANGED <<status, at, pc>> /\ current' = dest /\ cpu' = saved[dest]
        /\ saved' = [saved EXCEPT ![current] = cpu]
    BY <2>1 DEF do_sys_yieldto, SaveContext, ringVars, loopVars, Linked
  <2> QED
    BY <2>2, <2>3, <1>t DEF ContextPreserved, Linked
<1>8. CASE ElectTerminated \/ ElectBlocked \/ ElectReady
  <2>1. Linked' \subseteq Linked /\ pc = "elect" /\ pc' = "loop" /\ UNCHANGED ctxVars
    BY <1>8, AllLinked DEF ElectTerminated, ElectBlocked, ElectReady, BeginChoice, Linked
  <2>2. \A p \in Linked : status'[p] # "TERMINATED" => status[p] # "TERMINATED"
    BY <1>8, <1>t DEF ElectTerminated, ElectBlocked, ElectReady, Linked
  <2> QED
    BY <2>1, <2>2 DEF ContextPreserved, ctxVars
<1>9. CASE Hop \/ FixPriorityIteration \/ DynamicPriorityIteration
  BY <1>9 DEF Hop, FixPriorityIteration, DynamicPriorityIteration, Advance, ContextPreserved,
     ringVars, ctxVars, Linked
<1>10. CASE ElectAgain \/ Dispatch
  <2>1. Linked' = Linked /\ pc = "loop" /\ current' = Elected /\ UNCHANGED <<saved, at>>
    BY <1>10, PcbAssumption DEF ElectAgain, Dispatch, EndChoice, free_process, Linked, ListInv, TypeOK
  <2>2. Elected \in Linked
    BY <1>10, PcbAssumption
       DEF ElectAgain, Dispatch, EndChoice, Elected, ListInv, Ring, CursorInside, TypeOK
  <2>3. CASE ElectAgain
    BY <2>1, <2>3 DEF ElectAgain, ContextPreserved
  <2>4. CASE Dispatch
    BY <2>1, <2>2, <2>4, <1>t DEF Dispatch, CanRun, ContextPreserved, Linked
  <2> QED
    BY <1>10, <2>3, <2>4
<1>11. CASE UNCHANGED schedVars
  BY <1>11 DEF schedVars, ContextPreserved, Linked
<1> QED
  BY <1>1, <1>2, <1>3, <1>4, <1>5, <1>6, <1>7, <1>8, <1>9, <1>10, <1>11 DEF Next, UserOp, elect

\* Yields, interrupts, forks and exits never hand a program another context than the one
\* it was interrupted in (sched_svc.c, sched_irq.c, fork.c).
THEOREM ContextCorrect == Spec => []ContextPreserved
<1>1. Init => ContextPreserved
  BY PcbAssumption DEF Init, ContextPreserved, Linked
<1> QED
  BY <1>1, ContextNext, ListCorrect, ZombieCorrect, PTL DEF Spec
=============================================================================

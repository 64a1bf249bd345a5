-------------------------- MODULE SchedOrderProofs --------------------------
(* The process list is one cycle, and what the fixed-priority walk makes of it. *)
EXTENDS SchedProofs, WellFoundedInduction

\* A set of naturals has a least element: the only induction these proofs need.
LEMMA LeastElement ==
    ASSUME NEW T \in SUBSET Nat, T # {}
    PROVE  \E n \in T : \A m \in T : ~(m < n)
<1>1. PICK n \in T : \A m \in T : <<m, n>> \notin OpToRel(<, Nat)
  BY NatLessThanWellFounded, WFMin
<1>2. \A m \in T : m < n => <<m, n>> \in OpToRel(<, Nat)
  BY DEF OpToRel
<1> QED
  BY <1>1, <1>2

\* A list of n has n places.
LEMMA UpTo == ASSUME NEW n \in Nat PROVE IsFiniteSet(1 .. n) /\ Cardinality(1 .. n) = n
<1>1. 1 \in Int /\ n \in Int
  OBVIOUS
<1>2. IsFiniteSet(1 .. n) /\ Cardinality(1 .. n) = IF 1 > n THEN 0 ELSE n - 1 + 1
  BY <1>1, FS_Interval
<1> QED
  BY <1>2

-----------------------------------------------------------------------------
(* One cycle.                                                              *)

\* Of some processes one was created first.
LEMMA Eldest ==
    ASSUME TypeOK, NEW V \in SUBSET Pcb, V # {}
    PROVE  \E p \in V : \A q \in V : ~(pid[q] < pid[p])
<1> DEFINE T == {pid[p] : p \in V}
<1>1. T \in SUBSET Nat /\ T # {}
  BY DEF TypeOK
<1>2. PICK n \in T : \A m \in T : ~(m < n)
  BY <1>1, LeastElement
<1> QED
  BY <1>2

\* And one was created last, the pids being bounded.
LEMMA Youngest ==
    ASSUME TypeOK, PidsGrow, NEW V \in SUBSET Linked, V # {}
    PROVE  \E p \in V : \A q \in V : ~(pid[p] < pid[q])
<1> DEFINE T == {pid_counter - pid[p] : p \in V}
<1>1. V \subseteq Pcb /\ pid \in [Pcb -> Nat] /\ pid_counter \in Nat
  BY BoundAssumption DEF TypeOK, Linked
<1>2. \A p \in V : pid[p] \in Nat /\ pid[p] < pid_counter
  BY <1>1 DEF PidsGrow
<1>3. T \in SUBSET Nat /\ T # {}
  BY <1>1, <1>2
<1>4. PICK n \in T : \A m \in T : ~(m < n)
  BY <1>3, LeastElement
<1>5. PICK p \in V : n = pid_counter - pid[p]
  BY <1>4
<1>6. ASSUME NEW q \in V, pid[p] < pid[q] PROVE FALSE
  <2>1. pid_counter - pid[q] \in T /\ pid_counter - pid[q] < n
    BY <1>1, <1>2, <1>5, <1>6
  <2> QED
    BY <2>1, <1>4
<1> QED
  BY <1>6

\* Processes closed under next are none or all: along next the pids grow up to kmain,
\* and whoever is not kmain has one before it.
LEMMA ClosedIsAll ==
    ASSUME ListInv, NEW V \in SUBSET Linked, V # {}, \A p \in V : next[p] \in V
    PROVE  V = Linked
<1>t. Linked \subseteq Pcb /\ pid \in [Pcb -> Nat] /\ TypeOK /\ PidsGrow
  BY DEF ListInv, Ring, TypeOK, Linked
<1>1. kmain \in V
  <2> SUFFICES ASSUME kmain \notin V PROVE FALSE
    OBVIOUS
  <2>1. PICK p \in V : \A q \in V : ~(pid[p] < pid[q])
    BY <1>t, Youngest
  <2>2. next[p] \in V /\ next[p] # kmain
    BY <2>1
  <2> QED
    BY <2>1, <2>2, <1>t DEF PidsGrow
<1>2. ASSUME Linked \ V # {} PROVE FALSE
  <2>1. PICK p \in Linked \ V : \A q \in Linked \ V : ~(pid[q] < pid[p])
    <3>1. Linked \ V \in SUBSET Pcb
      BY <1>t
    <3> QED
      BY <3>1, <1>t, <1>2, Eldest
  <2>2. p # kmain /\ previous[p] \in Linked /\ next[previous[p]] = p
    BY <1>1, <2>1 DEF ListInv, Ring, PreviousUndoesNext
  <2>3. previous[p] \in Linked \ V
    BY <2>1, <2>2
  <2>4. pid[previous[p]] < pid[p]
    BY <1>t, <2>2 DEF PidsGrow
  <2> QED
    BY <2>1, <2>3, <2>4
<1> QED
  BY <1>2

\* w is the walk along next from kmain, as the definition of OneCycle takes it.
Walks(w) ==
    w = [n \in 0 .. Cardinality(Pcb) |-> IF n = 0 THEN kmain ELSE next[w[n - 1]]]

\* Walks of every length exist.
LEMMA WalkExists == \E w : Walks(w)
<1> DEFINE K == Cardinality(Pcb)
           Walk(n, w) == w = [m \in 0 .. n |-> IF m = 0 THEN kmain ELSE next[w[m - 1]]]
           without == {n \in 0 .. K : \A w : ~Walk(n, w)}
<1>1. K \in Nat
  BY PcbAssumption, FS_CardinalityType
<1> HIDE DEF K
<1>2. without = {}
  <2> SUFFICES ASSUME without # {} PROVE FALSE
    OBVIOUS
  <2>1. PICK n \in without : \A m \in without : ~(m < n)
    <3>1. without \in SUBSET Nat
      BY <1>1
    <3> HIDE DEF without
    <3> QED
      BY <3>1, LeastElement
  <2>2. n # 0
    <3> DEFINE v == [m \in 0 .. 0 |-> kmain]
    <3>1. v = [m \in 0 .. 0 |-> IF m = 0 THEN kmain ELSE next[v[m - 1]]]
      OBVIOUS
    <3> HIDE DEF v
    <3> QED
      BY <2>1, <3>1
  <2>3. PICK v : Walk(n - 1, v)
    <3>1. n - 1 \in 0 .. K /\ n - 1 < n
      BY <1>1, <2>1, <2>2
    <3> HIDE DEF Walk
    <3> QED
      BY <2>1, <3>1
  <2> DEFINE w == [m \in 0 .. n |-> IF m = n THEN next[v[n - 1]] ELSE v[m]]
  <2>4. Walk(n, w)
    <3> SUFFICES ASSUME NEW m \in 0 .. n
                 PROVE  w[m] = IF m = 0 THEN kmain ELSE next[w[m - 1]]
      OBVIOUS
    <3>1. n \in Nat /\ n > 0
      BY <1>1, <2>1, <2>2
    <3>2. CASE m = n
      BY <3>1, <3>2
    <3>3. CASE m # n
      <4>1. m \in 0 .. n - 1 /\ (m # 0 => m - 1 \in 0 .. n /\ m - 1 # n)
        BY <3>1, <3>3
      <4>2. v[m] = IF m = 0 THEN kmain ELSE next[v[m - 1]]
        BY <2>3, <4>1
      <4> QED
        BY <3>3, <4>1, <4>2
    <3> QED
      BY <3>2, <3>3
  <2> QED
    BY <2>1, <2>4
<1>3. K \in 0 .. K
  BY <1>1
<1>4. \E w : Walk(K, w)
  BY <1>2, <1>3
<1> QED
  BY <1>4 DEF K, Walks

\* A walk as long as the process table comes back to where it was.
LEMMA WalkReturns ==
    ASSUME NEW K \in Nat, IsFiniteSet(Pcb), K = Cardinality(Pcb), NEW w \in [0 .. K -> Pcb]
    PROVE  \E i, j \in 0 .. K : i < j /\ w[i] = w[j]
<1> SUFFICES ASSUME \A i, j \in 0 .. K : i < j => w[i] # w[j] PROVE FALSE
  OBVIOUS
<1> DEFINE f == [n \in 1 .. K + 1 |-> w[n - 1]]
<1>1. f \in [1 .. K + 1 -> Pcb]
  BY SMT
<1>2. \A m, n \in 1 .. K + 1 : f[m] = f[n] => m = n
  <2> SUFFICES ASSUME NEW m \in 1 .. K + 1, NEW n \in 1 .. K + 1, f[m] = f[n], m # n PROVE FALSE
    OBVIOUS
  <2>1. m - 1 \in 0 .. K /\ n - 1 \in 0 .. K /\ (m - 1 < n - 1 \/ n - 1 < m - 1)
    BY SMT
  <2> QED
    BY <2>1
<1> HIDE DEF f
<1>3. f \in Injection(1 .. K + 1, Pcb)
  BY <1>1, <1>2 DEF Injection, IsInjective
<1>4. IsFiniteSet(1 .. K + 1) /\ Cardinality(1 .. K + 1) = K + 1
  BY UpTo
<1>5. K + 1 <= K
  BY <1>3, <1>4, FS_Injection
<1> QED
  BY <1>5

\* The walk meets every process of the list.
LEMMA WalkMeetsAll ==
    ASSUME ListInv, NEW w, Walks(w)
    PROVE  {w[n] : n \in 0 .. Cardinality(Pcb)} = Linked
<1> DEFINE K == Cardinality(Pcb)
<1>1. K \in Nat
  BY PcbAssumption, FS_CardinalityType
<1> HIDE DEF K
<1>2. w = [n \in 0 .. K |-> IF n = 0 THEN kmain ELSE next[w[n - 1]]]
  BY DEF Walks, K
<1>3. w[0] = kmain /\ \A n \in 0 .. K : n # 0 => n - 1 \in 0 .. K /\ w[n] = next[w[n - 1]]
  BY <1>1, <1>2
<1>4. \A n \in 0 .. K : w[n] \in Linked
  <2> DEFINE astray == {n \in 0 .. K : w[n] \notin Linked}
  <2> SUFFICES ASSUME astray # {} PROVE FALSE
    OBVIOUS
  <2>1. PICK n \in astray : \A m \in astray : ~(m < n)
    <3>1. astray \in SUBSET Nat
      BY <1>1
    <3> HIDE DEF astray
    <3> QED
      BY <3>1, LeastElement
  <2>2. n # 0
    BY <2>1, <1>3 DEF ListInv, Ring, KmainLinked
  <2>3. n - 1 \in 0 .. K /\ n - 1 < n /\ w[n] = next[w[n - 1]]
    BY <2>1, <2>2, <1>1, <1>3
  <2>4. w[n - 1] \in Linked
    BY <2>1, <2>3
  <2> QED
    BY <2>1, <2>3, <2>4 DEF ListInv, Ring, NextCloses
<1>5. w \in [0 .. K -> Pcb]
  <2>1. \A n \in 0 .. K : w[n] \in Pcb
    BY <1>4 DEF ListInv, TypeOK, Linked
  <2> QED
    BY <2>1, <1>2
<1>6. PICK i, j \in 0 .. K : i < j /\ w[i] = w[j]
  BY <1>1, <1>5, PcbAssumption, WalkReturns DEF K
<1> DEFINE V == {w[n] : n \in 0 .. j - 1}
<1>7. \A p \in V : next[p] \in V
  <2> SUFFICES ASSUME NEW n \in 0 .. j - 1 PROVE next[w[n]] \in V
    OBVIOUS
  <2>1. n + 1 \in 0 .. K /\ n + 1 # 0 /\ (n + 1) - 1 = n /\ (n + 1 \in 0 .. j - 1 \/ n + 1 = j)
    BY <1>1, <1>6
  <2>2. next[w[n]] = w[n + 1]
    BY <1>3, <2>1
  <2>3. i \in 0 .. j - 1
    BY <1>1, <1>6
  <2> QED
    BY <2>1, <2>2, <2>3, <1>6
<1>8. V \subseteq Linked /\ V # {}
  <2>1. 0 \in 0 .. j - 1 /\ \A n \in 0 .. j - 1 : n \in 0 .. K
    BY <1>1, <1>6
  <2> QED
    BY <2>1, <1>4
<1>9. V = Linked
  <2> HIDE DEF V
  <2> QED
    BY <1>7, <1>8, ClosedIsAll
<1>10. V \subseteq {w[n] : n \in 0 .. K}
  BY <1>1, <1>6
<1> QED
  BY <1>4, <1>9, <1>10 DEF K

\* add_process and elect() keep the list one cycle: from kmain along next the scheduler
\* meets every process in use and no other (sched.c:104-111, schedulers.c:125-126).
THEOREM OneCycleCorrect == Spec => []OneCycle
<1>1. ListInv => OneCycle
  <2> SUFFICES ASSUME ListInv PROVE OneCycle
    OBVIOUS
  <2> DEFINE walk[n \in 0 .. Cardinality(Pcb)] == IF n = 0 THEN kmain ELSE next[walk[n - 1]]
  <2>1. Walks(walk)
    BY WalkExists DEF Walks
  <2> HIDE DEF walk
  <2>2. {walk[n] : n \in 0 .. Cardinality(Pcb)} = Linked
    BY <2>1, WalkMeetsAll
  <2> USE DEF walk
  <2> QED
    BY <2>2 DEF OneCycle
<1> QED
  BY <1>1, ListCorrect, PTL
-----------------------------------------------------------------------------
(* The fixed-priority walk.                                                *)

\* V is what a walk that began after current_process, or ends at it, has visited: nobody
\* in it beats process_to_choose, the walk leaves it only from its last process, and as
\* many iterations are left as there may be processes outside it.
Visited(V) ==
    /\ V \subseteq Linked
    /\ \A p \in V : priority[p] <= priority[choose]
    /\ V # {} => current \in V
    /\ \A p \in V \ {current} : next[p] \in V
    /\ Cardinality(Linked \ V) <= left

WalkInv == pc = "loop" /\ scheduler = "FIXED_PRIORITY_SCHED" => \E V : Visited(V)
\* Only the head of elect() enters a scheduler loop.
LEMMA LoopSteps ==
    ASSUME [Next]_schedVars, pc' = "loop"
    PROVE  BeginChoice \/ Hop \/ FixPriorityIteration \/ DynamicPriorityIteration \/ UNCHANGED schedVars
<1>1. CASE UserOp \/ Semaphores
  <2>1. pc = "user" /\ pc' \in {"user", "elect"}
    BY <1>1 DEF UserOp, UserStep, DISABLE_IRQ, ENABLE_IRQ, start_kernel, DropToUserMode, Runs,
       Create, create_process, create_process_with_fix_priority, do_sys_fork, MayCreate,
       do_sys_setscheduler, do_sys_yield, do_sys_exit, CallElect, do_sys_yieldto,
       Semaphores, Block, Unblock, InUser
  <2> QED
    BY <2>1
<1>2. CASE irq_handler
  BY <1>2 DEF irq_handler, CallElect
<1>3. CASE elect
  BY <1>3 DEF elect, ElectTerminated, ElectBlocked, ElectReady, ElectAgain, Dispatch
<1> QED
  BY <1>1, <1>2, <1>3 DEF Next

\* The loop begins with nobody visited and an iteration for everyone.
LEMMA WalkBegins ==
    ASSUME ListInv, ListInv', BeginChoice, scheduler = "FIXED_PRIORITY_SCHED"
    PROVE  Visited({})'
<1>1. left' = nb_process
  BY DEF BeginChoice, Iterations
<1>2. nb_process = Cardinality(live) /\ live' = live /\ IsFiniteSet(live)
  BY CountPositive DEF ListInv, Counted, BeginChoice
<1>3. Linked' \subseteq live'
  BY DEF Linked
<1>4. Cardinality(Linked') <= left'
  BY <1>1, <1>2, <1>3, FS_Subset
<1>5. Linked' \ {} = Linked'
  OBVIOUS
<1> QED
  BY <1>4, <1>5 DEF Visited

\* An iteration visits one more process, unless all have been.
LEMMA WalkAdvances ==
    ASSUME ListInv, ListInv', NEW V, Visited(V), FixPriorityIteration
    PROVE  \E W : Visited(W)'
<1>1. /\ pc = "loop" /\ left > 0 /\ left' = left - 1 /\ current' = next[current]
      /\ choose' = IF priority[choose] < priority[current'] THEN current' ELSE choose
      /\ UNCHANGED <<next, victim, live, priority>>
  BY DEF FixPriorityIteration, Advance, ringVars
<1>2. /\ Linked' = Linked /\ IsFiniteSet(Linked) /\ current \in Pcb /\ choose \in Linked
      /\ Linked \subseteq Pcb /\ priority \in [Pcb -> Int] /\ left \in Nat
  <2>1. IsFiniteSet(Linked)
    BY CountPositive, FS_Subset DEF Linked
  <2> QED
    BY <1>1, <2>1 DEF Linked, ListInv, TypeOK, Ring, CursorInside
<1>3. next[current] \in Linked
  BY <1>1, <1>2, PcbAssumption DEF ListInv, Ring, CursorInside, NextCloses, VictimPointsBack
<1>c. PICK c : c = next[current]
  OBVIOUS
<1> DEFINE W == V \cup {c}
<1>4. \A p \in W : priority[p] <= priority[choose']
  BY <1>c, <1>1, <1>2, <1>3 DEF Visited
<1>5. \A p \in W \ {c} : next[p] \in W
  BY <1>c DEF Visited
<1>6. W \subseteq Linked /\ c \in W
  BY <1>c, <1>3 DEF Visited
<1>7. Cardinality(Linked \ W) <= left - 1
  <2>1. CASE c \in V
    <3>1. \A p \in V : next[p] \in V
      BY <1>c, <2>1 DEF Visited
    <3>2. V = Linked
      BY <2>1, <3>1, ClosedIsAll DEF Visited
    <3>3. Linked \ W = {}
      BY <3>2
    <3> QED
      BY <3>3, <1>1, <1>2, FS_EmptySet
  <2>2. CASE c \notin V
    <3>1. IsFiniteSet(Linked \ V) /\ c \in Linked \ V
      BY <1>c, <1>2, <1>3, <2>2, FS_Subset
    <3>2. Cardinality((Linked \ V) \ {c}) = Cardinality(Linked \ V) - 1
      BY <3>1, FS_RemoveElement
    <3>3. Linked \ W = (Linked \ V) \ {c}
      OBVIOUS
    <3>4. Cardinality(Linked \ V) \in Nat /\ Cardinality(Linked \ V) <= left
      BY <3>1, FS_CardinalityType DEF Visited
    <3>5. left \in Nat
      BY <1>2
    <3> HIDE DEF W
    <3> QED
      BY <3>2, <3>3, <3>4, <3>5
  <2> QED
    BY <2>1, <2>2
<1> HIDE DEF W
<1>8. current' = c
  BY <1>c, <1>1
<1>9. Visited(W)'
  BY <1>1, <1>2, <1>4, <1>5, <1>6, <1>7, <1>8 DEF Visited
<1> QED
  BY <1>9

LEMMA WalkNext == ListInv /\ ListInv' /\ WalkInv /\ [Next]_schedVars => WalkInv'
<1> SUFFICES ASSUME ListInv, ListInv', WalkInv, [Next]_schedVars,
                    (pc = "loop")', (scheduler = "FIXED_PRIORITY_SCHED")'
             PROVE  (\E V : Visited(V))'
  BY DEF WalkInv
<1>1. CASE BeginChoice
  BY <1>1, WalkBegins DEF BeginChoice
<1>2. CASE Hop \/ DynamicPriorityIteration
  BY <1>2 DEF Hop, DynamicPriorityIteration, Advance
<1>3. CASE FixPriorityIteration
  <2>1. pc = "loop" /\ scheduler = "FIXED_PRIORITY_SCHED"
    BY <1>3 DEF FixPriorityIteration, Advance
  <2>2. PICK V : Visited(V)
    BY <2>1 DEF WalkInv
  <2> QED
    BY <1>3, <2>2, WalkAdvances
<1>4. CASE UNCHANGED schedVars
  <2>1. PICK V : Visited(V)
    BY <1>4 DEF WalkInv, schedVars
  <2>2. Visited(V)'
    BY <1>4, <2>1 DEF Visited, schedVars, Linked
  <2> QED
    BY <2>2
<1> QED
  BY <1>1, <1>2, <1>3, <1>4, LoopSteps

\* The process electFixPriority returns has the highest priority in the list, the process
\* that called elect() included (schedulers.c:67-83).
THEOREM TopPriorityCorrect == Spec => ElectsTopPriority
<1>1. Init => WalkInv
  BY DEF Init, WalkInv
<1>2. ASSUME ListInv, WalkInv, EndChoice, scheduler = "FIXED_PRIORITY_SCHED"
      PROVE  \A p \in Linked : priority[p] <= priority[current']
  <2>1. /\ pc = "loop" /\ left = 0 /\ current' = choose
        /\ IsFiniteSet(Linked)
    <3>1. IsFiniteSet(Linked)
      BY <1>2, CountPositive, FS_Subset DEF Linked
    <3> QED
      BY <1>2, <3>1 DEF EndChoice, Elected
  <2>2. PICK V : Visited(V)
    BY <1>2, <2>1 DEF WalkInv
  <2>3. IsFiniteSet(Linked \ V) /\ Cardinality(Linked \ V) \in Nat
    BY <2>1, FS_Subset, FS_CardinalityType
  <2>4. Cardinality(Linked \ V) = 0
    BY <2>1, <2>2, <2>3 DEF Visited
  <2>5. Linked \subseteq V
    BY <2>3, <2>4, FS_EmptySet
  <2> QED
    BY <2>1, <2>2, <2>5 DEF Visited
<1>3. ListInv /\ WalkInv /\ [Next]_schedVars
      => [EndChoice /\ scheduler = "FIXED_PRIORITY_SCHED"
          => \A p \in Linked : priority[p] <= priority[current']]_schedVars
  BY <1>2
<1> QED
  BY <1>1, <1>3, WalkNext, ListCorrect, PTL DEF Spec, ElectsTopPriority
=============================================================================

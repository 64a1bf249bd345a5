--------------------------- MODULE SemQueueProofs ---------------------------
(* The waiting lists of the semaphores, for every process table and set of semaphores. *)
EXTENDS SemProofs, SchedOrderProofs, SequenceTheorems

-----------------------------------------------------------------------------
(* The walk of sem_down along the links.                                   *)

\* Only the empty list has no places.
LEMMA NoPlaces == ASSUME NEW S, NEW q \in Seq(S) PROVE q = << >> <=> Len(q) = 0
  BY EmptySeq

\* w holds what the walk from first_waiting meets, as the definition of Waiting takes it.
Follows(w, s) ==
    w = [n \in 1 .. Cardinality(Pcb) |->
            IF n = 1 THEN first_waiting[s]
            ELSE IF w[n - 1] = None THEN None ELSE next_waiting_sem[w[n - 1]]]

\* There is only one such walk.
LEMMA WalkIsUnique == \A s, v, w : Follows(v, s) /\ Follows(w, s) => v = w
<1> SUFFICES ASSUME NEW s, NEW v, NEW w, Follows(v, s), Follows(w, s) PROVE v = w
  OBVIOUS
<1> DEFINE K == Cardinality(Pcb)
           differ == {n \in 1 .. K : v[n] # w[n]}
<1>1. K \in Nat
  BY PcbAssumption, FS_CardinalityType
<1>2. ASSUME differ # {} PROVE FALSE
  <2>1. PICK n \in differ : \A m \in differ : ~(m < n)
    <3>1. differ \in SUBSET Nat
      BY <1>1
    <3> QED
      BY <3>1, <1>2, LeastElement
  <2>2. n # 1
    BY <2>1 DEF Follows
  <2>3. n - 1 \in 1 .. K /\ n - 1 < n
    BY <2>1, <2>2, <1>1
  <2>4. v[n - 1] = w[n - 1]
    BY <2>1, <2>3
  <2> QED
    BY <2>1, <2>2, <2>3, <2>4 DEF Follows
<1>3. v = [n \in 1 .. K |-> v[n]] /\ w = [n \in 1 .. K |-> w[n]]
  BY DEF Follows
<1> QED
  BY <1>2, <1>3

\* What Waiting reads is the non-null part of the walk.
LEMMA WaitingReads ==
    ASSUME NEW s, NEW w, Follows(w, s)
    PROVE  Waiting(s) = [n \in 1 .. Cardinality({i \in DOMAIN w : w[i] # None}) |-> w[n]]
<1> DEFINE walk[n \in 1 .. Cardinality(Pcb)] ==
            IF n = 1 THEN first_waiting[s]
            ELSE IF walk[n - 1] = None THEN None ELSE next_waiting_sem[walk[n - 1]]
<1>1. Follows(walk, s)
  BY DEF Follows
<1>2. walk = w
  BY <1>1, WalkIsUnique
<1>3. Waiting(s) = [n \in 1 .. Cardinality({i \in DOMAIN walk : walk[i] # None}) |-> walk[n]]
  BY DEF Waiting
<1> QED
  BY <1>2, <1>3

-----------------------------------------------------------------------------
(* The processes a list is made of.                                        *)

\* A process that sem_down has put in a list and sem_up has not taken out.
Asleep(p) == p \in Linked /\ status[p] = "BLOCKED" /\ step[p] \in {"yield", "acquired"}

Sleepers(s) == {p \in Pcb : target[p] = s /\ Asleep(p)}

\* The links of s spell q, which has every process that sleeps on s once and no other.
Lists(q, s) ==
    /\ q \in Seq(Pcb)
    /\ first_waiting[s] = IF q = << >> THEN None ELSE q[1]
    /\ \A i \in 1 .. Len(q) : next_waiting_sem[q[i]] = IF i < Len(q) THEN q[i + 1] ELSE None
    /\ \A i, j \in 1 .. Len(q) : q[i] = q[j] => i = j
    /\ \A i \in 1 .. Len(q) : q[i] \in Sleepers(s)
    /\ \A p \in Sleepers(s) : \E i \in 1 .. Len(q) : q[i] = p

\* A list is no longer than the process table.
LEMMA ListIsShort ==
    ASSUME NEW s, NEW q, Lists(q, s)
    PROVE  /\ Len(q) \in Nat /\ Len(q) <= Cardinality(Pcb) /\ Cardinality(Pcb) \in Nat
           /\ IsFiniteSet(Sleepers(s)) /\ Cardinality(Sleepers(s)) = Len(q)
<1>1. q \in [1 .. Len(q) -> Pcb] /\ Len(q) \in Nat /\ Cardinality(Pcb) \in Nat
  BY PcbAssumption, FS_CardinalityType, LenProperties DEF Lists
<1>2. IsFiniteSet(1 .. Len(q)) /\ Cardinality(1 .. Len(q)) = Len(q)
  BY <1>1, UpTo
<1>3. q \in Injection(1 .. Len(q), Pcb)
  BY <1>1 DEF Lists, Injection, IsInjective
<1>4. Len(q) <= Cardinality(Pcb)
  BY <1>2, <1>3, PcbAssumption, FS_Injection
<1>5. q \in Injection(1 .. Len(q), Sleepers(s)) /\ q \in Surjection(1 .. Len(q), Sleepers(s))
  <2>1. q \in [1 .. Len(q) -> Sleepers(s)]
    BY <1>1 DEF Lists
  <2> QED
    BY <2>1 DEF Lists, Injection, IsInjective, Surjection
<1>6. ExistsBijection(1 .. Len(q), Sleepers(s))
  BY <1>5 DEF ExistsBijection, Bijection
<1>7. IsFiniteSet(Sleepers(s)) /\ Cardinality(Sleepers(s)) = Len(q)
  BY <1>2, <1>6, FS_Bijection
<1> QED
  BY <1>1, <1>4, <1>7

\* The walk of sem_down reads exactly that list.
LEMMA ListIsRead ==
    ASSUME NEW s, NEW q, Lists(q, s)
    PROVE  Waiting(s) = q
<1> DEFINE K == Cardinality(Pcb)
           w == [n \in 1 .. K |-> IF n <= Len(q) THEN q[n] ELSE None]
<1>1. /\ Len(q) \in Nat /\ Len(q) <= K /\ K \in Nat
      /\ q = [n \in 1 .. Len(q) |-> q[n]]
      /\ \A n \in 1 .. Len(q) : q[n] \in Pcb /\ q[n] # None
  <2>1. Len(q) \in Nat /\ Len(q) <= K /\ K \in Nat
    BY ListIsShort
  <2>2. q \in [1 .. Len(q) -> Pcb]
    BY LenProperties DEF Lists
  <2> QED
    BY <2>1, <2>2, PcbAssumption
<1>2. Follows(w, s)
  <2> SUFFICES ASSUME NEW n \in 1 .. K
               PROVE  w[n] = IF n = 1 THEN first_waiting[s]
                             ELSE IF w[n - 1] = None THEN None ELSE next_waiting_sem[w[n - 1]]
    BY DEF Follows
  <2>1. CASE n = 1
    <3>1. q = << >> <=> Len(q) = 0
      BY EmptySeq DEF Lists
    <3>2. w[n] = IF 1 <= Len(q) THEN q[1] ELSE None
      BY <2>1
    <3> QED
      BY <2>1, <3>1, <3>2, <1>1 DEF Lists
  <2>2. CASE n # 1 /\ n - 1 <= Len(q)
    <3>1. n - 1 \in 1 .. K /\ n - 1 \in 1 .. Len(q)
      BY <2>2, <1>1
    <3>2. w[n - 1] = q[n - 1] /\ w[n - 1] # None
      BY <3>1, <1>1
    <3>3. next_waiting_sem[q[n - 1]] = IF n - 1 < Len(q) THEN q[(n - 1) + 1] ELSE None
      BY <3>1 DEF Lists
    <3>4. (n - 1) + 1 = n
      OBVIOUS
    <3>5. n - 1 < Len(q) <=> n <= Len(q)
      BY <1>1
    <3> HIDE DEF w
    <3>6. w[n] = IF n <= Len(q) THEN q[n] ELSE None
      BY DEF w
    <3> QED
      BY <2>2, <3>2, <3>3, <3>4, <3>5, <3>6
  <2>3. CASE n # 1 /\ ~(n - 1 <= Len(q))
    <3>1. n - 1 \in 1 .. K /\ ~(n <= Len(q))
      BY <2>3, <1>1
    <3>2. w[n - 1] = None /\ w[n] = None
      BY <3>1, <2>3
    <3> QED
      BY <2>3, <3>2
  <2> QED
    BY <2>1, <2>2, <2>3
<1>3. {i \in DOMAIN w : w[i] # None} = 1 .. Len(q)
  BY <1>1
<1>4. Cardinality(1 .. Len(q)) = Len(q)
  BY <1>1, UpTo
<1>5. Waiting(s) = [n \in 1 .. Len(q) |-> w[n]]
  <2> HIDE DEF w
  <2> QED
    BY <1>2, <1>3, <1>4, WaitingReads
<1>6. [n \in 1 .. Len(q) |-> w[n]] = [n \in 1 .. Len(q) |-> q[n]]
  BY <1>1
<1> QED
  BY <1>1, <1>5, <1>6

\* Links read the same where nothing of the list has moved.
LEMMA ListKept ==
    ASSUME NEW s, NEW q, Lists(q, s), first_waiting'[s] = first_waiting[s],
           Sleepers(s)' = Sleepers(s),
           \A p \in Sleepers(s) : next_waiting_sem'[p] = next_waiting_sem[p]
    PROVE  Lists(q, s)'
  BY DEF Lists

\* sem_down's walk and its two assignments put the caller at the end of the list.
LEMMA ListAppended ==
    ASSUME SemTypeOK, NEW s \in Sems, NEW q, Lists(q, s), NEW p \in Pcb, p = current,
           p \notin Sleepers(s), next_waiting_sem[p] = None,
           AppendWaiter(s), Sleepers(s)' = Sleepers(s) \cup {p}
    PROVE  /\ Lists(Append(q, p), s)'
           /\ \A r \in Pcb \ Sleepers(s) : next_waiting_sem'[r] = next_waiting_sem[r]
           /\ \A t \in Sems \ {s} : first_waiting'[t] = first_waiting[t]
<1> DEFINE n == Len(q)
           r == Append(q, p)
<1>1. /\ n \in Nat /\ q \in [1 .. n -> Pcb] /\ Waiting(s) = q
      /\ r \in Seq(Pcb) /\ Len(r) = n + 1 /\ r[n + 1] = p
      /\ \A i \in 1 .. n : r[i] = q[i] /\ q[i] # p
  <2>1. n \in Nat /\ q \in [1 .. n -> Pcb] /\ q \in Seq(Pcb) /\ Waiting(s) = q
    BY LenProperties, ListIsRead DEF Lists
  <2>2. \A i \in 1 .. n : q[i] # p
    BY DEF Lists
  <2> QED
    BY <2>1, <2>2, AppendProperties
<1>n. n \in Nat
  BY <1>1
<1>2. /\ first_waiting \in [Sems -> Pcb \cup {None}] /\ next_waiting_sem \in [Pcb -> Pcb \cup {None}]
      /\ q = << >> <=> n = 0
  BY <1>1, EmptySeq DEF SemTypeOK, Lists
<1>3. CASE n = 0
  <2>1. first_waiting[s] = None
    BY <1>2, <1>3 DEF Lists
  <2>2. first_waiting' = [first_waiting EXCEPT ![s] = p] /\ UNCHANGED next_waiting_sem
    BY <2>1 DEF AppendWaiter
  <2>3. first_waiting'[s] = p /\ next_waiting_sem'[p] = None
    BY <2>2, <1>2
  <2>4. r[1] = p /\ Len(r) = 1 /\ r # << >>
    <3> HIDE DEF r
    <3> QED
      BY <1>1, <1>3, NoPlaces
  <2>5. \A t \in Sleepers(s) : FALSE
    BY <1>3 DEF Lists
  <2>6. Lists(r, s)'
    <3> HIDE DEF r
    <3> QED
      BY <1>1, <2>3, <2>4, <2>5 DEF Lists
  <2> QED
    BY <2>2, <2>6, <1>2
<1>4. CASE n > 0
  <2>1. first_waiting[s] = q[1] /\ q[1] \in Pcb /\ q[n] \in Pcb /\ n \in 1 .. n /\ 1 \in 1 .. n
    BY <1>1, <1>2, <1>4 DEF Lists
  <2>2. UNCHANGED first_waiting /\ next_waiting_sem' = [next_waiting_sem EXCEPT ![q[n]] = p]
    BY <1>1, <2>1, PcbAssumption DEF AppendWaiter
  <2>3. \A i \in 1 .. n : next_waiting_sem'[q[i]] = IF i < n THEN q[i + 1] ELSE p
    <3> SUFFICES ASSUME NEW i \in 1 .. n
                 PROVE  next_waiting_sem'[q[i]] = IF i < n THEN q[i + 1] ELSE p
      OBVIOUS
    <3>1. q[i] \in Pcb /\ (q[i] = q[n] => i = n)
      <4>1. \A a, b \in 1 .. n : q[a] = q[b] => a = b
        BY DEF Lists
      <4> QED
        BY <1>1, <2>1, <4>1
    <3>2. next_waiting_sem[q[i]] = IF i < n THEN q[i + 1] ELSE None
      BY DEF Lists
    <3>3. i < n <=> i # n
      BY <1>n
    <3>4. CASE i = n
      <4>1. next_waiting_sem'[q[n]] = p
        BY <2>1, <2>2, <1>2
      <4> QED
        BY <4>1, <3>3, <3>4
    <3>5. CASE i # n
      <4>1. next_waiting_sem'[q[i]] = next_waiting_sem[q[i]]
        BY <3>1, <3>5, <2>1, <2>2, <1>2
      <4> QED
        BY <4>1, <3>2, <3>3, <3>5
    <3> QED
      BY <3>4, <3>5
  <2>4. next_waiting_sem'[p] = None
    BY <2>1, <2>2, <1>1, <1>2
  <2>5. r # << >> /\ r[1] = q[1]
    <3> HIDE DEF r
    <3> QED
      BY <1>1, <2>1, <1>4, NoPlaces
  <2>6. \A i \in 1 .. n + 1 : next_waiting_sem'[r[i]] = IF i < n + 1 THEN r[i + 1] ELSE None
    <3> SUFFICES ASSUME NEW i \in 1 .. n + 1
                 PROVE  next_waiting_sem'[r[i]] = IF i < n + 1 THEN r[i + 1] ELSE None
      OBVIOUS
    <3> HIDE DEF r
    <3>1. CASE i = n + 1
      BY <3>1, <2>4, <1>1
    <3>2. CASE i = n
      BY <3>2, <2>3, <1>1, <1>4
    <3>3. CASE i < n
      <4>1. i \in 1 .. n /\ i + 1 \in 1 .. n
        BY <3>3, <1>1
      <4> QED
        BY <3>3, <4>1, <2>3, <1>1, <1>n
    <3>4. i = n + 1 \/ i = n \/ i < n
      BY <1>n
    <3> QED
      BY <3>1, <3>2, <3>3, <3>4
  <2>7. Lists(r, s)'
    <3> HIDE DEF r
    <3>1. \A i \in 1 .. n + 1 : i \in 1 .. n \/ i = n + 1
      BY <1>1
    <3>2. \A i, j \in 1 .. n + 1 : r[i] = r[j] => i = j
      BY <3>1, <1>1 DEF Lists
    <3>3. \A i \in 1 .. n + 1 : r[i] \in Sleepers(s)'
      BY <3>1, <1>1 DEF Lists
    <3>4. \A t \in Sleepers(s)' : \E i \in 1 .. n + 1 : r[i] = t
      <4>1. n + 1 \in 1 .. n + 1 /\ 1 .. n \subseteq 1 .. n + 1
        BY <1>1
      <4> QED
        BY <4>1, <1>1 DEF Lists
    <3> QED
      BY <1>1, <2>1, <2>2, <2>5, <2>6, <3>2, <3>3, <3>4 DEF Lists
  <2>8. \A t \in Pcb \ Sleepers(s) : next_waiting_sem'[t] = next_waiting_sem[t]
    BY <2>1, <2>2, <1>2 DEF Lists
  <2> QED
    BY <2>2, <2>7, <2>8
<1> QED
  BY <1>1, <1>3, <1>4

\* sem_up takes the first process out and clears its link.
LEMMA ListShortened ==
    ASSUME SemTypeOK, NEW s \in Sems, NEW q, Lists(q, s), q # << >>,
           first_waiting' = [first_waiting EXCEPT ![s] = next_waiting_sem[q[1]]],
           next_waiting_sem' = [next_waiting_sem EXCEPT ![q[1]] = None],
           Sleepers(s)' = Sleepers(s) \ {q[1]}
    PROVE  Lists(Tail(q), s)'
<1> DEFINE n == Len(q)
           r == Tail(q)
<1>1. /\ n \in Nat /\ n > 0 /\ q \in [1 .. n -> Pcb]
      /\ r \in Seq(Pcb) /\ Len(r) = n - 1
      /\ \A i \in 1 .. n - 1 : r[i] = q[i + 1]
  BY LenProperties, EmptySeq, HeadTailProperties DEF Lists
<1>2. /\ first_waiting \in [Sems -> Pcb \cup {None}] /\ next_waiting_sem \in [Pcb -> Pcb \cup {None}]
      /\ q[1] \in Pcb /\ 1 \in 1 .. n
      /\ r = << >> <=> n = 1
  <2>1. 1 \in 1 .. n /\ q[1] \in Pcb
    BY <1>1
  <2>2. r = << >> <=> n = 1
    <3> HIDE DEF r
    <3> QED
      BY <1>1, NoPlaces
  <2> QED
    BY <2>1, <2>2 DEF SemTypeOK
<1> HIDE DEF r
<1>3. first_waiting'[s] = IF r = << >> THEN None ELSE r[1]
  <2>1. first_waiting'[s] = IF 1 < n THEN q[1 + 1] ELSE None
    BY <1>2 DEF Lists
  <2>2. CASE n = 1
    BY <2>1, <2>2, <1>2
  <2>3. CASE n > 1
    <3>1. 1 \in 1 .. n - 1 /\ r # << >>
      BY <2>3, <1>1, <1>2
    <3> QED
      BY <2>1, <2>3, <3>1, <1>1
  <2> QED
    BY <2>2, <2>3, <1>1
<1>4. \A i \in 1 .. n - 1 : next_waiting_sem'[r[i]] = IF i < n - 1 THEN r[i + 1] ELSE None
  <2> SUFFICES ASSUME NEW i \in 1 .. n - 1
               PROVE  next_waiting_sem'[r[i]] = IF i < n - 1 THEN r[i + 1] ELSE None
    OBVIOUS
  <2>1. i + 1 \in 1 .. n /\ i + 1 # 1 /\ q[i + 1] \in Pcb
    BY <1>1
  <2>2. q[i + 1] # q[1]
    BY <2>1, <1>2 DEF Lists
  <2>3. next_waiting_sem'[q[i + 1]] = IF i + 1 < n THEN q[(i + 1) + 1] ELSE None
    BY <2>1, <2>2, <1>2 DEF Lists
  <2>4. i < n - 1 <=> i + 1 < n
    BY <1>1
  <2>5. i < n - 1 => r[i + 1] = q[(i + 1) + 1]
    BY <1>1
  <2> QED
    BY <2>3, <2>4, <2>5, <1>1
<1>5. \A i, j \in 1 .. n - 1 : r[i] = r[j] => i = j
  <2> SUFFICES ASSUME NEW i \in 1 .. n - 1, NEW j \in 1 .. n - 1, r[i] = r[j] PROVE i = j
    OBVIOUS
  <2>1. i + 1 \in 1 .. n /\ j + 1 \in 1 .. n /\ q[i + 1] = q[j + 1]
    BY <1>1
  <2> QED
    BY <2>1 DEF Lists
<1>6. \A i \in 1 .. n - 1 : r[i] \in Sleepers(s)'
  <2> SUFFICES ASSUME NEW i \in 1 .. n - 1 PROVE r[i] \in Sleepers(s)'
    OBVIOUS
  <2>1. i + 1 \in 1 .. n /\ i + 1 # 1 /\ r[i] = q[i + 1]
    BY <1>1
  <2> QED
    BY <2>1, <1>2 DEF Lists
<1>7. \A t \in Sleepers(s)' : \E i \in 1 .. n - 1 : r[i] = t
  <2> SUFFICES ASSUME NEW t \in Sleepers(s), t # q[1] PROVE \E i \in 1 .. n - 1 : r[i] = t
    OBVIOUS
  <2>1. PICK j \in 1 .. n : q[j] = t
    BY DEF Lists
  <2>2. j # 1 /\ j - 1 \in 1 .. n - 1 /\ (j - 1) + 1 = j
    BY <2>1, <1>1
  <2> QED
    BY <2>1, <2>2, <1>1
<1>8. Lists(r, s)'
  BY <1>1, <1>3, <1>4, <1>5, <1>6, <1>7 DEF Lists
<1> QED
  BY <1>8 DEF r

-----------------------------------------------------------------------------
(* Where the processes are.                                                *)

\* A process that has exited is in no function and holds nothing.
Gone ==
    \A p \in Pcb : p \notin Linked \/ status[p] = "TERMINATED" => step[p] = "idle" /\ holding[p] = {}

\* Who is blocked is inside sem_down, and does not run past its sys_yield.
BlockedInside ==
    \A p \in Pcb :
        /\ p \in Linked /\ status[p] = "BLOCKED" => step[p] \in {"enqueue", "yield", "acquired"}
        /\ step[p] \in {"enqueue", "yield"} => status[p] = "BLOCKED"
        /\ pc = "user" /\ p = current /\ status[p] = "BLOCKED" => step[p] \in {"enqueue", "yield"}

\* A process that is in no list has no link.
LinkCleared == \A p \in Linked : ~Asleep(p) => next_waiting_sem[p] = None

\* The links of every semaphore form a list.
Listed == \A s \in Sems : \E q : Lists(q, s)

\* The kernel neither blocks nor wakes a process, and what it unlinks has exited.
LEMMA KernelStatus ==
    ASSUME SchedInv, irq_handler \/ elect
    PROVE  /\ Linked' \subseteq Linked
           /\ \A p \in Linked : p \notin Linked' => status[p] = "TERMINATED"
           /\ \A p \in Pcb : status'[p] = "BLOCKED" <=> status[p] = "BLOCKED"
           /\ \A p \in Pcb : status'[p] = "TERMINATED" <=> status[p] = "TERMINATED"
           /\ pc' = "user" => status'[current'] # "BLOCKED"
<1>t. status \in [Pcb -> Status] /\ current \in Pcb /\ choose \in Pcb
  BY DEF SchedInv, ListInv, TypeOK
<1>1. CASE irq_handler
  BY <1>1 DEF irq_handler, CallElect, ringVars, loopVars, Linked
<1>2. CASE ElectTerminated
  <2>1. Linked = live /\ Linked' = live \ {current} /\ UNCHANGED status /\ pc' = "loop"
        /\ status[current] = "TERMINATED"
    BY <1>2, AllLinked DEF ElectTerminated, BeginChoice, Linked, SchedInv
  <2> QED
    BY <2>1
<1>3. CASE ElectBlocked \/ ElectReady
  <2>1. Linked' = Linked /\ pc' = "loop"
    BY <1>3 DEF ElectBlocked, ElectReady, BeginChoice, Linked
  <2>2. status' = status \/ (status' = [status EXCEPT ![current] = "READY"]
                             /\ status[current] \in {"READY", "RUNNING"})
    BY <1>3 DEF ElectBlocked, ElectReady
  <2> QED
    BY <2>1, <2>2, <1>t
<1>4. CASE Hop \/ FixPriorityIteration \/ DynamicPriorityIteration
  BY <1>4 DEF Hop, FixPriorityIteration, DynamicPriorityIteration, Advance, ringVars, Linked
<1>5. CASE ElectAgain \/ Dispatch
  <2>1. Linked' = Linked /\ current' = Elected /\ Elected \in Pcb
    BY <1>5, <1>t, PcbAssumption
       DEF ElectAgain, Dispatch, EndChoice, free_process, Elected, Linked, SchedInv, ListInv, TypeOK
  <2>2. CASE ElectAgain
    BY <2>1, <2>2 DEF ElectAgain
  <2>3. CASE Dispatch
    BY <2>1, <2>3, <1>t DEF Dispatch, CanRun
  <2> QED
    BY <1>5, <2>2, <2>3
<1> QED
  BY <1>1, <1>2, <1>3, <1>4, <1>5 DEF elect

\* Nor do the programs outside sem.c; a new process starts ready and unlinked.
LEMMA ProgramStatus ==
    ASSUME SemInv, BlockedInside, Program
    PROVE  /\ step[current] = "idle" /\ current \in Linked
           /\ UNCHANGED <<counter, first_waiting, step, target, holding, permits, current>>
           /\ Linked \subseteq Linked'
           /\ \A p \in Linked : status'[p] = "BLOCKED" <=> status[p] = "BLOCKED"
           /\ \A p \in Linked' : p \notin Linked =>
                  status'[p] = "READY" /\ next_waiting_sem'[p] = None
           /\ \A p \in Linked : status'[p] = "TERMINATED" =>
                  status[p] = "TERMINATED" \/ (p = current /\ holding[p] = {})
           /\ \A p \in Linked : next_waiting_sem'[p] = next_waiting_sem[p]
<1>t. status \in [Pcb -> Status] /\ current \in Pcb /\ Linked \subseteq Pcb
  BY DEF SemInv, SchedInv, ListInv, TypeOK, Linked
<1>1. step[current] = "idle" /\ current \in Linked /\ pc = "user" /\ Linked = live /\ victim = None
  BY AllLinked DEF Program, At, InUser, SemInv, SchedInv
<1>2. CASE /\ Create
           /\ next_waiting_sem' = [p \in Pcb |-> IF p \in live' \ live THEN NewLink ELSE next_waiting_sem[p]]
           /\ UNCHANGED <<counter, first_waiting, permits, step, target, awaited, holding>>
  <2>1. PICK p \in Pcb :
              \/ create_process(p)
              \/ \E prio \in Priorities : create_process_with_fix_priority(p, prio)
              \/ do_sys_fork(p)
    BY <1>2 DEF Create
  <2>2. live' = live \cup {p} /\ p \notin live /\ status' = [status EXCEPT ![p] = "READY"]
        /\ UNCHANGED <<current, victim>>
    BY <2>1 DEF create_process, create_process_with_fix_priority, do_sys_fork, add_process, loopVars
  <2>3. Linked' = Linked \cup {p} /\ p \notin Linked
    BY <2>2, <1>1, PcbAssumption DEF Linked
  <2>4. /\ next_waiting_sem' = [r \in Pcb |-> IF r \in live' \ live THEN None ELSE next_waiting_sem[r]]
        /\ UNCHANGED <<counter, first_waiting, step, target, holding, permits>>
    BY <1>2 DEF NewLink
  <2> QED
    BY <1>1, <2>2, <2>3, <2>4, <1>t
<1>3. CASE UNCHANGED semVars /\ (start_kernel \/ DropToUserMode \/ do_sys_yield
             \/ (\E s \in Schedulers : do_sys_setscheduler(s)) \/ (do_sys_exit /\ holding[current] = {}))
  <2>1. UNCHANGED <<live, victim, current>>
        /\ (status' = status \/ (status' = [status EXCEPT ![current] = "TERMINATED"] /\ pc' = "elect"
                                 /\ holding[current] = {}))
    BY <1>3 DEF start_kernel, DropToUserMode, do_sys_yield, do_sys_setscheduler, do_sys_exit,
       CallElect, Runs, ringVars, loopVars
  <2>2. Linked' = Linked
    BY <2>1 DEF Linked
  <2> QED
    <3>1. UNCHANGED <<counter, first_waiting, next_waiting_sem, permits, step, target, holding>>
      BY <1>3 DEF semVars
    <3>2. status[current] # "BLOCKED"
      BY <1>1, <1>t DEF BlockedInside
    <3> QED
      BY <1>1, <2>1, <2>2, <3>1, <3>2, <1>t
<1> QED
  BY <1>2, <1>3 DEF Program

WaitInv == Gone /\ BlockedInside /\ LinkCleared /\ Listed

\* A step that leaves every list as it is.
SameLists == \A s \in Sems : \A q : Lists(q, s) => Lists(q, s)'

\* Where nobody falls asleep, is woken or is relinked, the lists stay.
LEMMA ListedKept ==
    ASSUME Listed, UNCHANGED first_waiting, \A s \in Sems : Sleepers(s)' = Sleepers(s),
           \A p \in Linked : next_waiting_sem'[p] = next_waiting_sem[p]
    PROVE  Listed' /\ SameLists
<1>1. ASSUME NEW s \in Sems, NEW q, Lists(q, s) PROVE Lists(q, s)'
  <2>1. \A p \in Sleepers(s) : next_waiting_sem'[p] = next_waiting_sem[p]
    BY DEF Sleepers, Asleep
  <2> QED
    BY <1>1, <2>1, ListKept
<1>2. SameLists
  BY <1>1 DEF SameLists
<1> QED
  BY <1>1, <1>2 DEF Listed

\* The process that runs is in the list of processes and has not exited.
LEMMA RunsAlive ==
    ASSUME SemInv, pc = "user"
    PROVE  current \in Linked /\ current \in Pcb /\ status[current] # "TERMINATED"
<1>1. current \in Linked /\ current \in Pcb
  BY AllLinked DEF SemInv, SchedInv, ListInv, TypeOK
<1> QED
  BY <1>1 DEF SemInv, SchedInv, ZombieUnlinked

\* A statement of a running process that is not blocked, and that blocks and wakes nobody.
LEMMA WaitPlain ==
    ASSUME SemInv, WaitInv, pc = "user", NEW label \in Steps \ {"enqueue", "yield"},
           step[current] \notin {"enqueue", "yield"},
           step' = [step EXCEPT ![current] = label],
           UNCHANGED <<live, victim, status, pc, current, first_waiting, next_waiting_sem>>,
           \A p \in Pcb \ {current} : target'[p] = target[p],
           \A p \in Pcb \ {current} : holding[p] = {} => holding'[p] = {}
    PROVE  WaitInv' /\ SameLists
<1>t. /\ step \in [Pcb -> Steps] /\ Linked \subseteq Pcb /\ Linked' = Linked
      /\ current \in Linked /\ current \in Pcb /\ status[current] # "TERMINATED"
      /\ step'[current] = label /\ \A p \in Pcb \ {current} : step'[p] = step[p]
  BY RunsAlive DEF SemInv, SchedInv, ListInv, TypeOK, SemTypeOK, Linked
<1>b. status[current] # "BLOCKED"
  BY <1>t DEF WaitInv, BlockedInside
<1>1. \A p \in Pcb : Asleep(p)' <=> Asleep(p)
  BY <1>t, <1>b DEF Asleep
<1>2. \A s \in Sems : Sleepers(s)' = Sleepers(s)
  BY <1>1, <1>t, <1>b DEF Sleepers, Asleep
<1>3. Gone'
  BY <1>t DEF WaitInv, Gone
<1>4. BlockedInside'
  BY <1>t, <1>b DEF WaitInv, BlockedInside
<1>5. LinkCleared'
  BY <1>t, <1>1 DEF WaitInv, LinkCleared
<1>6. Listed' /\ SameLists
  BY <1>2, ListedKept DEF WaitInv
<1> QED
  BY <1>3, <1>4, <1>5, <1>6 DEF WaitInv

\* sem_down marks its caller blocked: it is asleep once it is in the list.
LEMMA WaitBlock == ASSUME SemInv, WaitInv, down_block PROVE WaitInv' /\ SameLists
<1>t. /\ step \in [Pcb -> Steps] /\ status \in [Pcb -> Status] /\ Linked \subseteq Pcb
      /\ pc = "user" /\ step[current] = "block"
      /\ current \in Linked /\ current \in Pcb /\ status[current] # "TERMINATED"
  BY RunsAlive DEF down_block, At, InUser, SemInv, SchedInv, ListInv, TypeOK, SemTypeOK, Linked
<1>1. /\ Linked' = Linked /\ UNCHANGED <<pc, current, first_waiting, next_waiting_sem, target, holding>>
      /\ status' = [status EXCEPT ![current] = "BLOCKED"]
      /\ step' = [step EXCEPT ![current] = "enqueue"]
  BY DEF down_block, Block, GoTo, ringVars, loopVars, Linked
<1>2. \A p \in Pcb : Asleep(p)' <=> Asleep(p)
  BY <1>t, <1>1 DEF Asleep
<1>3. \A s \in Sems : Sleepers(s)' = Sleepers(s)
  BY <1>1, <1>2 DEF Sleepers
<1>4. Gone'
  BY <1>t, <1>1 DEF WaitInv, Gone
<1>5. BlockedInside'
  BY <1>t, <1>1 DEF WaitInv, BlockedInside
<1>6. LinkCleared'
  BY <1>t, <1>1, <1>2 DEF WaitInv, LinkCleared
<1>7. Listed' /\ SameLists
  BY <1>1, <1>3, ListedKept DEF WaitInv
<1> QED
  BY <1>4, <1>5, <1>6, <1>7 DEF WaitInv

\* What sem_down's append does to the list of its semaphore, and to the others.
LEMMA EnqueueEffect ==
    ASSUME SemInv, WaitInv, down_enqueue, NEW p, p = current, NEW s, s = target[current]
    PROVE  /\ s \in Sems /\ p \in Linked /\ ~Asleep(p)
           /\ Linked' = Linked /\ UNCHANGED <<schedVars, counter, target, holding>>
           /\ step' = [step EXCEPT ![p] = "yield"] /\ pc = "user" /\ step[p] = "enqueue"
           /\ \A r \in Pcb : Asleep(r)' <=> (Asleep(r) \/ r = p)
           /\ \A q : Lists(q, s) => Lists(Append(q, p), s)'
           /\ \A t \in Sems \ {s} : \A q : Lists(q, t) => Lists(q, t)'
           /\ LinkCleared'
<1>t. /\ step \in [Pcb -> Steps] /\ status \in [Pcb -> Status] /\ Linked \subseteq Pcb /\ SemTypeOK
      /\ pc = "user" /\ step[p] = "enqueue" /\ status[p] = "BLOCKED"
      /\ p \in Linked /\ p \in Pcb /\ s \in Sems
  BY RunsAlive DEF down_enqueue, At, InUser, SemInv, SchedInv, ListInv, TypeOK, SemTypeOK, Linked,
     Arguments, WaitInv, BlockedInside
<1>1. /\ Linked' = Linked /\ UNCHANGED <<schedVars, counter, target, holding>>
      /\ AppendWaiter(s) /\ step' = [step EXCEPT ![p] = "yield"]
  BY DEF down_enqueue, GoTo, schedVars, Linked
<1>2. ~Asleep(p) /\ next_waiting_sem[p] = None
  BY <1>t DEF Asleep, WaitInv, LinkCleared
<1>3. \A r \in Pcb : Asleep(r)' <=> (Asleep(r) \/ r = p)
  BY <1>t, <1>1 DEF Asleep, schedVars
<1>4. Sleepers(s)' = Sleepers(s) \cup {p} /\ p \notin Sleepers(s)
  <2>1. p \notin Sleepers(s) /\ target' = target /\ target[p] = s
    BY <1>2, <1>1 DEF Sleepers
  <2>2. \A r : r \in Sleepers(s)' <=> r \in Sleepers(s) \cup {p}
    BY <2>1, <1>t, <1>3 DEF Sleepers
  <2> QED
    BY <2>1, <2>2
<1>5. \A t \in Sems \ {s} : Sleepers(t)' = Sleepers(t)
  BY <1>1, <1>3 DEF Sleepers
<1>6. ASSUME NEW q, Lists(q, s)
      PROVE  /\ Lists(Append(q, p), s)'
             /\ \A r \in Pcb \ Sleepers(s) : next_waiting_sem'[r] = next_waiting_sem[r]
             /\ \A t \in Sems \ {s} : first_waiting'[t] = first_waiting[t]
  BY <1>6, <1>t, <1>1, <1>2, <1>4, ListAppended
<1>7. PICK q : Lists(q, s)
  BY <1>t DEF WaitInv, Listed
<1>8. /\ \A r \in Pcb \ Sleepers(s) : next_waiting_sem'[r] = next_waiting_sem[r]
      /\ \A t \in Sems \ {s} : first_waiting'[t] = first_waiting[t]
  BY <1>6, <1>7
<1>9. ASSUME NEW t \in Sems \ {s}, NEW r, Lists(r, t) PROVE Lists(r, t)'
  <2>1. \A u \in Sleepers(t) : u \in Pcb \ Sleepers(s)
    BY DEF Sleepers
  <2>2. \A u \in Sleepers(t) : next_waiting_sem'[u] = next_waiting_sem[u]
    BY <2>1, <1>8
  <2> QED
    BY <1>5, <1>8, <1>9, <2>2, ListKept
<1>10. LinkCleared'
  <2>1. \A r \in Linked : ~Asleep(r)' => ~Asleep(r) /\ r \in Pcb \ Sleepers(s)
    BY <1>t, <1>3 DEF Sleepers
  <2> QED
    BY <2>1, <1>1, <1>8 DEF WaitInv, LinkCleared
<1> QED
  BY <1>t, <1>1, <1>2, <1>3, <1>6, <1>9, <1>10

\* The caller of sem_down joins its list.
LEMMA WaitEnqueue == ASSUME SemInv, WaitInv, down_enqueue PROVE WaitInv'
<1> DEFINE Effect(p, s) ==
             /\ s \in Sems /\ p \in Linked /\ ~Asleep(p)
             /\ Linked' = Linked /\ UNCHANGED <<schedVars, counter, target, holding>>
             /\ step' = [step EXCEPT ![p] = "yield"] /\ pc = "user" /\ step[p] = "enqueue"
             /\ \A r \in Pcb : Asleep(r)' <=> (Asleep(r) \/ r = p)
             /\ \A q : Lists(q, s) => Lists(Append(q, p), s)'
             /\ \A t \in Sems \ {s} : \A q : Lists(q, t) => Lists(q, t)'
             /\ LinkCleared'
<1>1. PICK p, s : p = current /\ s = target[current] /\ Effect(p, s)
  BY EnqueueEffect
<1>t. step \in [Pcb -> Steps] /\ Linked \subseteq Pcb
  BY DEF SemInv, SchedInv, ListInv, TypeOK, SemTypeOK, Linked
<1>2. Listed'
  <2> SUFFICES ASSUME NEW t \in Sems PROVE \E q : Lists(q, t)'
    BY DEF Listed
  <2>1. PICK q : Lists(q, t)
    BY DEF WaitInv, Listed
  <2>2. CASE t = s
    BY <2>1, <2>2, <1>1
  <2>3. CASE t # s
    BY <2>1, <2>3, <1>1
  <2> QED
    BY <2>2, <2>3
<1>3. Gone'
  BY <1>1, <1>t DEF WaitInv, Gone, schedVars
<1>4. BlockedInside'
  BY <1>1, <1>t DEF WaitInv, BlockedInside, schedVars
<1>5. LinkCleared'
  BY <1>1
<1> QED
  BY <1>2, <1>3, <1>4, <1>5 DEF WaitInv

\* What sem_up's wakeup does to the list of its semaphore, and to the others.
LEMMA WakeEffect ==
    ASSUME SemInv, WaitInv, up_wake, NEW s, s = target[current], NEW p, p = first_waiting[s]
    PROVE  /\ s \in Sems /\ p \in Sleepers(s) /\ p # current /\ step[current] = "wake"
           /\ Linked' = Linked /\ UNCHANGED <<current, pc, counter, target, holding>>
           /\ step' = [step EXCEPT ![current] = "enable"] /\ pc = "user"
           /\ status' = [status EXCEPT ![p] = "READY"]
           /\ \A r \in Pcb : Asleep(r)' <=> (Asleep(r) /\ r # p)
           /\ \A q : Lists(q, s) => q # << >> /\ q[1] = p /\ Lists(Tail(q), s)'
           /\ \A t \in Sems \ {s} : \A q : Lists(q, t) => Lists(q, t)'
           /\ LinkCleared'
<1>t. /\ step \in [Pcb -> Steps] /\ status \in [Pcb -> Status] /\ Linked \subseteq Pcb /\ SemTypeOK
      /\ pc = "user" /\ step[current] = "wake" /\ current \in Pcb
      /\ first_waiting \in [Sems -> Pcb \cup {None}] /\ next_waiting_sem \in [Pcb -> Pcb \cup {None}]
  BY DEF up_wake, At, InUser, SemInv, SchedInv, ListInv, TypeOK, SemTypeOK, Linked
<1>s. s \in Sems /\ p # None /\ p \in Pcb
  BY <1>t DEF SemInv, Arguments
<1>1. /\ Linked' = Linked /\ UNCHANGED <<current, pc, counter, target, holding>>
      /\ status' = [status EXCEPT ![p] = "READY"] /\ p # current
      /\ first_waiting' = [first_waiting EXCEPT ![s] = next_waiting_sem[p]]
      /\ next_waiting_sem' = [next_waiting_sem EXCEPT ![p] = None]
      /\ step' = [step EXCEPT ![current] = "enable"]
  BY DEF up_wake, Unblock, Detach, GoTo, ringVars, loopVars, Linked
<1>2. \A q : Lists(q, s) => q # << >> /\ q[1] = p
  BY <1>s DEF Lists
<1>3. p \in Sleepers(s)
  <2>1. PICK q : Lists(q, s)
    BY <1>s DEF WaitInv, Listed
  <2>2. Len(q) \in Nat /\ Len(q) # 0
    BY <2>1, <1>2, NoPlaces, LenProperties DEF Lists
  <2>3. 1 \in 1 .. Len(q)
    BY <2>2
  <2> QED
    BY <2>1, <2>3, <1>2 DEF Lists
<1>4. \A r \in Pcb : Asleep(r)' <=> (Asleep(r) /\ r # p)
  BY <1>t, <1>s, <1>1, <1>3 DEF Asleep, Sleepers
<1>5. Sleepers(s)' = Sleepers(s) \ {p}
  <2>1. \A r : r \in Sleepers(s)' <=> r \in Sleepers(s) \ {p}
    BY <1>1, <1>4 DEF Sleepers
  <2> QED
    BY <2>1
<1>6. \A t \in Sems \ {s} : Sleepers(t)' = Sleepers(t)
  <2> SUFFICES ASSUME NEW t \in Sems \ {s} PROVE Sleepers(t)' = Sleepers(t)
    OBVIOUS
  <2>1. target[p] # t
    BY <1>3 DEF Sleepers
  <2>2. \A r : r \in Sleepers(t)' <=> r \in Sleepers(t)
    BY <2>1, <1>1, <1>4 DEF Sleepers
  <2> QED
    BY <2>2
<1>7. ASSUME NEW q, Lists(q, s) PROVE Lists(Tail(q), s)'
  <2>1. q # << >> /\ q[1] = p
    BY <1>2, <1>7
  <2> QED
    BY <2>1, <1>7, <1>t, <1>s, <1>1, <1>5, ListShortened
<1>8. ASSUME NEW t \in Sems \ {s}, NEW r, Lists(r, t) PROVE Lists(r, t)'
  <2>1. \A u \in Sleepers(t) : u # p /\ u \in Pcb
    BY <1>3 DEF Sleepers
  <2>2. \A u \in Sleepers(t) : next_waiting_sem'[u] = next_waiting_sem[u]
    BY <2>1, <1>1, <1>t
  <2>3. first_waiting'[t] = first_waiting[t]
    BY <1>1, <1>t
  <2> QED
    BY <1>6, <1>8, <2>2, <2>3, ListKept
<1>9. LinkCleared'
  BY <1>t, <1>s, <1>1, <1>4 DEF WaitInv, LinkCleared
<1> QED
  BY <1>t, <1>s, <1>1, <1>2, <1>3, <1>4, <1>7, <1>8, <1>9

\* sem_up makes the first process of its list ready.
LEMMA WaitWake == ASSUME SemInv, WaitInv, up_wake PROVE WaitInv'
<1> DEFINE Effect(p, s) ==
             /\ s \in Sems /\ p \in Sleepers(s) /\ p # current /\ step[current] = "wake"
             /\ Linked' = Linked /\ UNCHANGED <<current, pc, counter, target, holding>>
             /\ step' = [step EXCEPT ![current] = "enable"] /\ pc = "user"
             /\ status' = [status EXCEPT ![p] = "READY"]
             /\ \A r \in Pcb : Asleep(r)' <=> (Asleep(r) /\ r # p)
             /\ \A q : Lists(q, s) => q # << >> /\ q[1] = p /\ Lists(Tail(q), s)'
             /\ \A t \in Sems \ {s} : \A q : Lists(q, t) => Lists(q, t)'
             /\ LinkCleared'
<1>1. PICK p, s : Effect(p, s)
  BY WakeEffect
<1>t. /\ step \in [Pcb -> Steps] /\ status \in [Pcb -> Status] /\ Linked \subseteq Pcb
      /\ p \in Pcb /\ p \in Linked /\ step[p] \in {"yield", "acquired"}
  BY <1>1 DEF SemInv, SchedInv, ListInv, TypeOK, SemTypeOK, Linked, Sleepers, Asleep
<1>2. current \in Pcb /\ current \in Linked /\ status[current] # "TERMINATED" /\ pc = "user"
  BY <1>1, RunsAlive
<1>3. step[p] = "acquired"
  BY <1>1, <1>t DEF SemInv, InsideIsMasked, Critical
<1>4. Listed'
  <2> SUFFICES ASSUME NEW t \in Sems PROVE \E q : Lists(q, t)'
    BY DEF Listed
  <2>1. PICK q : Lists(q, t)
    BY DEF WaitInv, Listed
  <2>2. CASE t = s
    BY <2>1, <2>2, <1>1
  <2>3. CASE t # s
    BY <2>1, <2>3, <1>1
  <2> QED
    BY <2>2, <2>3
<1>5. Gone'
  BY <1>1, <1>t, <1>2 DEF WaitInv, Gone
<1>6. BlockedInside'
  BY <1>1, <1>t, <1>2, <1>3 DEF WaitInv, BlockedInside
<1>7. LinkCleared'
  BY <1>1
<1> QED
  BY <1>4, <1>5, <1>6, <1>7 DEF WaitInv

\* Nothing in sem.c moves while the kernel elects or the programs do something else.
LEMMA WaitElsewhere ==
    ASSUME SemInv, WaitInv, Program \/ Kernel \/ poll_yield \/ UNCHANGED vars
    PROVE  WaitInv' /\ SameLists
<1>t. step \in [Pcb -> Steps] /\ status \in [Pcb -> Status] /\ Linked \subseteq Pcb
      /\ Linked' \subseteq Pcb
  <2>1. TypeOK'
    BY SemInvNext DEF SemInv, SchedInv, ListInv, SemNext, SemStep
  <2> QED
    BY <2>1 DEF SemInv, SchedInv, ListInv, TypeOK, SemTypeOK, Linked
<1>1. CASE Program
  <2>1. /\ step[current] = "idle" /\ current \in Linked
        /\ UNCHANGED <<counter, first_waiting, step, target, holding, permits, current>>
        /\ Linked \subseteq Linked'
        /\ \A p \in Linked : status'[p] = "BLOCKED" <=> status[p] = "BLOCKED"
        /\ \A p \in Linked' : p \notin Linked => status'[p] = "READY" /\ next_waiting_sem'[p] = None
        /\ \A p \in Linked : status'[p] = "TERMINATED" =>
               status[p] = "TERMINATED" \/ (p = current /\ holding[p] = {})
        /\ \A p \in Linked : next_waiting_sem'[p] = next_waiting_sem[p]
    BY <1>1, ProgramStatus DEF WaitInv
  <2>2. \A p \in Pcb : Asleep(p)' <=> Asleep(p)
    BY <2>1, <1>t DEF Asleep
  <2>3. \A s \in Sems : Sleepers(s)' = Sleepers(s)
    BY <2>1, <2>2 DEF Sleepers
  <2>4. Gone'
    BY <2>1, <1>t DEF WaitInv, Gone
  <2>5. BlockedInside'
    BY <2>1, <1>t DEF WaitInv, BlockedInside, Gone
  <2>6. LinkCleared'
    BY <2>1, <2>2, <1>t DEF WaitInv, LinkCleared
  <2>7. Listed' /\ SameLists
    BY <2>1, <2>3, ListedKept DEF WaitInv
  <2> QED
    BY <2>4, <2>5, <2>6, <2>7 DEF WaitInv
<1>2. CASE Kernel \/ poll_yield \/ UNCHANGED vars
  <2>1. UNCHANGED semVars
    BY <1>2 DEF Kernel, poll_yield, vars
  <2>2. /\ Linked' \subseteq Linked
        /\ \A p \in Linked : p \notin Linked' => status[p] = "TERMINATED"
        /\ \A p \in Pcb : status'[p] = "BLOCKED" <=> status[p] = "BLOCKED"
        /\ \A p \in Pcb : status'[p] = "TERMINATED" <=> status[p] = "TERMINATED"
        /\ pc' = "user" => status'[current'] # "BLOCKED" \/ (pc = "user" /\ current' = current)
    <3>1. CASE Kernel
      BY <3>1, KernelStatus DEF Kernel, SemInv
    <3>2. CASE poll_yield
      BY <3>2 DEF poll_yield, sys_yield, do_sys_yield, CallElect, ringVars, loopVars, Linked
    <3>3. CASE UNCHANGED vars
      BY <3>3 DEF vars, schedVars, Linked
    <3> QED
      BY <1>2, <3>1, <3>2, <3>3
  <2>3. \A p \in Pcb : Asleep(p)' <=> Asleep(p)
    BY <2>1, <2>2, <1>t DEF Asleep, semVars
  <2>4. \A s \in Sems : Sleepers(s)' = Sleepers(s)
    BY <2>1, <2>3 DEF Sleepers, semVars
  <2>5. Gone'
    BY <2>1, <2>2, <1>t DEF WaitInv, Gone, semVars
  <2>6. BlockedInside'
    BY <2>1, <2>2, <1>t DEF WaitInv, BlockedInside, semVars
  <2>7. LinkCleared'
    BY <2>1, <2>2, <2>3, <1>t DEF WaitInv, LinkCleared, semVars
  <2>8. Listed' /\ SameLists
    BY <2>1, <2>4, ListedKept DEF WaitInv, semVars
  <2> QED
    BY <2>5, <2>6, <2>7, <2>8 DEF WaitInv
<1> QED
  BY <1>1, <1>2

\* sem_down gives the CPU up, asleep.
LEMMA WaitYield == ASSUME SemInv, WaitInv, down_yield PROVE WaitInv' /\ SameLists
<1>t. /\ step \in [Pcb -> Steps] /\ status \in [Pcb -> Status] /\ Linked \subseteq Pcb
      /\ pc = "user" /\ step[current] = "yield" /\ status[current] = "BLOCKED"
      /\ current \in Linked /\ current \in Pcb /\ status[current] # "TERMINATED"
  BY RunsAlive DEF down_yield, At, InUser, SemInv, SchedInv, ListInv, TypeOK, SemTypeOK, Linked,
     WaitInv, BlockedInside
<1>1. /\ Linked' = Linked /\ pc' = "elect" /\ step' = [step EXCEPT ![current] = "acquired"]
      /\ UNCHANGED <<current, status, first_waiting, next_waiting_sem, target, holding>>
  BY DEF down_yield, sys_yield, do_sys_yield, CallElect, GoTo, ringVars, loopVars, Linked
<1>2. \A p \in Pcb : Asleep(p)' <=> Asleep(p)
  BY <1>t, <1>1 DEF Asleep
<1>3. \A s \in Sems : Sleepers(s)' = Sleepers(s)
  BY <1>1, <1>2 DEF Sleepers
<1>4. Gone' /\ BlockedInside' /\ LinkCleared'
  BY <1>t, <1>1, <1>2 DEF WaitInv, Gone, BlockedInside, LinkCleared
<1>5. Listed' /\ SameLists
  BY <1>1, <1>3, ListedKept DEF WaitInv
<1> QED
  BY <1>4, <1>5 DEF WaitInv

\* The inductive invariant of the waiting lists.
LEMMA WaitInit == SemInit => WaitInv
<1> SUFFICES ASSUME SemInit PROVE WaitInv
  OBVIOUS
<1>1. \A p \in Pcb : step[p] = "idle" /\ holding[p] = {} /\ status[p] # "BLOCKED"
                     /\ next_waiting_sem[p] = None
  BY PcbAssumption DEF SemInit, Init
<1>2. Linked \subseteq Pcb
  BY PcbAssumption DEF SemInit, Init, Linked
<1>3. \A s \in Sems : Lists(<< >>, s)
  <2> SUFFICES ASSUME NEW s \in Sems PROVE Lists(<< >>, s)
    OBVIOUS
  <2>1. Sleepers(s) = {} /\ first_waiting[s] = None
    BY <1>1 DEF Sleepers, Asleep, SemInit
  <2>2. << >> \in Seq(Pcb) /\ Len(<< >>) = 0
    BY EmptySeq
  <2> QED
    BY <2>1, <2>2 DEF Lists
<1> QED
  BY <1>1, <1>2, <1>3 DEF WaitInv, Gone, BlockedInside, LinkCleared, Listed

\* A call of a semaphore function, or the return from one.
LEMMA WaitCall ==
    ASSUME SemInv, WaitInv, Call \/ down_enable \/ enable
    PROVE  WaitInv' /\ SameLists
<1>t. current \in Pcb /\ step \in [Pcb -> Steps] /\ target \in [Pcb -> Sems \cup {None}]
      /\ holding \in [Pcb -> SUBSET Sems]
  BY DEF SemInv, SchedInv, ListInv, TypeOK, SemTypeOK
<1>1. CASE Call
  <2>0. PICK label \in {"dec", "inc", "poll"} : \E s, v : Enter(label, s, v)
    BY <1>1 DEF Call, sem_down, sem_up, sem_wait_for
  <2>1. PICK s, v : Enter(label, s, v)
    BY <2>0
  <2>2. pc = "user" /\ step[current] = "idle" /\ SetMask(TRUE) /\ step' = [step EXCEPT ![current] = label]
        /\ target' = [target EXCEPT ![current] = s]
        /\ UNCHANGED <<counter, first_waiting, next_waiting_sem, permits, holding>>
    BY <2>1 DEF Enter, At, InUser, GoTo
  <2>3. UNCHANGED <<live, victim, status, pc, current>>
    BY <2>2 DEF SetMask, Runs, ringVars, loopVars
  <2>4. label \in Steps \ {"enqueue", "yield"}
    BY DEF Steps
  <2>5. \A p \in Pcb \ {current} : target'[p] = target[p]
    BY <2>2, <1>t
  <2> QED
    BY <2>2, <2>3, <2>4, <2>5, WaitPlain
<1>2. CASE down_enable \/ enable
  <2>1. /\ pc = "user" /\ step[current] \notin {"enqueue", "yield"} /\ SetMask(FALSE)
        /\ step' = [step EXCEPT ![current] = "idle"]
        /\ target' = [target EXCEPT ![current] = None]
        /\ UNCHANGED <<first_waiting, next_waiting_sem>>
    BY <1>2 DEF down_enable, enable, Return, At, InUser, GoTo
  <2>2. UNCHANGED <<live, victim, status, pc, current>>
    BY <2>1 DEF SetMask, Runs, ringVars, loopVars
  <2>3. \A p \in Pcb \ {current} : target'[p] = target[p] /\ holding'[p] = holding[p]
    BY <1>2, <2>1, <1>t DEF down_enable, enable
  <2>4. "idle" \in Steps \ {"enqueue", "yield"}
    BY DEF Steps
  <2> QED
    BY <2>1, <2>2, <2>3, <2>4, WaitPlain
<1> QED
  BY <1>1, <1>2

\* The statements that count, and the end of a poll.
LEMMA WaitCount ==
    ASSUME SemInv, WaitInv, down_dec \/ up_inc \/ poll_end
    PROVE  WaitInv' /\ SameLists
<1>t. current \in Pcb /\ holding \in [Pcb -> SUBSET Sems]
  BY DEF SemInv, SchedInv, ListInv, TypeOK, SemTypeOK
<1>1. pc = "user" /\ step[current] \in {"dec", "inc", "poll"}
      /\ UNCHANGED <<live, victim, status, pc, current, first_waiting, next_waiting_sem, target>>
  BY DEF down_dec, up_inc, poll_end, At, InUser, schedVars
<1>2. \E label \in {"block", "acquired", "wake", "enable"} : step' = [step EXCEPT ![current] = label]
  BY DEF down_dec, up_inc, poll_end, GoTo
<1>3. PICK label \in Steps \ {"enqueue", "yield"} : step' = [step EXCEPT ![current] = label]
  BY <1>2 DEF Steps
<1>4. \A p \in Pcb \ {current} : holding[p] = {} => holding'[p] = {}
  BY <1>t DEF down_dec, up_inc, poll_end
<1> QED
  BY <1>1, <1>3, <1>4, WaitPlain

\* Every step keeps the lists, whatever it does to them.
LEMMA WaitNext == SemInv /\ WaitInv /\ [SemNext]_vars => WaitInv'
  BY WaitCall, WaitCount, WaitBlock, WaitEnqueue, WaitYield, WaitWake, WaitElsewhere
     DEF SemNext, SemStep

-----------------------------------------------------------------------------
(* The counters.                                                           *)

\* A sem_down has counted its caller and not yet put it in the list.
Joining(s) == \E p \in Pcb : target[p] = s /\ step[p] \in {"block", "enqueue"}

\* A sem_up has counted a unit and not yet taken the process it is for out of the list.
Waking(s) == \E p \in Pcb : target[p] = s /\ step[p] = "wake"

Owed(s) == IF counter[s] < 0 THEN -counter[s] ELSE 0

QLength(s) == IF Waking(s) THEN Owed(s) + 1 ELSE IF Joining(s) THEN Owed(s) - 1 ELSE Owed(s)

\* A list is as long as its counter says, but for the process on its way in or out.
Counts ==
    \A s \in Sems :
        /\ Waking(s) => counter[s] <= 0
        /\ Joining(s) => counter[s] < 0 /\ ~Waking(s)
        /\ \E q : Lists(q, s) /\ Len(q) = QLength(s)

\* Only the running process is at a statement that counts, lists or wakes.
LEMMA OnlyCurrent ==
    ASSUME SemInv, NEW p \in Pcb, step[p] \in Critical
    PROVE  p = current
  BY DEF SemInv, InsideIsMasked

\* Steps that leave lists, counters and the processes on their way alone.
LEMMA CountsKept ==
    ASSUME Counts, SameLists, UNCHANGED counter,
           \A s \in Sems : Joining(s)' <=> Joining(s),
           \A s \in Sems : Waking(s)' <=> Waking(s)
    PROVE  Counts'
<1> SUFFICES ASSUME NEW s \in Sems
             PROVE  /\ Waking(s)' => counter'[s] <= 0
                    /\ Joining(s)' => counter'[s] < 0 /\ ~Waking(s)'
                    /\ \E q : Lists(q, s)' /\ Len(q) = QLength(s)'
  BY DEF Counts
<1>1. QLength(s)' = QLength(s)
  BY DEF QLength, Owed
<1> QED
  BY <1>1 DEF Counts, SameLists

\* A statement that moves the running process between two places outside the lists.
LEMMA CountsPlain ==
    ASSUME SemInv, Counts, SameLists, UNCHANGED counter, NEW label,
           step' = [step EXCEPT ![current] = label],
           \A p \in Pcb \ {current} : target'[p] = target[p],
           \/ /\ step[current] \in {"block", "enqueue"} /\ label \in {"block", "enqueue"}
              /\ target'[current] = target[current]
           \/ step[current] \notin {"block", "enqueue", "wake"} /\ label \notin {"block", "enqueue", "wake"}
    PROVE  Counts'
<1>t. current \in Pcb /\ step \in [Pcb -> Steps]
  BY DEF SemInv, SchedInv, ListInv, TypeOK, SemTypeOK
<1>1. \A p \in Pcb \ {current} : step'[p] = step[p]
  BY <1>t
<1>2. step'[current] = label
  BY <1>t
<1>3. \A s \in Sems : Joining(s)' <=> Joining(s)
  BY <1>t, <1>1, <1>2 DEF Joining
<1>4. \A s \in Sems : Waking(s)' <=> Waking(s)
  BY <1>t, <1>1, <1>2 DEF Waking
<1> QED
  BY <1>3, <1>4, CountsKept

\* Where the running process is at a counting statement, no other is on its way.
LEMMA NobodyOnTheWay ==
    ASSUME SemInv, step[current] \in Critical
    PROVE  /\ \A s : Joining(s) <=> target[current] = s /\ step[current] \in {"block", "enqueue"}
           /\ \A s : Waking(s) <=> target[current] = s /\ step[current] = "wake"
<1>1. current \in Pcb
  BY DEF SemInv, SchedInv, ListInv, TypeOK
<1>2. \A p \in Pcb : step[p] \in Critical => p = current
  BY DEF SemInv, InsideIsMasked
<1>3. {"block", "enqueue", "wake"} \subseteq Critical
  BY DEF Critical
<1> QED
  BY <1>1, <1>2, <1>3 DEF Joining, Waking

\* What holds afterwards when the running process has moved.
LEMMA OnTheWayAfter ==
    ASSUME SemInv, step[current] \in Critical, NEW label,
           step' = [step EXCEPT ![current] = label], UNCHANGED target
    PROVE  /\ \A s : Joining(s)' <=> target[current] = s /\ label \in {"block", "enqueue"}
           /\ \A s : Waking(s)' <=> target[current] = s /\ label = "wake"
<1>1. current \in Pcb /\ step \in [Pcb -> Steps]
  BY DEF SemInv, SchedInv, ListInv, TypeOK, SemTypeOK
<1>2. \A p \in Pcb : step[p] \in Critical => p = current
  BY DEF SemInv, InsideIsMasked
<1>3. {"block", "enqueue", "wake"} \subseteq Critical
  BY DEF Critical
<1>4. step'[current] = label /\ \A p \in Pcb \ {current} : step'[p] = step[p] /\ step[p] \notin Critical
  BY <1>1, <1>2
<1> QED
  BY <1>1, <1>3, <1>4 DEF Joining, Waking

\* sem_down counts its caller: a negative counter promises one process more.
LEMMA CountsDec == ASSUME SemInv, WaitInv, Counts, down_dec PROVE Counts'
<1>t. /\ step[current] = "dec" /\ step[current] \in Critical /\ target[current] \in Sems
      /\ counter \in [Sems -> Int] /\ current \in Pcb
  BY DEF down_dec, At, Critical, SemInv, Arguments, SchedInv, ListInv, TypeOK, SemTypeOK
<1>1. PICK label \in {"block", "acquired"} :
           /\ step' = [step EXCEPT ![current] = label]
           /\ label = "block" <=> counter'[target[current]] < 0
  BY DEF down_dec, GoTo, MustBlock
<1>2. /\ counter' = [counter EXCEPT ![target[current]] = counter[target[current]] - 1]
      /\ UNCHANGED target /\ SameLists
  BY WaitCount DEF down_dec
<1>3. /\ \A s : ~Joining(s) /\ ~Waking(s) /\ ~Waking(s)'
      /\ \A s : Joining(s)' <=> target[current] = s /\ label = "block"
  BY <1>t, <1>1, <1>2, NobodyOnTheWay, OnTheWayAfter
<1> SUFFICES ASSUME NEW s \in Sems
             PROVE  /\ Joining(s)' => counter'[s] < 0
                    /\ \E q : Lists(q, s)' /\ Len(q) = QLength(s)'
  BY <1>3 DEF Counts
<1>4. PICK q : Lists(q, s) /\ Len(q) = Owed(s)
  BY <1>3 DEF Counts, QLength
<1>5. Lists(q, s)'
  BY <1>2, <1>4 DEF SameLists
<1>6. CASE s = target[current]
  <2>1. counter'[s] = counter[s] - 1 /\ counter[s] \in Int
    BY <1>6, <1>t, <1>2
  <2>2. Joining(s)' <=> counter'[s] < 0
    BY <1>6, <1>1, <1>3
  <2>3. QLength(s)' = Owed(s)
    BY <2>1, <2>2, <1>3 DEF QLength, Owed
  <2> QED
    BY <1>4, <1>5, <2>2, <2>3
<1>7. CASE s # target[current]
  <2>1. ~Joining(s)' /\ counter'[s] = counter[s]
    BY <1>7, <1>t, <1>2, <1>3
  <2>2. QLength(s)' = Owed(s)
    BY <2>1, <1>3 DEF QLength, Owed
  <2> QED
    BY <1>4, <1>5, <2>1, <2>2
<1> QED
  BY <1>6, <1>7

\* The process sem_down counted joins its list.
LEMMA CountsEnqueue == ASSUME SemInv, WaitInv, Counts, down_enqueue PROVE Counts'
<1>1. PICK p, s : /\ p = current /\ s = target[current] /\ s \in Sems
                  /\ UNCHANGED <<schedVars, counter, target, holding>>
                  /\ step' = [step EXCEPT ![p] = "yield"] /\ step[p] = "enqueue"
                  /\ \A q : Lists(q, s) => Lists(Append(q, p), s)'
                  /\ \A t \in Sems \ {s} : \A q : Lists(q, t) => Lists(q, t)'
  BY EnqueueEffect
<1>t. step[current] \in Critical /\ current \in Pcb
  BY <1>1 DEF Critical, SemInv, SchedInv, ListInv, TypeOK
<1>2. /\ \A t : ~Waking(t) /\ ~Waking(t)' /\ ~Joining(t)'
      /\ \A t : Joining(t) <=> t = s
  <2>1. step[current] = "enqueue" /\ target' = target
    BY <1>1
  <2>l. PICK label : label = "yield" /\ step' = [step EXCEPT ![current] = label]
    BY <1>1
  <2>2. \A t : (Joining(t) <=> target[current] = t) /\ ~Waking(t)
    BY <1>t, <2>1, NobodyOnTheWay
  <2>n. \A t : /\ Joining(t)' <=> target[current] = t /\ label \in {"block", "enqueue"}
               /\ Waking(t)' <=> target[current] = t /\ label = "wake"
    BY <1>t, <2>1, <2>l, OnTheWayAfter
  <2>3. \A t : ~Joining(t)' /\ ~Waking(t)'
    BY <2>l, <2>n
  <2> QED
    BY <1>1, <2>2, <2>3
<1> SUFFICES ASSUME NEW t \in Sems PROVE \E q : Lists(q, t)' /\ Len(q) = QLength(t)'
  BY <1>2 DEF Counts
<1>3. PICK q : Lists(q, t) /\ Len(q) = QLength(t)
  BY DEF Counts
<1>4. QLength(t)' = Owed(t)
  BY <1>1, <1>2 DEF QLength, Owed
<1>5. CASE t = s
  <2>1. Len(q) = Owed(t) - 1
    BY <1>2, <1>3, <1>5 DEF QLength
  <2>2. Len(Append(q, p)) = Len(q) + 1
    BY <1>1, <1>t, <1>3, AppendProperties DEF Lists
  <2>3. Owed(t) \in Int
    BY DEF Owed, SemInv, SemTypeOK
  <2>4. Len(Append(q, p)) = Owed(t)
    BY <2>1, <2>2, <2>3
  <2> QED
    BY <1>1, <1>3, <1>4, <1>5, <2>4
<1>6. CASE t # s
  BY <1>1, <1>2, <1>3, <1>4, <1>6 DEF QLength
<1> QED
  BY <1>5, <1>6

\* sem_up counts its unit: where a process waits for it, there is one to take out.
LEMMA CountsInc == ASSUME SemInv, WaitInv, Counts, up_inc PROVE Counts'
<1>t. /\ step[current] = "inc" /\ step[current] \in Critical /\ target[current] \in Sems
      /\ counter \in [Sems -> Int] /\ current \in Pcb
  BY DEF up_inc, At, Critical, SemInv, Arguments, SchedInv, ListInv, TypeOK, SemTypeOK
<1>1. PICK label \in {"wake", "enable"} :
           /\ step' = [step EXCEPT ![current] = label]
           /\ label = "wake" <=> counter'[target[current]] <= 0 /\ first_waiting[target[current]] # None
  BY DEF up_inc, GoTo, SomeoneWaits
<1>2. /\ counter' = [counter EXCEPT ![target[current]] = counter[target[current]] + 1]
      /\ UNCHANGED target /\ SameLists
  BY WaitCount DEF up_inc
<1>3. /\ \A s : ~Joining(s) /\ ~Waking(s) /\ ~Joining(s)'
      /\ \A s : Waking(s)' <=> target[current] = s /\ label = "wake"
  BY <1>t, <1>1, <1>2, NobodyOnTheWay, OnTheWayAfter
<1> SUFFICES ASSUME NEW s \in Sems
             PROVE  /\ Waking(s)' => counter'[s] <= 0
                    /\ \E q : Lists(q, s)' /\ Len(q) = QLength(s)'
  BY <1>3 DEF Counts
<1>4. PICK q : Lists(q, s) /\ Len(q) = Owed(s)
  BY <1>3 DEF Counts, QLength
<1>5. Lists(q, s)'
  BY <1>2, <1>4 DEF SameLists
<1>6. CASE s = target[current]
  <2>1. counter'[s] = counter[s] + 1 /\ counter[s] \in Int
    BY <1>6, <1>t, <1>2
  <2>2. first_waiting[s] = None <=> Owed(s) = 0
    <3>1. q = << >> <=> Owed(s) = 0
      BY <1>4, NoPlaces DEF Lists
    <3>2. q # << >> => q[1] \in Pcb
      <4>1. Len(q) \in Nat /\ q \in [1 .. Len(q) -> Pcb]
        BY <1>4, LenProperties DEF Lists
      <4>2. q # << >> => 1 \in 1 .. Len(q)
        BY <4>1, <1>4, NoPlaces DEF Lists
      <4> QED
        BY <4>1, <4>2
    <3> QED
      BY <3>1, <3>2, <1>4, PcbAssumption DEF Lists
  <2>3. Waking(s)' <=> counter'[s] <= 0 /\ counter[s] < 0
    BY <1>6, <1>1, <1>3, <2>1, <2>2 DEF Owed
  <2>4. QLength(s)' = Owed(s)
    BY <2>1, <2>3, <1>3 DEF QLength, Owed
  <2> QED
    BY <1>4, <1>5, <2>3, <2>4
<1>7. CASE s # target[current]
  <2>1. ~Waking(s)' /\ counter'[s] = counter[s]
    BY <1>7, <1>t, <1>2, <1>3
  <2>2. QLength(s)' = Owed(s)
    BY <2>1, <1>3 DEF QLength, Owed
  <2> QED
    BY <1>4, <1>5, <2>1, <2>2
<1> QED
  BY <1>6, <1>7

\* The process sem_up counted for leaves its list.
LEMMA CountsWake == ASSUME SemInv, WaitInv, Counts, up_wake PROVE Counts'
<1>1. PICK p, s : /\ s = target[current] /\ s \in Sems /\ step[current] = "wake"
                  /\ UNCHANGED <<current, counter, target>>
                  /\ step' = [step EXCEPT ![current] = "enable"]
                  /\ \A q : Lists(q, s) => q # << >> /\ q[1] = p /\ Lists(Tail(q), s)'
                  /\ \A t \in Sems \ {s} : \A q : Lists(q, t) => Lists(q, t)'
  BY WakeEffect
<1>t. step[current] \in Critical /\ current \in Pcb
  BY <1>1 DEF Critical, SemInv, SchedInv, ListInv, TypeOK
<1>2. /\ \A t : ~Joining(t) /\ ~Waking(t)' /\ ~Joining(t)'
      /\ \A t : Waking(t) <=> t = s
  <2>1. step[current] = "wake" /\ target' = target
    BY <1>1
  <2>l. PICK label : label = "enable" /\ step' = [step EXCEPT ![current] = label]
    BY <1>1
  <2>2. \A t : (Waking(t) <=> target[current] = t) /\ ~Joining(t)
    BY <1>t, <2>1, NobodyOnTheWay
  <2>n. \A t : /\ Joining(t)' <=> target[current] = t /\ label \in {"block", "enqueue"}
               /\ Waking(t)' <=> target[current] = t /\ label = "wake"
    BY <1>t, <2>1, <2>l, OnTheWayAfter
  <2>3. \A t : ~Joining(t)' /\ ~Waking(t)'
    BY <2>l, <2>n
  <2> QED
    BY <1>1, <2>2, <2>3
<1> SUFFICES ASSUME NEW t \in Sems PROVE \E q : Lists(q, t)' /\ Len(q) = QLength(t)'
  BY <1>2 DEF Counts
<1>3. PICK q : Lists(q, t) /\ Len(q) = QLength(t)
  BY DEF Counts
<1>4. QLength(t)' = Owed(t)
  BY <1>1, <1>2 DEF QLength, Owed
<1>5. CASE t = s
  <2>1. Len(q) = Owed(t) + 1 /\ q # << >> /\ Lists(Tail(q), t)'
    BY <1>1, <1>2, <1>3, <1>5 DEF QLength
  <2>2. Len(Tail(q)) = Len(q) - 1
    BY <2>1, <1>3, HeadTailProperties DEF Lists
  <2>3. Owed(t) \in Int
    BY DEF Owed, SemInv, SemTypeOK
  <2>4. Len(Tail(q)) = Owed(t)
    BY <2>1, <2>2, <2>3
  <2> QED
    BY <1>4, <2>1, <2>4
<1>6. CASE t # s
  BY <1>1, <1>2, <1>3, <1>4, <1>6 DEF QLength
<1> QED
  BY <1>5, <1>6

\* The other steps move nobody into or out of a list.
LEMMA CountsOther ==
    ASSUME SemInv, WaitInv, Counts,
           Call \/ down_enable \/ enable \/ down_block \/ down_yield \/ poll_end
           \/ Program \/ Kernel \/ poll_yield \/ UNCHANGED vars
    PROVE  Counts'
<1>t. current \in Pcb /\ target \in [Pcb -> Sems \cup {None}]
  BY DEF SemInv, SchedInv, ListInv, TypeOK, SemTypeOK
<1>1. CASE Program \/ Kernel \/ poll_yield \/ UNCHANGED vars
  <2>1. UNCHANGED <<counter, step, target>>
    BY <1>1, ProgramStatus DEF Kernel, poll_yield, vars, semVars, WaitInv
  <2> QED
    BY <1>1, <2>1, WaitElsewhere, CountsKept DEF Joining, Waking
<1>2. CASE Call
  <2>0. PICK to \in {"dec", "inc", "poll"} : \E s, v : Enter(to, s, v)
    BY <1>2 DEF Call, sem_down, sem_up, sem_wait_for
  <2>1. PICK s, v : Enter(to, s, v)
    BY <2>0
  <2>2. /\ step[current] = "idle" /\ step' = [step EXCEPT ![current] = to] /\ UNCHANGED counter
        /\ \A p \in Pcb \ {current} : target'[p] = target[p]
    BY <2>1, <1>t DEF Enter, At, GoTo
  <2> QED
    BY <1>2, <2>2, WaitCall, CountsPlain
<1>3. CASE down_enable \/ enable
  <2>1. /\ step[current] \notin {"block", "enqueue", "wake"} /\ step' = [step EXCEPT ![current] = "idle"]
        /\ UNCHANGED counter /\ \A p \in Pcb \ {current} : target'[p] = target[p]
    BY <1>3, <1>t DEF down_enable, enable, Return, At, GoTo
  <2> QED
    BY <1>3, <2>1, WaitCall, CountsPlain
<1>4. CASE down_block
  <2>1. step[current] = "block" /\ step' = [step EXCEPT ![current] = "enqueue"] /\ UNCHANGED <<counter, target>>
    BY <1>4 DEF down_block, At, GoTo
  <2> QED
    BY <1>4, <2>1, WaitBlock, CountsPlain
<1>5. CASE down_yield \/ poll_end
  <2>1. /\ step[current] \in {"yield", "poll"} /\ UNCHANGED <<counter, target>>
        /\ \E to \in {"acquired", "enable"} : step' = [step EXCEPT ![current] = to]
    BY <1>5 DEF down_yield, poll_end, At, GoTo
  <2> QED
    BY <1>5, <2>1, WaitYield, WaitCount, CountsPlain
<1> QED
  BY <1>1, <1>2, <1>3, <1>4, <1>5

\* The counters and the lists agree after every step.
LEMMA CountsNext == SemInv /\ WaitInv /\ Counts /\ [SemNext]_vars => Counts'
  BY CountsDec, CountsEnqueue, CountsInc, CountsWake, CountsOther DEF SemNext, SemStep

LEMMA CountsInit == SemInit => Counts
<1> SUFFICES ASSUME SemInit, NEW s \in Sems
             PROVE  /\ ~Waking(s) /\ ~Joining(s)
                    /\ \E q : Lists(q, s) /\ Len(q) = QLength(s)
  BY DEF Counts
<1>1. ~Waking(s) /\ ~Joining(s)
  BY DEF SemInit, Waking, Joining
<1>2. counter[s] \in Nat
  BY SemAssumption DEF SemInit
<1>3. QLength(s) = 0
  BY <1>1, <1>2 DEF QLength, Owed
<1>4. PICK q : Lists(q, s)
  BY WaitInit DEF WaitInv, Listed
<1>5. \A p \in Pcb : status[p] # "BLOCKED"
  BY PcbAssumption DEF SemInit, Init
<1>6. Sleepers(s) = {}
  BY <1>5 DEF Sleepers, Asleep
<1>7. Len(q) \in Nat /\ \A i \in 1 .. Len(q) : FALSE
  BY <1>4, <1>6, LenProperties DEF Lists
<1>8. Len(q) = 0
  BY <1>7
<1> QED
  BY <1>1, <1>3, <1>4, <1>8

QueueInv == SemInv /\ WaitInv /\ Counts

\* The links of every semaphore form one list without a repetition, of exactly the
\* processes blocked on it, as long as its counter says (sem.c:17-52).
THEOREM QueueInvariant == SemSpec => []QueueInv
<1>1. SemInit => QueueInv
  BY SemInvInit, WaitInit, CountsInit DEF QueueInv
<1>2. QueueInv /\ [SemNext]_vars => QueueInv'
  BY SemInvNext, WaitNext, CountsNext DEF QueueInv
<1> QED
  BY <1>1, <1>2, PTL DEF SemSpec

\* Between two calls nobody is on the way into or out of the list of a quiet semaphore.
LEMMA QuietMeansSettled ==
    ASSUME QueueInv, NEW s \in Sems, Quiet(s)
    PROVE  ~Joining(s) /\ ~Waking(s)
<1>1. \A p \in Pcb : step[p] # "idle" => p \in Linked
  BY DEF QueueInv, WaitInv, Gone
<1> QED
  BY <1>1 DEF Quiet, Critical, Joining, Waking

\* No wakeup is lost and none invented: a negative counter is the number of processes
\* in the waiting list, and a list is empty otherwise (sem.c:17-52).
THEOREM CounterCorrect == SemSpec => []CounterCountsWaiters
<1>1. QueueInv => CounterCountsWaiters
  <2> SUFFICES ASSUME QueueInv, NEW s \in Sems, Quiet(s)
               PROVE  Len(Waiting(s)) = IF counter[s] < 0 THEN -counter[s] ELSE 0
    BY DEF CounterCountsWaiters
  <2>1. PICK q : Lists(q, s) /\ Len(q) = QLength(s)
    BY DEF QueueInv, Counts
  <2>2. QLength(s) = Owed(s)
    BY QuietMeansSettled DEF QLength
  <2>3. Waiting(s) = q
    BY <2>1, ListIsRead
  <2> QED
    BY <2>1, <2>2, <2>3 DEF Owed
<1> QED
  BY <1>1, QueueInvariant, PTL

\* A blocked process is in the list of the semaphore it waits for, there only, and once.
THEOREM BlockedCorrect == SemSpec => []BlockedIsQueued
<1>1. QueueInv => BlockedIsQueued
  <2> SUFFICES ASSUME QueueInv, \A s \in Sems : Quiet(s), NEW p \in Linked
               PROVE  Cardinality({e \in Sems \X (1 .. Cardinality(Pcb)) :
                            e[2] \in DOMAIN Waiting(e[1]) /\ Waiting(e[1])[e[2]] = p})
                        = IF status[p] = "BLOCKED" THEN 1 ELSE 0
    BY DEF BlockedIsQueued
  <2> DEFINE places == {e \in Sems \X (1 .. Cardinality(Pcb)) :
                            e[2] \in DOMAIN Waiting(e[1]) /\ Waiting(e[1])[e[2]] = p}
  <2>1. p \in Pcb
    BY DEF QueueInv, SemInv, SchedInv, ListInv, TypeOK, Linked
  <2>2. ASSUME NEW s \in Sems
        PROVE  /\ \A i \in DOMAIN Waiting(s) : Waiting(s)[i] \in Sleepers(s)
               /\ \A i, j \in DOMAIN Waiting(s) : Waiting(s)[i] = Waiting(s)[j] => i = j
               /\ \A r \in Sleepers(s) : \E i \in DOMAIN Waiting(s) : Waiting(s)[i] = r
               /\ DOMAIN Waiting(s) \subseteq 1 .. Cardinality(Pcb)
    <3>1. PICK q : Lists(q, s)
      BY DEF QueueInv, Counts
    <3>2. Waiting(s) = q /\ DOMAIN q = 1 .. Len(q)
      BY <3>1, ListIsRead, LenProperties DEF Lists
    <3>3. 1 .. Len(q) \subseteq 1 .. Cardinality(Pcb)
      BY <3>1, ListIsShort
    <3> QED
      BY <3>1, <3>2, <3>3 DEF Lists
  <2>3. CASE status[p] # "BLOCKED"
    <3>1. \A s \in Sems : p \notin Sleepers(s)
      BY <2>3 DEF Sleepers, Asleep
    <3>2. places = {}
      BY <3>1, <2>2
    <3> QED
      BY <2>3, <3>2, FS_EmptySet
  <2>4. CASE status[p] = "BLOCKED"
    <3>1. step[p] \in {"enqueue", "yield", "acquired"} /\ target[p] \in Sems
      BY <2>1, <2>4 DEF QueueInv, WaitInv, BlockedInside, SemInv, Arguments
    <3>2. step[p] = "acquired" /\ p \in Sleepers(target[p])
      BY <2>1, <2>4, <3>1 DEF Quiet, Critical, Sleepers, Asleep
    <3>3. PICK i \in DOMAIN Waiting(target[p]) : Waiting(target[p])[i] = p
      BY <2>2, <3>1, <3>2
    <3>4. <<target[p], i>> \in places
      BY <3>1, <3>3, <2>2
    <3>5. ASSUME NEW e \in places PROVE e = <<target[p], i>>
      <4>1. e[1] \in Sems /\ e[2] \in DOMAIN Waiting(e[1]) /\ Waiting(e[1])[e[2]] = p /\ e = <<e[1], e[2]>>
        OBVIOUS
      <4>2. p \in Sleepers(e[1])
        BY <4>1, <2>2
      <4>3. e[1] = target[p]
        BY <4>2 DEF Sleepers
      <4>4. e[2] = i
        BY <4>1, <4>3, <3>1, <3>3, <2>2
      <4> QED
        BY <4>1, <4>3, <4>4
    <3>6. places = {<<target[p], i>>}
      BY <3>4, <3>5
    <3> HIDE DEF places
    <3>7. Cardinality(places) = 1
      BY <3>6, FS_Singleton
    <3> QED
      BY <2>4, <3>7 DEF places
  <2> QED
    BY <2>3, <2>4
<1> QED
  BY <1>1, QueueInvariant, PTL

-----------------------------------------------------------------------------
(* The units, when programs bracket.                                       *)

Taking == {"block", "enqueue", "yield", "acquired"}

\* The processes that have counted a unit of s down and not up again.
Users(s) == {p \in Pcb : s \in holding[p] \/ (target[p] = s /\ step[p] \in Taking)}

\* A program calls sem_down without the unit and sem_up with it.
Brackets ==
    /\ ~Bracketed => \A p \in Pcb : holding[p] = {}
    /\ Bracketed => \A p \in Pcb :
           /\ step[p] \in Taking \cup {"dec"} => target[p] \notin holding[p]
           /\ step[p] = "inc" => target[p] \in holding[p]

\* The counter is what is left of the initial value.
Accounts == Bracketed => \A s \in Sems : counter[s] = InitialValue[s] - Cardinality(Users(s))

LEMMA UsersFinite == \A s : IsFiniteSet(Users(s))
  BY PcbAssumption, FS_Subset DEF Users

\* Only the running process moves, and only its own units.
LEMMA BracketsNext == SemInv /\ WaitInv /\ Brackets /\ [SemNext]_vars => Brackets'
<1> SUFFICES ASSUME SemInv, WaitInv, Brackets, [SemNext]_vars PROVE Brackets'
  OBVIOUS
<1>t. /\ current \in Pcb /\ step \in [Pcb -> Steps] /\ target \in [Pcb -> Sems \cup {None}]
      /\ holding \in [Pcb -> SUBSET Sems]
  BY DEF SemInv, SchedInv, ListInv, TypeOK, SemTypeOK
<1>1. ASSUME UNCHANGED <<step, target, holding>> PROVE Brackets'
  BY <1>1 DEF Brackets
\* A statement that stays among those with the unit not held, or leads away from them.
<1>2. ASSUME NEW label, step' = [step EXCEPT ![current] = label], UNCHANGED <<target, holding>>,
             label \in Taking => step[current] \in Taking \cup {"dec"}, label \notin {"dec", "inc"}
      PROVE  Brackets'
  BY <1>2, <1>t DEF Brackets
<1>3. CASE Call
  <2>1. PICK s \in Sems : sem_down(s) \/ sem_up(s) \/ \E v \in WaitValues : sem_wait_for(s, v)
    BY <1>3 DEF Call
  <2>2. CASE sem_down(s)
    BY <2>2, <1>t DEF sem_down, Enter, GoTo, Brackets, Taking
  <2>3. CASE sem_up(s)
    BY <2>3, <1>t DEF sem_up, Enter, GoTo, Brackets, Taking
  <2>4. CASE \E v \in WaitValues : sem_wait_for(s, v)
    BY <2>4, <1>t DEF sem_wait_for, Enter, GoTo, Brackets, Taking
  <2> QED
    BY <2>1, <2>2, <2>3, <2>4
<1>4. CASE down_dec
  <2>1. /\ step[current] = "dec" /\ UNCHANGED <<target, holding>>
        /\ \E label \in {"block", "acquired"} : step' = [step EXCEPT ![current] = label]
    BY <1>4 DEF down_dec, At, GoTo
  <2> QED
    BY <2>1, <1>2
<1>5. CASE down_block \/ down_enqueue \/ down_yield
  <2>1. /\ step[current] \in Taking /\ UNCHANGED <<target, holding>>
        /\ \E label \in {"enqueue", "yield", "acquired"} : step' = [step EXCEPT ![current] = label]
    BY <1>5 DEF down_block, down_enqueue, down_yield, At, GoTo, Taking
  <2> QED
    BY <2>1, <1>2
<1>6. CASE up_wake \/ poll_end
  <2>1. /\ \E label \in {"enable"} : step' = [step EXCEPT ![current] = label]
        /\ UNCHANGED <<target, holding>>
    BY <1>6 DEF up_wake, poll_end, GoTo
  <2> QED
    BY <2>1, <1>2 DEF Taking
<1>7. CASE down_enable \/ enable
  <2>1. /\ step' = [step EXCEPT ![current] = "idle"] /\ target' = [target EXCEPT ![current] = None]
        /\ \A p \in Pcb \ {current} : holding'[p] = holding[p]
        /\ ~Bracketed => holding' = holding
    BY <1>7, <1>t DEF down_enable, enable, Return, GoTo
  <2> QED
    BY <2>1, <1>t DEF Brackets, Taking
<1>8. CASE up_inc
  <2>1. /\ \E label \in {"wake", "enable"} : step' = [step EXCEPT ![current] = label]
        /\ UNCHANGED target
        /\ holding' = [holding EXCEPT ![current] = holding[current] \ {target[current]}]
    BY <1>8 DEF up_inc, GoTo
  <2> QED
    BY <2>1, <1>t DEF Brackets, Taking
<1>9. CASE Program \/ Kernel \/ poll_yield \/ UNCHANGED vars
  BY <1>9, <1>1, ProgramStatus DEF Kernel, poll_yield, vars, semVars, WaitInv
<1> QED
  BY <1>3, <1>4, <1>5, <1>6, <1>7, <1>8, <1>9 DEF SemNext, SemStep

\* A semaphore's units are in its counter or with those who took them.
LEMMA AccountsNext == SemInv /\ WaitInv /\ Brackets /\ Accounts /\ [SemNext]_vars => Accounts'
<1> SUFFICES ASSUME SemInv, WaitInv, Brackets, Accounts, [SemNext]_vars, Bracketed,
                    NEW s \in Sems
             PROVE  counter'[s] = InitialValue[s] - Cardinality(Users(s)')
  BY DEF Accounts, Users
<1>t. /\ current \in Pcb /\ step \in [Pcb -> Steps] /\ target \in [Pcb -> Sems \cup {None}]
      /\ holding \in [Pcb -> SUBSET Sems] /\ counter \in [Sems -> Int]
      /\ IsFiniteSet(Users(s)) /\ Cardinality(Users(s)) \in Nat
      /\ counter[s] = InitialValue[s] - Cardinality(Users(s)) /\ InitialValue[s] \in Nat
      /\ None \notin Sems
  BY UsersFinite, FS_CardinalityType, SemAssumption
     DEF SemInv, SchedInv, ListInv, TypeOK, SemTypeOK, Accounts
<1>b. \A p \in Pcb :
           /\ step[p] \in Taking \cup {"dec"} => target[p] \notin holding[p]
           /\ step[p] = "inc" => target[p] \in holding[p]
  BY DEF Brackets
<1>1. ASSUME counter'[s] = counter[s],
             \A p \in Pcb : (s \in holding'[p] \/ (target'[p] = s /\ step'[p] \in Taking))
                        <=> (s \in holding[p] \/ (target[p] = s /\ step[p] \in Taking))
      PROVE  counter'[s] = InitialValue[s] - Cardinality(Users(s)')
  <2>1. Users(s)' = Users(s)
    BY <1>1 DEF Users
  <2> QED
    BY <1>1, <1>t, <2>1
<1>2. CASE Call
  <2>0. PICK label \in {"dec", "inc", "poll"}, t \in Sems : \E v : Enter(label, t, v)
    BY <1>2 DEF Call, sem_down, sem_up, sem_wait_for
  <2>1. PICK v : Enter(label, t, v)
    BY <2>0
  <2>2. /\ step[current] = "idle" /\ step' = [step EXCEPT ![current] = label]
        /\ target' = [target EXCEPT ![current] = t] /\ UNCHANGED <<counter, holding>>
    BY <2>1 DEF Enter, At, GoTo
  <2> QED
    BY <2>2, <1>1, <1>t DEF Taking
<1>3. CASE down_dec
  <2>1. PICK label \in {"block", "acquired"} : step' = [step EXCEPT ![current] = label]
    BY <1>3 DEF down_dec, GoTo
  <2>2. /\ step[current] = "dec" /\ UNCHANGED <<target, holding>>
        /\ counter' = [counter EXCEPT ![target[current]] = counter[target[current]] - 1]
    BY <1>3 DEF down_dec, At
  <2>3. CASE target[current] = s
    <3>1. current \notin Users(s) /\ Users(s)' = Users(s) \cup {current}
      BY <2>1, <2>2, <2>3, <1>t, <1>b DEF Users, Taking
    <3>2. Cardinality(Users(s)') = Cardinality(Users(s)) + 1
      BY <3>1, <1>t, FS_AddElement
    <3>3. counter'[s] = counter[s] - 1
      BY <2>2, <2>3, <1>t
    <3> QED
      BY <3>2, <3>3, <1>t
  <2>4. CASE target[current] # s
    BY <2>1, <2>2, <2>4, <1>1, <1>t
  <2> QED
    BY <2>3, <2>4
<1>4. CASE down_block \/ down_enqueue \/ down_yield
  <2>1. /\ step[current] \in Taking /\ UNCHANGED <<target, holding, counter>>
        /\ \E label \in {"enqueue", "yield", "acquired"} : step' = [step EXCEPT ![current] = label]
    BY <1>4 DEF down_block, down_enqueue, down_yield, At, GoTo, Taking
  <2>2. \A p \in Pcb : step'[p] \in Taking <=> step[p] \in Taking
    BY <2>1, <1>t DEF Taking
  <2> QED
    BY <2>1, <2>2, <1>1
<1>5. CASE up_wake \/ poll_end
  <2>1. /\ step' = [step EXCEPT ![current] = "enable"] /\ UNCHANGED <<target, holding, counter>>
        /\ step[current] \in {"wake", "poll"}
    BY <1>5 DEF up_wake, poll_end, GoTo, At
  <2>2. \A p \in Pcb : step'[p] \in Taking <=> step[p] \in Taking
    BY <2>1, <1>t DEF Taking
  <2> QED
    BY <2>1, <2>2, <1>1
<1>6. CASE enable
  <2>1. /\ step' = [step EXCEPT ![current] = "idle"] /\ target' = [target EXCEPT ![current] = None]
        /\ UNCHANGED <<holding, counter>> /\ step[current] = "enable"
    BY <1>6 DEF enable, Return, GoTo, At
  <2> QED
    BY <2>1, <1>1, <1>t DEF Taking
<1>7. CASE down_enable
  <2>1. /\ step' = [step EXCEPT ![current] = "idle"] /\ target' = [target EXCEPT ![current] = None]
        /\ holding' = [holding EXCEPT ![current] = holding[current] \cup {target[current]}]
        /\ UNCHANGED counter /\ step[current] = "acquired"
    BY <1>7 DEF down_enable, Return, GoTo, At
  <2> QED
    BY <2>1, <1>1, <1>t DEF Taking
<1>8. CASE up_inc
  <2>1. PICK label \in {"wake", "enable"} : step' = [step EXCEPT ![current] = label]
    BY <1>8 DEF up_inc, GoTo
  <2>2. /\ step[current] = "inc" /\ UNCHANGED target
        /\ counter' = [counter EXCEPT ![target[current]] = counter[target[current]] + 1]
        /\ holding' = [holding EXCEPT ![current] = holding[current] \ {target[current]}]
    BY <1>8 DEF up_inc, At
  <2>3. CASE target[current] = s
    <3>1. current \in Users(s) /\ Users(s)' = Users(s) \ {current}
      BY <2>1, <2>2, <2>3, <1>t, <1>b DEF Users, Taking
    <3>2. Cardinality(Users(s)') = Cardinality(Users(s)) - 1
      BY <3>1, <1>t, FS_RemoveElement
    <3>3. counter'[s] = counter[s] + 1
      BY <2>2, <2>3, <1>t
    <3> QED
      BY <3>2, <3>3, <1>t
  <2>4. CASE target[current] # s
    <3>1. counter'[s] = counter[s]
      BY <2>2, <2>4, <1>t
    <3>2. \A p \in Pcb : (s \in holding'[p] <=> s \in holding[p])
                         /\ (step'[p] \in Taking <=> step[p] \in Taking)
      BY <2>1, <2>2, <2>4, <1>t DEF Taking
    <3> QED
      BY <2>2, <3>1, <3>2, <1>1
  <2> QED
    BY <2>3, <2>4
<1>9. CASE Program \/ Kernel \/ poll_yield \/ UNCHANGED vars
  <2>1. UNCHANGED <<step, target, holding, counter>>
    BY <1>9, ProgramStatus DEF Kernel, poll_yield, vars, semVars, WaitInv
  <2> QED
    BY <2>1, <1>1
<1> QED
  BY <1>2, <1>3, <1>4, <1>5, <1>6, <1>7, <1>8, <1>9 DEF SemNext, SemStep

\* Of i units, u are counted down, for h holders and l others; a negative counter owes as
\* many as there are others.
LEMMA UnitsLeft ==
    ASSUME NEW h \in Nat, NEW l \in Int, NEW u \in Nat, NEW c \in Int, NEW i \in Nat,
           c = i - u, h + l <= u, l >= IF c < 0 THEN -c ELSE 0
    PROVE  h <= i
  OBVIOUS

\* Those who hold a unit, those who wait for one and the counter: the first are at most
\* as many as the initial value.
LEMMA UnitsSuffice == QueueInv /\ Brackets /\ Accounts => MutualExclusion
<1> SUFFICES ASSUME QueueInv, Brackets, Accounts, NEW s \in Sems
             PROVE  Cardinality({p \in Linked : s \in holding[p]}) <= InitialValue[s]
  BY DEF MutualExclusion
<1> DEFINE Holders == {p \in Linked : s \in holding[p]}
<1>t. /\ Linked \subseteq Pcb /\ counter[s] \in Int /\ InitialValue[s] \in Nat
      /\ IsFiniteSet(Users(s)) /\ Cardinality(Users(s)) \in Nat
  BY UsersFinite, FS_CardinalityType, SemAssumption
     DEF QueueInv, SemInv, SchedInv, ListInv, TypeOK, SemTypeOK, Linked
<1>1. CASE ~Bracketed
  <2>1. Holders = {}
    BY <1>1, <1>t DEF Brackets
  <2> QED
    BY <2>1, <1>t, FS_EmptySet
<1>2. CASE Bracketed
  <2>1. counter[s] = InitialValue[s] - Cardinality(Users(s))
    BY <1>2 DEF Accounts
  <2>2. PICK q : Lists(q, s) /\ Len(q) = QLength(s)
    BY DEF QueueInv, Counts
  <2>3. IsFiniteSet(Sleepers(s)) /\ Cardinality(Sleepers(s)) = Len(q) /\ Len(q) \in Nat
    BY <2>2, ListIsShort
  <2>4. Holders \subseteq Users(s) /\ Sleepers(s) \subseteq Users(s)
    BY <1>t DEF Users, Sleepers, Asleep, Taking
  <2>5. Holders \cap Sleepers(s) = {}
    BY <1>2, <1>t DEF Brackets, Sleepers, Asleep, Taking
  <2>6. IsFiniteSet(Holders) /\ Cardinality(Holders) \in Nat
    BY <1>t, <2>4, FS_Subset, FS_CardinalityType
  <2> HIDE DEF Holders
  <2>7. /\ IsFiniteSet(Holders \cup Sleepers(s))
        /\ Cardinality(Holders \cup Sleepers(s)) = Cardinality(Holders) + Cardinality(Sleepers(s))
    <3>1. Cardinality(Holders \cup Sleepers(s))
            = Cardinality(Holders) + Cardinality(Sleepers(s)) - Cardinality(Holders \cap Sleepers(s))
      BY <2>3, <2>6, FS_Union
    <3>2. Cardinality(Holders \cap Sleepers(s)) = 0
      BY <2>5, FS_EmptySet
    <3>3. IsFiniteSet(Holders \cup Sleepers(s))
      BY <2>3, <2>6, FS_Union
    <3> QED
      BY <3>1, <3>2, <3>3, <2>3, <2>6
  <2>8. CASE ~Joining(s)
    <3>1. Cardinality(Holders \cup Sleepers(s)) <= Cardinality(Users(s))
      BY <1>t, <2>4, FS_Subset
    <3>2. Len(q) >= Owed(s)
      BY <2>2, <2>8, <1>t DEF QLength, Owed
    <3>3. Cardinality(Holders) + Len(q) <= Cardinality(Users(s))
      BY <2>3, <2>7, <3>1
    <3>4. Len(q) >= IF counter[s] < 0 THEN -counter[s] ELSE 0
      BY <3>2 DEF Owed
    <3> QED
      BY <1>t, <2>1, <2>3, <2>6, <3>3, <3>4, UnitsLeft DEF Holders
  <2>9. CASE Joining(s)
    <3>1. PICK j \in Pcb : target[j] = s /\ step[j] \in {"block", "enqueue"}
      BY <2>9 DEF Joining
    <3>2. j \in Users(s) /\ j \notin Holders \cup Sleepers(s)
      BY <3>1, <1>2 DEF Users, Taking, Sleepers, Asleep, Brackets, Holders
    <3>3. Holders \cup Sleepers(s) \cup {j} \subseteq Users(s)
      BY <2>4, <3>2
    <3>4. Cardinality(Holders \cup Sleepers(s) \cup {j}) = Cardinality(Holders) + Cardinality(Sleepers(s)) + 1
      BY <2>7, <3>2, FS_AddElement
    <3>5. Cardinality(Holders \cup Sleepers(s) \cup {j}) <= Cardinality(Users(s))
      BY <1>t, <3>3, FS_Subset
    <3>6. Len(q) >= Owed(s) - 1
      BY <2>2, <2>9, <1>t DEF QLength, Owed
    <3>7. Cardinality(Holders) + (Len(q) + 1) <= Cardinality(Users(s))
      BY <2>3, <2>6, <3>4, <3>5
    <3>8. Len(q) + 1 \in Int /\ Len(q) + 1 >= IF counter[s] < 0 THEN -counter[s] ELSE 0
      BY <2>3, <3>6, <1>t DEF Owed
    <3> QED
      BY <1>t, <2>1, <2>6, <3>7, <3>8, UnitsLeft DEF Holders
  <2> QED
    BY <2>8, <2>9
<1> QED
  BY <1>1, <1>2

\* Programs that release what they took never hold more units than the semaphore was
\* initialised with (sem.c:17-52, test/kmain-sem-mutex.c).
THEOREM ExclusionCorrect == SemSpec => []MutualExclusion
<1>1. SemInit => Brackets /\ Accounts
  <2> SUFFICES ASSUME SemInit PROVE Brackets /\ Accounts
    OBVIOUS
  <2>1. \A p \in Pcb : holding[p] = {} /\ step[p] = "idle"
    BY DEF SemInit
  <2>2. Brackets
    BY <2>1 DEF Brackets, Taking
  <2>3. \A s \in Sems : Users(s) = {} /\ counter[s] = InitialValue[s] /\ InitialValue[s] \in Nat
    BY <2>1, SemAssumption DEF Users, Taking, SemInit
  <2>4. Accounts
    BY <2>3, FS_EmptySet DEF Accounts
  <2> QED
    BY <2>2, <2>4
<1>2. QueueInv /\ Brackets /\ Accounts /\ [SemNext]_vars => Brackets' /\ Accounts'
  BY BracketsNext, AccountsNext DEF QueueInv
<1> QED
  BY <1>1, <1>2, UnitsSuffice, QueueInvariant, PTL DEF SemSpec

-----------------------------------------------------------------------------
(* sem.c as FIFO counting semaphores.                                      *)

\* The value and the queue of module AbsSem.
Positive == [s \in Sems |-> IF counter[s] > 0 THEN counter[s] ELSE 0]
Queue == [s \in Sems |-> Waiting(s)]

Reads == \A s \in Sems : \A q : Lists(q, s) => Waiting(s) = q

\* Steps that keep the lists keep the queues.
LEMMA QueueKept ==
    ASSUME QueueInv, Reads, Reads', SameLists
    PROVE  Queue' = Queue
<1>1. ASSUME NEW s \in Sems PROVE Waiting(s)' = Waiting(s)
  BY DEF QueueInv, Counts, Reads, SameLists
<1> QED
  BY <1>1 DEF Queue

\* sem_down takes a unit in one statement, or none.
LEMMA DecRefines ==
    ASSUME QueueInv, Reads, Reads', down_dec
    PROVE  UNCHANGED <<Positive, Queue>> \/ \E s \in Sems : Abs!Take(s)
<1>t. /\ step[current] = "dec" /\ step[current] \in Critical /\ target[current] \in Sems
      /\ counter \in [Sems -> Int]
  BY DEF down_dec, At, Critical, QueueInv, SemInv, Arguments, SchedInv, ListInv, TypeOK, SemTypeOK
<1>1. PICK s : s \in Sems /\ s = target[current] /\ counter' = [counter EXCEPT ![s] = counter[s] - 1]
  BY <1>t DEF down_dec
<1>2. Queue' = Queue
  BY WaitCount, QueueKept DEF QueueInv
<1>3. CASE counter[s] <= 0
  <2>1. Positive' = Positive
    BY <1>t, <1>1, <1>3 DEF Positive
  <2> QED
    BY <1>2, <2>1
<1>4. CASE counter[s] > 0
  <2>1. PICK q : Lists(q, s) /\ Len(q) = QLength(s)
    BY <1>1 DEF QueueInv, Counts
  <2>2. ~Joining(s) /\ ~Waking(s)
    BY <1>1, <1>t, NobodyOnTheWay DEF QueueInv
  <2>3. QLength(s) = 0
    BY <1>1, <1>4, <1>t, <2>2 DEF QLength, Owed
  <2>4. Queue[s] = << >>
    <3>1. Queue[s] = q
      BY <2>1, <1>1 DEF Reads, Queue
    <3>2. q = << >>
      BY <2>1, <2>3, NoPlaces DEF Lists
    <3> QED
      BY <3>1, <3>2
  <2>5. Positive[s] > 0 /\ Positive' = [Positive EXCEPT ![s] = Positive[s] - 1]
    BY <1>t, <1>1, <1>4 DEF Positive
  <2>6. Abs!Take(s)
    BY <1>1, <2>4, <2>5, <1>2 DEF Abs!Take, Positive, Queue
  <2> QED
    BY <2>6, <1>1
<1> QED
  BY <1>1, <1>t, <1>3, <1>4

\* sem_up gives a unit back where nobody waits.
LEMMA IncRefines ==
    ASSUME QueueInv, Reads, Reads', up_inc
    PROVE  UNCHANGED <<Positive, Queue>> \/ \E s \in Sems : Abs!GiveBack(s)
<1>t. /\ step[current] = "inc" /\ step[current] \in Critical /\ target[current] \in Sems
      /\ counter \in [Sems -> Int]
  BY DEF up_inc, At, Critical, QueueInv, SemInv, Arguments, SchedInv, ListInv, TypeOK, SemTypeOK
<1>1. PICK s : s \in Sems /\ s = target[current] /\ counter' = [counter EXCEPT ![s] = counter[s] + 1]
  BY <1>t DEF up_inc
<1>2. Queue' = Queue
  BY WaitCount, QueueKept DEF QueueInv
<1>3. CASE counter[s] < 0
  <2>1. Positive' = Positive
    BY <1>t, <1>1, <1>3 DEF Positive
  <2> QED
    BY <1>2, <2>1
<1>4. CASE counter[s] >= 0
  <2>1. PICK q : Lists(q, s) /\ Len(q) = QLength(s)
    BY <1>1 DEF QueueInv, Counts
  <2>2. ~Joining(s) /\ ~Waking(s)
    BY <1>1, <1>t, NobodyOnTheWay DEF QueueInv
  <2>3. QLength(s) = 0
    BY <1>1, <1>4, <1>t, <2>2 DEF QLength, Owed
  <2>4. Queue[s] = << >>
    <3>1. Queue[s] = q
      BY <2>1, <1>1 DEF Reads, Queue
    <3>2. q = << >>
      BY <2>1, <2>3, NoPlaces DEF Lists
    <3> QED
      BY <3>1, <3>2
  <2>5. Positive' = [Positive EXCEPT ![s] = Positive[s] + 1]
    BY <1>t, <1>1, <1>4 DEF Positive
  <2>6. Abs!GiveBack(s)
    BY <1>1, <2>4, <2>5, <1>2 DEF Abs!GiveBack, Positive, Queue
  <2> QED
    BY <2>6, <1>1
<1> QED
  BY <1>1, <1>t, <1>3, <1>4

\* sem_down's append is the abstract queue's.
LEMMA EnqueueRefines ==
    ASSUME QueueInv, Reads, Reads', down_enqueue
    PROVE  \E s \in Sems, p \in Pcb : Abs!Join(s, p)
<1>1. PICK p, s : /\ p = current /\ s = target[current] /\ s \in Sems /\ ~Asleep(p)
                  /\ UNCHANGED <<schedVars, counter, target, holding>> /\ step[p] = "enqueue"
                  /\ \A q : Lists(q, s) => Lists(Append(q, p), s)'
                  /\ \A t \in Sems \ {s} : \A q : Lists(q, t) => Lists(q, t)'
  BY EnqueueEffect DEF QueueInv
<1>t. /\ p \in Pcb /\ step[current] \in Critical /\ counter[s] < 0 /\ counter[s] \in Int
  <2>1. p \in Pcb /\ step[p] \in Critical /\ counter[s] \in Int
    BY <1>1 DEF Critical, QueueInv, SemInv, SchedInv, ListInv, TypeOK, SemTypeOK
  <2>2. Joining(s)
    BY <1>1, <2>1 DEF Joining
  <2> QED
    BY <1>1, <2>1, <2>2 DEF QueueInv, Counts
<1>2. Positive[s] = 0 /\ Positive' = Positive
  BY <1>1, <1>t DEF Positive
<1>3. \A t \in Sems : \E q : Lists(q, t) /\ Queue[t] = q
  BY DEF QueueInv, Counts, Reads, Queue
<1>4. \A t \in Sems : \A i \in DOMAIN Queue[t] : Queue[t][i] # p
  <2> SUFFICES ASSUME NEW t \in Sems, NEW i \in DOMAIN Queue[t], Queue[t][i] = p PROVE FALSE
    OBVIOUS
  <2>1. PICK q : Lists(q, t) /\ Queue[t] = q
    BY <1>3
  <2>2. DOMAIN q = 1 .. Len(q)
    BY <2>1, LenProperties DEF Lists
  <2>3. p \in Sleepers(t)
    BY <2>1, <2>2 DEF Lists
  <2> QED
    BY <1>1, <2>3 DEF Sleepers
<1>5. Queue' = [Queue EXCEPT ![s] = Append(Queue[s], p)]
  <2>1. ASSUME NEW t \in Sems
        PROVE  Waiting(t)' = IF t = s THEN Append(Queue[s], p) ELSE Queue[t]
    <3>1. PICK q : Lists(q, t) /\ Queue[t] = q
      BY <1>3
    <3>2. CASE t = s
      <4>1. Lists(Append(q, p), s)'
        BY <1>1, <3>1, <3>2
      <4>2. Waiting(s)' = Append(q, p)
        BY <1>1, <4>1 DEF Reads
      <4> QED
        BY <3>1, <3>2, <4>2
    <3>3. CASE t # s
      <4>1. Lists(q, t)'
        BY <1>1, <3>1, <3>3
      <4>2. Waiting(t)' = q
        BY <4>1 DEF Reads
      <4> QED
        BY <3>1, <3>3, <4>2
    <3> QED
      BY <3>2, <3>3
  <2> QED
    BY <2>1, <1>1 DEF Queue
<1>6. Abs!Join(s, p)
  BY <1>1, <1>2, <1>4, <1>5 DEF Abs!Join, Abs!Queued, Positive, Queue
<1> QED
  BY <1>1, <1>t, <1>6

\* sem_up hands its unit to the process at the head.
LEMMA WakeRefines ==
    ASSUME QueueInv, Reads, Reads', up_wake
    PROVE  \E s \in Sems : Abs!HandOver(s)
<1>1. PICK p, s : /\ s = target[current] /\ s \in Sems /\ UNCHANGED counter
                  /\ \A q : Lists(q, s) => q # << >> /\ q[1] = p /\ Lists(Tail(q), s)'
                  /\ \A t \in Sems \ {s} : \A q : Lists(q, t) => Lists(q, t)'
  BY WakeEffect DEF QueueInv
<1>2. Positive' = Positive
  BY <1>1 DEF Positive
<1>3. \A t \in Sems : \E q : Lists(q, t) /\ Queue[t] = q
  BY DEF QueueInv, Counts, Reads, Queue
<1>4. Queue[s] # << >>
  BY <1>1, <1>3
<1>5. Queue' = [Queue EXCEPT ![s] = Tail(Queue[s])]
  <2>1. ASSUME NEW t \in Sems
        PROVE  Waiting(t)' = IF t = s THEN Tail(Queue[s]) ELSE Queue[t]
    <3>1. PICK q : Lists(q, t) /\ Queue[t] = q
      BY <1>3
    <3>2. CASE t = s
      <4>1. Lists(Tail(q), s)'
        BY <1>1, <3>1, <3>2
      <4>2. Waiting(s)' = Tail(q)
        BY <1>1, <4>1 DEF Reads
      <4> QED
        BY <3>1, <3>2, <4>2
    <3>3. CASE t # s
      <4>1. Lists(q, t)'
        BY <1>1, <3>1, <3>3
      <4>2. Waiting(t)' = q
        BY <4>1 DEF Reads
      <4> QED
        BY <3>1, <3>3, <4>2
    <3> QED
      BY <3>2, <3>3
  <2> QED
    BY <2>1, <1>1 DEF Queue
<1>6. Abs!HandOver(s)
  BY <1>1, <1>2, <1>4, <1>5 DEF Abs!HandOver, Positive, Queue
<1> QED
  BY <1>1, <1>6

\* Every statement of sem.c is a step of the abstract semaphores, or none of their business.
LEMMA StepRefines ==
    QueueInv /\ Reads /\ Reads' /\ [SemNext]_vars => [Abs!Next]_<<Positive, Queue>>
<1> SUFFICES ASSUME QueueInv, Reads, Reads', [SemNext]_vars
             PROVE  [Abs!Next]_<<Positive, Queue>>
  OBVIOUS
<1>1. CASE down_dec
  BY <1>1, DecRefines DEF Abs!Next
<1>2. CASE up_inc
  BY <1>2, IncRefines DEF Abs!Next
<1>3. CASE down_enqueue
  BY <1>3, EnqueueRefines DEF Abs!Next
<1>4. CASE up_wake
  BY <1>4, WakeRefines DEF Abs!Next
<1>5. ASSUME SameLists, UNCHANGED counter PROVE UNCHANGED <<Positive, Queue>>
  BY <1>5, QueueKept DEF Positive
<1>6. CASE Call \/ down_enable \/ enable
  <2>1. UNCHANGED counter
    BY <1>6 DEF Call, sem_down, sem_up, sem_wait_for, Enter, down_enable, enable, Return
  <2> QED
    BY <1>5, <1>6, <2>1, WaitCall DEF QueueInv
<1>7. CASE down_block
  BY <1>5, <1>7, WaitBlock DEF QueueInv, down_block
<1>8. CASE down_yield
  BY <1>5, <1>8, WaitYield DEF QueueInv, down_yield
<1>9. CASE poll_end
  BY <1>5, <1>9, WaitCount DEF QueueInv, poll_end
<1>10. CASE Program \/ Kernel \/ poll_yield \/ UNCHANGED vars
  <2>1. UNCHANGED counter
    BY <1>10, ProgramStatus DEF Kernel, poll_yield, vars, semVars, QueueInv, WaitInv
  <2> QED
    BY <1>5, <1>10, <2>1, WaitElsewhere DEF QueueInv
<1> QED
  BY <1>1, <1>2, <1>3, <1>4, <1>6, <1>7, <1>8, <1>9, <1>10 DEF SemNext, SemStep

\* The lists and counters of sem.c behave as the first-come-first-served counting
\* semaphores sem.h promises.
THEOREM SemImplementsAbs == SemSpec => ImplementsAbsSem
<1>1. SemInit => Abs!Init
  <2> SUFFICES ASSUME SemInit PROVE Abs!Init
    OBVIOUS
  <2>1. Positive = InitialValue
    BY SemAssumption DEF SemInit, Positive
  <2>2. ASSUME NEW s \in Sems PROVE Waiting(s) = << >>
    <3>1. PICK q : Lists(q, s) /\ Len(q) = QLength(s)
      BY CountsInit DEF Counts
    <3>2. counter[s] \in Nat /\ ~Waking(s) /\ ~Joining(s)
      BY SemAssumption DEF SemInit, Waking, Joining
    <3>3. q = << >>
      BY <3>1, <3>2, NoPlaces DEF Lists, QLength, Owed
    <3> QED
      BY <3>1, <3>3, ListIsRead
  <2> QED
    BY <2>1, <2>2 DEF Abs!Init, Positive
<1>2. Reads
  BY ListIsRead DEF Reads
<1>3. QueueInv /\ Reads /\ Reads' /\ [SemNext]_vars => [Abs!Next]_Abs!absVars
  BY StepRefines DEF Abs!absVars, Positive, Queue
<1> QED
  BY <1>1, <1>2, <1>3, QueueInvariant, PTL DEF SemSpec, ImplementsAbsSem, Abs!Spec
=============================================================================

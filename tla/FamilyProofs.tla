---------------------------- MODULE FamilyProofs ----------------------------
(* Parents, children and the pcbs they are given, for every number of processes. *)
EXTENDS Family, FiniteSetTheorems, WellFoundedInduction, TLAPS

\* A set of naturals has a least element: the only induction these proofs need.
LEMMA LeastElement ==
    ASSUME NEW T \in SUBSET Nat, T # {}
    PROVE  \E n \in T : \A m \in T : ~(m < n)
<1>1. PICK n \in T : \A m \in T : <<m, n>> \notin OpToRel(<, Nat)
  BY NatLessThanWellFounded, WFMin
<1>2. \A m \in T : m < n => <<m, n>> \in OpToRel(<, Nat)
  BY DEF OpToRel
<1> QED
  BY <1>1, <1>2

LEMMA UpTo == ASSUME NEW n \in Nat PROVE IsFiniteSet(1 .. n) /\ Cardinality(1 .. n) = n
<1>1. 1 \in Int /\ n \in Int
  OBVIOUS
<1>2. IsFiniteSet(1 .. n) /\ Cardinality(1 .. n) = IF 1 > n THEN 0 ELSE n - 1 + 1
  BY <1>1, FS_Interval
<1> QED
  BY <1>2

\* Where the pcbs are: finitely many addresses, none of them null, kmain's the lowest.
LEMMA Addresses ==
    /\ IsFiniteSet(Pcb) /\ Cardinality(Pcb) \in Nat
    /\ kmain \in Pcb /\ Pcb \subseteq Nat /\ None \notin Pcb
    /\ MaxPid \in Nat /\ MaxPid > 0 /\ NbPcbs \in Nat /\ NbPcbs > 0
    /\ \A q \in Pcb : q >= kmain
    /\ kmain \in Nat /\ kmain > 0 /\ kernel_heap_start = kmain + 1
<1>1. MaxPid \in Nat /\ MaxPid > 0 /\ NbPcbs \in Nat /\ NbPcbs > 0
  BY FamilyAssumption
<1>2. kmain \in Nat /\ kmain > 0 /\ kernel_heap_start = kmain + 1
  BY <1>1 DEF kmain, kernel_heap_start
<1>3. IsFiniteSet(Pcb)
  <2>1. kmain \in Int /\ kmain + NbPcbs \in Int
    BY <1>1, <1>2
  <2> QED
    BY <2>1, FS_Interval DEF Pcb
<1>4. Cardinality(Pcb) \in Nat
  BY <1>3, FS_CardinalityType
<1> QED
  BY <1>1, <1>2, <1>3, <1>4 DEF Pcb, None

-----------------------------------------------------------------------------
(* What one meets along a link.                                            *)

\* w is the walk from p along link, as the definition of Along takes it.
Walk(w, link, p) ==
    w = [n \in 0 .. Cardinality(Pcb) |->
            IF n = 0 THEN p ELSE IF w[n - 1] \in Pcb THEN link[w[n - 1]] ELSE None]

LEMMA WalkExists == \A link, p : \E w : Walk(w, link, p)
<1> SUFFICES ASSUME NEW link, NEW p PROVE \E w : Walk(w, link, p)
  OBVIOUS
<1> DEFINE K == Cardinality(Pcb)
           Go(q) == IF q \in Pcb THEN link[q] ELSE None
           To(n, w) == w = [m \in 0 .. n |-> IF m = 0 THEN p ELSE Go(w[m - 1])]
           without == {n \in 0 .. K : \A w : ~To(n, w)}
<1>1. K \in Nat
  BY Addresses
<1> HIDE DEF K, Go
<1>2. without = {}
  <2> SUFFICES ASSUME without # {} PROVE FALSE
    OBVIOUS
  <2>1. PICK n \in without : \A m \in without : ~(m < n)
    <3>1. without \in SUBSET Nat
      BY <1>1
    <3> HIDE DEF without
    <3> QED
      BY <3>1, LeastElement
  <2>2. n # 0
    <3> DEFINE v == [m \in 0 .. 0 |-> p]
    <3>1. v = [m \in 0 .. 0 |-> IF m = 0 THEN p ELSE Go(v[m - 1])]
      OBVIOUS
    <3> HIDE DEF v
    <3> QED
      BY <2>1, <3>1
  <2>3. PICK v : To(n - 1, v)
    <3>1. n - 1 \in 0 .. K /\ n - 1 < n
      BY <1>1, <2>1, <2>2
    <3> HIDE DEF To
    <3> QED
      BY <2>1, <3>1
  <2> DEFINE w == [m \in 0 .. n |-> IF m = n THEN Go(v[n - 1]) ELSE v[m]]
  <2>4. To(n, w)
    <3> SUFFICES ASSUME NEW m \in 0 .. n
                 PROVE  w[m] = IF m = 0 THEN p ELSE Go(w[m - 1])
      OBVIOUS
    <3>1. n \in Nat /\ n > 0
      BY <1>1, <2>1, <2>2
    <3>2. CASE m = n
      BY <3>1, <3>2
    <3>3. CASE m # n
      <4>1. m \in 0 .. n - 1 /\ (m # 0 => m - 1 \in 0 .. n /\ m - 1 # n)
        BY <3>1, <3>3
      <4>2. v[m] = IF m = 0 THEN p ELSE Go(v[m - 1])
        BY <2>3, <4>1
      <4> QED
        BY <3>3, <4>1, <4>2
    <3> QED
      BY <3>2, <3>3
  <2> QED
    BY <2>1, <2>4
<1>3. K \in 0 .. K
  BY <1>1
<1>4. \E w : To(K, w)
  BY <1>2, <1>3
<1> QED
  BY <1>4 DEF K, Go, Walk

\* What Along gathers are the non-null places of a walk.
LEMMA AlongWalks ==
    ASSUME NEW link, NEW p
    PROVE  \E w : Walk(w, link, p) /\ Along(link, p) = {w[n] : n \in 0 .. Cardinality(Pcb)} \ {None}
<1> DEFINE walk[n \in 0 .. Cardinality(Pcb)] ==
            IF n = 0 THEN p ELSE IF walk[n - 1] \in Pcb THEN link[walk[n - 1]] ELSE None
<1>1. Walk(walk, link, p)
  <2>1. PICK w : Walk(w, link, p)
    BY WalkExists
  <2> QED
    BY <2>1 DEF Walk
<1>2. Along(link, p) = {walk[n] : n \in 0 .. Cardinality(Pcb)} \ {None}
  BY DEF Along
<1>3. PICK w : w = walk
  OBVIOUS
<1>4. Walk(w, link, p)
  BY <1>1, <1>3
<1>5. Along(link, p) = {w[n] : n \in 0 .. Cardinality(Pcb)} \ {None}
  BY <1>2, <1>3
<1> QED
  BY <1>4, <1>5

\* The places of a walk.
LEMMA WalkPlaces ==
    ASSUME NEW link, NEW p, NEW w, Walk(w, link, p)
    PROVE  /\ w[0] = p
           /\ \A n \in 0 .. Cardinality(Pcb) : n # 0 =>
                /\ n - 1 \in 0 .. Cardinality(Pcb)
                /\ w[n] = IF w[n - 1] \in Pcb THEN link[w[n - 1]] ELSE None
<1> DEFINE K == Cardinality(Pcb)
<1>1. K \in Nat
  BY Addresses
<1>2. w = [n \in 0 .. K |-> IF n = 0 THEN p ELSE IF w[n - 1] \in Pcb THEN link[w[n - 1]] ELSE None]
  BY DEF Walk
<1> HIDE DEF K
<1>3. 0 \in 0 .. K /\ \A n \in 0 .. K : n # 0 => n - 1 \in 0 .. K
  BY <1>1
<1>4. w[0] = p /\ \A n \in 0 .. K : n # 0 => w[n] = IF w[n - 1] \in Pcb THEN link[w[n - 1]] ELSE None
  BY <1>2, <1>3
<1> QED
  BY <1>3, <1>4 DEF K

\* A walk does not leave a set the link does not lead out of.
LEMMA AlongInside ==
    ASSUME NEW link, NEW V \in SUBSET Pcb, NEW p \in V \cup {None},
           \A q \in V : link[q] \in V \cup {None}
    PROVE  Along(link, p) \subseteq V
<1>1. PICK w : Walk(w, link, p) /\ Along(link, p) = {w[n] : n \in 0 .. Cardinality(Pcb)} \ {None}
  BY AlongWalks
<1> DEFINE K == Cardinality(Pcb)
           outside == {n \in 0 .. K : w[n] \notin V \cup {None}}
<1>2. outside = {}
  <2> SUFFICES ASSUME outside # {} PROVE FALSE
    OBVIOUS
  <2>1. PICK n \in outside : \A m \in outside : ~(m < n)
    <3>1. outside \in SUBSET Nat
      BY Addresses
    <3> HIDE DEF outside
    <3> QED
      BY <3>1, LeastElement
  <2>2. n # 0
    BY <1>1, <2>1, WalkPlaces
  <2>3. n - 1 \in 0 .. K /\ w[n] = IF w[n - 1] \in Pcb THEN link[w[n - 1]] ELSE None
    BY <1>1, <2>1, <2>2, WalkPlaces
  <2>4. n - 1 < n
    BY <2>1, Addresses
  <2>5. w[n - 1] \in V \cup {None}
    BY <2>1, <2>3, <2>4
  <2> QED
    BY <2>1, <2>3, <2>5, Addresses
<1> QED
  BY <1>1, <1>2

\* A walk of pcbs as long as the process table comes back to where it was.
LEMMA WalkReturns ==
    ASSUME NEW K \in Nat, K = Cardinality(Pcb), NEW w \in [0 .. K -> Pcb]
    PROVE  \E i, j \in 0 .. K : i < j /\ w[i] = w[j]
<1> SUFFICES ASSUME \A i, j \in 0 .. K : i < j => w[i] # w[j] PROVE FALSE
  OBVIOUS
<1> DEFINE f == [n \in 1 .. K + 1 |-> w[n - 1]]
<1>1. f \in [1 .. K + 1 -> Pcb]
  BY SMT
<1>2. \A m, n \in 1 .. K + 1 : f[m] = f[n] => m = n
  <2> SUFFICES ASSUME NEW m \in 1 .. K + 1, NEW n \in 1 .. K + 1, f[m] = f[n], m # n PROVE FALSE
    OBVIOUS
  <2>1. m - 1 \in 0 .. K /\ n - 1 \in 0 .. K /\ (m - 1 < n - 1 \/ n - 1 < m - 1)
    BY SMT
  <2> QED
    BY <2>1
<1> HIDE DEF f
<1>3. f \in Injection(1 .. K + 1, Pcb)
  BY <1>1, <1>2 DEF Injection, IsInjective
<1>4. IsFiniteSet(1 .. K + 1) /\ Cardinality(1 .. K + 1) = K + 1
  BY UpTo
<1>5. K + 1 <= K
  BY <1>3, <1>4, Addresses, FS_Injection
<1> QED
  BY <1>5

\* What a walk meets is closed under the link.
LEMMA AlongCloses ==
    ASSUME NEW link, NEW V \in SUBSET Pcb, NEW p \in V,
           \A q \in V : link[q] \in V \cup {None}
    PROVE  /\ p \in Along(link, p)
           /\ \A q \in Along(link, p) : link[q] \in Along(link, p) \cup {None}
<1>1. PICK w : Walk(w, link, p) /\ Along(link, p) = {w[n] : n \in 0 .. Cardinality(Pcb)} \ {None}
  BY AlongWalks
<1> DEFINE K == Cardinality(Pcb)
<1>2. K \in Nat /\ None \notin Pcb
  BY Addresses
<1>3. w[0] = p /\ \A n \in 0 .. K : n # 0 =>
          n - 1 \in 0 .. K /\ w[n] = IF w[n - 1] \in Pcb THEN link[w[n - 1]] ELSE None
  BY <1>1, WalkPlaces
<1>4. Along(link, p) \subseteq V
  BY AlongInside
<1>5. Along(link, p) = {w[n] : n \in 0 .. K} \ {None}
  BY <1>1
<1> HIDE DEF K
<1>6. ASSUME NEW n \in 0 .. K, n # K, w[n] \in Pcb PROVE link[w[n]] \in Along(link, p) \cup {None}
  <2>1. n + 1 \in 0 .. K /\ n + 1 # 0 /\ (n + 1) - 1 = n
    BY <1>2, <1>6
  <2>2. w[n + 1] = link[w[n]]
    BY <1>3, <1>6, <2>1
  <2> QED
    BY <1>5, <2>1, <2>2
<1>7. ASSUME w[K] \in Pcb PROVE \E n \in 0 .. K : n # K /\ w[n] = w[K]
  <2>1. \A n \in 0 .. K : w[n] \in Pcb
    <3> DEFINE ended == {n \in 0 .. K : w[K - n] \notin Pcb}
    <3>1. ended = {}
      <4> SUFFICES ASSUME ended # {} PROVE FALSE
        OBVIOUS
      <4>1. PICK n \in ended : \A m \in ended : ~(m < n)
        <5>1. ended \in SUBSET Nat
          BY <1>2
        <5> HIDE DEF ended
        <5> QED
          BY <5>1, LeastElement
      <4>2. n # 0
        BY <1>2, <1>7, <4>1
      <4>3. /\ n - 1 \in 0 .. K /\ n - 1 < n
            /\ K - (n - 1) \in 0 .. K /\ K - (n - 1) # 0 /\ (K - (n - 1)) - 1 = K - n
        BY <1>2, <4>1, <4>2
      <4>4. w[K - (n - 1)] = None
        BY <1>3, <4>1, <4>3
      <4> QED
        BY <1>2, <4>1, <4>3, <4>4
    <3>2. ASSUME NEW n \in 0 .. K PROVE w[n] \in Pcb
      <4>1. K - n \in 0 .. K /\ K - (K - n) = n
        BY <1>2
      <4> QED
        BY <3>1, <4>1
    <3> QED
      BY <3>2
  <2>2. w \in [0 .. K -> Pcb]
    <3>1. w = [n \in 0 .. K |-> w[n]]
      BY <1>1 DEF Walk, K
    <3> QED
      BY <2>1, <3>1
  <2>3. PICK i, j \in 0 .. K : i < j /\ w[i] = w[j]
    BY <1>2, <2>2, WalkReturns DEF K
  <2> DEFINE W == {w[n] : n \in 0 .. j - 1}
  <2>4. \A q \in W : link[q] \in W \cup {None}
    <3> SUFFICES ASSUME NEW n \in 0 .. j - 1 PROVE link[w[n]] \in W
      OBVIOUS
    <3>1. /\ n + 1 \in 0 .. K /\ n + 1 # 0 /\ (n + 1) - 1 = n /\ n \in 0 .. K
          /\ n + 1 \in 0 .. j - 1 \/ n + 1 = j
      BY <1>2, <2>3
    <3>2. w[n + 1] = link[w[n]]
      BY <1>3, <2>1, <3>1
    <3>3. i \in 0 .. j - 1
      BY <1>2, <2>3
    <3> QED
      BY <2>3, <3>1, <3>2, <3>3
  <2>5. W \in SUBSET Pcb /\ p \in W
    <3>1. 0 \in 0 .. j - 1 /\ \A n \in 0 .. j - 1 : n \in 0 .. K
      BY <1>2, <2>3
    <3> QED
      BY <1>3, <2>1, <3>1
  <2>6. Along(link, p) \subseteq W
    <3> HIDE DEF W
    <3> QED
      BY <2>4, <2>5, AlongInside
  <2>7. K \in 0 .. K /\ w[K] \in Along(link, p)
    BY <1>2, <1>5, <1>7
  <2>8. PICK n \in 0 .. j - 1 : w[n] = w[K]
    BY <2>6, <2>7
  <2>9. n \in 0 .. K /\ n # K
    BY <1>2, <2>3, <2>8
  <2> QED
    BY <2>8, <2>9
<1>8. p \in Along(link, p)
  <2>1. 0 \in 0 .. K /\ p # None
    BY <1>2
  <2> QED
    BY <1>3, <1>5, <2>1
<1>9. ASSUME NEW q \in Along(link, p) PROVE link[q] \in Along(link, p) \cup {None}
  <2>1. PICK n \in 0 .. K : w[n] = q
    BY <1>5
  <2>2. q \in Pcb
    BY <1>4
  <2> QED
    BY <1>6, <1>7, <2>1, <2>2
<1> QED
  BY <1>8, <1>9

\* A set that the link does not lead out of, and no smaller one, is what the walk meets.
LEMMA AlongIs ==
    ASSUME NEW link, NEW V \in SUBSET Pcb, NEW p \in V,
           \A q \in V : link[q] \in V \cup {None},
           \A W \in SUBSET V : p \in W /\ (\A q \in W : link[q] \in W \cup {None}) => W = V
    PROVE  Along(link, p) = V
<1>1. PICK W : W = Along(link, p)
  OBVIOUS
<1>2. W \subseteq V
  BY <1>1, AlongInside
<1>3. p \in W /\ \A q \in W : link[q] \in W \cup {None}
  BY <1>1, AlongCloses
<1>4. W \in SUBSET V
  BY <1>2
<1>5. W = V
  BY <1>3, <1>4
<1> QED
  BY <1>1, <1>5

LEMMA AlongNothing == ASSUME NEW link PROVE Along(link, None) = {}
<1>1. PICK V : V = {}
  OBVIOUS
<1>2. V \in SUBSET Pcb /\ None \in V \cup {None} /\ \A q \in V : link[q] \in V \cup {None}
  BY <1>1
<1>3. Along(link, None) \subseteq V
  BY <1>2, AlongInside
<1> QED
  BY <1>1, <1>3

-----------------------------------------------------------------------------
(* Child lists.  They are in the order the children were created in, so that the set of *)
(* the children says what every link of the list must be.                               *)

\* a and the links b list the set V in the order of the keys k.
Chain(V, a, b, k) ==
    /\ IF a = None THEN V = {} ELSE a \in V /\ \A r \in V : k[a] <= k[r]
    /\ \A q \in V :
        IF b[q] = None THEN \A r \in V : k[r] <= k[q]
        ELSE /\ b[q] \in V /\ k[q] < k[b[q]]
             /\ \A r \in V : k[r] <= k[q] \/ k[b[q]] <= k[r]

\* The keys of V are numbers and tell its members apart.
Keyed(V, k) ==
    /\ \A q \in V : k[q] \in Nat
    /\ \A q, r \in V : k[q] = k[r] => q = r

LEMMA ChainSame ==
    ASSUME NEW V, NEW a, NEW b, NEW k, Chain(V, a, b, k), NEW bb, NEW kk,
           \A q \in V : bb[q] = b[q] /\ kk[q] = k[q]
    PROVE  Chain(V, a, bb, kk)
<1>1. IF a = None THEN V = {} ELSE a \in V /\ \A r \in V : kk[a] <= kk[r]
  BY DEF Chain
<1>2. ASSUME NEW q \in V
      PROVE  IF bb[q] = None THEN \A r \in V : kk[r] <= kk[q]
             ELSE /\ bb[q] \in V /\ kk[q] < kk[bb[q]]
                  /\ \A r \in V : kk[r] <= kk[q] \/ kk[bb[q]] <= kk[r]
  <2>1. CASE b[q] = None
    BY <2>1 DEF Chain
  <2>2. CASE b[q] # None
    <3>1. /\ b[q] \in V /\ k[q] < k[b[q]]
          /\ \A r \in V : k[r] <= k[q] \/ k[b[q]] <= k[r]
      BY <2>2 DEF Chain
    <3> QED
      BY <2>2, <3>1
  <2> QED
    BY <2>1, <2>2
<1> QED
  BY <1>1, <1>2 DEF Chain

\* A list of one.
LEMMA ChainOne ==
    ASSUME NEW n, n # None, NEW b, b[n] = None, NEW k, k[n] \in Nat
    PROVE  Chain({n}, n, b, k)
  BY DEF Chain

\* Appending one with a larger key behind the last one.
LEMMA ChainAppend ==
    ASSUME NEW V, NEW a, NEW b, NEW k, Chain(V, a, b, k), Keyed(V, k),
           NEW last \in V, b[last] = None, NEW n, n \notin V, n # None,
           NEW bb, bb[last] = n, bb[n] = None, \A q \in V : q # last => bb[q] = b[q],
           NEW kk, kk[n] \in Nat, \A q \in V : kk[q] = k[q] /\ k[q] < kk[n]
    PROVE  Chain(V \cup {n}, a, bb, kk)
<1> DEFINE U == V \cup {n}
<1>1. a # None /\ a \in V /\ \A r \in U : kk[a] <= kk[r]
  <2>1. a # None /\ a \in V /\ \A r \in V : k[a] <= k[r]
    BY DEF Chain
  <2> QED
    BY <2>1 DEF Keyed
<1>2. ASSUME NEW q \in U
      PROVE  IF bb[q] = None THEN \A r \in U : kk[r] <= kk[q]
             ELSE /\ bb[q] \in U /\ kk[q] < kk[bb[q]]
                  /\ \A r \in U : kk[r] <= kk[q] \/ kk[bb[q]] <= kk[r]
  <2>1. CASE q = n
    BY <2>1 DEF Keyed
  <2>2. CASE q = last
    <3>1. \A r \in V : k[r] <= k[last]
      BY DEF Chain
    <3> QED
      BY <2>2, <3>1 DEF Keyed
  <2>3. CASE q # n /\ q # last
    <3>1. b[q] # None
      <4>1. ASSUME b[q] = None PROVE FALSE
        <5>1. k[q] <= k[last] /\ k[last] <= k[q]
          BY <2>3, <4>1 DEF Chain
        <5> QED
          BY <2>3, <5>1 DEF Keyed
      <4> QED
        BY <4>1
    <3>2. /\ b[q] \in V /\ k[q] < k[b[q]]
          /\ \A r \in V : k[r] <= k[q] \/ k[b[q]] <= k[r]
      BY <2>3, <3>1 DEF Chain
    <3>3. q \in V /\ bb[q] = b[q] /\ kk[b[q]] < kk[n]
      BY <2>3, <3>2
    <3>4. \A r \in U : kk[r] <= kk[q] \/ kk[b[q]] <= kk[r]
      BY <3>2, <3>3 DEF Keyed
    <3> QED
      BY <3>1, <3>2, <3>3, <3>4
  <2> QED
    BY <2>1, <2>2, <2>3
<1> QED
  BY <1>1, <1>2 DEF Chain

\* Taking out the first.
LEMMA ChainWithoutFirst ==
    ASSUME NEW V, NEW a, NEW b, NEW k, Chain(V, a, b, k), Keyed(V, k), a # None
    PROVE  Chain(V \ {a}, b[a], b, k)
<1> DEFINE U == V \ {a}
<1>1. a \in V /\ \A r \in V : k[a] <= k[r]
  BY DEF Chain
<1>2. IF b[a] = None THEN U = {} ELSE b[a] \in U /\ \A r \in U : k[b[a]] <= k[r]
  <2>1. CASE b[a] = None
    <3>1. \A r \in V : k[r] <= k[a]
      BY <1>1, <2>1 DEF Chain
    <3> QED
      BY <1>1, <2>1, <3>1 DEF Keyed
  <2>2. CASE b[a] # None
    <3>1. /\ b[a] \in V /\ k[a] < k[b[a]]
          /\ \A r \in V : k[r] <= k[a] \/ k[b[a]] <= k[r]
      BY <1>1, <2>2 DEF Chain
    <3> QED
      BY <1>1, <2>2, <3>1 DEF Keyed
  <2> QED
    BY <2>1, <2>2
<1>3. ASSUME NEW q \in U
      PROVE  IF b[q] = None THEN \A r \in U : k[r] <= k[q]
             ELSE /\ b[q] \in U /\ k[q] < k[b[q]]
                  /\ \A r \in U : k[r] <= k[q] \/ k[b[q]] <= k[r]
  <2>1. CASE b[q] = None
    BY <2>1 DEF Chain
  <2>2. CASE b[q] # None
    <3>1. /\ b[q] \in V /\ k[q] < k[b[q]]
          /\ \A r \in V : k[r] <= k[q] \/ k[b[q]] <= k[r]
      BY <2>2 DEF Chain
    <3>2. b[q] # a
      BY <1>1, <3>1 DEF Keyed
    <3> QED
      BY <2>2, <3>1, <3>2
  <2> QED
    BY <2>1, <2>2
<1> QED
  BY <1>2, <1>3 DEF Chain

\* Taking out another: the one before it gets its link.
LEMMA ChainWithout ==
    ASSUME NEW V, NEW a, NEW b, NEW k, Chain(V, a, b, k), Keyed(V, k),
           NEW x \in V, x # None, x # a, NEW prev \in V, b[prev] = x,
           NEW bb, bb[prev] = b[x], \A q \in V : q # prev => bb[q] = b[q]
    PROVE  Chain(V \ {x}, a, bb, k)
<1> DEFINE U == V \ {x}
<1>1. /\ k[prev] < k[x] /\ prev # x
      /\ \A r \in V : k[r] <= k[prev] \/ k[x] <= k[r]
  BY DEF Chain, Keyed
<1>2. a # None /\ a \in U /\ \A r \in U : k[a] <= k[r]
  BY DEF Chain
<1>3. ASSUME NEW q \in U
      PROVE  IF bb[q] = None THEN \A r \in U : k[r] <= k[q]
             ELSE /\ bb[q] \in U /\ k[q] < k[bb[q]]
                  /\ \A r \in U : k[r] <= k[q] \/ k[bb[q]] <= k[r]
  <2>1. CASE q = prev /\ b[x] = None
    <3>1. \A r \in V : k[r] <= k[x]
      BY <2>1 DEF Chain
    <3>2. \A r \in U : k[r] <= k[prev]
      BY <1>1, <3>1 DEF Keyed
    <3> QED
      BY <2>1, <3>2
  <2>2. CASE q = prev /\ b[x] # None
    <3>1. /\ b[x] \in V /\ k[x] < k[b[x]]
          /\ \A r \in V : k[r] <= k[x] \/ k[b[x]] <= k[r]
      BY <2>2 DEF Chain
    <3>2. b[x] \in U /\ k[prev] < k[b[x]]
      BY <1>1, <3>1 DEF Keyed
    <3>3. ASSUME NEW r \in U PROVE k[r] <= k[prev] \/ k[b[x]] <= k[r]
      <4>1. k[r] # k[x] /\ k[r] \in Nat /\ k[x] \in Nat /\ k[prev] \in Nat
        BY DEF Keyed
      <4>2. (k[r] <= k[prev] \/ k[x] <= k[r]) /\ (k[r] <= k[x] \/ k[b[x]] <= k[r])
        BY <1>1, <3>1
      <4> QED
        BY <4>1, <4>2
    <3> QED
      BY <2>2, <3>2, <3>3
  <2>3. CASE q # prev /\ b[q] = None
    BY <2>3 DEF Chain
  <2>4. CASE q # prev /\ b[q] # None
    <3>1. /\ b[q] \in V /\ k[q] < k[b[q]]
          /\ \A r \in V : k[r] <= k[q] \/ k[b[q]] <= k[r]
      BY <2>4 DEF Chain
    <3>2. b[q] # x
      <4>1. ASSUME b[q] = x PROVE FALSE
        <5>1. k[q] <= k[prev] \/ k[x] <= k[q]
          BY <1>1
        <5>2. k[prev] <= k[q] \/ k[x] <= k[prev]
          BY <3>1, <4>1
        <5>3. k[q] \in Nat /\ k[prev] \in Nat /\ k[x] \in Nat /\ k[q] # k[prev]
          BY <2>4 DEF Keyed
        <5> QED
          BY <1>1, <3>1, <4>1, <5>1, <5>2, <5>3
      <4> QED
        BY <4>1
    <3> QED
      BY <2>4, <3>1, <3>2
  <2> QED
    BY <2>1, <2>2, <2>3, <2>4
<1> QED
  BY <1>2, <1>3 DEF Chain

\* The walk along a list meets the whole set: it cannot step over a key.
LEMMA ChainIsMet ==
    ASSUME NEW V \in SUBSET Pcb, NEW a, NEW b, NEW k, Chain(V, a, b, k), Keyed(V, k)
    PROVE  Along(b, a) = V
<1>1. CASE a = None
  BY <1>1, AlongNothing DEF Chain
<1>2. CASE a # None
  <2>1. a \in V /\ \A r \in V : k[a] <= k[r]
    BY <1>2 DEF Chain
  <2>2. \A q \in V : b[q] \in V \cup {None}
    BY DEF Chain
  <2>3. ASSUME NEW W \in SUBSET V, a \in W, \A q \in W : b[q] \in W \cup {None}, V \ W # {}
        PROVE  FALSE
    <3>1. PICK r \in V \ W : TRUE
      BY <2>3
    \* Of the members of W before r, the last one.
    <3> DEFINE T == {k[r] - k[q] : q \in {u \in W : k[u] < k[r]}}
    <3>2. \A q \in W : k[q] \in Nat /\ k[q] # k[r] /\ k[r] \in Nat
      BY <2>3, <3>1 DEF Keyed
    <3>3. T \in SUBSET Nat
      BY <3>2
    <3>4. k[a] < k[r]
      BY <2>1, <2>3, <3>1, <3>2
    <3>5. T # {}
      BY <2>3, <3>4
    <3>6. PICK d \in T : \A m \in T : ~(m < d)
      <4> HIDE DEF T
      <4> QED
        BY <3>3, <3>5, LeastElement
    <3>7. PICK q \in W : k[q] < k[r] /\ d = k[r] - k[q]
      BY <3>6
    <3>8. b[q] # None
      <4>1. q \in V /\ ~(k[r] <= k[q])
        BY <3>2, <3>7
      <4> QED
        BY <3>1, <4>1 DEF Chain
    <3>9. /\ b[q] \in W /\ k[q] < k[b[q]]
          /\ k[r] <= k[q] \/ k[b[q]] <= k[r]
      BY <2>3, <3>1, <3>8 DEF Chain
    <3>10. k[b[q]] < k[r]
      BY <3>2, <3>7, <3>9
    <3>11. k[r] - k[b[q]] \in T /\ k[r] - k[b[q]] < d
      BY <3>2, <3>7, <3>9, <3>10
    <3> QED
      BY <3>6, <3>11
  <2>4. \A W \in SUBSET V : a \in W /\ (\A q \in W : b[q] \in W \cup {None}) => W = V
    BY <2>3
  <2> QED
    BY <2>1, <2>2, <2>4, AlongIs
<1> QED
  BY <1>1, <1>2

-----------------------------------------------------------------------------
(* The invariant.                                                          *)

\* The pcbs p has to wait for, and those that wait for nobody yet.
Kids(p) == {q \in InUse \ {kmain} : parent[q] = pid[p]}

\* S lists the n free blocks from the one freed first to the one kAlloc takes next.
Threads(n, S) ==
    /\ S \in [1 .. n -> kernel_heap_start .. kernel_heap_top - 1]
    /\ \A i, j \in 1 .. n : S[i] = S[j] => i = j
    /\ freelist = IF n = 0 THEN None ELSE S[n]
    /\ \A i \in 1 .. n : pid[S[i]] = IF i = 1 THEN None ELSE S[i - 1]

Stacked == \E n \in Nat : \E S : Threads(n, S)

\* The pids of the pcbs in use are their owners', younger than their creators'.
Pids ==
    /\ pid[kmain] = 0
    /\ \A q \in InUse : pid[q] < pid_counter
    /\ \A q, r \in InUse : pid[q] = pid[r] => q = r
    /\ \A q \in InUse \ {kmain} : parent[q] < pid[q]

\* A pcb in use belongs to a process of the list or to a zombie whose parent is there.
Members ==
    /\ kmain \in linked /\ linked \subseteq InUse
    /\ \A q \in linked : status[q] = "READY"
    /\ \A q \in InUse \ linked :
        /\ status[q] = "TERMINATED"
        /\ [pid |-> pid[q], parent |-> parent[q], code |-> return_code[q]] \in exits
        /\ \E p \in linked \ {kmain} : parent[q] = pid[p]

ChildLists == \A p \in linked \ {kmain} : Chain(Kids(p), child[p], brother, pid)

\* Where do_sys_waitpid is.
Waits ==
    /\ waiter = None => ~found
    /\ waiter # None =>
        /\ waiter \in linked \ {kmain} /\ process_waiting_for \in Kids(waiter)
        /\ found => status[process_waiting_for] = "TERMINATED"
        /\ wanted # Any =>
            /\ wanted = pid[process_waiting_for]
            /\ \/ process_waiting_for = child[waiter]
               \/ /\ previous_waiting \in Kids(waiter)
                  /\ brother[previous_waiting] = process_waiting_for

\* Unless processes fork, there is kmain with its children.
Early == kernel # "forks" => waiter = None /\ \A q \in InUse \ {kmain} : parent[q] = 0

\* Wherever one follows brothers, also of pcbs that are free, one leaves every set of pcbs.
Ends == \A V \in SUBSET Pcb : V # {} => \E q \in V : brother[q] \notin V

FamInv == /\ FamilyTypeOK /\ Stacked /\ Pids /\ Members /\ ChildLists /\ PpidIsAlive
          /\ Waits /\ Early /\ Ends /\ AnswersAreTrue

-----------------------------------------------------------------------------
(* The heap.                                                               *)

\* The blocks from the start to the top are pcbs, and kmain's is not one of them.
LEMMA HeapIsPcbs ==
    ASSUME FamilyTypeOK
    PROVE  /\ kernel_heap_start .. kernel_heap_top - 1 \subseteq Pcb \ {kmain}
           /\ kmain .. kernel_heap_top - 1 = {kmain} \cup (kernel_heap_start .. kernel_heap_top - 1)
           /\ kernel_heap_top \in Nat /\ kernel_heap_top > kmain
<1>1. kernel_heap_top \in kernel_heap_start .. kmain + NbPcbs + 1
  BY DEF FamilyTypeOK
<1>2. kmain \in Nat /\ kernel_heap_start = kmain + 1 /\ NbPcbs \in Nat
  BY Addresses
<1>3. Pcb = kmain .. kmain + NbPcbs
  BY DEF Pcb
<1> QED
  BY <1>1, <1>2, <1>3

LEMMA FamTypes ==
    ASSUME FamInv
    PROVE  /\ InUse \subseteq Pcb /\ linked \subseteq InUse /\ kmain \in InUse
           /\ \A q \in InUse : pid[q] \in Nat /\ pid[q] < pid_counter /\ pid[q] < MaxPid
           /\ \A q \in Pcb : parent[q] \in Nat
           /\ pid_counter \in Nat /\ MaxPid \in Nat /\ None \notin Pcb
           /\ \A p : Kids(p) \subseteq InUse \ {kmain} /\ Keyed(Kids(p), pid)
<1>1. InUse \subseteq Pcb
  BY HeapIsPcbs, Addresses DEF FamInv, InUse
<1>2. \A p : Kids(p) \subseteq InUse \ {kmain}
  BY DEF Kids
<1>3. pid \in [Pcb -> Nat] /\ parent \in [Pcb -> 0 .. MaxPid] /\ pid_counter \in 1 .. MaxPid /\ MaxPid \in Nat
  BY Addresses DEF FamInv, FamilyTypeOK
<1>4. \A q \in InUse : pid[q] \in Nat /\ pid[q] < pid_counter /\ pid[q] < MaxPid
  BY <1>1, <1>3 DEF FamInv, Pids
<1>5. \A p : Keyed(Kids(p), pid)
  BY <1>2, <1>4 DEF Keyed, FamInv, Pids
<1> QED
  BY <1>1, <1>2, <1>3, <1>4, <1>5, Addresses DEF FamInv, Members

\* The free list meets exactly the blocks threaded on it.
LEMMA FreeIsThreaded ==
    ASSUME FamilyTypeOK, NEW n \in Nat, NEW S, Threads(n, S)
    PROVE  Free = {S[i] : i \in 1 .. n}
<1> DEFINE V == {S[i] : i \in 1 .. n}
<1>1. V \in SUBSET Pcb /\ None \notin Pcb
  BY HeapIsPcbs, Addresses DEF Threads
<1>2. CASE n = 0
  <2>1. freelist = None /\ V = {}
    BY <1>2 DEF Threads
  <2> QED
    BY <2>1, AlongNothing DEF Free
<1>3. CASE n # 0
  <2>1. freelist = S[n] /\ n \in 1 .. n
    BY <1>3 DEF Threads
  <2>2. ASSUME NEW i \in 1 .. n PROVE pid[S[i]] \in V \cup {None}
    <3>1. i = 1 \/ i - 1 \in 1 .. n
      OBVIOUS
    <3> QED
      BY <3>1 DEF Threads
  <2>3. ASSUME NEW W \in SUBSET V, freelist \in W, \A q \in W : pid[q] \in W \cup {None}, W # V
        PROVE  FALSE
    <3> DEFINE T == {d \in 0 .. n - 1 : S[n - d] \notin W}
    <3>1. T # {}
      <4>1. PICK i \in 1 .. n : S[i] \notin W
        BY <2>3
      <4>2. n - i \in 0 .. n - 1 /\ n - (n - i) = i
        OBVIOUS
      <4> QED
        BY <4>1, <4>2
    <3>2. PICK d \in T : \A m \in T : ~(m < d)
      <4>1. T \in SUBSET Nat
        OBVIOUS
      <4> HIDE DEF T
      <4> QED
        BY <3>1, <4>1, LeastElement
    <3>3. d # 0
      BY <2>1, <2>3, <3>2
    <3>4. /\ d - 1 \in 0 .. n - 1 /\ d - 1 < d
          /\ n - (d - 1) \in 1 .. n /\ n - (d - 1) # 1 /\ (n - (d - 1)) - 1 = n - d /\ n - d \in 1 .. n
      BY <3>2, <3>3
    <3>5. S[n - (d - 1)] \in W
      BY <3>2, <3>4
    <3>6. pid[S[n - (d - 1)]] = S[n - d]
      BY <3>4 DEF Threads
    <3>7. S[n - d] \in V
      BY <3>4
    <3> QED
      BY <1>1, <2>3, <3>2, <3>5, <3>6, <3>7
  <2>4. \A W \in SUBSET V : freelist \in W /\ (\A q \in W : pid[q] \in W \cup {None}) => W = V
    BY <2>3
  <2>5. freelist \in V /\ \A q \in V : pid[q] \in V \cup {None}
    BY <2>1, <2>2
  <2> HIDE DEF V
  <2>6. Along(pid, freelist) = V
    BY <1>1, <2>4, <2>5, AlongIs
  <2> QED
    BY <2>6 DEF Free, V
<1> QED
  BY <1>2, <1>3

Spelled == \A n \in Nat : \A S : Threads(n, S) => Free = {S[i] : i \in 1 .. n}

LEMMA FreeSpelled == FamilyTypeOK => Spelled
  BY FreeIsThreaded DEF Spelled

LEMMA FreeSpelledNext == FamilyTypeOK' => Spelled'
  BY FreeSpelled, PTL

\* kAlloc hands out a pcb that nobody uses.
LEMMA AllocTakes ==
    ASSUME FamilyTypeOK, FamilyTypeOK', Stacked, NEW p \in Pcb, kAlloc(p),
           NEW c, pid' = [pid EXCEPT ![p] = c]
    PROVE  Stacked' /\ p \notin InUse /\ p # kmain /\ InUse' = InUse \cup {p}
<1>0. PICK n \in Nat : \E S : Threads(n, S)
  BY DEF Stacked
<1>1. PICK S : Threads(n, S)
  BY <1>0
<1>2. Free = {S[i] : i \in 1 .. n}
  BY <1>1, FreeIsThreaded
<1>t. pid \in [Pcb -> Nat]
  BY DEF FamilyTypeOK
<1>h. /\ kernel_heap_start .. kernel_heap_top - 1 \subseteq Pcb \ {kmain}
      /\ kmain .. kernel_heap_top - 1 = {kmain} \cup (kernel_heap_start .. kernel_heap_top - 1)
      /\ None \notin Pcb /\ kernel_heap_top \in Nat
      /\ kernel_heap_start \in Nat /\ kmain \in Nat /\ kernel_heap_top > kmain
      /\ kernel_heap_start = kmain + 1
  BY HeapIsPcbs, Addresses
<1>3. CASE freelist # None
  <2>1. n # 0 /\ n \in 1 .. n /\ p = S[n]
    BY <1>1, <1>3 DEF Threads, kAlloc
  <2>2. freelist' = pid[p] /\ kernel_heap_top' = kernel_heap_top
    BY <1>3 DEF kAlloc
  <2> DEFINE R == [i \in 1 .. n - 1 |-> S[i]]
  <2>3. \A i \in 1 .. n - 1 : R[i] = S[i] /\ S[i] # p /\ i \in 1 .. n /\ (i # 1 => i - 1 \in 1 .. n - 1)
    BY <2>1, <1>1 DEF Threads
  <2>4. Threads(n - 1, R)'
    <3>1. R \in [1 .. n - 1 -> kernel_heap_start .. kernel_heap_top' - 1]
      BY <2>2, <2>3, <1>1 DEF Threads
    <3>2. \A i, j \in 1 .. n - 1 : R[i] = R[j] => i = j
      BY <2>3, <1>1 DEF Threads
    <3>3. freelist' = IF n - 1 = 0 THEN None ELSE R[n - 1]
      <4>1. pid[S[n]] = IF n = 1 THEN None ELSE S[n - 1]
        BY <1>1, <2>1 DEF Threads
      <4>2. n = 1 \/ n - 1 \in 1 .. n - 1
        BY <2>1
      <4> QED
        BY <2>1, <2>2, <4>1, <4>2
    <3>4. ASSUME NEW i \in 1 .. n - 1 PROVE pid'[R[i]] = IF i = 1 THEN None ELSE R[i - 1]
      <4>1. pid[S[i]] = IF i = 1 THEN None ELSE S[i - 1]
        BY <2>3, <1>1 DEF Threads
      <4>2. S[i] \in Pcb /\ pid'[S[i]] = pid[S[i]]
        BY <2>3, <1>1, <1>h, <1>t DEF Threads
      <4> QED
        BY <2>3, <4>1, <4>2
    <3> HIDE DEF R
    <3> QED
      BY <3>1, <3>2, <3>3, <3>4 DEF Threads
  <2> HIDE DEF R
  <2>5. n - 1 \in Nat
    BY <2>1
  <2>6. Free' = {R[i] : i \in 1 .. n - 1}
    BY <2>4, <2>5, FreeSpelledNext DEF Spelled
  <2>7. Free' = Free \ {p} /\ p \in Free
    <3>1. \A i \in 1 .. n : i = n \/ i \in 1 .. n - 1
      BY <2>1
    <3> QED
      BY <1>2, <2>1, <2>3, <2>6, <3>1
  <2>8. p \in kernel_heap_start .. kernel_heap_top - 1
    BY <1>1, <2>1 DEF Threads
  <2> QED
    BY <2>2, <2>4, <2>5, <2>7, <2>8, <1>h DEF InUse, Stacked
<1>4. CASE freelist = None
  <2>1. n = 0
    <3>1. ASSUME n # 0 PROVE FALSE
      <4>1. n \in 1 .. n
        BY <3>1
      <4> QED
        BY <1>1, <1>4, <1>h, <3>1, <4>1 DEF Threads
    <3> QED
      BY <3>1
  <2>2. p = kernel_heap_top /\ kernel_heap_top' = kernel_heap_top + 1 /\ freelist' = freelist
    BY <1>4 DEF kAlloc
  <2>3. Threads(0, S)'
    BY <1>1, <2>1, <2>2 DEF Threads
  <2>4. Free' = {} /\ Free = {}
    <3>1. Free' = {S[i] : i \in 1 .. 0}
      BY <2>3, FreeSpelledNext DEF Spelled
    <3> QED
      BY <1>2, <2>1, <3>1
  <2>5. kmain .. kernel_heap_top' - 1 = (kmain .. kernel_heap_top - 1) \cup {p}
    BY <2>2, <1>h
  <2> QED
    BY <2>2, <2>3, <2>4, <2>5, <1>h DEF InUse, Stacked
<1> QED
  BY <1>3, <1>4

\* kFree puts a pcb in use at the head of the free list.
LEMMA FreeGives ==
    ASSUME FamilyTypeOK, FamilyTypeOK', Stacked, NEW p \in InUse \ {kmain},
           pid' = [pid EXCEPT ![p] = freelist], freelist' = p, UNCHANGED kernel_heap_top
    PROVE  Stacked' /\ InUse' = InUse \ {p}
<1>0. PICK n \in Nat : \E S : Threads(n, S)
  BY DEF Stacked
<1>1. PICK S : Threads(n, S)
  BY <1>0
<1>2. Free = {S[i] : i \in 1 .. n}
  BY <1>1, FreeIsThreaded
<1>t. pid \in [Pcb -> Nat]
  BY DEF FamilyTypeOK
<1>h. /\ kernel_heap_start .. kernel_heap_top - 1 \subseteq Pcb \ {kmain}
      /\ kmain .. kernel_heap_top - 1 = {kmain} \cup (kernel_heap_start .. kernel_heap_top - 1)
  BY HeapIsPcbs
<1>3. p \in kernel_heap_start .. kernel_heap_top - 1 /\ p \notin Free /\ p \in Pcb
  BY <1>h DEF InUse
<1> DEFINE R == [i \in 1 .. n + 1 |-> IF i = n + 1 THEN p ELSE S[i]]
<1>4. R[n + 1] = p /\ \A i \in 1 .. n : R[i] = S[i] /\ i \in 1 .. n + 1
  OBVIOUS
<1>5. \A i \in 1 .. n : S[i] # p /\ S[i] \in kernel_heap_start .. kernel_heap_top - 1 /\ S[i] \in Pcb
  BY <1>1, <1>2, <1>3, <1>h DEF Threads
<1>6. Threads(n + 1, R)'
  <2>1. R \in [1 .. n + 1 -> kernel_heap_start .. kernel_heap_top - 1]
    BY <1>3, <1>5
  <2>2. ASSUME NEW i \in 1 .. n + 1, NEW j \in 1 .. n + 1, R[i] = R[j] PROVE i = j
    <3>1. (i = n + 1 \/ i \in 1 .. n) /\ (j = n + 1 \/ j \in 1 .. n)
      OBVIOUS
    <3> HIDE DEF R
    <3> QED
      BY <1>1, <1>4, <1>5, <2>2, <3>1 DEF Threads
  <2>3. freelist' = IF n + 1 = 0 THEN None ELSE R[n + 1]
    BY <1>4
  <2>4. ASSUME NEW i \in 1 .. n + 1 PROVE pid'[R[i]] = IF i = 1 THEN None ELSE R[i - 1]
    <3>1. CASE i = n + 1
      <4>1. pid'[R[i]] = freelist
        BY <3>1, <1>4, <1>3, <1>t
      <4>2. freelist = IF n = 0 THEN None ELSE S[n]
        BY <1>1 DEF Threads
      <4>3. n = 0 \/ n \in 1 .. n
        OBVIOUS
      <4>4. (n + 1) - 1 = n
        OBVIOUS
      <4> HIDE DEF R
      <4> QED
        BY <3>1, <4>1, <4>2, <4>3, <4>4, <1>4
    <3>2. CASE i # n + 1
      <4>1. i \in 1 .. n /\ (i # 1 => i - 1 \in 1 .. n)
        BY <3>2
      <4>2. pid[S[i]] = IF i = 1 THEN None ELSE S[i - 1]
        BY <1>1, <4>1 DEF Threads
      <4>3. pid'[S[i]] = pid[S[i]]
        BY <1>5, <1>t, <4>1
      <4> HIDE DEF R
      <4> QED
        BY <1>4, <4>1, <4>2, <4>3
    <3> QED
      BY <3>1, <3>2
  <2> HIDE DEF R
  <2> QED
    BY <2>1, <2>2, <2>3, <2>4 DEF Threads
<1> HIDE DEF R
<1>7. Free' = {R[i] : i \in 1 .. n + 1}
  <2>1. n + 1 \in Nat
    OBVIOUS
  <2> QED
    BY <1>6, <2>1, FreeSpelledNext DEF Spelled
<1>8. Free' = Free \cup {p}
  <2>1. \A i \in 1 .. n + 1 : i = n + 1 \/ i \in 1 .. n
    OBVIOUS
  <2>2. n + 1 \in 1 .. n + 1
    OBVIOUS
  <2> QED
    BY <1>2, <1>4, <1>7, <2>1, <2>2
<1>9. n + 1 \in Nat
  OBVIOUS
<1> QED
  BY <1>6, <1>8, <1>9 DEF InUse, Stacked

\* Steps that leave the heap alone.
LEMMA HeapKept ==
    ASSUME UNCHANGED <<pid, heapVars>>
    PROVE  (Stacked => Stacked') /\ InUse' = InUse
  BY DEF heapVars, Stacked, Threads, InUse, Free

-----------------------------------------------------------------------------
(* The steps.                                                              *)

LEMMA FamInit == Init => FamInv
<1> SUFFICES ASSUME Init PROVE FamInv
  OBVIOUS
<1>1. FamilyTypeOK
  <2>1. kernel_heap_start \in kernel_heap_start .. kmain + NbPcbs + 1
    <3>1. kmain \in Nat /\ kernel_heap_start = kmain + 1 /\ NbPcbs \in Nat
      BY Addresses
    <3> QED
      BY <3>1
  <2>2. MaxPid \in Nat /\ MaxPid > 0 /\ kmain \in Pcb
    BY Addresses
  <2>3. return_code \in [Pcb -> Codes]
    <3>1. PICK c \in Codes : return_code = [p \in Pcb |-> c]
      BY DEF Init
    <3> QED
      BY <3>1
  <2>4. /\ pid \in [Pcb -> Nat] /\ ppid \in [Pcb -> Nat] /\ status \in [Pcb -> {"READY", "TERMINATED"}]
        /\ child \in [Pcb -> Pcb \cup {None}] /\ brother \in [Pcb -> Pcb \cup {None}]
        /\ parent \in [Pcb -> 0 .. MaxPid] /\ linked \in SUBSET Pcb
    BY <2>2 DEF Init
  <2>5. pid_counter \in 1 .. MaxPid
    BY <2>2 DEF Init
  <2> QED
    BY <2>1, <2>3, <2>4, <2>5 DEF Init, FamilyTypeOK
<1>2. Threads(0, << >>)
  BY DEF Init, Threads
<1>3. Free = {} /\ Stacked
  <2>1. Free = {<< >>[i] : i \in 1 .. 0}
    BY <1>1, <1>2, FreeIsThreaded
  <2> QED
    BY <1>2, <2>1 DEF Stacked
<1>4. InUse = {kmain}
  <2>1. kmain \in Nat /\ kernel_heap_start = kmain + 1
    BY Addresses
  <2>2. kmain .. kernel_heap_start - 1 = {kmain}
    <3>1. kernel_heap_start - 1 = kmain /\ kmain .. kmain = {kmain}
      BY <2>1
    <3> QED
      BY <3>1
  <2>3. kernel_heap_top = kernel_heap_start
    BY DEF Init
  <2> QED
    BY <1>3, <2>2, <2>3 DEF InUse
<1>5. Ends
  <2>1. \A q \in Pcb : brother[q] = None /\ None \notin Pcb
    BY Addresses DEF Init
  <2> QED
    BY <2>1 DEF Ends
<1> QED
  BY <1>1, <1>3, <1>4, <1>5, Addresses
     DEF Init, FamInv, Pids, Members, ChildLists, PpidIsAlive, Waits, Early, AnswersAreTrue

\* What a process walks are its children.
LEMMA ChildrenAreKids == ASSUME FamInv, NEW p \in linked \ {kmain} PROVE Children(p) = Kids(p)
<1>1. Kids(p) \in SUBSET Pcb /\ Keyed(Kids(p), pid) /\ Chain(Kids(p), child[p], brother, pid)
  BY FamTypes DEF FamInv, ChildLists
<1> QED
  BY <1>1, ChainIsMet DEF Children

\* Two processes have no child in common, and kmain alone has the pid 0.
LEMMA KidsApart ==
    ASSUME FamInv
    PROVE  /\ \A p, r \in linked : p # r => pid[p] # pid[r] /\ Kids(p) \cap Kids(r) = {}
           /\ \A p \in linked \ {kmain} : pid[p] # 0
           /\ \A p \in linked : p \notin Kids(p)
<1>1. \A p, r \in linked : p # r => pid[p] # pid[r]
  BY FamTypes DEF FamInv, Pids
<1>2. pid[kmain] = 0 /\ kmain \in linked
  BY DEF FamInv, Pids, Members
<1>3. \A p \in linked : p \notin Kids(p)
  <2> SUFFICES ASSUME NEW p \in linked, p \in InUse \ {kmain}, parent[p] = pid[p] PROVE FALSE
    BY DEF Kids
  <2>1. parent[p] < pid[p] /\ pid[p] \in Nat
    BY FamTypes DEF FamInv, Pids
  <2> QED
    BY <2>1
<1> QED
  BY <1>1, <1>2, <1>3 DEF Kids

LEMMA AddTypes ==
    ASSUME FamInv, NEW creator \in linked, NEW p \in Pcb, add_process(creator, p), UNCHANGED kernel
    PROVE  FamilyTypeOK'
<1>t. /\ creator \in Pcb /\ pid[creator] \in 0 .. MaxPid
      /\ pid_counter \in 1 .. MaxPid /\ pid_counter < MaxPid /\ MaxPid \in Nat
  BY FamTypes DEF add_process, FamInv, FamilyTypeOK
<1>1. freelist' \in Pcb \cup {None} /\ kernel_heap_top' \in kernel_heap_start .. kmain + NbPcbs + 1
  <2>0. PICK n \in Nat : \E S : Threads(n, S)
    BY DEF FamInv, Stacked
  <2>1. PICK S : Threads(n, S)
    BY <2>0
  <2>2. kernel_heap_start .. kernel_heap_top - 1 \subseteq Pcb
    BY HeapIsPcbs DEF FamInv
  <2>3. CASE freelist # None
    <3>1. n \in 1 .. n /\ p = S[n] /\ freelist' = pid[p] /\ kernel_heap_top' = kernel_heap_top
      BY <2>1, <2>3 DEF Threads, add_process, kAlloc
    <3>2. pid[p] = IF n = 1 THEN None ELSE S[n - 1]
      BY <2>1, <3>1 DEF Threads
    <3>3. n = 1 \/ n - 1 \in 1 .. n
      BY <3>1
    <3>4. pid[p] \in Pcb \cup {None}
      BY <2>1, <2>2, <3>2, <3>3 DEF Threads
    <3> QED
      BY <3>1, <3>4 DEF FamInv, FamilyTypeOK
  <2>4. CASE freelist = None
    <3>1. p = kernel_heap_top /\ kernel_heap_top' = kernel_heap_top + 1 /\ freelist' = freelist
      BY <2>4 DEF add_process, kAlloc
    <3>2. /\ kernel_heap_top \in kernel_heap_start .. kmain + NbPcbs + 1
          /\ kernel_heap_start \in Nat /\ kmain \in Nat /\ NbPcbs \in Nat
      BY Addresses DEF FamInv, FamilyTypeOK
    <3>3. p \in kmain .. kmain + NbPcbs
      BY DEF Pcb
    <3> QED
      BY <2>4, <3>1, <3>2, <3>3
  <2> QED
    BY <2>3, <2>4
<1>2. child' \in [Pcb -> Pcb \cup {None}] /\ brother' \in [Pcb -> Pcb \cup {None}]
  <2>1. child \in [Pcb -> Pcb \cup {None}] /\ brother \in [Pcb -> Pcb \cup {None}]
    BY DEF FamInv, FamilyTypeOK
  <2>2. CASE child[creator] = None
    BY <2>1, <2>2, <1>t DEF add_process, LinkChild
  <2>3. CASE child[creator] # None
    BY <2>1, <2>3 DEF add_process, LinkChild
  <2> QED
    BY <2>2, <2>3
<1>3. /\ pid' = [pid EXCEPT ![p] = pid_counter] /\ ppid' = [ppid EXCEPT ![p] = pid[creator]]
      /\ status' = [status EXCEPT ![p] = "READY"] /\ parent' = [parent EXCEPT ![p] = pid[creator]]
      /\ pid_counter' = pid_counter + 1 /\ linked' = linked \cup {p}
      /\ UNCHANGED <<return_code, waitVars, exits, reported>>
  BY DEF add_process
<1>4. FamilyTypeOK
  BY DEF FamInv
<1> QED
  BY <1>t, <1>1, <1>2, <1>3, <1>4 DEF FamilyTypeOK, waitVars

\* Steps that leave the heap, the pids and the processes alone keep most of the invariant.
LEMMA FamilyKept ==
    ASSUME FamInv, UNCHANGED <<pid, ppid, status, return_code, linked, heapVars, pid_counter,
                               parent, exits, child, brother>>
    PROVE  /\ Stacked' /\ Pids' /\ Members' /\ ChildLists' /\ PpidIsAlive' /\ Ends' /\ InUse' = InUse
           /\ \A p : Kids(p)' = Kids(p)
<1>1. Stacked' /\ InUse' = InUse
  BY HeapKept DEF FamInv
<1>2. ASSUME NEW p PROVE Kids(p)' = Kids(p)
  BY <1>1 DEF Kids
<1>3. Pids' /\ Members'
  BY <1>1 DEF FamInv, Pids, Members
<1>4. ChildLists'
  BY <1>2 DEF FamInv, ChildLists
<1>5. PpidIsAlive'
  BY DEF FamInv, PpidIsAlive, HasParent
<1>6. Ends'
  BY DEF FamInv, Ends
<1> QED
  BY <1>1, <1>2, <1>3, <1>4, <1>5, <1>6

\* What add_process does to the pcbs in use.
LEMMA AddEffect ==
    ASSUME FamInv, NEW creator \in linked, NEW p \in Pcb, add_process(creator, p), UNCHANGED kernel
    PROVE  /\ FamilyTypeOK' /\ Stacked' /\ p \notin InUse /\ p # kmain /\ InUse' = InUse \cup {p}
           /\ pid'[p] = pid_counter /\ parent'[p] = pid[creator] /\ ppid'[p] = pid[creator]
           /\ status'[p] = "READY" /\ child'[p] = None /\ brother'[p] = None
           /\ \A q \in InUse : /\ q # p /\ pid'[q] = pid[q] /\ parent'[q] = parent[q]
                               /\ ppid'[q] = ppid[q] /\ status'[q] = status[q]
                               /\ q # creator => child'[q] = child[q]
           /\ linked' = linked \cup {p} /\ pid_counter' = pid_counter + 1
           /\ UNCHANGED <<return_code, waitVars, exits, reported>>
<1>1. FamilyTypeOK'
  BY AddTypes
<1>2. pid' = [pid EXCEPT ![p] = pid_counter] /\ kAlloc(p)
  BY DEF add_process
<1>3. Stacked' /\ p \notin InUse /\ p # kmain /\ InUse' = InUse \cup {p}
  BY <1>1, <1>2, AllocTakes DEF FamInv
<1>4. creator \in InUse /\ creator # p /\ InUse \subseteq Pcb
  BY <1>3, FamTypes
<1>5. /\ ppid' = [ppid EXCEPT ![p] = pid[creator]]
      /\ status' = [status EXCEPT ![p] = "READY"] /\ parent' = [parent EXCEPT ![p] = pid[creator]]
      /\ pid_counter' = pid_counter + 1 /\ linked' = linked \cup {p}
      /\ UNCHANGED <<return_code, waitVars, exits, reported>>
  BY DEF add_process
<1>t. /\ pid \in [Pcb -> Nat] /\ ppid \in [Pcb -> Nat] /\ status \in [Pcb -> {"READY", "TERMINATED"}]
      /\ child \in [Pcb -> Pcb \cup {None}] /\ brother \in [Pcb -> Pcb \cup {None}]
      /\ parent \in [Pcb -> 0 .. MaxPid]
  BY DEF FamInv, FamilyTypeOK
<1>6. /\ child'[p] = None /\ brother'[p] = None
      /\ \A q \in InUse : q # creator => child'[q] = child[q]
  <2>1. CASE child[creator] = None
    BY <2>1, <1>3, <1>4, <1>t DEF add_process, LinkChild
  <2>2. CASE child[creator] # None
    <3>1. child' = [child EXCEPT ![p] = None] /\ brother'[p] = None
      BY <2>2, <1>t DEF add_process, LinkChild
    <3> QED
      BY <3>1, <1>3, <1>4, <1>t
  <2> QED
    BY <2>1, <2>2
<1>7. \A q \in InUse : /\ q # p /\ pid'[q] = pid[q] /\ parent'[q] = parent[q]
                      /\ ppid'[q] = ppid[q] /\ status'[q] = status[q]
  BY <1>2, <1>3, <1>4, <1>5, <1>t
<1>8. /\ pid'[p] = pid_counter /\ parent'[p] = pid[creator] /\ ppid'[p] = pid[creator]
      /\ status'[p] = "READY"
  BY <1>2, <1>5, <1>t
<1> QED
  BY <1>1, <1>3, <1>5, <1>6, <1>7, <1>8

\* Where add_process links the new process.
LEMMA LinkEffect ==
    ASSUME FamInv, NEW creator \in linked, NEW p \in Pcb, p \notin InUse, LinkChild(creator, p)
    PROVE  \/ /\ child[creator] = None /\ child'[creator] = p
              /\ \A q \in InUse : brother'[q] = brother[q]
           \/ /\ child[creator] # None /\ child'[creator] = child[creator]
              /\ \E last \in Children(creator) :
                    /\ brother[last] = None
                    /\ last \in Pcb => brother'[last] = p \/ last = p
                    /\ \A q \in InUse : q # last => brother'[q] = brother[q]
<1>t. /\ child \in [Pcb -> Pcb \cup {None}] /\ brother \in [Pcb -> Pcb \cup {None}]
      /\ creator \in Pcb /\ creator # p /\ \A q \in InUse : q \in Pcb /\ q # p
  BY FamTypes DEF FamInv, FamilyTypeOK
<1>1. CASE child[creator] = None
  BY <1>1, <1>t DEF LinkChild
<1>2. CASE child[creator] # None
  <2>1. PICK last \in Children(creator) :
           /\ brother[last] = None
           /\ brother' = [brother EXCEPT ![last] = p, ![p] = None]
           /\ child' = [child EXCEPT ![p] = None]
    BY <1>2 DEF LinkChild
  <2>2. child'[creator] = child[creator]
    BY <2>1, <1>t
  <2>3. last \in Pcb => brother'[last] = p \/ last = p
    BY <2>1, <1>t
  <2>4. \A q \in InUse : q # last => brother'[q] = brother[q]
    BY <2>1, <1>t
  <2> QED
    BY <1>2, <2>1, <2>2, <2>3, <2>4
<1> QED
  BY <1>1, <1>2

\* A set of pcbs that holds the new process is left at it, and any other where it was, or
\* where the new process was linked.
LEMMA LinkEnds ==
    ASSUME FamInv, NEW creator \in linked, NEW p \in Pcb, LinkChild(creator, p)
    PROVE  Ends'
<1>t. brother \in [Pcb -> Pcb \cup {None}] /\ None \notin Pcb
  BY Addresses DEF FamInv, FamilyTypeOK
<1>1. /\ brother'[p] = None
      /\ \A q \in Pcb : q # p => brother'[q] = brother[q] \/ brother'[q] = p
  BY <1>t DEF LinkChild
<1> SUFFICES ASSUME NEW V \in SUBSET Pcb, V # {} PROVE \E q \in V : brother'[q] \notin V
  BY DEF Ends
<1>2. CASE p \in V
  BY <1>1, <1>2, <1>t
<1>3. CASE p \notin V
  <2>1. PICK q \in V : brother[q] \notin V
    BY DEF FamInv, Ends
  <2> QED
    BY <1>1, <1>3, <2>1
<1> QED
  BY <1>2, <1>3

\* Taking x out behind prev leads from prev where x led.
LEMMA UnlinkEnds ==
    ASSUME FamInv, NEW prev \in Pcb, NEW x \in Pcb, brother[prev] = x,
           brother' = [brother EXCEPT ![prev] = brother[x]]
    PROVE  Ends'
<1>t. brother \in [Pcb -> Pcb \cup {None}]
  BY DEF FamInv, FamilyTypeOK
<1>1. brother'[prev] = brother[x] /\ \A q \in Pcb : q # prev => brother'[q] = brother[q]
  BY <1>t
<1> SUFFICES ASSUME NEW V \in SUBSET Pcb, V # {} PROVE \E q \in V : brother'[q] \notin V
  BY DEF Ends
<1>2. CASE prev \notin V
  <2>1. PICK q \in V : brother[q] \notin V
    BY DEF FamInv, Ends
  <2> QED
    BY <1>1, <1>2, <2>1
<1>3. CASE prev \in V
  <2>1. V \cup {x} \in SUBSET Pcb /\ V \cup {x} # {}
    OBVIOUS
  <2>2. PICK q \in V \cup {x} : brother[q] \notin V \cup {x}
    BY <2>1 DEF FamInv, Ends
  <2>3. q # prev
    BY <2>2
  <2> QED
    BY <1>1, <1>3, <2>2, <2>3
<1> QED
  BY <1>2, <1>3

\* add_process: the new process is the youngest, and the last child of its creator.
LEMMA AddNext ==
    ASSUME FamInv, NEW creator \in linked, NEW p \in Pcb, add_process(creator, p), UNCHANGED kernel,
           creator = kmain => kernel # "forks", creator # kmain => kernel = "forks" /\ creator # waiter
    PROVE  FamInv'
<1>e. /\ FamilyTypeOK' /\ Stacked' /\ p \notin InUse /\ p # kmain /\ InUse' = InUse \cup {p}
      /\ pid'[p] = pid_counter /\ parent'[p] = pid[creator] /\ ppid'[p] = pid[creator]
      /\ status'[p] = "READY" /\ child'[p] = None /\ brother'[p] = None
      /\ \A q \in InUse : /\ q # p /\ pid'[q] = pid[q] /\ parent'[q] = parent[q]
                          /\ ppid'[q] = ppid[q] /\ status'[q] = status[q]
                          /\ q # creator => child'[q] = child[q]
      /\ linked' = linked \cup {p} /\ pid_counter' = pid_counter + 1
      /\ UNCHANGED <<return_code, exits, reported>>
      /\ UNCHANGED <<waiter, wanted, process_waiting_for, previous_waiting, found>>
  BY AddEffect DEF waitVars
<1>t. /\ InUse \subseteq Pcb /\ linked \subseteq InUse /\ kmain \in InUse
      /\ \A q \in InUse : pid[q] \in Nat /\ pid[q] < pid_counter
      /\ \A q \in Pcb : parent[q] \in Nat
      /\ pid_counter \in Nat /\ None \notin Pcb
      /\ \A r : Kids(r) \subseteq InUse \ {kmain} /\ Keyed(Kids(r), pid)
  BY FamTypes
<1>a. /\ \A q, r \in linked : q # r => pid[q] # pid[r] /\ Kids(q) \cap Kids(r) = {}
      /\ \A r \in linked \ {kmain} : pid[r] # 0
      /\ pid[kmain] = 0
  BY KidsApart DEF FamInv, Pids
<1>1. Pids'
  <2>1. \A q \in InUse' : pid'[q] < pid_counter'
    BY <1>e, <1>t
  <2>2. \A q, r \in InUse' : pid'[q] = pid'[r] => q = r
    <3>1. \A q, r \in InUse : pid[q] = pid[r] => q = r
      BY DEF FamInv, Pids
    <3>2. \A q \in InUse : pid[q] # pid_counter
      BY <1>t
    <3> QED
      BY <1>e, <3>1, <3>2
  <2>3. \A q \in InUse' \ {kmain} : parent'[q] < pid'[q]
    <3>1. \A q \in InUse \ {kmain} : parent[q] < pid[q]
      BY DEF FamInv, Pids
    <3> QED
      BY <1>e, <1>t, <3>1
  <2> QED
    BY <1>e, <1>t, <1>a, <2>1, <2>2, <2>3 DEF Pids
<1>2. Members'
  <2>1. InUse' \ linked' = InUse \ linked
    BY <1>e
  <2>2. \A q \in linked' : status'[q] = "READY"
    BY <1>e, <1>t DEF FamInv, Members
  <2>3. ASSUME NEW q \in InUse \ linked
        PROVE  /\ status'[q] = "TERMINATED"
               /\ [pid |-> pid'[q], parent |-> parent'[q], code |-> return_code'[q]] \in exits'
               /\ \E r \in linked' \ {kmain} : parent'[q] = pid'[r]
    <3>1. PICK r \in linked \ {kmain} : parent[q] = pid[r]
      BY DEF FamInv, Members
    <3>2. /\ status[q] = "TERMINATED"
          /\ [pid |-> pid[q], parent |-> parent[q], code |-> return_code[q]] \in exits
      BY DEF FamInv, Members
    <3>3. r \in linked' \ {kmain} /\ pid'[r] = pid[r]
      BY <1>e, <1>t
    <3> QED
      BY <1>e, <3>1, <3>2, <3>3
  <2>4. kmain \in linked' /\ linked' \subseteq InUse'
    BY <1>e, <1>t DEF FamInv, Members
  <2> QED
    BY <2>1, <2>2, <2>3, <2>4 DEF Members
<1>3. Kids(p)' = {}
  <2>1. \A q \in InUse' \ {kmain} : parent'[q] # pid_counter
    <3>1. \A q \in InUse \ {kmain} : parent[q] < pid[q]
      BY DEF FamInv, Pids
    <3> QED
      BY <1>e, <1>t, <3>1
  <2> QED
    BY <1>e, <2>1 DEF Kids
<1>4. ASSUME NEW r \in linked
      PROVE  Kids(r)' = IF r = creator THEN Kids(r) \cup {p} ELSE Kids(r)
  <2>1. Kids(r)' = {q \in InUse \ {kmain} : parent[q] = pid[r]} \cup (IF pid[creator] = pid[r] THEN {p} ELSE {})
    BY <1>e, <1>t DEF Kids
  <2>2. pid[creator] = pid[r] <=> r = creator
    BY <1>a
  <2> QED
    BY <2>1, <2>2 DEF Kids
\* For whom the new process is not, nothing changes.
<1>5. ASSUME NEW r \in linked \ {kmain}, r # creator
      PROVE  child'[r] = child[r] /\ \A q \in Kids(r) : brother'[q] = brother[q]
  <2>1. child'[r] = child[r]
    BY <1>e, <1>t, <1>5
  <2>2. CASE creator = kmain
    <3>1. Kids(r) = {}
      BY <1>a, <2>2 DEF FamInv, Early, Kids
    <3> QED
      BY <2>1, <3>1
  <2>3. CASE creator # kmain
    <3>1. Children(creator) = Kids(creator) /\ Kids(creator) \cap Kids(r) = {}
      BY <1>5, <1>a, <2>3, ChildrenAreKids
    <3>2. LinkChild(creator, p)
      BY DEF add_process
    <3>3. \A q \in Kids(r) : brother'[q] = brother[q]
      BY <1>e, <1>t, <3>1, <3>2, LinkEffect
    <3> QED
      BY <2>1, <3>3
  <2> QED
    BY <2>2, <2>3
<1>6. ChildLists'
  <2> SUFFICES ASSUME NEW r \in linked', r # kmain
               PROVE  Chain(Kids(r)', child'[r], brother', pid')
    BY DEF ChildLists
  <2>1. CASE r = p
    BY <1>3, <1>e, <2>1 DEF Chain
  <2>2. CASE r # p /\ r # creator
    <3>1. r \in linked \ {kmain} /\ Kids(r)' = Kids(r)
      BY <1>e, <1>4, <2>2
    <3>2. Chain(Kids(r), child[r], brother, pid)
      BY <3>1 DEF FamInv, ChildLists
    <3>3. \A q \in Kids(r) : brother'[q] = brother[q] /\ pid'[q] = pid[q]
      BY <3>1, <1>5, <1>e, <1>t, <2>2
    <3>4. child'[r] = child[r]
      BY <3>1, <1>5, <2>2
    <3> QED
      BY <3>1, <3>2, <3>3, <3>4, ChainSame
  <2>3. CASE r = creator
    <3>1. r \in linked \ {kmain} /\ Kids(r)' = Kids(r) \cup {p}
      BY <1>4, <2>3
    <3>2. Chain(Kids(r), child[r], brother, pid) /\ Children(r) = Kids(r) /\ Keyed(Kids(r), pid)
      BY <3>1, <1>t, ChildrenAreKids DEF FamInv, ChildLists
    <3>3. p \notin Kids(r) /\ p # None /\ Kids(r) \subseteq InUse
      BY <1>e, <1>t
    <3>4. pid'[p] \in Nat /\ \A q \in Kids(r) : pid'[q] = pid[q] /\ pid[q] < pid'[p]
      BY <1>e, <1>t, <3>3
    <3>5. LinkChild(r, p)
      BY <2>3 DEF add_process
    <3>6. CASE child[r] = None
      <4>1. Kids(r) = {} /\ child'[r] = p
        BY <3>1, <3>2, <3>5, <3>6, <1>e, <1>t, LinkEffect DEF Chain
      <4>2. Chain({p}, p, brother', pid')
        BY <1>e, <3>3, <3>4, ChainOne
      <4>3. Kids(r)' = {p}
        BY <3>1, <4>1
      <4> QED
        BY <4>1, <4>2, <4>3
    <3>7. CASE child[r] # None
      <4>1. PICK last \in Kids(r) :
               /\ child'[r] = child[r] /\ brother[last] = None
               /\ last \in Pcb => brother'[last] = p \/ last = p
               /\ \A q \in InUse : q # last => brother'[q] = brother[q]
        BY <3>1, <3>2, <3>5, <3>7, <1>e, <1>t, LinkEffect
      <4>2. last \in Pcb /\ last # p
        BY <3>3, <1>t
      <4>3. Chain(Kids(r) \cup {p}, child[r], brother', pid')
        <5>1. /\ brother'[last] = p /\ brother'[p] = None
              /\ \A q \in Kids(r) : q # last => brother'[q] = brother[q]
          BY <1>e, <3>3, <4>1, <4>2
        <5>2. Chain(Kids(r), child[r], brother, pid) /\ Keyed(Kids(r), pid)
          BY <3>2
        <5>3. PICK V : V = Kids(r)
          OBVIOUS
        <5>4. Chain(V \cup {p}, child[r], brother', pid')
          BY <5>1, <5>2, <5>3, <3>3, <3>4, <4>1, ChainAppend
        <5> QED
          BY <5>3, <5>4
      <4> QED
        BY <3>1, <4>1, <4>3
    <3> QED
      BY <3>6, <3>7
  <2> QED
    BY <2>1, <2>2, <2>3
<1>7. PpidIsAlive'
  <2> SUFFICES ASSUME NEW q \in linked', q # kmain
               PROVE  ppid'[q] = IF HasParent(q)' THEN parent'[q] ELSE 0
    BY DEF PpidIsAlive
  <2>1. CASE q = p
    <3>1. creator \in linked' /\ pid'[creator] = parent'[p]
      BY <1>e, <1>t
    <3> QED
      BY <2>1, <3>1, <1>e DEF HasParent
  <2>2. CASE q # p
    <3>1. q \in linked /\ q \in InUse \ {kmain}
      BY <1>e, <1>t, <2>2
    <3>2. parent[q] # pid_counter
      BY <3>1, <1>t DEF FamInv, Pids
    <3>3. HasParent(q)' <=> HasParent(q)
      BY <1>e, <1>t, <3>1, <3>2 DEF HasParent
    <3> QED
      BY <1>e, <3>1, <3>3 DEF FamInv, PpidIsAlive
  <2> QED
    BY <2>1, <2>2
<1>8. Waits'
  <2>1. CASE waiter = None
    BY <1>e, <2>1 DEF FamInv, Waits
  <2>2. CASE waiter # None
    <3>1. /\ waiter \in linked \ {kmain} /\ waiter # creator
          /\ process_waiting_for \in Kids(waiter) /\ process_waiting_for \in InUse
      BY <2>2, <1>t DEF FamInv, Waits, Early
    <3>2. PICK w : w = waiter
      OBVIOUS
    <3>3. /\ child'[w] = child[w] /\ \A q \in Kids(w) : brother'[q] = brother[q]
          /\ Kids(w)' = Kids(w)
      BY <3>1, <3>2, <1>4, <1>5
    <3>4. Kids(w)' = {q \in InUse' \ {kmain} : parent'[q] = pid'[w]}
      BY DEF Kids
    <3>5. Kids(waiter)' = Kids(waiter) /\ waiter' = waiter
      BY <1>e, <3>2, <3>3, <3>4 DEF Kids
    <3>6. /\ waiter' \in linked' \ {kmain}
          /\ pid'[process_waiting_for] = pid[process_waiting_for]
          /\ status'[process_waiting_for] = status[process_waiting_for]
      BY <1>e, <3>1
    <3>7. child'[waiter] = child[waiter] /\ \A q \in Kids(waiter) : brother'[q] = brother[q]
      BY <3>2, <3>3
    <3> QED
      BY <1>e, <2>2, <3>1, <3>5, <3>6, <3>7 DEF FamInv, Waits
  <2> QED
    BY <2>1, <2>2
<1>9. Early'
  <2>1. ASSUME kernel # "forks" PROVE waiter = None /\ \A q \in InUse' \ {kmain} : parent'[q] = 0
    BY <2>1, <1>e, <1>a DEF FamInv, Early
  <2> QED
    BY <2>1, <1>e DEF Early
<1>10. AnswersAreTrue'
  BY <1>e DEF FamInv, AnswersAreTrue
<1>11. Ends'
  BY LinkEnds DEF add_process
<1> QED
  BY <1>e, <1>1, <1>2, <1>6, <1>7, <1>8, <1>9, <1>10, <1>11 DEF FamInv

\* What do_sys_exit does to the pcbs when no child is a zombie: the process is freed if
\* nobody can wait for it, and kept otherwise.
LEMMA ExitEffect ==
    ASSUME FamInv, ~LeavesZombies, NEW p \in Pcb, NEW code \in Codes, do_sys_exit(p, code)
    PROVE  /\ FamilyTypeOK' /\ Stacked' /\ p \in linked \ {kmain} /\ p # waiter /\ kernel' = kernel
           /\ \A q \in Kids(p) : status[q] # "TERMINATED"
           /\ InUse' = IF ppid[p] = 0 THEN InUse \ {p} ELSE InUse
           /\ \A q \in InUse' : pid'[q] = pid[q]
           /\ \A q \in InUse : q # p => /\ status'[q] = status[q] /\ return_code'[q] = return_code[q]
                                        /\ ppid'[q] = IF q \in Kids(p) THEN 0 ELSE ppid[q]
           /\ status'[p] = "TERMINATED" /\ return_code'[p] = code /\ linked' = linked \ {p}
           /\ exits' = exits \cup {[pid |-> pid[p], parent |-> parent[p], code |-> code]}
           /\ UNCHANGED <<child, brother, pid_counter, waitVars, parent, reported>>
<1>1. /\ p \in linked \ {kmain} /\ p # waiter /\ Zombies(p) = {}
      /\ status' = [status EXCEPT ![p] = "TERMINATED"]
      /\ return_code' = [return_code EXCEPT ![p] = code]
      /\ linked' = linked \ {p}
      /\ exits' = exits \cup {[pid |-> pid[p], parent |-> parent[p], code |-> code]}
      /\ kFree(p, TimesFreed(p), Adopted(p))
      /\ UNCHANGED <<child, brother, pid_counter, kernel, waitVars, parent, reported>>
  BY DEF do_sys_exit, Runs
<1>2. Children(p) = Kids(p)
  BY <1>1, ChildrenAreKids
<1>3. TimesFreed(p) = IF ppid[p] = 0 THEN 1 ELSE 0
  BY <1>1 DEF TimesFreed
<1>t. /\ pid \in [Pcb -> Nat] /\ ppid \in [Pcb -> Nat] /\ status \in [Pcb -> {"READY", "TERMINATED"}]
      /\ return_code \in [Pcb -> Codes] /\ parent \in [Pcb -> 0 .. MaxPid]
      /\ InUse \subseteq Pcb /\ p \in InUse /\ freelist \in Nat /\ pid[p] \in 0 .. MaxPid
  <2>1. p \in InUse /\ pid[p] \in Nat /\ pid[p] < MaxPid /\ MaxPid \in Nat /\ InUse \subseteq Pcb
    BY <1>1, FamTypes
  <2>2. freelist \in Nat
    BY Addresses DEF FamInv, FamilyTypeOK, None
  <2> QED
    BY <2>1, <2>2 DEF FamInv, FamilyTypeOK
<1>4. PICK parents : parents = Adopted(p)
  OBVIOUS
<1>5. /\ parents \in [Pcb -> Nat]
      /\ \A q \in Pcb : parents[q] = IF q \in Kids(p) THEN 0 ELSE ppid[q]
  <2>1. parents = [q \in Pcb |-> IF q \in Kids(p) THEN 0 ELSE ppid[q]]
    BY <1>1, <1>2, <1>4 DEF Adopted
  <2> QED
    BY <2>1, <1>t
<1>6. /\ pid' = IF ppid[p] = 0 THEN [pid EXCEPT ![p] = freelist] ELSE pid
      /\ ppid' = IF ppid[p] = 0 THEN [parents EXCEPT ![p] = SizeofPcb] ELSE parents
      /\ freelist' = IF ppid[p] = 0 THEN p ELSE freelist
      /\ UNCHANGED kernel_heap_top
  <2>1. kFree(p, IF ppid[p] = 0 THEN 1 ELSE 0, parents)
    BY <1>1, <1>3, <1>4
  <2> QED
    BY <2>1 DEF kFree
<1>7. FamilyTypeOK'
  <2>1. pid' \in [Pcb -> Nat] /\ ppid' \in [Pcb -> Nat] /\ freelist' \in Pcb \cup {None}
    <3>1. freelist \in Pcb \cup {None} /\ SizeofPcb \in Nat
      BY DEF FamInv, FamilyTypeOK, SizeofPcb
    <3> QED
      BY <1>5, <1>6, <1>t, <3>1
  <2>2. exits' \subseteq Report
    <3>1. [pid |-> pid[p], parent |-> parent[p], code |-> code] \in Report
      BY <1>t DEF Report
    <3> QED
      BY <1>1, <3>1 DEF FamInv, FamilyTypeOK
  <2>3. /\ status' \in [Pcb -> {"READY", "TERMINATED"}] /\ return_code' \in [Pcb -> Codes]
        /\ linked' \in SUBSET Pcb
    BY <1>1, <1>t DEF FamInv, FamilyTypeOK
  <2> QED
    BY <1>1, <1>6, <2>1, <2>2, <2>3 DEF FamInv, FamilyTypeOK, waitVars
<1>8. Stacked' /\ InUse' = IF ppid[p] = 0 THEN InUse \ {p} ELSE InUse
  <2>1. CASE ppid[p] = 0
    BY <1>1, <1>6, <1>7, <1>t, <2>1, FreeGives DEF FamInv
  <2>2. CASE ppid[p] # 0
    BY <1>6, <2>2, HeapKept DEF FamInv, heapVars
  <2> QED
    BY <2>1, <2>2
<1>9. \A q \in InUse' : pid'[q] = pid[q]
  BY <1>6, <1>8, <1>t
<1>10. \A q \in Kids(p) : status[q] # "TERMINATED"
  BY <1>1, <1>2 DEF Zombies
<1>11. \A q \in InUse : q # p => ppid'[q] = IF q \in Kids(p) THEN 0 ELSE ppid[q]
  BY <1>5, <1>6, <1>t
<1> QED
  BY <1>1, <1>7, <1>8, <1>9, <1>10, <1>11, <1>t

\* do_sys_exit: a process nobody can wait for gives its pcb back, and another one keeps it
\* as a zombie of its parent.
LEMMA ExitNext ==
    ASSUME FamInv, ~LeavesZombies, NEW p \in Pcb, NEW code \in Codes, do_sys_exit(p, code)
    PROVE  FamInv'
<1>e. /\ FamilyTypeOK' /\ Stacked' /\ p \in linked \ {kmain} /\ p # waiter /\ kernel' = kernel
      /\ \A q \in Kids(p) : status[q] # "TERMINATED"
      /\ InUse' = IF ppid[p] = 0 THEN InUse \ {p} ELSE InUse
      /\ \A q \in InUse' : pid'[q] = pid[q]
      /\ \A q \in InUse : q # p => /\ status'[q] = status[q] /\ return_code'[q] = return_code[q]
                                   /\ ppid'[q] = IF q \in Kids(p) THEN 0 ELSE ppid[q]
      /\ status'[p] = "TERMINATED" /\ return_code'[p] = code /\ linked' = linked \ {p}
      /\ exits' = exits \cup {[pid |-> pid[p], parent |-> parent[p], code |-> code]}
      /\ UNCHANGED <<child, brother, pid_counter, parent, reported>>
      /\ UNCHANGED <<waiter, wanted, process_waiting_for, previous_waiting, found>>
  BY ExitEffect DEF waitVars
<1>t. /\ linked \subseteq InUse /\ kmain \in linked /\ p \in InUse
      /\ \A q \in InUse : pid[q] \in Nat
      /\ \A r : Kids(r) \subseteq InUse \ {kmain}
      /\ linked' \subseteq InUse' /\ InUse' \subseteq InUse /\ kmain \in linked'
  BY <1>e, FamTypes DEF FamInv, Members
<1>a. /\ \A q, r \in linked : q # r => pid[q] # pid[r]
      /\ pid[kmain] = 0 /\ \A r \in linked \ {kmain} : pid[r] # 0
  BY KidsApart DEF FamInv, Pids
\* p is freed exactly when no process that can wait is its parent.
<1>f. ppid[p] = 0 <=> ~ \E r \in linked' \ {kmain} : parent[p] = pid[r]
  <2>1. ppid[p] = IF HasParent(p) THEN parent[p] ELSE 0
    BY <1>e DEF FamInv, PpidIsAlive
  <2>2. parent[p] # pid[p]
    <3>1. p \in InUse \ {kmain} /\ parent[p] < pid[p] /\ pid[p] \in Nat
      BY <1>e, <1>t DEF FamInv, Pids
    <3> QED
      BY <3>1
  <2> QED
    BY <1>e, <1>a, <2>1, <2>2 DEF HasParent
<1>1. Pids'
  BY <1>e, <1>t, <1>a DEF FamInv, Pids
<1>2. Members'
  <2>1. \A q \in linked' : status'[q] = "READY"
    BY <1>e, <1>t DEF FamInv, Members
  <2>2. ASSUME NEW q \in InUse' \ linked'
        PROVE  /\ status'[q] = "TERMINATED"
               /\ [pid |-> pid'[q], parent |-> parent'[q], code |-> return_code'[q]] \in exits'
               /\ \E r \in linked' \ {kmain} : parent'[q] = pid'[r]
    <3>1. CASE q = p
      <4>1. ppid[p] # 0
        BY <1>e, <3>1
      <4>2. PICK r \in linked' \ {kmain} : parent[p] = pid[r]
        BY <1>f, <4>1
      <4> QED
        BY <1>e, <1>t, <3>1, <4>2
    <3>2. CASE q # p
      <4>1. q \in InUse \ linked
        BY <1>e, <1>t, <3>2
      <4>2. /\ status[q] = "TERMINATED"
            /\ [pid |-> pid[q], parent |-> parent[q], code |-> return_code[q]] \in exits
        BY <4>1 DEF FamInv, Members
      <4>3. PICK r \in linked \ {kmain} : parent[q] = pid[r]
        BY <4>1 DEF FamInv, Members
      <4>4. r # p
        BY <1>e, <1>t, <4>1, <4>2, <4>3 DEF Kids
      <4>5. r \in linked' \ {kmain} /\ pid'[r] = pid[r]
        BY <1>e, <1>t, <4>3, <4>4
      <4> QED
        BY <1>e, <3>2, <4>1, <4>2, <4>3, <4>5
    <3> QED
      BY <3>1, <3>2
  <2> QED
    BY <1>t, <2>1, <2>2 DEF Members
<1>3. ASSUME NEW r \in linked' \ {kmain} PROVE Kids(r)' = Kids(r)
  <2>1. Kids(r)' = {q \in InUse' \ {kmain} : parent[q] = pid[r]}
    BY <1>e, <1>t DEF Kids
  <2>2. CASE ppid[p] = 0
    <3>1. parent[p] # pid[r]
      BY <1>f, <2>2
    <3> QED
      BY <1>e, <2>1, <2>2, <3>1 DEF Kids
  <2>3. CASE ppid[p] # 0
    BY <1>e, <2>1, <2>3 DEF Kids
  <2> QED
    BY <2>2, <2>3
<1>4. ChildLists'
  <2> SUFFICES ASSUME NEW r \in linked' \ {kmain}
               PROVE  Chain(Kids(r)', child'[r], brother', pid')
    BY DEF ChildLists
  <2>1. Chain(Kids(r), child[r], brother, pid)
    BY <1>e DEF FamInv, ChildLists
  <2>2. Kids(r)' = Kids(r) /\ Kids(r)' \subseteq InUse'
    BY <1>3 DEF Kids
  <2>3. \A q \in Kids(r) : brother'[q] = brother[q] /\ pid'[q] = pid[q]
    BY <1>e, <2>2
  <2> QED
    BY <1>e, <2>1, <2>2, <2>3, ChainSame
<1>5. PpidIsAlive'
  <2> SUFFICES ASSUME NEW q \in linked' \ {kmain}
               PROVE  ppid'[q] = IF HasParent(q)' THEN parent'[q] ELSE 0
    BY DEF PpidIsAlive
  <2>1. q \in linked /\ q # p /\ q \in InUse
    BY <1>e, <1>t
  <2>2. HasParent(q)' <=> \E r \in linked' : pid[r] = parent[q]
    BY <1>e, <1>t DEF HasParent
  <2>3. CASE q \in Kids(p)
    <3>1. parent[q] = pid[p]
      BY <2>3 DEF Kids
    <3>2. ~HasParent(q)'
      BY <1>e, <1>a, <2>2, <3>1
    <3> QED
      BY <1>e, <2>1, <2>3, <3>2
  <2>4. CASE q \notin Kids(p)
    <3>1. parent[q] # pid[p]
      BY <2>1, <2>4 DEF Kids
    <3>2. HasParent(q)' <=> HasParent(q)
      BY <1>e, <2>2, <3>1 DEF HasParent
    <3> QED
      BY <1>e, <2>1, <2>4, <3>2 DEF FamInv, PpidIsAlive
  <2> QED
    BY <2>3, <2>4
<1>6. Waits'
  <2>1. CASE waiter = None
    BY <1>e, <2>1 DEF FamInv, Waits
  <2>2. CASE waiter # None
    <3>1. /\ waiter \in linked' \ {kmain} /\ process_waiting_for \in Kids(waiter)
          /\ process_waiting_for \in InUse
      BY <1>e, <1>t, <2>2 DEF FamInv, Waits
    <3>2. PICK w : w = waiter
      OBVIOUS
    <3>3. Kids(w)' = Kids(w) /\ Kids(w)' \subseteq InUse'
      BY <1>3, <3>1, <3>2 DEF Kids
    <3>4. Kids(w)' = {q \in InUse' \ {kmain} : parent'[q] = pid'[w]}
      BY DEF Kids
    <3>5. Kids(waiter)' = Kids(waiter) /\ process_waiting_for \in InUse'
      BY <1>e, <3>1, <3>2, <3>3, <3>4 DEF Kids
    <3>6. /\ pid'[process_waiting_for] = pid[process_waiting_for]
          /\ status[process_waiting_for] = "TERMINATED" => status'[process_waiting_for] = "TERMINATED"
      BY <1>e, <3>1, <3>5
    <3> QED
      BY <1>e, <2>2, <3>1, <3>5, <3>6 DEF FamInv, Waits
  <2> QED
    BY <2>1, <2>2
<1>7. Early' /\ Ends' /\ AnswersAreTrue'
  BY <1>e, <1>t DEF Early, Ends, FamInv, AnswersAreTrue
<1> QED
  BY <1>e, <1>1, <1>2, <1>4, <1>5, <1>6, <1>7 DEF FamInv

\* What the end of do_sys_waitpid does to the pcbs.
LEMMA EndWaitEffect ==
    ASSUME FamInv, EndWait
    PROVE  /\ FamilyTypeOK' /\ Stacked' /\ AnswersAreTrue' /\ waiter \in linked \ {kmain}
           /\ process_waiting_for \in Kids(waiter) /\ process_waiting_for \notin linked
           /\ InUse' = InUse \ {process_waiting_for}
           /\ \A q \in InUse' : pid'[q] = pid[q] /\ ppid'[q] = ppid[q]
           /\ UNCHANGED <<status, return_code, linked, pid_counter, kernel, parent, exits>>
           /\ waiter' = None /\ ~found'
           /\ \/ /\ process_waiting_for = child[waiter] /\ brother' = brother
                 /\ child' = [child EXCEPT ![waiter] = brother[process_waiting_for]]
              \/ /\ process_waiting_for # child[waiter] /\ child' = child
                 /\ \E prev \in Kids(waiter) :
                       /\ brother[prev] = process_waiting_for
                       /\ brother' = [brother EXCEPT ![prev] = brother[process_waiting_for]]
<1> DEFINE w == waiter
           x == process_waiting_for
<1>1. /\ w \in linked \ {kmain} /\ x \in Kids(w) /\ status[x] = "TERMINATED"
      /\ wanted # Any => /\ wanted = pid[x]
                         /\ \/ x = child[w]
                            \/ previous_waiting \in Kids(w) /\ brother[previous_waiting] = x
  BY DEF EndWait, FamInv, Waits
<1>2. /\ x \notin linked /\ x \in InUse \ {kmain} /\ parent[x] = pid[w]
      /\ [pid |-> pid[x], parent |-> parent[x], code |-> return_code[x]] \in exits
  <2>1. x \in InUse \ {kmain} /\ parent[x] = pid[w]
    BY <1>1 DEF Kids
  <2>2. x \notin linked
    BY <1>1 DEF FamInv, Members
  <2> QED
    BY <2>1, <2>2 DEF FamInv, Members
<1>t. /\ pid \in [Pcb -> Nat] /\ ppid \in [Pcb -> Nat] /\ InUse \subseteq Pcb /\ x \in Pcb /\ w \in Pcb
      /\ child \in [Pcb -> Pcb \cup {None}] /\ brother \in [Pcb -> Pcb \cup {None}]
      /\ freelist \in Nat /\ SizeofPcb \in Nat /\ Kids(w) \subseteq Pcb /\ exits \subseteq Report
  <2>1. freelist \in Nat
    BY Addresses DEF FamInv, FamilyTypeOK, None
  <2> QED
    BY <1>1, <1>2, <2>1, FamTypes DEF FamInv, FamilyTypeOK, SizeofPcb
<1>3. /\ pid' = [pid EXCEPT ![x] = freelist] /\ ppid' = [ppid EXCEPT ![x] = SizeofPcb]
      /\ freelist' = x /\ UNCHANGED kernel_heap_top
  BY DEF EndWait, kFree
<1>4. UNCHANGED <<status, return_code, linked, pid_counter, kernel, parent, exits>>
  BY DEF EndWait
<1>5. /\ waiter' = None /\ wanted' = Any /\ process_waiting_for' = None
      /\ previous_waiting' = None /\ found' = FALSE
  BY DEF EndWait
<1>6. reported' = reported \cup {[pid |-> pid[x], parent |-> pid[w], code |-> return_code[x]]}
  <2>1. (IF wanted = Any THEN pid[x] ELSE wanted) = pid[x]
    BY <1>1
  <2> QED
    BY <2>1 DEF EndWait, AnsweredCode
<1>7. \/ x = child[w] /\ brother' = brother /\ child' = [child EXCEPT ![w] = brother[x]]
      \/ /\ x # child[w] /\ child' = child
         /\ \E prev \in Kids(w) : brother[prev] = x /\ brother' = [brother EXCEPT ![prev] = brother[x]]
  <2>1. CASE x = child[w]
    BY <2>1 DEF EndWait, UnlinkChild
  <2>2. CASE x # child[w]
    <3>1. PICK prev \in IF wanted = Any THEN {q \in Children(w) : brother[q] = x} ELSE {previous_waiting} :
             brother' = [brother EXCEPT ![prev] = brother[x]] /\ child' = child
      BY <2>2 DEF EndWait, UnlinkChild
    <3>2. Children(w) = Kids(w)
      BY <1>1, ChildrenAreKids
    <3>3. prev \in Kids(w) /\ brother[prev] = x
      BY <1>1, <2>2, <3>1, <3>2
    <3> QED
      BY <2>2, <3>1, <3>3
  <2> QED
    BY <2>1, <2>2
<1>8. reported' \subseteq exits
  BY <1>2, <1>6 DEF FamInv, AnswersAreTrue
<1>9. child' \in [Pcb -> Pcb \cup {None}] /\ brother' \in [Pcb -> Pcb \cup {None}]
  BY <1>7, <1>t
<1>10. FamilyTypeOK'
  <2>1. pid' \in [Pcb -> Nat] /\ ppid' \in [Pcb -> Nat]
    BY <1>3, <1>t
  <2>2. freelist' \in Pcb \cup {None} /\ reported' \subseteq Report
    BY <1>3, <1>8, <1>t
  <2> QED
    BY <1>3, <1>4, <1>5, <1>9, <2>1, <2>2 DEF FamInv, FamilyTypeOK
<1>11. Stacked' /\ InUse' = InUse \ {x}
  BY <1>2, <1>3, <1>10, FreeGives DEF FamInv
<1>12. \A q \in InUse' : pid'[q] = pid[q] /\ ppid'[q] = ppid[q]
  BY <1>3, <1>11, <1>t
<1>13. AnswersAreTrue'
  BY <1>4, <1>8 DEF AnswersAreTrue
<1> QED
  BY <1>1, <1>2, <1>4, <1>5, <1>7, <1>10, <1>11, <1>12, <1>13

\* The end of do_sys_waitpid: the child that is dead leaves its parent's list and gives its
\* pcb back, and the answer is what it exited with.
LEMMA EndWaitNext == ASSUME FamInv, EndWait PROVE FamInv'
<1>w. PICK w, x : w = waiter /\ x = process_waiting_for
  OBVIOUS
<1>e. /\ FamilyTypeOK' /\ Stacked' /\ AnswersAreTrue' /\ w \in linked \ {kmain}
      /\ x \in Kids(w) /\ x \notin linked /\ InUse' = InUse \ {x}
      /\ \A q \in InUse' : pid'[q] = pid[q] /\ ppid'[q] = ppid[q]
      /\ UNCHANGED <<status, return_code, linked, pid_counter, kernel, parent, exits>>
      /\ waiter' = None /\ ~found'
  BY <1>w, EndWaitEffect
<1>u. \/ x = child[w] /\ brother' = brother /\ child' = [child EXCEPT ![w] = brother[x]]
      \/ /\ x # child[w] /\ child' = child
         /\ \E prev \in Kids(w) : brother[prev] = x /\ brother' = [brother EXCEPT ![prev] = brother[x]]
  BY <1>w, EndWaitEffect
<1>t. /\ linked \subseteq InUse /\ kmain \in linked /\ linked' \subseteq InUse' /\ InUse' \subseteq InUse
      /\ InUse \subseteq Pcb /\ None \notin Pcb /\ \A q \in InUse : pid[q] \in Nat
      /\ \A r : Kids(r) \subseteq InUse \ {kmain} /\ Keyed(Kids(r), pid)
      /\ child \in [Pcb -> Pcb \cup {None}] /\ brother \in [Pcb -> Pcb \cup {None}]
  BY <1>e, FamTypes DEF FamInv, Members, FamilyTypeOK
<1>1. Pids'
  BY <1>e, <1>t DEF FamInv, Pids
<1>2. Members'
  <2>1. ASSUME NEW q \in InUse' \ linked'
        PROVE  /\ status'[q] = "TERMINATED"
               /\ [pid |-> pid'[q], parent |-> parent'[q], code |-> return_code'[q]] \in exits'
               /\ \E r \in linked' \ {kmain} : parent'[q] = pid'[r]
    <3>1. q \in InUse \ linked
      BY <1>e, <1>t
    <3>2. PICK r \in linked \ {kmain} : parent[q] = pid[r]
      BY <3>1 DEF FamInv, Members
    <3>3. /\ status[q] = "TERMINATED"
          /\ [pid |-> pid[q], parent |-> parent[q], code |-> return_code[q]] \in exits
      BY <3>1 DEF FamInv, Members
    <3>4. r \in linked' \ {kmain} /\ pid'[r] = pid[r] /\ pid'[q] = pid[q]
      BY <1>e, <1>t, <3>2
    <3> QED
      BY <1>e, <3>2, <3>3, <3>4
  <2>2. \A q \in linked' : status'[q] = "READY"
    BY <1>e DEF FamInv, Members
  <2> QED
    BY <1>e, <1>t, <2>1, <2>2 DEF Members
<1>3. ASSUME NEW r \in linked PROVE Kids(r)' = Kids(r) \ {x}
  <2>1. Kids(r)' = {q \in InUse' \ {kmain} : parent'[q] = pid'[r]} /\ r \in InUse'
    BY <1>e, <1>t DEF Kids
  <2> QED
    BY <1>e, <2>1 DEF Kids
<1>4. ChildLists'
  <2> SUFFICES ASSUME NEW r \in linked' \ {kmain}
               PROVE  Chain(Kids(r)', child'[r], brother', pid')
    BY DEF ChildLists
  <2>1. /\ r \in linked \ {kmain} /\ Chain(Kids(r), child[r], brother, pid)
        /\ Keyed(Kids(r), pid) /\ r \in Pcb /\ w \in Pcb /\ Kids(w) \subseteq Pcb
    BY <1>e, <1>t DEF FamInv, ChildLists
  <2>2. \A q \in Kids(r)' : pid'[q] = pid[q]
    BY <1>e DEF Kids
  <2>3. CASE r # w
    <3>1. Kids(r) \cap Kids(w) = {}
      BY <1>e, <2>1, <2>3, KidsApart
    <3>2. Kids(r)' = Kids(r)
      BY <1>3, <1>e, <2>1, <3>1
    <3>3. \A q \in Kids(r) : brother'[q] = brother[q] /\ pid'[q] = pid[q]
      BY <1>u, <1>t, <2>1, <2>2, <3>1, <3>2
    <3>4. child'[r] = child[r]
      BY <1>u, <1>t, <2>1, <2>3
    <3> QED
      BY <2>1, <3>2, <3>3, <3>4, ChainSame
  <2>4. CASE r = w /\ x = child[w]
    <3>1. child'[w] = brother[x] /\ brother' = brother
      BY <1>u, <1>t, <2>1, <2>4
    <3>2. x # None
      BY <1>e, <1>t
    <3>3. Chain(Kids(r) \ {x}, brother[x], brother, pid)
      BY <2>1, <2>4, <3>2, ChainWithoutFirst
    <3>4. \A q \in Kids(r) \ {x} : brother'[q] = brother[q] /\ pid'[q] = pid[q]
      BY <1>3, <2>1, <2>2, <3>1
    <3>5. Chain(Kids(r) \ {x}, brother[x], brother', pid')
      BY <3>3, <3>4, ChainSame
    <3> QED
      BY <1>3, <2>1, <2>4, <3>1, <3>5
  <2>5. CASE r = w /\ x # child[w]
    <3>1. PICK prev \in Kids(r) : brother[prev] = x /\ brother' = [brother EXCEPT ![prev] = brother[x]]
      BY <1>u, <2>5
    <3>2. child'[r] = child[r]
      BY <1>u, <2>5
    <3>3. x # None /\ x \in Kids(r)
      BY <1>e, <1>t, <2>5
    <3>4. brother'[prev] = brother[x] /\ \A q \in Kids(r) : q # prev => brother'[q] = brother[q]
      BY <1>t, <3>1, <2>1, <2>5
    <3>5. Chain(Kids(r) \ {x}, child[r], brother', pid)
      <4>1. PICK V : V = Kids(r)
        OBVIOUS
      <4>2. PICK a, bb : a = child[r] /\ bb = brother'
        OBVIOUS
      <4>3. /\ Chain(V, a, brother, pid) /\ Keyed(V, pid) /\ x \in V /\ x # None /\ x # a
            /\ prev \in V /\ brother[prev] = x
        BY <2>1, <2>5, <3>1, <3>3, <4>1, <4>2
      <4>4. bb[prev] = brother[x] /\ \A q \in V : q # prev => bb[q] = brother[q]
        BY <3>4, <4>1, <4>2
      <4>5. Chain(V \ {x}, a, bb, pid)
        BY <4>3, <4>4, ChainWithout
      <4> QED
        BY <4>1, <4>2, <4>5
    <3>6. \A q \in Kids(r) \ {x} : pid'[q] = pid[q]
      BY <1>3, <2>1, <2>2
    <3>7. Chain(Kids(r) \ {x}, child[r], brother', pid')
      BY <3>5, <3>6, ChainSame
    <3> QED
      BY <1>3, <2>1, <3>2, <3>7
  <2> QED
    BY <2>3, <2>4, <2>5
<1>5. PpidIsAlive'
  <2> SUFFICES ASSUME NEW q \in linked' \ {kmain}
               PROVE  ppid'[q] = IF HasParent(q)' THEN parent'[q] ELSE 0
    BY DEF PpidIsAlive
  <2>1. HasParent(q)' <=> HasParent(q)
    BY <1>e, <1>t DEF HasParent
  <2> QED
    BY <1>e, <1>t, <2>1 DEF FamInv, PpidIsAlive
<1>6. Waits'
  BY <1>e DEF Waits
<1>7. Early'
  BY <1>e, <1>w, <1>t DEF EndWait, FamInv, Early
<1>8. Ends'
  <2>1. CASE brother' = brother
    BY <2>1 DEF FamInv, Ends
  <2>2. CASE \E prev \in Kids(w) : brother[prev] = x /\ brother' = [brother EXCEPT ![prev] = brother[x]]
    <3>1. Kids(w) \subseteq Pcb
      BY <1>t
    <3> QED
      BY <1>e, <2>2, <3>1, UnlinkEnds
  <2> QED
    BY <1>u, <2>1, <2>2
<1> QED
  BY <1>e, <1>1, <1>2, <1>4, <1>5, <1>6, <1>7, <1>8 DEF FamInv

\* Entering do_sys_waitpid for a child that the caller has.
LEMMA BeginWaitNext ==
    ASSUME FamInv, NEW p \in Pcb, NEW number, NEW target \in Kids(p), NEW prev \in Pcb \cup {None},
           BeginWait(p, number, target, prev),
           \/ number = Any
           \/ /\ number = pid[target]
              /\ target = child[p] \/ (prev \in Kids(p) /\ brother[prev] = target)
    PROVE  FamInv'
<1>1. /\ waiter' = p /\ wanted' = number /\ process_waiting_for' = target /\ previous_waiting' = prev
      /\ ~found' /\ found' \in BOOLEAN /\ p \in linked \ {kmain}
      /\ UNCHANGED <<pid, ppid, status, child, brother, return_code, linked, pid_counter,
                     kernel, parent, exits, reported>>
      /\ UNCHANGED heapVars
  BY DEF BeginWait, MayWait, Runs
<1>2. /\ Stacked' /\ Pids' /\ Members' /\ ChildLists' /\ PpidIsAlive' /\ Ends' /\ InUse' = InUse
      /\ \A q : Kids(q)' = Kids(q)
  BY <1>1, FamilyKept
<1>3. target \in Pcb /\ pid[target] \in 0 .. MaxPid
  <2>1. target \in InUse /\ target \in Pcb /\ pid[target] \in Nat /\ pid[target] < MaxPid /\ MaxPid \in Nat
    BY FamTypes DEF Kids
  <2> QED
    BY <2>1
<1>4. FamilyTypeOK'
  BY <1>1, <1>3 DEF FamInv, FamilyTypeOK, heapVars
<1>5. Waits'
  <2>1. Kids(p)' = {q \in InUse' \ {kmain} : parent'[q] = pid'[p]}
    BY DEF Kids
  <2>2. Kids(waiter)' = Kids(p)
    BY <1>1, <1>2, <2>1 DEF Kids
  <2> QED
    BY <1>1, <2>2 DEF Waits
<1>6. Early'
  <2>1. kernel = "forks"
    <3>1. parent[target] = pid[p] /\ target \in InUse \ {kmain} /\ pid[p] # 0
      BY <1>1, KidsApart DEF Kids
    <3> QED
      BY <3>1 DEF FamInv, Early
  <2> QED
    BY <1>1, <2>1 DEF Early
<1> QED
  BY <1>1, <1>2, <1>4, <1>5, <1>6 DEF FamInv, AnswersAreTrue

LEMMA WaitNext == ASSUME FamInv, NEW p \in Pcb, do_sys_waitpid(p) PROVE FamInv'
<1>1. p \in linked \ {kmain} /\ child[p] # None
  BY DEF do_sys_waitpid, WaitFirst, WaitAny, WaitOther, BeginWait, MayWait, Runs
<1>2. Chain(Kids(p), child[p], brother, pid) /\ Children(p) = Kids(p) /\ Kids(p) \subseteq Pcb
  BY <1>1, ChildrenAreKids, FamTypes DEF FamInv, ChildLists
<1>3. child[p] \in Kids(p) /\ \A q \in Kids(p) : brother[q] # None => brother[q] \in Kids(p)
  BY <1>1, <1>2 DEF Chain
<1>4. CASE WaitFirst(p)
  BY <1>3, <1>4, BeginWaitNext DEF WaitFirst
<1>5. CASE WaitAny(p)
  BY <1>3, <1>5, BeginWaitNext DEF WaitAny
<1>6. CASE WaitOther(p)
  <2>1. PICK prev \in Kids(p) : brother[prev] # None /\ BeginWait(p, pid[brother[prev]], brother[prev], prev)
    BY <1>2, <1>6 DEF WaitOther
  <2> QED
    BY <1>2, <1>3, <2>1, BeginWaitNext
<1> QED
  BY <1>4, <1>5, <1>6 DEF do_sys_waitpid

\* A step of the search does not leave the caller's children, and stops only at a dead one.
LEMMA PollNext == ASSUME FamInv, Poll PROVE FamInv'
<1>1. /\ UNCHANGED <<pid, ppid, status, child, brother, return_code, linked, pid_counter,
                     kernel, waiter, wanted, previous_waiting, parent, exits, reported>>
      /\ UNCHANGED heapVars /\ waiter # None /\ ~found
  BY DEF Poll
<1>2. /\ Stacked' /\ Pids' /\ Members' /\ ChildLists' /\ PpidIsAlive' /\ Ends' /\ InUse' = InUse
      /\ \A q : Kids(q)' = Kids(q)
  BY <1>1, FamilyKept
<1>w. PICK w : w = waiter
  OBVIOUS
<1>3. w \in linked \ {kmain} /\ process_waiting_for \in Kids(w)
  BY <1>1, <1>w DEF FamInv, Waits
<1>4. NextChild \in Kids(w)
  <2>1. Chain(Kids(w), child[w], brother, pid)
    BY <1>3 DEF FamInv, ChildLists
  <2> QED
    BY <1>3, <1>w, <2>1 DEF Chain, NextChild
<1>5. /\ process_waiting_for' \in Kids(w) /\ found' \in BOOLEAN
      /\ found' => status[process_waiting_for'] = "TERMINATED"
      /\ wanted # Any => process_waiting_for' = process_waiting_for
  <2>1. CASE status[process_waiting_for] = "TERMINATED"
    <3>1. found' = TRUE /\ process_waiting_for' = process_waiting_for
      BY <2>1 DEF Poll
    <3> QED
      BY <1>3, <2>1, <3>1
  <2>2. CASE status[process_waiting_for] # "TERMINATED"
    <3>1. /\ process_waiting_for' = IF wanted = Any THEN NextChild ELSE process_waiting_for
          /\ found' = found
      BY <2>2 DEF Poll
    <3>2. found' = FALSE
      <4>1. found \in BOOLEAN
        BY DEF FamInv, FamilyTypeOK
      <4> QED
        BY <1>1, <3>1, <4>1
    <3>3. process_waiting_for' \in Kids(w)
      BY <1>3, <1>4, <3>1
    <3> QED
      BY <3>1, <3>2, <3>3
  <2> QED
    BY <2>1, <2>2
<1>6. FamilyTypeOK'
  <2>1. process_waiting_for' \in Pcb
    BY <1>5, FamTypes
  <2> QED
    BY <1>1, <1>5, <2>1 DEF FamInv, FamilyTypeOK, heapVars
<1>7. Waits'
  <2>1. Kids(w)' = {q \in InUse' \ {kmain} : parent'[q] = pid'[w]}
    BY DEF Kids
  <2>2. Kids(waiter)' = Kids(w) /\ Kids(waiter) = Kids(w)
    BY <1>1, <1>2, <1>w, <2>1 DEF Kids
  <2> QED
    BY <1>1, <1>3, <1>5, <1>w, <2>2 DEF FamInv, Waits
<1> QED
  BY <1>1, <1>2, <1>6, <1>7 DEF FamInv, Early, AnswersAreTrue

LEMMA StartNext == ASSUME FamInv, start_kernel \/ UNCHANGED vars PROVE FamInv'
<1>1. /\ UNCHANGED <<pid, ppid, status, child, brother, return_code, linked, pid_counter,
                     parent, exits, reported>>
      /\ UNCHANGED heapVars
      /\ UNCHANGED <<waiter, wanted, process_waiting_for, previous_waiting, found>>
      /\ kernel' \in {"setup", "forks", "creates"} /\ (kernel # "forks" \/ kernel' = kernel)
  BY DEF start_kernel, vars, waitVars, FamInv, FamilyTypeOK
<1>2. /\ Stacked' /\ Pids' /\ Members' /\ ChildLists' /\ PpidIsAlive' /\ Ends' /\ InUse' = InUse
      /\ \A q : Kids(q)' = Kids(q)
  BY <1>1, FamilyKept
<1>3. FamilyTypeOK'
  BY <1>1 DEF FamInv, FamilyTypeOK, heapVars
<1>4. Waits'
  <2>1. PICK w : w = waiter
    OBVIOUS
  <2>2. Kids(w)' = {q \in InUse' \ {kmain} : parent'[q] = pid'[w]}
    BY DEF Kids
  <2>3. Kids(waiter)' = Kids(w) /\ Kids(waiter) = Kids(w)
    BY <1>1, <1>2, <2>1, <2>2 DEF Kids
  <2> QED
    BY <1>1, <2>1, <2>3 DEF FamInv, Waits
<1> QED
  BY <1>1, <1>2, <1>3, <1>4 DEF FamInv, Early, AnswersAreTrue

LEMMA FamNext == ASSUME FamInv, ~LeavesZombies, [Next]_vars PROVE FamInv'
<1>1. CASE create_process
  <2>1. PICK p \in Pcb : add_process(kmain, p) /\ kernel # "forks" /\ UNCHANGED kernel
    BY <1>1 DEF create_process
  <2>2. kmain \in linked
    BY DEF FamInv, Members
  <2> QED
    BY <2>1, <2>2, AddNext
<1>2. CASE start_kernel \/ UNCHANGED vars
  BY <1>2, StartNext
<1>3. ASSUME NEW creator \in Pcb, do_sys_fork(creator) PROVE FamInv'
  <2>1. PICK p \in Pcb : add_process(creator, p)
    BY <1>3 DEF do_sys_fork
  <2>2. creator \in linked /\ creator # waiter /\ kernel = "forks" /\ creator # kmain /\ UNCHANGED kernel
    BY <1>3 DEF do_sys_fork, Runs
  <2> QED
    BY <2>1, <2>2, AddNext
<1>4. ASSUME NEW p \in Pcb, do_sys_waitpid(p) PROVE FamInv'
  BY <1>4, WaitNext
<1>5. ASSUME NEW p \in Pcb, NEW code \in Codes, do_sys_exit(p, code) PROVE FamInv'
  BY <1>5, ExitNext
<1>6. CASE Poll
  BY <1>6, PollNext
<1>7. CASE EndWait
  BY <1>7, EndWaitNext
<1> QED
  BY <1>1, <1>2, <1>3, <1>4, <1>5, <1>6, <1>7 DEF Next

-----------------------------------------------------------------------------
(* The theorems.  Their hypothesis is what the programs of the repository respect: a       *)
(* process waits for its dead children before it exits.                                    *)

\* The invariant: the pcbs are split between the free list and the processes, and every
\* child list is its parent's children in the order of their pids.
THEOREM FamilyInvariant == ASSUME ~LeavesZombies PROVE Spec => []FamInv
<1>1. FamInv /\ [Next]_vars => FamInv'
  BY FamNext
<1> QED
  BY FamInit, <1>1, PTL DEF Spec

\* Every variable keeps its type.
THEOREM FamilyTypeCorrect == ASSUME ~LeavesZombies PROVE Spec => []FamilyTypeOK
<1>1. FamInv => FamilyTypeOK
  BY DEF FamInv
<1> QED
  BY FamilyInvariant, <1>1, PTL

\* kAlloc never hands out a pcb of a process that is in the scheduler's list, and the free
\* list it takes from ends.
THEOREM FreeListCorrect == ASSUME ~LeavesZombies PROVE Spec => []FreeListSound
<1>1. ASSUME FamInv PROVE FreeListSound
  <2>0. PICK n \in Nat : \E S : Threads(n, S)
    BY <1>1 DEF FamInv, Stacked
  <2>1. PICK S : Threads(n, S)
    BY <2>0
  <2>2. Free = {S[i] : i \in 1 .. n}
    BY <1>1, <2>1, FreeIsThreaded DEF FamInv
  <2>3. Free \subseteq kernel_heap_start .. kernel_heap_top - 1
    BY <2>1, <2>2 DEF Threads
  <2>4. ASSUME Free # {} PROVE \E q \in Free : pid[q] = None
    <3>1. 1 \in 1 .. n
      BY <2>2, <2>4
    <3>2. S[1] \in Free /\ pid[S[1]] = None
      BY <2>1, <2>2, <3>1 DEF Threads
    <3> QED
      BY <3>2
  <2>5. Free \cap linked = {}
    BY <1>1 DEF FamInv, Members, InUse
  <2> QED
    BY <2>3, <2>4, <2>5 DEF FreeListSound
<1>2. FamInv => FreeListSound
  BY <1>1
<1> QED
  BY FamilyInvariant, <1>2, PTL

\* The children a process walks are the processes it created and did not wait for.
THEOREM ChildrenCorrect == ASSUME ~LeavesZombies PROVE Spec => []ChildrenAreOwn
<1>1. FamInv => ChildrenAreOwn
  BY ChildrenAreKids DEF ChildrenAreOwn, Kids
<1> QED
  BY FamilyInvariant, <1>1, PTL

\* Following the brothers of a process's children, one comes to a last one, although the pcbs
\* of kmain's children are freed and used again while they are in its list.
THEOREM WalksCorrect == ASSUME ~LeavesZombies PROVE Spec => []WalksEnd
<1>1. ASSUME FamInv, NEW p \in linked, child[p] # None
      PROVE  \E last \in Children(p) : brother[last] = None
  <2>1. child[p] \in Pcb /\ \A q \in Pcb : brother[q] \in Pcb \cup {None}
    BY <1>1, FamTypes DEF FamInv, FamilyTypeOK
  <2>2. Children(p) \subseteq Pcb
    BY <2>1, AlongInside DEF Children
  <2>3. child[p] \in Children(p) /\ \A q \in Children(p) : brother[q] \in Children(p) \cup {None}
    BY <2>1, AlongCloses DEF Children
  <2>4. PICK last \in Children(p) : brother[last] \notin Children(p)
    BY <1>1, <2>2, <2>3 DEF FamInv, Ends
  <2> QED
    BY <2>3, <2>4
<1>2. FamInv => WalksEnd
  BY <1>1 DEF WalksEnd
<1> QED
  BY FamilyInvariant, <1>2, PTL

\* A pcb that is neither free nor in the scheduler's list is a zombie that somebody can
\* still find and wait for.
THEOREM NothingIsLost == ASSUME ~LeavesZombies PROVE Spec => []NothingLost
<1>1. ASSUME FamInv, NEW q \in InUse \ linked
      PROVE  status[q] = "TERMINATED" /\ \E p \in linked \ {kmain} : q \in Children(p)
  <2>1. status[q] = "TERMINATED" /\ kmain \in linked
    BY <1>1 DEF FamInv, Members
  <2>2. PICK p \in linked \ {kmain} : parent[q] = pid[p]
    BY <1>1 DEF FamInv, Members
  <2>3. q \in Children(p)
    BY <1>1, <2>1, <2>2, ChildrenAreKids DEF Kids
  <2> QED
    BY <2>1, <2>3
<1>2. FamInv => NothingLost
  BY <1>1 DEF NothingLost
<1> QED
  BY FamilyInvariant, <1>2, PTL

\* ppid names a parent that can wait, or kmain.
THEOREM PpidCorrect == ASSUME ~LeavesZombies PROVE Spec => []PpidIsAlive
<1>1. FamInv => PpidIsAlive
  BY DEF FamInv
<1> QED
  BY FamilyInvariant, <1>1, PTL

\* do_sys_waitpid answers what the child it names exited with.
THEOREM AnswersCorrect == ASSUME ~LeavesZombies PROVE Spec => []AnswersAreTrue
<1>1. FamInv => AnswersAreTrue
  BY DEF FamInv
<1> QED
  BY FamilyInvariant, <1>1, PTL
=============================================================================

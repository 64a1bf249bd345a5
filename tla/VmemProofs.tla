----------------------------- MODULE VmemProofs -----------------------------
(***************************************************************************)
(* What holds of the kernel heap, the translation tables and the TLB for   *)
(* every number of processes, pages and frames: first what kAlloc and      *)
(* kFree do to a heap, then what mapping and unmapping do to the tables of *)
(* a process, then one lemma per action of Vmem, then the theorems.        *)
(***************************************************************************)
EXTENDS Vmem, FiniteSetTheorems, WellFoundedInduction, TLAPS

-----------------------------------------------------------------------------
(* The kernel heap.                                                        *)

\* A set of naturals has a least element: the only induction these proofs need.
LEMMA LeastElement ==
    ASSUME NEW T \in SUBSET Nat, T # {}
    PROVE  \E n \in T : \A m \in T : ~(m < n)
<1>1. PICK n \in T : \A m \in T : <<m, n>> \notin OpToRel(<, Nat)
  BY NatLessThanWellFounded, WFMin
<1>2. \A m \in T : m < n => <<m, n>> \in OpToRel(<, Nat)
  BY DEF OpToRel
<1> QED
  BY <1>1, <1>2

\* Min is that element.
LEMMA MinIs ==
    ASSUME NEW T \in SUBSET Nat, T # {}
    PROVE  Min(T) \in T /\ \A m \in T : Min(T) <= m
<1>1. PICK n \in T : \A m \in T : ~(m < n)
  BY LeastElement
<1>2. \A m \in T : n <= m
  BY <1>1
<1> QED
  BY <1>1, <1>2 DEF Min

Heap == [top : Nat, free : Seq(Block)]
Beside(r, s) == r.addr + r.size <= s.addr \/ s.addr + s.size <= r.addr

\* The free blocks lie below the top of the heap, one beside the other.
HeapSound(k) ==
    /\ k \in Heap /\ kernel_heap_start <= k.top
    /\ \A i \in DOMAIN k.free :
        /\ kernel_heap_start <= k.free[i].addr /\ k.free[i].addr + k.free[i].size <= k.top
        /\ \A j \in DOMAIN k.free : i # j => Beside(k.free[i], k.free[j])

\* What the kernel has of its heap lies below the top and beside what is free.
Used(k, r) ==
    /\ r.addr \in Nat /\ r.size \in Nat \ {0}
    /\ kernel_heap_start <= r.addr /\ r.addr + r.size <= k.top
    /\ \A i \in DOMAIN k.free : Beside(k.free[i], r)

\* The heap k2 is the heap k, but for the block r that was free in it.
Allotted(k, k2, r) ==
    HeapSound(k2) /\ Used(k2, r) /\ \A s : Used(k, s) => Used(k2, s) /\ Beside(r, s)

\* The heap k2 is the heap k, but for the block r that was in use in it.
Released(k, k2, r) == HeapSound(k2) /\ \A s : Used(k, s) /\ Beside(r, s) => Used(k2, s)

\* What a heap is made of.
LEMMA HeapIs ==
    ASSUME NEW k, k \in Heap
    PROVE  /\ k.top \in Nat /\ k.free \in Seq(Block) /\ DOMAIN k.free = 1 .. Len(k.free) /\ Len(k.free) \in Nat
           /\ \A i \in DOMAIN k.free : k.free[i] \in Block /\ k.free[i].addr \in Nat /\ k.free[i].size \in Nat
           /\ \A free : [k EXCEPT !.free = free].top = k.top /\ [k EXCEPT !.free = free].free = free
           /\ \A top : [k EXCEPT !.top = top].top = top /\ [k EXCEPT !.top = top].free = k.free
           /\ \A free \in Seq(Block) : [k EXCEPT !.free = free] \in Heap
           /\ \A top \in Nat : [k EXCEPT !.top = top] \in Heap
<1>1. k.top \in Nat /\ k.free \in Seq(Block)
  BY DEF Heap
<1>2. DOMAIN k.free = 1 .. Len(k.free) /\ Len(k.free) \in Nat /\ \A i \in DOMAIN k.free : k.free[i] \in Block
  BY <1>1
<1>3. \A b \in Block : b.addr \in Nat /\ b.size \in Nat
  BY DEF Block
<1>4. /\ \A free : [k EXCEPT !.free = free].top = k.top /\ [k EXCEPT !.free = free].free = free
      /\ \A top : [k EXCEPT !.top = top].top = top /\ [k EXCEPT !.top = top].free = k.free
  BY DEF Heap
<1>5. \A free \in Seq(Block) : [k EXCEPT !.free = free] \in Heap
  BY DEF Heap
<1>6. \A top \in Nat : [k EXCEPT !.top = top] \in Heap
  BY DEF Heap
<1> QED
  BY <1>1, <1>2, <1>3, <1>4, <1>5, <1>6

\* What is rounded up is not less.
LEMMA AlignedIsAbove ==
    ASSUME NEW addr \in Nat, NEW align \in Nat \ {0}
    PROVE  aligned_value(addr, align) \in Nat /\ addr <= aligned_value(addr, align)
<1> DEFINE x == addr + align - 1
           q == x \div align
           m == x % align
<1>1. x \in Nat
  OBVIOUS
<1>2. q \in Nat /\ m \in 0 .. align - 1 /\ x = align * q + m
  BY <1>1
<1>3. align * q \in Nat /\ align * q = q * align
  BY <1>2
<1> HIDE DEF q, m
<1> QED
  BY <1>2, <1>3 DEF aligned_value, q

\* A block that is freed was in use: it is free from then on, and no other changes.
LEMMA FreeSound ==
    ASSUME NEW k, HeapSound(k), NEW r, Used(k, r), NEW f \in BOOLEAN
    PROVE  Released(k, kFree(k, r.addr, r.size, f), r)
<1> DEFINE b == [addr |-> r.addr, size |-> r.size, flagged |-> f]
           k2 == kFree(k, r.addr, r.size, f)
<1>1. k \in Heap /\ k.top \in Nat /\ k.free \in Seq(Block) /\ b \in Block
  BY HeapIs DEF HeapSound, Used, Block
<1>2. k2.top = k.top /\ k2.free = <<b>> \o k.free /\ k2 \in Heap
  <2>1. PICK free : free = <<b>> \o k.free
    OBVIOUS
  <2>2. free \in Seq(Block)
    <3> HIDE DEF b
    <3> QED
      BY <1>1, <2>1
  <2>3. k2 = [k EXCEPT !.free = free]
    BY <2>1 DEF kFree
  <2>4. k2.top = k.top /\ k2.free = free
    BY <1>1, <2>3, HeapIs
  <2>5. k2 \in Heap
    BY <1>1, <2>2, <2>3, HeapIs
  <2> HIDE DEF k2, b
  <2> QED
    BY <2>1, <2>4, <2>5
<1>3. /\ DOMAIN k.free = 1 .. Len(k.free) /\ Len(k.free) \in Nat
      /\ DOMAIN k2.free = 1 .. Len(k.free) + 1
      /\ k2.free[1] = b /\ \A i \in DOMAIN k2.free : i # 1 => i - 1 \in DOMAIN k.free /\ k2.free[i] = k.free[i - 1]
  BY <1>1, <1>2
<1>4. \A i \in DOMAIN k.free : k.free[i] \in Block
  BY <1>1, HeapIs
<1>5. \A s : Used(k, s) /\ Beside(r, s) => Used(k2, s)
  BY <1>2, <1>3 DEF Used, Beside
<1>6. ASSUME NEW i \in DOMAIN k2.free
      PROVE  /\ kernel_heap_start <= k2.free[i].addr /\ k2.free[i].addr + k2.free[i].size <= k2.top
             /\ \A j \in DOMAIN k2.free : i # j => Beside(k2.free[i], k2.free[j])
  <2>1. CASE i = 1
    BY <1>2, <1>3, <2>1 DEF Used, Beside
  <2>2. CASE i # 1
    <3>1. i - 1 \in DOMAIN k.free /\ k2.free[i] = k.free[i - 1]
      BY <1>3, <2>2
    <3>2. kernel_heap_start <= k2.free[i].addr /\ k2.free[i].addr + k2.free[i].size <= k2.top
      BY <1>2, <3>1 DEF HeapSound
    <3>3. ASSUME NEW j \in DOMAIN k2.free, i # j PROVE Beside(k2.free[i], k2.free[j])
      <4>1. CASE j = 1
        BY <1>3, <3>1, <4>1 DEF Used, Beside
      <4>2. CASE j # 1
        BY <1>3, <3>1, <3>3, <4>2 DEF HeapSound
      <4> QED
        BY <4>1, <4>2
    <3> QED
      BY <3>2, <3>3
  <2> QED
    BY <2>1, <2>2
<1> HIDE DEF k2
<1>7. HeapSound(k2)
  BY <1>2, <1>6 DEF HeapSound
<1> QED
  BY <1>5, <1>7 DEF Released, k2

\* What a sequence is without one of its elements.
LEMMA RemoveAtIs ==
    ASSUME NEW S, NEW s \in Seq(S), NEW i \in DOMAIN s
    PROVE  /\ RemoveAt(s, i) \in Seq(S)
           /\ DOMAIN RemoveAt(s, i) = 1 .. Len(s) - 1
           /\ \A j \in 1 .. Len(s) - 1 :
                 /\ RemoveAt(s, i)[j] = s[IF j < i THEN j ELSE j + 1]
                 /\ (IF j < i THEN j ELSE j + 1) \in DOMAIN s \ {i}
<1>1. Len(s) \in Nat /\ DOMAIN s = 1 .. Len(s) /\ i \in 1 .. Len(s)
  OBVIOUS
<1>2. /\ SubSeq(s, 1, i - 1) \in Seq(S) /\ Len(SubSeq(s, 1, i - 1)) = i - 1
      /\ \A j \in 1 .. i - 1 : SubSeq(s, 1, i - 1)[j] = s[j]
  BY <1>1
<1>3. /\ SubSeq(s, i + 1, Len(s)) \in Seq(S) /\ Len(SubSeq(s, i + 1, Len(s))) = Len(s) - i
      /\ \A j \in 1 .. Len(s) - i : SubSeq(s, i + 1, Len(s))[j] = s[i + j]
  BY <1>1
<1>4. PICK A \in Seq(S), B \in Seq(S) : A = SubSeq(s, 1, i - 1) /\ B = SubSeq(s, i + 1, Len(s))
  BY <1>2, <1>3
<1>5. RemoveAt(s, i) = A \o B /\ Len(A) = i - 1 /\ Len(B) = Len(s) - i
  BY <1>2, <1>3, <1>4 DEF RemoveAt
<1>6. A \o B \in Seq(S) /\ DOMAIN (A \o B) = 1 .. Len(s) - 1
  <2>1. A \o B \in Seq(S) /\ Len(A \o B) = Len(A) + Len(B)
    OBVIOUS
  <2>2. DOMAIN (A \o B) = 1 .. Len(A \o B)
    BY <2>1
  <2>3. Len(A) + Len(B) = Len(s) - 1
    BY <1>1, <1>5
  <2> QED
    BY <2>1, <2>2, <2>3
<1>7. ASSUME NEW j \in 1 .. Len(s) - 1
      PROVE  /\ (A \o B)[j] = s[IF j < i THEN j ELSE j + 1]
             /\ (IF j < i THEN j ELSE j + 1) \in DOMAIN s \ {i}
  <2>1. (A \o B)[j] = IF j <= i - 1 THEN A[j] ELSE B[j - (i - 1)]
    BY <1>1, <1>5
  <2>2. CASE j < i
    <3>1. (A \o B)[j] = A[j]
      BY <1>1, <2>1, <2>2
    <3>2. A[j] = s[j]
      BY <1>1, <1>2, <1>4, <2>2
    <3> QED
      BY <1>1, <2>2, <3>1, <3>2
  <2>3. CASE ~(j < i)
    <3>1. j - (i - 1) \in 1 .. Len(s) - i /\ i + (j - (i - 1)) = j + 1
      BY <1>1, <2>3
    <3>2. B[j - (i - 1)] = s[j + 1]
      BY <1>3, <1>4, <3>1
    <3> QED
      BY <1>1, <2>1, <2>3, <3>2
  <2> QED
    BY <2>2, <2>3
<1> QED
  BY <1>5, <1>6, <1>7

\* A block that is taken from the free list was free.
LEMMA UnlinkSound ==
    ASSUME NEW k, HeapSound(k), NEW i \in DOMAIN k.free, k.free[i].size # 0
    PROVE  Allotted(k, Unlinked(k, i), Span(k.free[i].addr, k.free[i].size))
<1> DEFINE k2 == Unlinked(k, i)
           b == Span(k.free[i].addr, k.free[i].size)
           At(j) == IF j < i THEN j ELSE j + 1
<1>1. k \in Heap /\ k.top \in Nat /\ k.free \in Seq(Block)
  BY DEF HeapSound, Heap
<1>2. k2.top = k.top /\ k2.free = RemoveAt(k.free, i)
  BY <1>1 DEF Unlinked, Heap
<1>3. /\ k2.free \in Seq(Block) /\ DOMAIN k2.free = 1 .. Len(k.free) - 1
      /\ \A j \in DOMAIN k2.free : k2.free[j] = k.free[At(j)] /\ At(j) \in DOMAIN k.free \ {i}
  BY <1>1, <1>2, RemoveAtIs, SMTT(20)
<1>4. k2 \in Heap
  BY <1>1, <1>2, <1>3 DEF Unlinked, Heap
<1>5. /\ k.free[i] \in Block /\ k.free[i].addr \in Nat /\ k.free[i].size \in Nat \ {0}
      /\ b.addr = k.free[i].addr /\ b.size = k.free[i].size
  BY <1>1, HeapIs DEF Span
<1>6. ASSUME NEW s, Used(k, s) PROVE Used(k2, s) /\ Beside(b, s)
  BY <1>2, <1>3, <1>5, <1>6 DEF Used, Beside
<1>7. Used(k2, b)
  BY <1>2, <1>3, <1>5 DEF Used, Beside, HeapSound
<1>8. HeapSound(k2)
  <2>1. ASSUME NEW j \in DOMAIN k2.free, NEW l \in DOMAIN k2.free, j # l PROVE At(j) # At(l)
    BY <1>1, <1>3, <2>1
  <2> HIDE DEF k2, At
  <2> QED
    BY <1>2, <1>3, <1>4, <2>1 DEF HeapSound
<1> QED
  BY <1>6, <1>7, <1>8 DEF Allotted

\* Above the top nothing is in use, and nothing free.
LEMMA TopSound ==
    ASSUME NEW k, HeapSound(k), NEW aligned \in Nat, k.top <= aligned, NEW size \in Nat \ {0}
    PROVE  /\ Allotted(k, TopAbove(k, aligned, size), Span(aligned, size))
           /\ k.top # aligned => /\ Used(TopAbove(k, aligned, size), Span(k.top, aligned - k.top))
                                 /\ Beside(Span(k.top, aligned - k.top), Span(aligned, size))
                                 /\ \A s : Used(k, s) => Beside(Span(k.top, aligned - k.top), s)
<1> DEFINE k2 == TopAbove(k, aligned, size)
<1>1. k \in Heap /\ k.top \in Nat /\ k.free \in Seq(Block) /\ kernel_heap_start \in Nat
      /\ kernel_heap_start <= k.top
  BY VmemAssumption DEF HeapSound, Heap
<1>2. k2.top = aligned + size /\ k2.free = k.free /\ k2 \in Heap
  BY <1>1 DEF TopAbove, Heap
<1>3. \A i \in DOMAIN k.free : k.free[i].addr \in Nat /\ k.free[i].size \in Nat
  BY <1>1, HeapIs
<1> HIDE DEF k2
<1>4. HeapSound(k2)
  BY <1>1, <1>2, <1>3, SMTT(20) DEF HeapSound
<1>5. Used(k2, Span(aligned, size))
  BY <1>1, <1>2, <1>3, SMTT(20) DEF HeapSound, Used, Span, Beside
<1>6. \A s : Used(k, s) => Used(k2, s) /\ Beside(Span(aligned, size), s)
  BY <1>1, <1>2, <1>3 DEF Used, Span, Beside
<1>7. k.top # aligned => /\ Used(k2, Span(k.top, aligned - k.top))
                         /\ Beside(Span(k.top, aligned - k.top), Span(aligned, size))
                         /\ \A s : Used(k, s) => Beside(Span(k.top, aligned - k.top), s)
  BY <1>1, <1>2, <1>3 DEF HeapSound, Used, Span, Beside
<1> QED
  BY <1>4, <1>5, <1>6, <1>7 DEF Allotted, k2

\* kAlloc_aligned hands out a block that was not in use, be it free or above the top.
LEMMA AllocSound ==
    ASSUME NEW k, HeapSound(k), NEW size \in Nat \ {0}, NEW align \in Nat \ {0}
    PROVE  Allotted(k, kAlloc_aligned(k, size, align).heap, Span(kAlloc_aligned(k, size, align).addr, size))
<1> DEFINE fits == {i \in 1 .. Len(k.free) : ~k.free[i].flagged /\ k.free[i].addr % align = 0 /\ k.free[i].size = size}
           fit == SelectInSeq(k.free, LAMBDA b : ~b.flagged /\ b.addr % align = 0 /\ b.size = size)
           aligned == aligned_value(k.top, align)
           above == TopAbove(k, aligned, size)
           gap == Span(k.top, aligned - k.top)
           block == kAlloc_aligned(k, size, align)
<1>1. k.top \in Nat /\ k.free \in Seq(Block) /\ aligned \in Nat /\ k.top <= aligned
  BY AlignedIsAbove DEF HeapSound, Heap
<1>2. fit = IF fits # {} THEN Min(fits) ELSE 0
  BY DEF SelectInSeq
<1>3. fit # 0 => fit \in fits
  <2>1. fits \in SUBSET Nat
    OBVIOUS
  <2> HIDE DEF fits
  <2> QED
    BY <1>2, <2>1, MinIs
<1> HIDE DEF aligned
<1>4. block = IF fit # 0 THEN [addr |-> k.free[fit].addr, heap |-> Unlinked(k, fit)]
              ELSE [addr |-> aligned,
                    heap |-> IF aligned = k.top THEN above ELSE kFree(above, k.top, aligned - k.top, FALSE)]
  BY DEF kAlloc_aligned, aligned
<1> HIDE DEF fit
<1>5. CASE fit # 0
  <2>1. fit \in DOMAIN k.free /\ k.free[fit].size = size
    BY <1>1, <1>3, <1>5
  <2>2. block.addr = k.free[fit].addr /\ block.heap = Unlinked(k, fit)
    BY <1>4, <1>5
  <2> QED
    BY <2>1, <2>2, UnlinkSound
<1>6. CASE fit = 0 /\ aligned = k.top
  <2>1. block.addr = aligned /\ block.heap = above
    BY <1>4, <1>6
  <2> QED
    BY <1>1, <2>1, TopSound
<1>7. CASE fit = 0 /\ aligned # k.top
  <2>1. block.addr = aligned /\ block.heap = kFree(above, gap.addr, gap.size, FALSE)
    BY <1>4, <1>7 DEF Span
  <2>2. /\ Allotted(k, above, Span(aligned, size)) /\ Used(above, gap)
        /\ Beside(gap, Span(aligned, size)) /\ \A s : Used(k, s) => Beside(gap, s)
    BY <1>1, <1>7, TopSound
  <2> HIDE DEF above, gap, block
  <2>3. Released(above, block.heap, gap)
    BY <2>1, <2>2, FreeSound DEF Allotted
  <2>4. Allotted(k, block.heap, Span(aligned, size))
    BY <2>2, <2>3 DEF Allotted, Released
  <2> QED
    BY <2>1, <2>4 DEF block
<1> QED
  BY <1>5, <1>6, <1>7

\* What a recursive function along 0 .. n computes exists: step i takes g[i] to the set S again.
StaysIn(S, g, n) == \A i \in 1 .. n : \A s \in S : g[i][s] \in S
StepsOf(w, s0, g, n) == w[0] = s0 /\ \A i \in 1 .. n : w[i] = g[i][w[i - 1]]

LEMMA StepsExist ==
    ASSUME NEW n \in Nat, NEW S, NEW s0 \in S, NEW g, StaysIn(S, g, n)
    PROVE  \E w \in [0 .. n -> S] : StepsOf(w, s0, g, n)
<1>0. \A i \in 1 .. n : \A s \in S : g[i][s] \in S
  BY DEF StaysIn
<1> DEFINE To(m, w) == w \in [0 .. m -> S] /\ w[0] = s0 /\ \A i \in 1 .. m : w[i] = g[i][w[i - 1]]
           without == {m \in 0 .. n : \A w : ~To(m, w)}
<1>1. without = {}
  <2> SUFFICES ASSUME without # {} PROVE FALSE
    OBVIOUS
  <2>1. PICK m \in without : \A l \in without : ~(l < m)
    <3>1. without \in SUBSET Nat
      OBVIOUS
    <3> HIDE DEF without
    <3> QED
      BY <3>1, LeastElement
  <2>2. m # 0
    <3> DEFINE w == [i \in 0 .. 0 |-> s0]
    <3>1. To(0, w)
      OBVIOUS
    <3> QED
      BY <2>1, <3>1
  <2>3. PICK w : To(m - 1, w)
    <3>1. m - 1 \in 0 .. n /\ m - 1 < m
      BY <2>1, <2>2
    <3> HIDE DEF To
    <3> QED
      BY <2>1, <3>1
  <2> DEFINE v == [i \in 0 .. m |-> IF i = m THEN g[m][w[m - 1]] ELSE w[i]]
  <2>4. m \in 1 .. n /\ m - 1 \in 0 .. m - 1
    BY <2>1, <2>2
  <2>5. w[m - 1] \in S
    BY <2>3, <2>4
  <2>6. g[m][w[m - 1]] \in S
    BY <1>0, <2>4, <2>5
  <2>7. v \in [0 .. m -> S] /\ v[0] = s0
    BY <2>3, <2>4, <2>6
  <2>8. ASSUME NEW i \in 1 .. m PROVE v[i] = g[i][v[i - 1]]
    <3>1. i - 1 \in 0 .. m /\ i - 1 # m /\ v[i - 1] = w[i - 1]
      BY <2>4
    <3>2. CASE i = m
      BY <3>1, <3>2
    <3>3. CASE i # m
      <4>1. i \in 1 .. m - 1 /\ i \in 0 .. m
        BY <2>4, <3>3
      <4>2. v[i] = w[i]
        BY <3>3, <4>1
      <4> QED
        BY <2>3, <3>1, <4>1, <4>2
    <3> QED
      BY <3>2, <3>3
  <2>9. To(m, v)
    BY <2>7, <2>8
  <2> HIDE DEF To, v
  <2> QED
    BY <2>1, <2>9
<1>2. n \in 0 .. n
  OBVIOUS
<1>3. PICK w : To(n, w)
  <2> HIDE DEF To
  <2> QED
    BY <1>1, <1>2
<1> QED
  BY <1>3 DEF StepsOf

\* The heap t.heap is the heap k, but for the n tables at t.addrs that were not in use in it.
TablesAllotted(k, t, n) ==
    /\ HeapSound(t.heap) /\ t.addrs \in Seq(Nat) /\ Len(t.addrs) = n
    /\ \A s : Used(k, s) => Used(t.heap, s) /\ \A j \in 1 .. n : Beside(TableSpan(t.addrs[j]), s)
    /\ \A j \in 1 .. n :
        /\ Used(t.heap, TableSpan(t.addrs[j]))
        /\ \A l \in 1 .. n : l # j => Beside(TableSpan(t.addrs[j]), TableSpan(t.addrs[l]))

OneMore(t) == [addrs |-> Append(t.addrs, Table2(t.heap).addr), heap |-> Table2(t.heap).heap]

LEMMA OneMoreTable ==
    ASSUME NEW k, NEW t, NEW n \in Nat, TablesAllotted(k, t, n)
    PROVE  TablesAllotted(k, OneMore(t), n + 1)
<1>1. PICK a, h : a = Table2(t.heap).addr /\ h = Table2(t.heap).heap
  OBVIOUS
<1>2. Allotted(t.heap, h, TableSpan(a))
  BY <1>1, AllocSound, VmemAssumption DEF TablesAllotted, Table2, TableSpan
<1>3. PICK u : u = OneMore(t)
  OBVIOUS
<1>4. u.heap = h /\ u.addrs = Append(t.addrs, a)
  BY <1>1, <1>3 DEF OneMore
<1>5. a \in Nat /\ t.addrs \in Seq(Nat) /\ Len(t.addrs) = n
  BY <1>2 DEF Allotted, Used, TableSpan, Span, TablesAllotted
<1>6. /\ u.addrs \in Seq(Nat) /\ Len(u.addrs) = n + 1 /\ u.addrs[n + 1] = a
      /\ \A j \in 1 .. n : u.addrs[j] = t.addrs[j]
  BY <1>4, <1>5
<1>7. \A j \in 1 .. n + 1 : j \in 1 .. n \/ j = n + 1
  OBVIOUS
<1>8. /\ HeapSound(h) /\ Used(h, TableSpan(a))
      /\ \A s : Used(t.heap, s) => Used(h, s) /\ Beside(TableSpan(a), s)
  BY <1>2 DEF Allotted
<1>9. \A r, s : Beside(r, s) => Beside(s, r)
  BY DEF Beside
<1> HIDE DEF TablesAllotted
<1>10. ASSUME NEW s, Used(k, s)
       PROVE  Used(h, s) /\ \A j \in 1 .. n + 1 : Beside(TableSpan(u.addrs[j]), s)
  BY <1>6, <1>7, <1>8, <1>10 DEF TablesAllotted
<1>11. ASSUME NEW j \in 1 .. n + 1
       PROVE  /\ Used(h, TableSpan(u.addrs[j]))
              /\ \A l \in 1 .. n + 1 : l # j => Beside(TableSpan(u.addrs[j]), TableSpan(u.addrs[l]))
  BY <1>6, <1>7, <1>8, <1>9 DEF TablesAllotted
<1> QED
  BY <1>3, <1>4, <1>6, <1>8, <1>10, <1>11 DEF TablesAllotted

\* n tables in a row are n blocks that were not in use.
LEMMA TablesSound ==
    ASSUME NEW k, HeapSound(k), NEW n \in Nat
    PROVE  TablesAllotted(k, Tables2(k, n), n)
<1> DEFINE State == [addrs : Seq(Nat), heap : {h \in Heap : HeapSound(h)}]
           start == [addrs |-> <<>>, heap |-> k]
           T[i \in 0 .. n] ==
               IF i = 0 THEN [addrs |-> <<>>, heap |-> k]
               ELSE [addrs |-> Append(T[i - 1].addrs, Table2(T[i - 1].heap).addr), heap |-> Table2(T[i - 1].heap).heap]
           bad == {i \in 0 .. n : ~TablesAllotted(k, T[i], i)}
<1>1. start \in State
  BY DEF HeapSound
<1>2. ASSUME NEW s \in State PROVE OneMore(s) \in State
  <2>1. PICK a, h : a = Table2(s.heap).addr /\ h = Table2(s.heap).heap
    OBVIOUS
  <2>2. Allotted(s.heap, h, TableSpan(a))
    BY <2>1, AllocSound, VmemAssumption DEF Table2, TableSpan
  <2>3. a \in Nat /\ h \in Heap /\ HeapSound(h)
    BY <2>2 DEF Allotted, Used, TableSpan, Span, HeapSound
  <2>4. OneMore(s) = [addrs |-> Append(s.addrs, a), heap |-> h]
    BY <2>1 DEF OneMore
  <2>5. Append(s.addrs, a) \in Seq(Nat)
    BY <2>3
  <2> QED
    BY <2>3, <2>4, <2>5
<1>3. PICK w \in [0 .. n -> State] : w[0] = start /\ \A i \in 1 .. n : w[i] = OneMore(w[i - 1])
  <2> HIDE DEF State, start, T, bad
  <2>1. PICK g : g = [i \in 1 .. n |-> [s \in State |-> OneMore(s)]]
    OBVIOUS
  <2>2. \A i \in 1 .. n : \A s \in State : g[i][s] = OneMore(s) /\ g[i][s] \in State
    BY <1>2, <2>1
  <2>3. StaysIn(State, g, n)
    BY <2>2 DEF StaysIn
  <2>4. PICK w \in [0 .. n -> State] : StepsOf(w, start, g, n)
    BY <1>1, <2>3, StepsExist
  <2>5. \A i \in 1 .. n : i - 1 \in 0 .. n /\ w[i - 1] \in State
    OBVIOUS
  <2> QED
    BY <2>2, <2>4, <2>5 DEF StepsOf
<1>4. T = [i \in 0 .. n |-> IF i = 0 THEN start ELSE OneMore(T[i - 1])]
  <2> HIDE DEF State
  <2>1. w = [i \in 0 .. n |-> IF i = 0 THEN start ELSE OneMore(w[i - 1])]
    BY <1>3
  <2> QED
    BY <2>1 DEF OneMore
<1> HIDE DEF T
<1>5. T[0] = start /\ \A i \in 1 .. n : T[i] = OneMore(T[i - 1])
  BY <1>4
<1>6. TablesAllotted(k, start, 0)
  BY DEF TablesAllotted
<1>7. bad = {}
  <2> SUFFICES ASSUME bad # {} PROVE FALSE
    OBVIOUS
  <2>1. PICK m \in bad : \A l \in bad : ~(l < m)
    <3>1. bad \in SUBSET Nat
      OBVIOUS
    <3> HIDE DEF bad
    <3> QED
      BY <3>1, LeastElement
  <2>2. m \in 1 .. n
    BY <1>5, <1>6, <2>1
  <2>3. m - 1 \in 0 .. n /\ m - 1 \notin bad /\ m - 1 \in Nat
    BY <2>1, <2>2
  <2>4. TablesAllotted(k, T[m - 1], m - 1)
    BY <2>3
  <2>5. TablesAllotted(k, T[m], m)
    BY <1>5, <2>2, <2>3, <2>4, OneMoreTable
  <2> QED
    BY <2>1, <2>5
<1>8. TablesAllotted(k, T[n], n)
  <2>1. n \in 0 .. n
    OBVIOUS
  <2> QED
    BY <1>7, <2>1
<1> QED
  BY <1>8 DEF Tables2, T

\* Tables that are freed one after another were in use: nothing else changes.
LEMMA FreeTablesSound ==
    ASSUME NEW k, HeapSound(k), NEW f \in [0 .. NbUserTables - 1 -> Nat],
           NEW empty \in SUBSET (0 .. NbUserTables - 1),
           \A i \in empty : Used(k, TableSpan(f[i])),
           \A i, j \in empty : i # j => Beside(TableSpan(f[i]), TableSpan(f[j]))
    PROVE  /\ HeapSound(FreeTables2(k, f, empty))
           /\ \A s : Used(k, s) /\ (\A i \in empty : Beside(TableSpan(f[i]), s)) =>
                     Used(FreeTables2(k, f, empty), s)
<1> DEFINE n == NbUserTables
           Step(i, h) == IF i - 1 \in empty THEN kFree(h, f[i - 1], SECON_LVL_TT_COUN, TRUE) ELSE h
           F[i \in 0 .. NbUserTables] ==
               IF i = 0 THEN k
               ELSE IF i - 1 \in empty THEN kFree(F[i - 1], f[i - 1], SECON_LVL_TT_COUN, TRUE) ELSE F[i - 1]
           Good(i) == /\ HeapSound(F[i])
                      /\ \A s : Used(k, s) /\ (\A j \in empty : j < i => Beside(TableSpan(f[j]), s)) => Used(F[i], s)
           bad == {i \in 0 .. n : ~Good(i)}
<1>0. n \in Nat /\ SECON_LVL_TT_COUN \in Nat
  BY VmemAssumption
<1>1. ASSUME NEW h \in Heap, NEW i \in 1 .. n PROVE Step(i, h) \in Heap
  <2>1. CASE i - 1 \in empty
    <3>1. PICK b : b = [addr |-> f[i - 1], size |-> SECON_LVL_TT_COUN, flagged |-> TRUE]
      OBVIOUS
    <3>2. b \in Block
      BY <1>0, <2>1, <3>1 DEF Block
    <3>3. <<b>> \o h.free \in Seq(Block)
      BY <3>2, HeapIs
    <3> QED
      BY <2>1, <3>1, <3>3, HeapIs DEF kFree
  <2> QED
    BY <2>1
<1>2. PICK w \in [0 .. n -> Heap] : w[0] = k /\ \A i \in 1 .. n : w[i] = Step(i, w[i - 1])
  <2> HIDE DEF Step, n, F, Good, bad
  <2>1. PICK g : g = [i \in 1 .. n |-> [h \in Heap |-> Step(i, h)]]
    OBVIOUS
  <2>2. \A i \in 1 .. n : \A h \in Heap : g[i][h] = Step(i, h) /\ g[i][h] \in Heap
    BY <1>1, <2>1
  <2>3. k \in Heap
    BY DEF HeapSound
  <2>4. StaysIn(Heap, g, n)
    BY <2>2 DEF StaysIn
  <2>5. PICK w \in [0 .. n -> Heap] : StepsOf(w, k, g, n)
    BY <1>0, <2>3, <2>4, StepsExist
  <2>6. \A i \in 1 .. n : i - 1 \in 0 .. n /\ w[i - 1] \in Heap
    BY <1>0, <2>5
  <2>7. w[0] = k /\ \A i \in 1 .. n : w[i] = g[i][w[i - 1]]
    BY <2>5 DEF StepsOf
  <2>8. \A i \in 1 .. n : w[i] = Step(i, w[i - 1])
    BY <2>2, <2>6, <2>7
  <2> QED
    BY <2>7, <2>8
<1>3. F = [i \in 0 .. n |-> IF i = 0 THEN k ELSE Step(i, F[i - 1])]
  <2>1. w = [i \in 0 .. n |-> IF i = 0 THEN k ELSE Step(i, w[i - 1])]
    <3> HIDE DEF Step
    <3> QED
      BY <1>0, <1>2
  <2> QED
    BY <2>1
<1> HIDE DEF F
<1>4. F[0] = k /\ \A i \in 1 .. n : F[i] = Step(i, F[i - 1])
  <2>1. 0 \in 0 .. n /\ \A i \in 1 .. n : i \in 0 .. n /\ i # 0
    BY <1>0
  <2> HIDE DEF Step, n
  <2> QED
    BY <1>3, <2>1
<1>5. Good(0)
  BY <1>4
<1>6. ASSUME NEW i \in 1 .. n, Good(i - 1) PROVE Good(i)
  <2>1. F[i] = Step(i, F[i - 1])
    BY <1>4
  <2>2. CASE i - 1 \in empty
    <3>1. PICK r : r = TableSpan(f[i - 1])
      OBVIOUS
    <3>2. \A j \in empty : j < i - 1 => Beside(TableSpan(f[j]), r)
      BY <1>0, <2>2, <3>1
    <3>3. Used(F[i - 1], r) /\ HeapSound(F[i - 1])
      BY <1>6, <2>2, <3>1, <3>2
    <3>4. F[i] = kFree(F[i - 1], r.addr, r.size, TRUE)
      BY <2>1, <2>2, <3>1 DEF TableSpan, Span
    <3>5. Released(F[i - 1], F[i], r)
      BY <3>3, <3>4, FreeSound
    <3>6. \A j \in empty : j < i - 1 => j < i
      OBVIOUS
    <3>7. i - 1 < i
      OBVIOUS
    <3> QED
      BY <1>6, <2>2, <3>1, <3>5, <3>6, <3>7 DEF Released
  <2>3. CASE i - 1 \notin empty
    <3>1. \A j \in empty : j < i - 1 => j < i
      OBVIOUS
    <3> QED
      BY <1>6, <2>1, <2>3, <3>1
  <2> QED
    BY <2>2, <2>3
<1> HIDE DEF Good, Step
<1>7. bad = {}
  <2> SUFFICES ASSUME bad # {} PROVE FALSE
    OBVIOUS
  <2>1. PICK m \in bad : \A l \in bad : ~(l < m)
    <3>1. bad \in SUBSET Nat
      OBVIOUS
    <3> HIDE DEF bad
    <3> QED
      BY <3>1, LeastElement
  <2>2. m \in 1 .. n
    BY <1>0, <1>5, <2>1
  <2>3. m - 1 \in 0 .. n /\ m - 1 < m
    BY <1>0, <2>2
  <2>4. Good(m - 1)
    BY <2>1, <2>3
  <2> QED
    BY <1>6, <2>1, <2>2, <2>4
<1>8. Good(n)
  BY <1>0, <1>7
<1>9. \A i \in empty : i < n
  BY <1>0
<1> QED
  BY <1>8, <1>9 DEF Good, FreeTables2, F

-----------------------------------------------------------------------------
(* The invariant.                                                          *)

\* The blocks of a process are in use in the heap k, each for one thing.
BlocksSound(k, p, r) ==
    \A s \in SlotsOf(p, r) :
        /\ Used(k, BlockOf(r, s))
        /\ \A t \in SlotsOf(p, r) : s # t => Beside(BlockOf(r, s), BlockOf(r, t))

BlocksBeside(p, r, q, u) ==
    \A s \in SlotsOf(p, r), t \in SlotsOf(q, u) : Beside(BlockOf(r, s), BlockOf(u, t))

\* No two of the processes pr share a block.
HeapOf(k, pr) ==
    /\ HeapSound(k)
    /\ \A p \in DOMAIN pr :
        /\ BlocksSound(k, p, pr[p])
        /\ \A q \in DOMAIN pr \ {p} : BlocksBeside(p, pr[p], q, pr[q])

HeapInv == HeapOf(kheap, proc)

\* The blocks K are in use in the heap k, one beside the other.
AllApart(k, K) == \A s \in K : Used(k, s) /\ \A t \in K : s # t => Beside(s, t)

\* The block s is beside all that the processes pr have.
BesideAll(pr, s) == \A p \in DOMAIN pr : \A t \in SlotsOf(p, pr[p]) : Beside(BlockOf(pr[p], t), s)

\* What belongs to no process that lives is in use like the rest, and beside it.
KeptOf(k, pr, K) == AllApart(k, K) /\ \A s \in K : BesideAll(pr, s)

KeptInv == KeptOf(kheap, proc, kept) /\ kept \subseteq [addr : Nat, size : Nat]

\* A second level table is there only as long as something is mapped in it.
TablesInUse ==
    \A p \in Alive, i \in 0 .. NbUserTables - 1 :
        proc[p].first[i] # NULL => \E q \in Page : q \div SECON_LVL_TT_COUN = i /\ vmem_translate(q, p) # NULL

\* The occupied frames are those that are mapped, and no two pages are mapped to one.
MappedOnce ==
    /\ \A frame \in Frame : frame \in frame_table <=> \E p \in Alive, q \in Page : vmem_translate(q, p) = frame
    /\ \A p, p2 \in Alive, q, q2 \in Page :
        vmem_translate(q, p) # NULL /\ vmem_translate(q, p) = vmem_translate(q2, p2) => p = p2 /\ q = q2

\* Stack and heap are not from mmap.
MemoryApart == \A p \in Alive \ {kmain} : <<proc[p].memory_start, MEMORY_SIZE>> \notin proc[p].mapped

VmemInv ==
    /\ VmemTypeOK /\ proc[kmain].pcb = NULL
    /\ HeapInv /\ KeptInv /\ TablesInUse /\ MappedOnce /\ RegionsMapped /\ MemoryApart /\ TlbIsolated

-----------------------------------------------------------------------------
(* Pages, and the n-th of a set.                                           *)

\* Products are ordered as their factors.
LEMMA TimesUp ==
    ASSUME NEW a \in Nat, NEW b \in Nat, NEW c \in Nat, a < b
    PROVE  c * a + c <= c * b
<1>1. PICK d \in Nat : b = a + 1 + d
  <2>1. b - a - 1 \in Nat /\ b = a + 1 + (b - a - 1)
    OBVIOUS
  <2> QED
    BY <2>1
<1>2. c * b = c * a + c + c * d
  BY <1>1
<1>3. c * d \in Nat
  OBVIOUS
<1>4. c * a \in Nat
  OBVIOUS
<1> QED
  BY <1>2, <1>3, <1>4

\* The two indices of a page.
At1(q) == q \div SECON_LVL_TT_COUN
At2(q) == q % SECON_LVL_TT_COUN
Index1 == 0 .. NbUserTables - 1

LEMMA IndicesOf ==
    ASSUME NEW q \in Nat
    PROVE  At1(q) \in Nat /\ At2(q) \in Index2 /\ q = SECON_LVL_TT_COUN * At1(q) + At2(q)
<1>1. SECON_LVL_TT_COUN \in Nat \ {0}
  BY VmemAssumption
<1> QED
  BY <1>1 DEF At1, At2, Index2

LEMMA PageIndices ==
    ASSUME NEW q \in Page
    PROVE  /\ q \in Nat /\ At1(q) \in Index1 /\ At2(q) \in Index2
           /\ \A r \in Page : At1(q) = At1(r) /\ At2(q) = At2(r) => q = r
<1>1. SECON_LVL_TT_COUN \in Nat \ {0} /\ NbUserTables \in Nat \ {0}
  BY VmemAssumption
<1>2. SECON_LVL_TT_COUN * NbUserTables = NbUserTables * SECON_LVL_TT_COUN /\ SECON_LVL_TT_COUN * NbUserTables \in Nat
  BY <1>1
<1>3. q \in Nat /\ q < SECON_LVL_TT_COUN * NbUserTables
  BY <1>2 DEF Page
<1>4. At1(q) \in Nat /\ At2(q) \in Index2 /\ q = SECON_LVL_TT_COUN * At1(q) + At2(q)
  BY <1>3, IndicesOf
<1>5. At1(q) < NbUserTables
  <2> SUFFICES ASSUME ~(At1(q) < NbUserTables) PROVE FALSE
    OBVIOUS
  <2>1. SECON_LVL_TT_COUN * NbUserTables <= SECON_LVL_TT_COUN * At1(q)
    <3>1. CASE NbUserTables = At1(q)
      BY <1>1, <1>2, <3>1
    <3>2. CASE NbUserTables < At1(q)
      <4>1. SECON_LVL_TT_COUN * NbUserTables + SECON_LVL_TT_COUN <= SECON_LVL_TT_COUN * At1(q)
        BY <1>1, <1>4, <3>2, TimesUp
      <4>2. SECON_LVL_TT_COUN * At1(q) \in Nat
        BY <1>1, <1>4
      <4> QED
        BY <1>1, <1>2, <4>1, <4>2
    <3> QED
      BY <1>1, <1>4, <3>1, <3>2
  <2>2. SECON_LVL_TT_COUN * At1(q) \in Nat /\ At2(q) \in Nat
    BY <1>1, <1>4 DEF Index2
  <2> QED
    BY <1>2, <1>3, <1>4, <2>1, <2>2
<1>6. ASSUME NEW r \in Page, At1(q) = At1(r), At2(q) = At2(r) PROVE q = r
  <2>1. r \in Nat
    BY <1>2 DEF Page
  <2> QED
    BY <1>4, <1>6, <2>1, IndicesOf
<1> QED
  BY <1>1, <1>3, <1>4, <1>5, <1>6 DEF Index1

\* Each pair of indices is that of a page.
LEMMA PageAt ==
    ASSUME NEW i \in Index1, NEW j \in Index2
    PROVE  \E q \in Page : At1(q) = i /\ At2(q) = j
<1>1. /\ SECON_LVL_TT_COUN \in Nat \ {0} /\ NbUserTables \in Nat \ {0}
      /\ i \in Nat /\ i < NbUserTables /\ j \in Nat /\ j < SECON_LVL_TT_COUN
  BY VmemAssumption DEF Index1, Index2
<1>2. PICK S \in Nat \ {0} : S = SECON_LVL_TT_COUN
  BY <1>1
<1>3. S * i \in Nat /\ S * NbUserTables \in Nat /\ S * NbUserTables = NbUserTables * S
  BY <1>1, <1>2
<1>4. S * i + S <= S * NbUserTables
  BY <1>1, <1>2, TimesUp
<1>5. PICK q \in Nat : q = S * i + j
  BY <1>1, <1>3
<1>6. q \in Page
  <2>1. q < S * i + S
    BY <1>1, <1>2, <1>3, <1>5
  <2>2. q < NbUserTables * S
    BY <1>1, <1>2, <1>3, <1>4, <2>1
  <2>3. PICK m \in Nat : m = NbUserTables * S
    BY <1>3
  <2>4. Page = 0 .. m - 1
    BY <1>2, <2>3 DEF Page
  <2>5. q \in 0 .. m - 1
    BY <2>2, <2>3
  <2> QED
    BY <2>4, <2>5
<1>7. At1(q) \in Nat /\ At2(q) \in Nat /\ At2(q) < S /\ q = S * At1(q) + At2(q)
  <2>1. At1(q) \in Nat /\ At2(q) \in Index2 /\ q = SECON_LVL_TT_COUN * At1(q) + At2(q)
    BY IndicesOf
  <2>2. At2(q) \in 0 .. S - 1
    BY <1>2, <2>1 DEF Index2
  <2> QED
    BY <1>2, <2>1, <2>2
<1>8. S * At1(q) \in Nat
  BY <1>2, <1>7
<1>9. ~(At1(q) < i)
  <2> SUFFICES ASSUME At1(q) < i PROVE FALSE
    OBVIOUS
  <2>1. S * At1(q) + S <= S * i
    BY <1>1, <1>2, <1>7, TimesUp
  <2> QED
    BY <1>1, <1>2, <1>3, <1>5, <1>7, <1>8, <2>1
<1>10. ~(i < At1(q))
  <2> SUFFICES ASSUME i < At1(q) PROVE FALSE
    OBVIOUS
  <2>1. S * i + S <= S * At1(q)
    BY <1>1, <1>2, <1>7, TimesUp
  <2> QED
    BY <1>1, <1>2, <1>3, <1>5, <1>7, <1>8, <2>1
<1>11. At1(q) = i
  BY <1>1, <1>7, <1>9, <1>10
<1>12. At2(q) = j
  BY <1>1, <1>3, <1>5, <1>7, <1>11
<1> QED
  BY <1>6, <1>11, <1>12

\* A region of at least one unit has at least one page.
LEMMA NbPages ==
    ASSUME NEW size \in Nat \ {0}
    PROVE  get_nb_pages(size) \in Nat \ {0}
<1>1. PAGE_SIZE \in Nat \ {0}
  BY VmemAssumption
<1>2. PICK P \in Nat \ {0} : P = PAGE_SIZE
  BY <1>1
<1>3. \A x \in Nat : x \div P \in Nat /\ x = P * (x \div P) + (x % P) /\ x % P \in 0 .. P - 1
  OBVIOUS
<1>4. PICK a \in Nat, b \in Nat, m \in 0 .. P - 1, l \in 0 .. P - 1 :
          a = size \div P /\ b = (size - 1) \div P /\ size = P * a + m /\ size - 1 = P * b + l
  <2>1. size - 1 \in Nat
    OBVIOUS
  <2> QED
    BY <1>3, <2>1, SMTT(20)
<1>5. a = 0 => b = 0
  <2> SUFFICES ASSUME a = 0, b # 0 PROVE FALSE
    OBVIOUS
  <2>1. P * a = 0 /\ P * 0 = 0
    BY <1>4
  <2>2. P * 0 + P <= P * b
    BY <1>4, TimesUp
  <2>3. P * b \in Nat
    OBVIOUS
  <2> QED
    BY <1>4, <2>1, <2>2, <2>3
<1>6. get_nb_pages(size) = IF a = b THEN a + 1 ELSE a
  BY <1>2, <1>4 DEF get_nb_pages
<1> QED
  BY <1>4, <1>5, <1>6

LEMMA PagesOfIs ==
    ASSUME NEW page \in Nat, NEW size \in Nat \ {0}
    PROVE  /\ page \in PagesOf(page, size) /\ PagesOf(page, size) \in SUBSET Nat
           /\ \A q \in PagesOf(page, size) : q - page + 1 \in 1 .. get_nb_pages(size)
<1>1. get_nb_pages(size) \in Nat \ {0}
  BY NbPages
<1> QED
  BY <1>1 DEF PagesOf

\* The place of x in S, by size.
Rank(S, x) == Cardinality({y \in S : y <= x})

LEMMA RankIs ==
    ASSUME NEW S \in SUBSET Nat, IsFiniteSet(S)
    PROVE  /\ \A x \in S : Rank(S, x) \in 1 .. Cardinality(S)
           /\ \A x, y \in S : Rank(S, x) = Rank(S, y) => x = y
<1> DEFINE Upto(x) == {y \in S : y <= x}
<1>1. Cardinality(S) \in Nat
  BY FS_CardinalityType
<1>2. ASSUME NEW x \in S
      PROVE  Upto(x) \in SUBSET S /\ IsFiniteSet(Upto(x)) /\ Rank(S, x) \in 1 .. Cardinality(S)
  <2>1. Upto(x) \in SUBSET S /\ x \in Upto(x)
    OBVIOUS
  <2>2. IsFiniteSet(Upto(x)) /\ Cardinality(Upto(x)) <= Cardinality(S)
    BY <2>1, FS_Subset
  <2>3. Cardinality(Upto(x)) \in Nat /\ Cardinality(Upto(x)) # 0
    BY <2>1, <2>2, FS_CardinalityType, FS_EmptySet
  <2> QED
    BY <1>1, <2>1, <2>2, <2>3 DEF Rank
<1>3. ASSUME NEW x \in S, NEW y \in S, x < y PROVE Rank(S, x) # Rank(S, y)
  <2>1. Upto(x) \in SUBSET Upto(y) /\ Upto(x) # Upto(y)
    <3>1. x \in Nat /\ y \in Nat /\ y \in Upto(y) /\ y \notin Upto(x)
      BY <1>3
    <3>2. ASSUME NEW z \in Upto(x) PROVE z \in Upto(y)
      <4>1. z \in S /\ z \in Nat /\ z <= x
        OBVIOUS
      <4> QED
        BY <1>3, <3>1, <4>1
    <3> HIDE DEF Upto
    <3> QED
      BY <3>1, <3>2
  <2>2. Cardinality(Upto(x)) # Cardinality(Upto(y))
    BY <1>2, <2>1, FS_Subset
  <2> QED
    BY <2>2 DEF Rank
<1>4. ASSUME NEW x \in S, NEW y \in S, Rank(S, x) = Rank(S, y) PROVE x = y
  <2>1. x \in Nat /\ y \in Nat
    OBVIOUS
  <2> QED
    BY <1>3, <1>4, <2>1
<1> QED
  BY <1>2, <1>4

\* There is an n-th.
LEMMA NthIs ==
    ASSUME NEW S \in SUBSET Nat, IsFiniteSet(S), NEW n \in 1 .. Cardinality(S)
    PROVE  NthOf(S, n) \in S /\ Rank(S, NthOf(S, n)) = n
<1>1. PICK c \in Nat : c = Cardinality(S)
  BY FS_CardinalityType
<1>2. PICK R : R = [x \in S |-> Rank(S, x)]
  OBVIOUS
<1>3. R \in Injection(S, 1 .. c)
  <2>1. \A x \in S : R[x] = Rank(S, x) /\ R[x] \in 1 .. c
    BY <1>1, <1>2, RankIs
  <2>2. \A x, y \in S : R[x] = R[y] => x = y
    BY <2>1, RankIs
  <2>3. R \in [S -> 1 .. c]
    BY <1>2, <2>1
  <2> QED
    BY <2>2, <2>3 DEF Injection, IsInjective
<1>4. IsFiniteSet(1 .. c) /\ Cardinality(1 .. c) = c
  BY FS_Interval
<1>5. R \in Surjection(S, 1 .. c)
  BY <1>1, <1>3, <1>4, FS_Injection
<1>6. \E x \in S : Rank(S, x) = n
  BY <1>1, <1>2, <1>5 DEF Surjection
<1> QED
  BY <1>6 DEF NthOf, Rank

-----------------------------------------------------------------------------
(* What mapping and unmapping do to the tables of one process.             *)

FirstSound(f) ==
    /\ f \in [Index1 -> Nat]
    /\ \A i \in Index1 : f[i] # NULL => f[i] \in DOMAIN second
    /\ \A i, j \in Index1 : f[i] # NULL /\ f[i] = f[j] => i = j

SecondSound(k) ==
    \A a \in DOMAIN second : second[a] \in [Index2 -> Frame \cup {NULL}] /\ Used(k, TableSpan(a))

\* Table i of f2 is not in f.
New(f, f2, i) == f[i] = NULL /\ f2[i] # NULL

\* The heap that is left, and the tables that were taken from k.
NewTables(f, k, m, P) ==
    /\ m.first \in [Index1 -> Nat] /\ \A i \in Index1 : f[i] # NULL => m.first[i] = f[i]
    /\ HeapSound(m.heap) /\ \A s : Used(k, s) => Used(m.heap, s)
    /\ \A i \in Index1 : New(f, m.first, i) =>
        /\ Used(m.heap, TableSpan(m.first[i]))
        /\ \A s : Used(k, s) => Beside(TableSpan(m.first[i]), s)
        /\ \A j \in Index1 : New(f, m.first, j) /\ i # j => Beside(TableSpan(m.first[i]), TableSpan(m.first[j]))
        /\ \E q \in P : At1(q) = i
    /\ \A q \in P : m.first[At1(q)] # NULL

\* The translations through the new tables: free frames for the pages P, one each.
NewPages(f, m, P) ==
    /\ DOMAIN m.second = DOMAIN second \cup {m.first[i] : i \in {j \in Index1 : New(f, m.first, j)}}
    /\ \A a \in DOMAIN m.second : m.second[a] \in [Index2 -> Frame \cup {NULL}]
    /\ \A a \in DOMAIN second : (\A i \in Index1 : f[i] # a) => m.second[a] = second[a]
    /\ \A q \in Page \ P : Through(m.first, m.second, q) = Through(f, second, q)
    /\ \A q \in P : /\ Through(m.first, m.second, q) \in Frame \ frame_table
                    /\ \A r \in P : Through(m.first, m.second, q) = Through(m.first, m.second, r) => q = r
    /\ \A x : x \in m.frames <=> x \in frame_table \/ \E q \in P : Through(m.first, m.second, q) = x

AllocMaps(f, k, size, m) ==
    /\ m.page \in Page /\ m.page \in PagesOf(m.page, size)
    /\ \A q \in PagesOf(m.page, size) : q \in Page /\ Through(f, second, q) = NULL
    /\ NewTables(f, k, m, PagesOf(m.page, size))
    /\ NewPages(f, m, PagesOf(m.page, size))

LEMMA BoundedSets ==
    /\ IsFiniteSet(Index1) /\ Index1 \in SUBSET Nat
    /\ IsFiniteSet(Frame) /\ Frame \in SUBSET Nat
    /\ IsFiniteSet(FreeFrames) /\ FreeFrames \in SUBSET Nat
<1>1. NbUserTables - 1 \in Int /\ NbFrames \in Int /\ 0 \in Int /\ 1 \in Int
  BY VmemAssumption
<1>2. IsFiniteSet(Index1) /\ IsFiniteSet(Frame)
  BY <1>1, FS_Interval DEF Index1, Frame
<1>3. Index1 \in SUBSET Nat /\ Frame \in SUBSET Nat /\ FreeFrames \in SUBSET Frame
  BY <1>1 DEF Index1, Frame, FreeFrames
<1> QED
  BY <1>2, <1>3, FS_Subset

LEMMA AddrIsNot0 == ASSUME NEW k, NEW a, Used(k, TableSpan(a)) PROVE a \in Nat /\ a # NULL
  BY VmemAssumption DEF Used, TableSpan, Span, NULL

LEMMA BesideDiffers ==
    ASSUME NEW k, NEW a, NEW b, Used(k, TableSpan(a)), Beside(TableSpan(a), TableSpan(b)) PROVE a # b
  BY VmemAssumption DEF Used, TableSpan, Span, Beside

\* Where the first level has no table, it gets one that was not in use.
MissingIn(f, P) == {i \in {At1(q) : q \in P} : f[i] = NULL}
WithTables(f, missing, addrs) == [i \in DOMAIN f |-> IF i \in missing THEN addrs[Rank(missing, i)] ELSE f[i]]

LEMMA AllocTables ==
    ASSUME NEW k, HeapSound(k), NEW f \in [Index1 -> Nat], NEW P \in SUBSET Page, NEW missing,
           missing = MissingIn(f, P),
           NEW fresh, TablesAllotted(k, fresh, Cardinality(missing)), NEW m,
           m.heap = fresh.heap, m.first = WithTables(f, missing, fresh.addrs)
    PROVE  /\ NewTables(f, k, m, P)
           /\ \A i \in Index1 : i \in missing <=> New(f, m.first, i)
           /\ ToSet(fresh.addrs) = {m.first[i] : i \in missing}
<1>0. /\ missing = {i \in {At1(q) : q \in P} : f[i] = NULL}
      /\ m.first = [i \in DOMAIN f |-> IF i \in missing THEN fresh.addrs[Rank(missing, i)] ELSE f[i]]
  BY DEF MissingIn, WithTables
<1>1. missing \in SUBSET Index1 /\ IsFiniteSet(missing) /\ missing \in SUBSET Nat
  <2>1. \A q \in P : At1(q) \in Index1
    BY PageIndices
  <2>2. missing \in SUBSET Index1
    BY <1>0, <2>1
  <2> QED
    BY <2>2, BoundedSets, FS_Subset
<1>2. PICK c \in Nat : c = Cardinality(missing)
  BY <1>1, FS_CardinalityType
<1>3. /\ HeapSound(fresh.heap) /\ fresh.addrs \in Seq(Nat) /\ Len(fresh.addrs) = c
      /\ \A s : Used(k, s) => Used(fresh.heap, s) /\ \A j \in 1 .. c : Beside(TableSpan(fresh.addrs[j]), s)
      /\ \A j \in 1 .. c :
          /\ Used(fresh.heap, TableSpan(fresh.addrs[j]))
          /\ \A l \in 1 .. c : l # j => Beside(TableSpan(fresh.addrs[j]), TableSpan(fresh.addrs[l]))
  BY <1>2 DEF TablesAllotted
<1>4. /\ \A i \in missing : Rank(missing, i) \in 1 .. c
      /\ \A i, j \in missing : Rank(missing, i) = Rank(missing, j) => i = j
      /\ \A j \in 1 .. c : \E i \in missing : Rank(missing, i) = j
  <2>1. \A j \in 1 .. c : NthOf(missing, j) \in missing /\ Rank(missing, NthOf(missing, j)) = j
    BY <1>1, <1>2, NthIs
  <2> QED
    BY <1>1, <1>2, <2>1, RankIs
<1>5. \A i \in missing : m.first[i] = fresh.addrs[Rank(missing, i)] /\ f[i] = NULL /\ i \in Index1
  BY <1>0, <1>1
<1>6. \A i \in Index1 : i \notin missing => m.first[i] = f[i]
  BY <1>0
<1>7. \A j \in 1 .. c : fresh.addrs[j] \in Nat /\ fresh.addrs[j] # NULL
  BY <1>3, AddrIsNot0
<1>8. \A i \in Index1 : i \in missing <=> New(f, m.first, i)
  BY <1>4, <1>5, <1>6, <1>7 DEF New
<1>9. m.first \in [Index1 -> Nat] /\ \A i \in Index1 : f[i] # NULL => m.first[i] = f[i]
  <2>1. \A i \in Index1 : m.first[i] \in Nat
    BY <1>4, <1>5, <1>6, <1>7
  <2>2. m.first = [i \in Index1 |-> m.first[i]]
    BY <1>0
  <2>3. \A i \in Index1 : f[i] # NULL => m.first[i] = f[i]
    BY <1>5, <1>6
  <2> QED
    BY <2>1, <2>2, <2>3
<1>10. \A q \in P : m.first[At1(q)] # NULL
  BY <1>0, <1>4, <1>5, <1>6, <1>7, PageIndices
<1>11. ToSet(fresh.addrs) = {m.first[i] : i \in missing}
  <2>1. DOMAIN fresh.addrs = 1 .. c
    BY <1>3
  <2>2. ToSet(fresh.addrs) = {fresh.addrs[j] : j \in 1 .. c}
    BY <2>1 DEF ToSet
  <2>3. ASSUME NEW j \in 1 .. c PROVE fresh.addrs[j] \in {m.first[i] : i \in missing}
    <3>1. PICK i \in missing : Rank(missing, i) = j
      BY <1>4
    <3>2. m.first[i] = fresh.addrs[j]
      BY <1>5, <3>1
    <3> QED
      BY <3>2
  <2>4. ASSUME NEW i \in missing PROVE m.first[i] \in {fresh.addrs[j] : j \in 1 .. c}
    <3>1. m.first[i] = fresh.addrs[Rank(missing, i)] /\ Rank(missing, i) \in 1 .. c
      BY <1>4, <1>5
    <3> QED
      BY <3>1
  <2>5. PICK A, B : A = ToSet(fresh.addrs) /\ B = {m.first[i] : i \in missing}
    OBVIOUS
  <2>6. \A a \in A : a \in B
    BY <2>2, <2>3, <2>5
  <2>7. \A b \in B : b \in A
    BY <2>2, <2>4, <2>5
  <2> QED
    BY <2>5, <2>6, <2>7
<1>12. ASSUME NEW i \in Index1, i \in missing
       PROVE  /\ Used(m.heap, TableSpan(m.first[i]))
              /\ \A s : Used(k, s) => Beside(TableSpan(m.first[i]), s)
              /\ \A j \in Index1 : j \in missing /\ i # j => Beside(TableSpan(m.first[i]), TableSpan(m.first[j]))
              /\ \E q \in P : At1(q) = i
  <2>1. PICK n \in 1 .. c : n = Rank(missing, i)
    BY <1>4, <1>12
  <2>2. m.first[i] = fresh.addrs[n]
    BY <1>5, <1>12, <2>1
  <2>3. Used(m.heap, TableSpan(m.first[i])) /\ \A s : Used(k, s) => Beside(TableSpan(m.first[i]), s)
    BY <1>3, <2>2
  <2>4. ASSUME NEW j \in Index1, j \in missing, i # j PROVE Beside(TableSpan(m.first[i]), TableSpan(m.first[j]))
    <3>1. PICK l \in 1 .. c : l = Rank(missing, j)
      BY <1>4, <2>4
    <3>2. m.first[j] = fresh.addrs[l] /\ l # n
      BY <1>4, <1>5, <1>12, <2>1, <2>4, <3>1
    <3> QED
      BY <1>3, <2>2, <3>2
  <2>5. \E q \in P : At1(q) = i
    BY <1>0, <1>12
  <2> QED
    BY <2>3, <2>4, <2>5
<1> QED
  BY <1>3, <1>8, <1>9, <1>10, <1>11, <1>12 DEF NewTables

\* The tables before and after the pages P are mapped to the frames fr.
WithAdded(added) == [a \in DOMAIN second \cup added |-> IF a \in added THEN EmptyTable ELSE second[a]]

MapsTo(first, old, new, P, fr) ==
    new = [a \in DOMAIN old |-> [j \in Index2 |->
              IF \E q \in P : first[At1(q)] = a /\ At2(q) = j
              THEN fr[CHOOSE q \in P : first[At1(q)] = a /\ At2(q) = j]
              ELSE old[a][j]]]

LEMMA MapsToIs ==
    ASSUME NEW first, NEW old, NEW new, NEW P, NEW fr, MapsTo(first, old, new, P, fr)
    PROVE  /\ DOMAIN new = DOMAIN old
           /\ \A a \in DOMAIN old : new[a] = [j \in Index2 |-> new[a][j]]
           /\ \A a \in DOMAIN old, j \in Index2 :
                (~\E q \in P : first[At1(q)] = a /\ At2(q) = j) => new[a][j] = old[a][j]
           /\ \A a \in DOMAIN old, q \in P :
                /\ At2(q) \in Index2 /\ first[At1(q)] = a
                /\ \A r \in P : first[At1(r)] = a /\ At2(r) = At2(q) => r = q
                => new[a][At2(q)] = fr[q]
<1>1. DOMAIN new = DOMAIN old
  BY DEF MapsTo
<1>2. ASSUME NEW a \in DOMAIN old PROVE new[a] = [j \in Index2 |-> new[a][j]]
  <2>1. PICK t : t = new[a]
    OBVIOUS
  <2>2. t = [j \in Index2 |->
                IF \E q \in P : first[At1(q)] = a /\ At2(q) = j
                THEN fr[CHOOSE q \in P : first[At1(q)] = a /\ At2(q) = j]
                ELSE old[a][j]]
    BY <2>1 DEF MapsTo
  <2>3. t = [j \in Index2 |-> t[j]]
    BY <2>2
  <2> QED
    BY <2>1, <2>3
<1>3. ASSUME NEW a \in DOMAIN old, NEW j \in Index2, ~\E q \in P : first[At1(q)] = a /\ At2(q) = j
      PROVE  new[a][j] = old[a][j]
  BY <1>3 DEF MapsTo
<1>4. ASSUME NEW a \in DOMAIN old, NEW q \in P, At2(q) \in Index2, first[At1(q)] = a,
             \A r \in P : first[At1(r)] = a /\ At2(r) = At2(q) => r = q
      PROVE  new[a][At2(q)] = fr[q]
  <2>1. PICK j : j = At2(q)
    OBVIOUS
  <2>2. (CHOOSE r \in P : first[At1(r)] = a /\ At2(r) = j) = q
    BY <1>4, <2>1
  <2>3. new[a][j] = fr[CHOOSE r \in P : first[At1(r)] = a /\ At2(r) = j]
    <3>1. \E r \in P : first[At1(r)] = a /\ At2(r) = j
      BY <1>4, <2>1
    <3>2. j \in Index2
      BY <1>4, <2>1
    <3> QED
      BY <3>1, <3>2 DEF MapsTo
  <2> QED
    BY <2>1, <2>2, <2>3
<1> QED
  BY <1>1, <1>2, <1>3, <1>4

\* The pages are mapped to the first free frames; nothing else changes.
LEMMA AllocPages ==
    ASSUME NEW k, SecondSound(k), NEW f, FirstSound(f), NEW P \in SUBSET Page, NEW m, NewTables(f, k, m, P),
           NEW fr, \A q \in P : fr[q] \in Frame \ frame_table,
           \A q, r \in P : fr[q] = fr[r] => q = r,
           NEW added, added = {m.first[i] : i \in {j \in Index1 : New(f, m.first, j)}},
           NEW old, old = WithAdded(added), MapsTo(m.first, old, m.second, P, fr),
           \A x : x \in m.frames <=> x \in frame_table \/ \E q \in P : fr[q] = x,
           \A q \in P : Through(f, second, q) = NULL
    PROVE  NewPages(f, m, P)
<1>1. \A q \in Page : At1(q) \in Index1 /\ At2(q) \in Index2
  BY PageIndices
<1>2. /\ DOMAIN m.second = DOMAIN old /\ DOMAIN old = DOMAIN second \cup added
      /\ \A a \in added : old[a] = EmptyTable
      /\ \A a \in DOMAIN second \ added : old[a] = second[a]
  BY MapsToIs DEF WithAdded
<1>3. \A a \in added : a \notin DOMAIN second
  <2> SUFFICES ASSUME NEW i \in Index1, New(f, m.first, i), m.first[i] \in DOMAIN second PROVE FALSE
    OBVIOUS
  <2>1. Used(k, TableSpan(m.first[i]))
    BY DEF SecondSound
  <2>2. Beside(TableSpan(m.first[i]), TableSpan(m.first[i]))
    BY <2>1 DEF NewTables
  <2> QED
    BY <2>1, <2>2, BesideDiffers
<1>4. \A i, j \in Index1 : m.first[i] # NULL /\ m.first[i] = m.first[j] => i = j
  <2> SUFFICES ASSUME NEW i \in Index1, NEW j \in Index1, m.first[i] # NULL, m.first[i] = m.first[j], i # j
               PROVE  FALSE
    OBVIOUS
  <2>1. CASE f[i] # NULL /\ f[j] # NULL
    BY <2>1 DEF NewTables, FirstSound
  <2>2. CASE f[i] = NULL /\ f[j] = NULL
    <3>1. New(f, m.first, i) /\ New(f, m.first, j)
      BY <2>2 DEF New
    <3>2. Used(m.heap, TableSpan(m.first[i])) /\ Beside(TableSpan(m.first[i]), TableSpan(m.first[j]))
      BY <3>1 DEF NewTables
    <3> QED
      BY <3>2, BesideDiffers
  <2>3. CASE f[i] = NULL /\ f[j] # NULL
    BY <1>3, <2>3 DEF New, NewTables, FirstSound
  <2>4. CASE f[i] # NULL /\ f[j] = NULL
    BY <1>3, <2>4 DEF New, NewTables, FirstSound
  <2> QED
    BY <2>1, <2>2, <2>3, <2>4
<1>5. \A i \in Index1 : m.first[i] # NULL => m.first[i] \in DOMAIN old
  BY <1>2 DEF New, NewTables, FirstSound
<1>6. ASSUME NEW q \in P PROVE Through(m.first, m.second, q) = fr[q]
  <2>1. PICK a, j : a = m.first[At1(q)] /\ j = At2(q)
    OBVIOUS
  <2>2. a # NULL /\ a \in DOMAIN old /\ j \in Index2
    BY <1>1, <1>5, <2>1 DEF NewTables
  <2>3. \A r \in P : m.first[At1(r)] = a /\ At2(r) = j => r = q
    BY <1>1, <1>4, <2>1, <2>2, PageIndices
  <2>4. m.second[a][j] = fr[q]
    BY <2>1, <2>2, <2>3, MapsToIs
  <2> QED
    BY <2>1, <2>2, <2>4 DEF Through, At1, At2
<1>7. ASSUME NEW q \in Page \ P PROVE Through(m.first, m.second, q) = Through(f, second, q)
  <2>1. PICK i, a, j : i = At1(q) /\ a = m.first[At1(q)] /\ j = At2(q)
    OBVIOUS
  <2>2. i \in Index1 /\ j \in Index2
    BY <1>1, <2>1
  <2>3. Through(m.first, m.second, q) = IF a = NULL THEN NULL ELSE m.second[a][j]
    BY <2>1 DEF Through, At1, At2
  <2>4. Through(f, second, q) = IF f[i] = NULL THEN NULL ELSE second[f[i]][j]
    BY <2>1 DEF Through, At1, At2
  <2>5. CASE a = NULL
    <3>1. f[i] = NULL
      BY <2>1, <2>2, <2>5 DEF NewTables
    <3> QED
      BY <2>3, <2>4, <2>5, <3>1
  <2>6. CASE a # NULL
    <3>1. a \in DOMAIN old
      BY <1>5, <2>1, <2>2, <2>6
    <3>2. ~\E r \in P : m.first[At1(r)] = a /\ At2(r) = j
      BY <1>1, <1>4, <2>1, <2>6, PageIndices
    <3>3. m.second[a][j] = old[a][j]
      BY <2>2, <3>1, <3>2, MapsToIs
    <3>4. CASE f[i] = NULL
      <4>1. a \in added
        BY <2>1, <2>2, <2>6, <3>4 DEF New
      <4>2. old[a][j] = NULL
        BY <1>2, <2>2, <4>1 DEF EmptyTable
      <4> QED
        BY <2>3, <2>4, <2>6, <3>3, <3>4, <4>2
    <3>5. CASE f[i] # NULL
      <4>1. a = f[i] /\ a \in DOMAIN second
        BY <2>1, <2>2, <3>5 DEF NewTables, FirstSound
      <4>2. old[a] = second[a]
        BY <1>2, <1>3, <4>1
      <4> QED
        BY <2>3, <2>4, <2>6, <3>3, <3>5, <4>1, <4>2
    <3> QED
      BY <3>4, <3>5
  <2> QED
    BY <2>5, <2>6
<1>8. ASSUME NEW a \in DOMAIN m.second PROVE m.second[a] \in [Index2 -> Frame \cup {NULL}]
  <2>1. a \in DOMAIN old /\ old[a] \in [Index2 -> Frame \cup {NULL}]
    <3>1. EmptyTable \in [Index2 -> Frame \cup {NULL}]
      BY DEF EmptyTable
    <3>2. a \in DOMAIN old
      BY <1>2, <1>8
    <3>3. CASE a \in added
      BY <1>2, <3>1, <3>2, <3>3
    <3>4. CASE a \notin added
      BY <1>2, <3>2, <3>4 DEF SecondSound
    <3> QED
      BY <3>2, <3>3, <3>4
  <2>2. ASSUME NEW j \in Index2 PROVE m.second[a][j] \in Frame \cup {NULL}
    <3>1. CASE \E q \in P : m.first[At1(q)] = a /\ At2(q) = j
      <4>1. PICK q \in P : m.first[At1(q)] = a /\ At2(q) = j
        BY <3>1
      <4>2. q \in Page /\ a # NULL
        BY <4>1 DEF NewTables
      <4>3. m.second[a][j] = Through(m.first, m.second, q)
        BY <4>1, <4>2 DEF Through, At1, At2
      <4> QED
        BY <1>6, <4>3
    <3>2. CASE ~\E q \in P : m.first[At1(q)] = a /\ At2(q) = j
      <4>1. m.second[a][j] = old[a][j]
        BY <2>1, <3>2, MapsToIs
      <4> QED
        BY <2>1, <4>1
    <3> QED
      BY <3>1, <3>2
  <2>3. m.second[a] = [j \in Index2 |-> m.second[a][j]]
    BY <2>1, MapsToIs
  <2>4. PICK t : t = m.second[a]
    OBVIOUS
  <2>5. t = [j \in Index2 |-> t[j]] /\ \A j \in Index2 : t[j] \in Frame \cup {NULL}
    BY <2>2, <2>3, <2>4
  <2>6. t \in [Index2 -> Frame \cup {NULL}]
    BY <2>5
  <2> QED
    BY <2>4, <2>6
<1>9. ASSUME NEW a \in DOMAIN second, \A i \in Index1 : f[i] # a PROVE m.second[a] = second[a]
  <2>1. a \in DOMAIN old /\ a \notin added /\ old[a] = second[a]
    BY <1>2, <1>3
  <2>2. a # NULL
    BY AddrIsNot0 DEF SecondSound
  <2>3. \A q \in P : m.first[At1(q)] # a
    <3> SUFFICES ASSUME NEW q \in P, m.first[At1(q)] = a PROVE FALSE
      OBVIOUS
    <3>1. PICK i \in Index1 : i = At1(q)
      BY <1>1
    <3>2. CASE f[i] = NULL
      BY <2>1, <2>2, <3>1, <3>2 DEF New
    <3>3. CASE f[i] # NULL
      BY <1>9, <3>1, <3>3 DEF NewTables
    <3> QED
      BY <3>2, <3>3
  <2>4. \A j \in Index2 : m.second[a][j] = second[a][j]
    BY <2>1, <2>3, MapsToIs
  <2>5. m.second[a] = [j \in Index2 |-> m.second[a][j]]
    BY <2>1, MapsToIs
  <2>6. PICK t \in [Index2 -> Frame \cup {NULL}] : t = second[a]
    BY DEF SecondSound
  <2>7. PICK u : u = m.second[a]
    OBVIOUS
  <2>8. u = [j \in Index2 |-> u[j]] /\ \A j \in Index2 : u[j] = t[j]
    BY <2>4, <2>5, <2>6, <2>7
  <2>9. t = [j \in Index2 |-> t[j]]
    BY <2>6
  <2> QED
    BY <2>6, <2>7, <2>8, <2>9
<1>10. \A x : x \in m.frames <=> x \in frame_table \/ \E q \in P : Through(m.first, m.second, q) = x
  BY <1>6
<1>11. ASSUME NEW q \in P
       PROVE  /\ Through(m.first, m.second, q) \in Frame \ frame_table
              /\ \A r \in P : Through(m.first, m.second, q) = Through(m.first, m.second, r) => q = r
  BY <1>6
<1> QED
  BY <1>2, <1>7, <1>8, <1>9, <1>10, <1>11 DEF NewPages

\* vmem_alloc_for_userland as a whole.
LEMMA AllocSoundly ==
    ASSUME NEW k, HeapSound(k), SecondSound(k), NEW f, FirstSound(f), NEW size \in Nat \ {0},
           frame_table \in SUBSET Frame, CanAlloc(f, size)
    PROVE  AllocMaps(f, k, size, vmem_alloc_for_userland(f, k, size))
<1> DEFINE page == Min(RoomFor(f, size))
           P == PagesOf(page, size)
           missing == {i \in TablesOf(page, size) : f[i] = NULL}
           fresh == Tables2(k, Cardinality(missing))
           f2 == [i \in DOMAIN f |-> IF i \in missing THEN fresh.addrs[Cardinality({j \in missing : j <= i})] ELSE f[i]]
           FrameOf(q) == NthOf(FreeFrames, q - page + 1)
           old == [a \in DOMAIN second \cup ToSet(fresh.addrs) |-> IF a \in ToSet(fresh.addrs) THEN EmptyTable ELSE second[a]]
           new == [a \in DOMAIN old |-> [j \in Index2 |->
                      IF \E q \in P : f2[At1(q)] = a /\ At2(q) = j
                      THEN FrameOf(CHOOSE q \in P : f2[At1(q)] = a /\ At2(q) = j)
                      ELSE old[a][j]]]
           m == vmem_alloc_for_userland(f, k, size)
<1>1. Page \in SUBSET Nat
  BY PageIndices
<1>2. page \in RoomFor(f, size)
  <2>1. RoomFor(f, size) \in SUBSET Nat /\ RoomFor(f, size) # {}
    BY <1>1 DEF RoomFor, CanAlloc
  <2> QED
    BY <2>1, MinIs
<1>3. page \in Page /\ page \in Nat /\ \A q \in P : q \in Page /\ Through(f, second, q) = NULL
  BY <1>1, <1>2 DEF RoomFor
<1>4. m = [page |-> page, first |-> f2, heap |-> fresh.heap,
           frames |-> frame_table \cup {FrameOf(q) : q \in P}, second |-> new]
  BY DEF vmem_alloc_for_userland, At1, At2
<1> HIDE DEF page, m
<1>5. page \in P /\ \A q \in P : q - page + 1 \in 1 .. get_nb_pages(size)
  BY <1>3, PagesOfIs
<1>6. missing = MissingIn(f, P)
  BY DEF TablesOf, At1, MissingIn
<1> HIDE DEF missing, P
<1>7. PICK c : c = Cardinality(missing)
  OBVIOUS
<1>8. c \in Nat
  <2>1. missing \in SUBSET Index1
    BY <1>3, <1>6, PageIndices DEF MissingIn
  <2> QED
    BY <1>7, <2>1, BoundedSets, FS_Subset, FS_CardinalityType
<1>9. TablesAllotted(k, fresh, Cardinality(missing))
  BY <1>7, <1>8, TablesSound
<1> HIDE DEF fresh
<1>10. m.heap = fresh.heap /\ m.first = f2 /\ m.page = page /\ m.second = new
       /\ m.frames = frame_table \cup {FrameOf(q) : q \in P}
  BY <1>4
<1>11. m.first = WithTables(f, missing, fresh.addrs)
  BY <1>10 DEF Rank, WithTables
<1>12. P \in SUBSET Page /\ f \in [Index1 -> Nat]
  BY <1>3 DEF FirstSound
<1>13. /\ NewTables(f, k, m, P)
       /\ \A i \in Index1 : i \in missing <=> New(f, m.first, i)
       /\ ToSet(fresh.addrs) = {m.first[i] : i \in missing}
  <2> HIDE DEF f2, FrameOf, old, new
  <2> QED
    BY <1>6, <1>9, <1>10, <1>11, <1>12, AllocTables
<1>14. ToSet(fresh.addrs) = {m.first[i] : i \in {j \in Index1 : New(f, m.first, j)}}
  <2>1. missing \in SUBSET Index1
    BY <1>3, <1>6, PageIndices DEF MissingIn
  <2> HIDE DEF f2
  <2> QED
    BY <1>13, <2>1
<1>15. /\ \A q \in P : FrameOf(q) \in Frame \ frame_table
       /\ \A q, r \in P : FrameOf(q) = FrameOf(r) => q = r
  <2>1. FreeFrames \in SUBSET Nat /\ IsFiniteSet(FreeFrames)
    BY BoundedSets
  <2>2. Cardinality(FreeFrames) \in Nat /\ get_nb_pages(size) <= Cardinality(FreeFrames)
        /\ get_nb_pages(size) \in Nat
    BY <2>1, FS_CardinalityType, NbPages DEF CanAlloc
  <2>3. \A q \in P : q - page + 1 \in 1 .. Cardinality(FreeFrames)
    BY <1>5, <2>2
  <2>4. ASSUME NEW q \in P
        PROVE  FrameOf(q) \in FreeFrames /\ Rank(FreeFrames, FrameOf(q)) = q - page + 1
    <3>1. PICK n \in 1 .. Cardinality(FreeFrames) : n = q - page + 1
      BY <2>3
    <3>2. NthOf(FreeFrames, n) \in FreeFrames /\ Rank(FreeFrames, NthOf(FreeFrames, n)) = n
      BY <2>1, NthIs
    <3> QED
      BY <3>1, <3>2
  <2>5. ASSUME NEW q \in P, NEW r \in P, q - page + 1 = r - page + 1 PROVE q = r
    <3>1. q \in Nat /\ r \in Nat /\ page \in Nat
      BY <1>1, <1>3
    <3> QED
      BY <2>5, <3>1
  <2> HIDE DEF FrameOf
  <2> QED
    BY <2>4, <2>5 DEF FreeFrames
<1>16. NewPages(f, m, P)
  <2>1. PICK g : g = [q \in P |-> FrameOf(q)]
    OBVIOUS
  <2>2. \A q \in P : g[q] = FrameOf(q)
    BY <2>1
  <2>3. PICK added, o : added = ToSet(fresh.addrs) /\ o = old
    OBVIOUS
  <2>4. o = WithAdded(added)
    BY <2>3 DEF WithAdded
  <2>5. m.second = [a \in DOMAIN o |-> [j \in Index2 |->
                      IF \E q \in P : m.first[At1(q)] = a /\ At2(q) = j
                      THEN FrameOf(CHOOSE q \in P : m.first[At1(q)] = a /\ At2(q) = j)
                      ELSE o[a][j]]]
    BY <1>10, <2>3
  <2> HIDE DEF FrameOf, f2, old, new
  <2>6. MapsTo(m.first, o, m.second, P, g)
    <3>1. \A a, j : (\E q \in P : m.first[At1(q)] = a /\ At2(q) = j) =>
              FrameOf(CHOOSE q \in P : m.first[At1(q)] = a /\ At2(q) = j)
                = g[CHOOSE q \in P : m.first[At1(q)] = a /\ At2(q) = j]
      BY <2>2
    <3> QED
      BY <2>5, <3>1 DEF MapsTo
  <2>7. \A x : x \in m.frames <=> x \in frame_table \/ \E q \in P : g[q] = x
    BY <1>10, <2>2
  <2>8. added = {m.first[i] : i \in {j \in Index1 : New(f, m.first, j)}}
    BY <1>14, <2>3
  <2>9. /\ \A q \in P : g[q] \in Frame \ frame_table
        /\ \A q, r \in P : g[q] = g[r] => q = r
    BY <1>15, <2>2
  <2>10. \A q \in P : Through(f, second, q) = NULL
    BY <1>3
  <2> QED
    BY <1>12, <1>13, <2>4, <2>6, <2>7, <2>8, <2>9, <2>10, AllocPages
<1> HIDE DEF f2, FrameOf, old, new
<1>17. m.page = page /\ P = PagesOf(m.page, size)
  BY <1>10 DEF P
<1>18. m.page \in Page /\ m.page \in P /\ \A q \in P : q \in Page /\ Through(f, second, q) = NULL
  BY <1>3, <1>5, <1>17
<1>19. NewTables(f, k, m, P) /\ NewPages(f, m, P)
  BY <1>13, <1>16
<1>20. AllocMaps(f, k, size, m)
  BY <1>17, <1>18, <1>19 DEF AllocMaps
<1> QED
  BY <1>20 DEF m

\* What is left of the tables, and the heap they are freed to.
FreeMaps(f, k, P, m) ==
    /\ m.first \in [Index1 -> Nat] /\ \A i \in Index1 : m.first[i] # NULL => m.first[i] = f[i]
    /\ HeapSound(m.heap)
    /\ \A s : Used(k, s) /\ (\A i \in Index1 : New(m.first, f, i) => Beside(TableSpan(f[i]), s)) => Used(m.heap, s)
    /\ DOMAIN m.second = DOMAIN second \ {f[i] : i \in {j \in Index1 : New(m.first, f, j)}}
    /\ \A a \in DOMAIN m.second : m.second[a] \in [Index2 -> Frame \cup {NULL}]
    /\ \A a \in DOMAIN m.second : (\A i \in Index1 : f[i] # a) => m.second[a] = second[a]
    /\ \A q \in Page \ P : Through(m.first, m.second, q) = Through(f, second, q)
    /\ \A q \in P : Through(m.first, m.second, q) = NULL
    /\ \A x : x \in m.frames <=> x \in frame_table /\ ~\E q \in P : Through(f, second, q) = x
    /\ \A i \in Index1 :
        m.first[i] # NULL /\ (\E q \in Page : At1(q) = i /\ Through(f, second, q) # NULL) =>
            \E q \in Page : At1(q) = i /\ Through(m.first, m.second, q) # NULL

\* The tables of one process are apart.
TablesBeside(f) ==
    \A i, j \in Index1 : i # j /\ f[i] # NULL /\ f[j] # NULL => Beside(TableSpan(f[i]), TableSpan(f[j]))

LEMMA ClearedIs ==
    ASSUME NEW k, SecondSound(k), NEW f, NEW page, NEW size, NEW cleared, cleared = Cleared(f, page, size),
           NEW P, P = PagesOf(page, size)
    PROVE  /\ DOMAIN cleared = DOMAIN second
           /\ \A a \in DOMAIN second, j \in Index2 :
                cleared[a][j] = IF \E q \in P : f[At1(q)] = a /\ At2(q) = j THEN NULL ELSE second[a][j]
           /\ \A a \in DOMAIN second : cleared[a] \in [Index2 -> Frame \cup {NULL}]
           /\ \A a \in DOMAIN second : (\A q \in P : f[At1(q)] # a) => cleared[a] = second[a]
<1>1. cleared = [a \in DOMAIN second |-> [j \in Index2 |->
                    IF \E q \in P : f[At1(q)] = a /\ At2(q) = j THEN NULL ELSE second[a][j]]]
  BY DEF Cleared, At1, At2
<1>2. DOMAIN cleared = DOMAIN second
  BY <1>1
<1>3. \A a \in DOMAIN second, j \in Index2 :
          cleared[a][j] = IF \E q \in P : f[At1(q)] = a /\ At2(q) = j THEN NULL ELSE second[a][j]
  BY <1>1
<1>4. ASSUME NEW a \in DOMAIN second
      PROVE  /\ cleared[a] \in [Index2 -> Frame \cup {NULL}]
             /\ (\A q \in P : f[At1(q)] # a) => cleared[a] = second[a]
  <2>1. PICK c, t : c = cleared[a] /\ t = second[a]
    OBVIOUS
  <2>2. t \in [Index2 -> Frame \cup {NULL}]
    BY <2>1 DEF SecondSound
  <2>3. c = [j \in Index2 |-> IF \E q \in P : f[At1(q)] = a /\ At2(q) = j THEN NULL ELSE t[j]]
    BY <1>1, <2>1
  <2>4. c \in [Index2 -> Frame \cup {NULL}]
    BY <2>2, <2>3
  <2>5. ASSUME \A q \in P : f[At1(q)] # a PROVE c = t
    BY <2>2, <2>3, <2>5
  <2> QED
    BY <2>1, <2>4, <2>5
<1> QED
  BY <1>2, <1>3, <1>4

\* vmem_free as a whole, of pages that are mapped.
LEMMA FreeSoundly ==
    ASSUME NEW k, HeapSound(k), SecondSound(k), NEW f, FirstSound(f), TablesBeside(f),
           NEW page, NEW size, NEW P, P = PagesOf(page, size), P \in SUBSET Page,
           \A q \in P : Through(f, second, q) # NULL
    PROVE  FreeMaps(f, k, P, vmem_free(f, k, page, size))
<1>1. PICK cleared : cleared = Cleared(f, page, size)
  OBVIOUS
<1>2. PICK empty : empty = {i \in TablesOf(page, size) : is_table2_free(cleared[f[i]])}
  OBVIOUS
<1>3. PICK freed : freed = {f[i] : i \in empty}
  OBVIOUS
<1>4. PICK m : m = vmem_free(f, k, page, size)
  OBVIOUS
<1>5. /\ m.first = [i \in DOMAIN f |-> IF i \in empty THEN NULL ELSE f[i]]
      /\ m.heap = FreeTables2(k, f, empty)
      /\ m.frames = frame_table \ {Through(f, second, q) : q \in P}
      /\ m.second = [a \in DOMAIN second \ freed |-> cleared[a]]
  BY <1>1, <1>2, <1>3, <1>4 DEF vmem_free
<1>6. /\ f \in [Index1 -> Nat]
      /\ \A i \in Index1 : f[i] # NULL => f[i] \in DOMAIN second
      /\ \A i, j \in Index1 : f[i] # NULL /\ f[i] = f[j] => i = j
  BY DEF FirstSound
<1>7. \A q \in Page : At1(q) \in Index1 /\ At2(q) \in Index2
  BY PageIndices
<1>8. \A i : i \in empty <=> (\E q \in P : i = At1(q)) /\ cleared[f[i]] = EmptyTable
  BY <1>2 DEF TablesOf, At1, is_table2_free
<1>9. \A i \in empty : i \in Index1 /\ f[i] # NULL
  BY <1>7, <1>8 DEF Through, At1
<1>10. \A i \in Index1 : m.first[i] = IF i \in empty THEN NULL ELSE f[i]
  BY <1>5, <1>6
<1>11. m.first \in [Index1 -> Nat] /\ \A i \in Index1 : m.first[i] # NULL => m.first[i] = f[i]
  BY <1>5, <1>6, <1>10 DEF NULL
<1>12. \A i \in Index1 : New(m.first, f, i) <=> i \in empty
  BY <1>9, <1>10 DEF New
<1>13. /\ HeapSound(m.heap)
       /\ \A s : Used(k, s) /\ (\A i \in Index1 : New(m.first, f, i) => Beside(TableSpan(f[i]), s)) => Used(m.heap, s)
  <2>1. f \in [0 .. NbUserTables - 1 -> Nat] /\ empty \in SUBSET (0 .. NbUserTables - 1)
    BY <1>6, <1>9 DEF Index1
  <2>2. \A i \in empty : Used(k, TableSpan(f[i]))
    BY <1>6, <1>9 DEF SecondSound
  <2>3. \A i, j \in empty : i # j => Beside(TableSpan(f[i]), TableSpan(f[j]))
    BY <1>9 DEF TablesBeside
  <2>4. PICK h : h = FreeTables2(k, f, empty)
    OBVIOUS
  <2>5. /\ HeapSound(h)
        /\ \A s : Used(k, s) /\ (\A i \in empty : Beside(TableSpan(f[i]), s)) => Used(h, s)
    BY <2>1, <2>2, <2>3, <2>4, FreeTablesSound
  <2>6. m.heap = h
    BY <1>5, <2>4
  <2> QED
    BY <1>9, <1>12, <2>5, <2>6
<1>14. DOMAIN m.second = DOMAIN second \ {f[i] : i \in {j \in Index1 : New(m.first, f, j)}}
  <2>1. {j \in Index1 : New(m.first, f, j)} = empty
    BY <1>9, <1>12
  <2>2. DOMAIN m.second = DOMAIN second \ freed
    BY <1>5
  <2> QED
    BY <1>3, <2>1, <2>2
<1>15. \A a \in DOMAIN m.second : a \in DOMAIN second /\ m.second[a] = cleared[a]
  BY <1>5
<1>16. \A a \in DOMAIN m.second : m.second[a] \in [Index2 -> Frame \cup {NULL}]
  BY <1>1, <1>15, ClearedIs
<1>17. ASSUME NEW a \in DOMAIN m.second, \A i \in Index1 : f[i] # a PROVE m.second[a] = second[a]
  <2>1. \A q \in P : f[At1(q)] # a
    BY <1>7, <1>17
  <2> QED
    BY <1>1, <1>15, <2>1, ClearedIs
<1>18. ASSUME NEW q \in Page
       PROVE  /\ q \in P => Through(m.first, m.second, q) = NULL
              /\ q \notin P => Through(m.first, m.second, q) = Through(f, second, q)
  <2>1. PICK i, j : i = At1(q) /\ j = At2(q)
    OBVIOUS
  <2>2. i \in Index1 /\ j \in Index2
    BY <1>7, <2>1
  <2>3. Through(m.first, m.second, q) = IF m.first[i] = NULL THEN NULL ELSE m.second[m.first[i]][j]
    BY <2>1 DEF Through, At1, At2
  <2>4. Through(f, second, q) = IF f[i] = NULL THEN NULL ELSE second[f[i]][j]
    BY <2>1 DEF Through, At1, At2
  <2>5. CASE f[i] = NULL
    BY <1>11, <2>2, <2>3, <2>4, <2>5
  <2>6. CASE f[i] # NULL
    <3>1. PICK a \in DOMAIN second : a = f[i]
      BY <1>6, <2>2, <2>6
    <3>2. \A r \in P : f[At1(r)] = a /\ At2(r) = j => r = q
      <4>1. ASSUME NEW r \in P, f[At1(r)] = a, At2(r) = j PROVE r = q
        <5>1. r \in Page /\ At1(r) = i
          BY <1>6, <1>7, <2>2, <2>6, <3>1, <4>1
        <5> QED
          BY <2>1, <4>1, <5>1, PageIndices
      <4> QED
        BY <4>1
    <3>3. cleared[a][j] = IF q \in P THEN NULL ELSE second[a][j]
      <4>1. (\E r \in P : f[At1(r)] = a /\ At2(r) = j) <=> q \in P
        BY <2>1, <3>1, <3>2
      <4> QED
        BY <1>1, <2>2, <4>1, ClearedIs
    <3>4. CASE i \in empty
      <4>1. m.first[i] = NULL
        BY <1>10, <2>2, <3>4
      <4>2. cleared[a] = EmptyTable
        BY <1>8, <3>1, <3>4
      <4>3. cleared[a][j] = NULL
        BY <2>2, <4>2 DEF EmptyTable
      <4> QED
        BY <2>3, <2>4, <2>6, <3>1, <3>3, <4>1, <4>3
    <3>5. CASE i \notin empty
      <4>1. m.first[i] = a
        BY <1>10, <2>2, <3>1, <3>5
      <4>2. a \notin freed
        BY <1>3, <1>6, <1>9, <2>2, <2>6, <3>1, <3>5
      <4>3. m.second[a] = cleared[a]
        BY <1>5, <4>2
      <4> QED
        BY <2>3, <2>4, <2>6, <3>1, <3>3, <4>1, <4>3
    <3> QED
      BY <3>4, <3>5
  <2> QED
    BY <2>5, <2>6
<1>19. \A x : x \in m.frames <=> x \in frame_table /\ ~\E q \in P : Through(f, second, q) = x
  BY <1>5
<1>20. ASSUME NEW i \in Index1, m.first[i] # NULL, NEW r \in Page, At1(r) = i, Through(f, second, r) # NULL
       PROVE  \E q \in Page : At1(q) = i /\ Through(m.first, m.second, q) # NULL
  <2>1. i \notin empty /\ m.first[i] = f[i] /\ f[i] # NULL
    BY <1>10, <1>20
  <2>2. CASE \E q \in P : i = At1(q)
    <3>1. PICK c : c = cleared[f[i]]
      OBVIOUS
    <3>2. c # EmptyTable
      BY <1>8, <2>1, <2>2, <3>1
    <3>3. c \in [Index2 -> Frame \cup {NULL}]
      BY <1>1, <1>6, <2>1, <3>1, ClearedIs
    <3>4. PICK j \in Index2 : c[j] # NULL
      BY <3>2, <3>3 DEF EmptyTable
    <3>5. PICK q \in Page : At1(q) = i /\ At2(q) = j
      BY PageAt
    <3>6. f[i] \notin freed
      BY <1>3, <1>6, <1>9, <2>1
    <3>7. m.second[f[i]] = c
      BY <1>5, <1>6, <2>1, <3>1, <3>6
    <3>8. Through(m.first, m.second, q) # NULL
      BY <2>1, <3>4, <3>5, <3>7 DEF Through, At1, At2
    <3> QED
      BY <3>5, <3>8
  <2>3. CASE ~\E q \in P : i = At1(q)
    BY <1>18, <1>20, <2>3
  <2> QED
    BY <2>2, <2>3
<1>21. FreeMaps(f, k, P, m)
  BY <1>11, <1>13, <1>14, <1>16, <1>17, <1>18, <1>19, <1>20 DEF FreeMaps
<1> QED
  BY <1>4, <1>21

-----------------------------------------------------------------------------
(* What a process has of the kernel heap.                                  *)

\* The heap t.heap is the heap k, but for a table of the first level and those for the kernel.
FirstSpan(addr) == Span(addr, FIRST_LVL_TT_SIZE)

TranslationAllotted(k, t) ==
    /\ HeapSound(t.heap) /\ t.tables \in Seq(Nat) /\ Used(t.heap, FirstSpan(t.base))
    /\ \A s : Used(k, s) =>
        /\ Used(t.heap, s) /\ Beside(FirstSpan(t.base), s)
        /\ \A j \in DOMAIN t.tables : Beside(TableSpan(t.tables[j]), s)
    /\ \A j \in DOMAIN t.tables :
        /\ Used(t.heap, TableSpan(t.tables[j])) /\ Beside(TableSpan(t.tables[j]), FirstSpan(t.base))
        /\ \A l \in DOMAIN t.tables : l # j => Beside(TableSpan(t.tables[j]), TableSpan(t.tables[l]))

LEMMA TranslationSound ==
    ASSUME NEW k, HeapSound(k)
    PROVE  TranslationAllotted(k, TranslationTable(k))
<1>1. PICK base : base = kAlloc_aligned(k, FIRST_LVL_TT_SIZE, FIRST_LVL_TT_SIZE)
  OBVIOUS
<1>2. PICK own : own = Tables2(base.heap, NbKernelTables)
  OBVIOUS
<1>3. PICK t : t = TranslationTable(k)
  OBVIOUS
<1>4. t.base = base.addr /\ t.tables = own.addrs /\ t.heap = own.heap
  BY <1>1, <1>2, <1>3 DEF TranslationTable
<1>5. FIRST_LVL_TT_SIZE \in Nat \ {0} /\ NbKernelTables \in Nat
  BY VmemAssumption
<1>6. Allotted(k, base.heap, FirstSpan(base.addr))
  BY <1>1, <1>5, AllocSound DEF FirstSpan
<1>7. /\ HeapSound(base.heap) /\ Used(base.heap, FirstSpan(base.addr))
      /\ \A s : Used(k, s) => Used(base.heap, s) /\ Beside(FirstSpan(base.addr), s)
  BY <1>6 DEF Allotted
<1>8. TablesAllotted(base.heap, own, NbKernelTables)
  BY <1>2, <1>5, <1>7, TablesSound
<1>9. DOMAIN own.addrs = 1 .. NbKernelTables
  BY <1>8 DEF TablesAllotted
<1>10. TranslationAllotted(k, t)
  BY <1>4, <1>7, <1>8, <1>9 DEF TranslationAllotted, TablesAllotted
<1> QED
  BY <1>3, <1>10

\* The slots of a process are its first level table, its pcb, and its tables of the second level.
LEMMA SlotsAre ==
    ASSUME NEW p, NEW r
    PROVE  /\ <<"page_table", 0>> \in SlotsOf(p, r)
           /\ BlockOf(r, <<"page_table", 0>>) = FirstSpan(r.page_table)
           /\ p # kmain => <<"pcb", 0>> \in SlotsOf(p, r)
           /\ BlockOf(r, <<"pcb", 0>>) = Span(r.pcb, PcbSize)
           /\ \A j \in DOMAIN r.kernel_tables : <<"kernel", j>> \in SlotsOf(p, r)
           /\ \A j : BlockOf(r, <<"kernel", j>>) = TableSpan(r.kernel_tables[j])
           /\ \A i \in DOMAIN r.first : r.first[i] # NULL => <<"first", i>> \in SlotsOf(p, r)
           /\ \A i : BlockOf(r, <<"first", i>>) = TableSpan(r.first[i])
           /\ \A s \in SlotsOf(p, r) :
                \/ s = <<"page_table", 0>>
                \/ p # kmain /\ s = <<"pcb", 0>>
                \/ \E j \in DOMAIN r.kernel_tables : s = <<"kernel", j>>
                \/ \E i \in DOMAIN r.first : r.first[i] # NULL /\ s = <<"first", i>>
<1>1. /\ BlockOf(r, <<"page_table", 0>>) = FirstSpan(r.page_table)
      /\ BlockOf(r, <<"pcb", 0>>) = Span(r.pcb, PcbSize)
      /\ \A j : BlockOf(r, <<"kernel", j>>) = TableSpan(r.kernel_tables[j])
      /\ \A i : BlockOf(r, <<"first", i>>) = TableSpan(r.first[i])
  BY DEF BlockOf, FirstSpan
<1>2. <<"page_table", 0>> \in SlotsOf(p, r) /\ (p # kmain => <<"pcb", 0>> \in SlotsOf(p, r))
  BY DEF SlotsOf
<1>3. /\ \A j \in DOMAIN r.kernel_tables : <<"kernel", j>> \in SlotsOf(p, r)
      /\ \A i \in DOMAIN r.first : r.first[i] # NULL => <<"first", i>> \in SlotsOf(p, r)
  BY DEF SlotsOf
<1>4. ASSUME NEW s \in SlotsOf(p, r)
      PROVE  \/ s = <<"page_table", 0>>
             \/ p # kmain /\ s = <<"pcb", 0>>
             \/ \E j \in DOMAIN r.kernel_tables : s = <<"kernel", j>>
             \/ \E i \in DOMAIN r.first : r.first[i] # NULL /\ s = <<"first", i>>
  BY DEF SlotsOf
<1> QED
  BY <1>1, <1>2, <1>3, <1>4

\* The blocks of r are in use in k and were not in k0.
Owned(k0, k, p, r) ==
    BlocksSound(k, p, r) /\ \A s : Used(k0, s) => Used(k, s) /\ \A t \in SlotsOf(p, r) : Beside(BlockOf(r, t), s)

LEMMA BesideTurns == ASSUME NEW r, NEW s, Beside(r, s) PROVE Beside(s, r)
  BY DEF Beside

\* kmain's blocks.
LEMMA KmainBlocks ==
    ASSUME NEW k, NEW t, TranslationAllotted(k, t), NEW r,
           r.page_table = t.base, r.kernel_tables = t.tables, r.first = NoFirst
    PROVE  Owned(k, t.heap, kmain, r)
<1>1. ASSUME NEW s \in SlotsOf(kmain, r)
      PROVE  s = <<"page_table", 0>> \/ \E j \in DOMAIN t.tables : s = <<"kernel", j>>
  <2>1. \A i \in DOMAIN r.first : r.first[i] = NULL
    BY DEF NoFirst
  <2>2. \/ s = <<"page_table", 0>>
        \/ kmain # kmain /\ s = <<"pcb", 0>>
        \/ \E j \in DOMAIN r.kernel_tables : s = <<"kernel", j>>
        \/ \E i \in DOMAIN r.first : r.first[i] # NULL /\ s = <<"first", i>>
    BY SlotsAre
  <2> QED
    BY <2>1, <2>2
<1>2. /\ BlockOf(r, <<"page_table", 0>>) = FirstSpan(t.base)
      /\ \A j : BlockOf(r, <<"kernel", j>>) = TableSpan(t.tables[j])
  BY SlotsAre
<1>3. ASSUME NEW s \in SlotsOf(kmain, r)
      PROVE  /\ Used(t.heap, BlockOf(r, s))
             /\ \A u : Used(k, u) => Beside(BlockOf(r, s), u)
             /\ \A u \in SlotsOf(kmain, r) : s # u => Beside(BlockOf(r, s), BlockOf(r, u))
  <2>1. CASE s = <<"page_table", 0>>
    BY <1>1, <1>2, <2>1, BesideTurns DEF TranslationAllotted
  <2>2. ASSUME NEW j \in DOMAIN t.tables, s = <<"kernel", j>>
        PROVE  /\ Used(t.heap, BlockOf(r, s))
               /\ \A u : Used(k, u) => Beside(BlockOf(r, s), u)
               /\ \A u \in SlotsOf(kmain, r) : s # u => Beside(BlockOf(r, s), BlockOf(r, u))
    <3>1. BlockOf(r, s) = TableSpan(t.tables[j])
      BY <1>2, <2>2
    <3>2. ASSUME NEW u \in SlotsOf(kmain, r), s # u PROVE Beside(BlockOf(r, s), BlockOf(r, u))
      <4>1. CASE u = <<"page_table", 0>>
        BY <1>2, <3>1, <4>1 DEF TranslationAllotted
      <4>2. ASSUME NEW l \in DOMAIN t.tables, u = <<"kernel", l>> PROVE Beside(BlockOf(r, s), BlockOf(r, u))
        <5>1. l # j /\ BlockOf(r, u) = TableSpan(t.tables[l])
          BY <1>2, <2>2, <3>2, <4>2
        <5> QED
          BY <3>1, <5>1 DEF TranslationAllotted
      <4> QED
        BY <1>1, <4>1, <4>2
    <3> QED
      BY <3>1, <3>2 DEF TranslationAllotted
  <2> QED
    BY <1>1, <2>1, <2>2
<1> QED
  BY <1>3 DEF Owned, BlocksSound, TranslationAllotted

\* The blocks of a process that is added, before it has pages.
LEMMA AddedBlocks ==
    ASSUME NEW k0, NEW k, NEW a, Allotted(k0, k, Span(a, PcbSize)), NEW t, TranslationAllotted(k, t),
           NEW p, p # kmain, NEW r,
           r.pcb = a, r.page_table = t.base, r.kernel_tables = t.tables, r.first = NoFirst
    PROVE  Owned(k0, t.heap, p, r)
<1>1. ASSUME NEW s \in SlotsOf(p, r)
      PROVE  s = <<"page_table", 0>> \/ s = <<"pcb", 0>> \/ \E j \in DOMAIN t.tables : s = <<"kernel", j>>
  <2>1. \A i \in DOMAIN r.first : r.first[i] = NULL
    BY DEF NoFirst
  <2>2. \/ s = <<"page_table", 0>>
        \/ p # kmain /\ s = <<"pcb", 0>>
        \/ \E j \in DOMAIN r.kernel_tables : s = <<"kernel", j>>
        \/ \E i \in DOMAIN r.first : r.first[i] # NULL /\ s = <<"first", i>>
    BY SlotsAre
  <2> QED
    BY <2>1, <2>2
<1>2. /\ BlockOf(r, <<"page_table", 0>>) = FirstSpan(t.base) /\ BlockOf(r, <<"pcb", 0>>) = Span(a, PcbSize)
      /\ \A j : BlockOf(r, <<"kernel", j>>) = TableSpan(t.tables[j])
  BY SlotsAre
<1>3. /\ Used(k, Span(a, PcbSize)) /\ \A s : Used(k0, s) => Used(k, s) /\ Beside(Span(a, PcbSize), s)
  BY DEF Allotted
<1>4. /\ Used(t.heap, Span(a, PcbSize)) /\ Beside(FirstSpan(t.base), Span(a, PcbSize))
      /\ \A j \in DOMAIN t.tables : Beside(TableSpan(t.tables[j]), Span(a, PcbSize))
      /\ \A s : Used(k0, s) =>
            /\ Used(t.heap, s) /\ Beside(FirstSpan(t.base), s)
            /\ \A j \in DOMAIN t.tables : Beside(TableSpan(t.tables[j]), s)
  BY <1>3 DEF TranslationAllotted
<1>5. /\ Used(t.heap, FirstSpan(t.base))
      /\ \A j \in DOMAIN t.tables :
        /\ Used(t.heap, TableSpan(t.tables[j])) /\ Beside(TableSpan(t.tables[j]), FirstSpan(t.base))
        /\ \A l \in DOMAIN t.tables : l # j => Beside(TableSpan(t.tables[j]), TableSpan(t.tables[l]))
  BY DEF TranslationAllotted
<1>6. ASSUME NEW s \in SlotsOf(p, r)
      PROVE  Used(t.heap, BlockOf(r, s)) /\ \A u : Used(k0, u) => Beside(BlockOf(r, s), u)
  BY <1>1, <1>2, <1>3, <1>4, <1>5
<1>7. ASSUME NEW s \in SlotsOf(p, r), NEW u \in SlotsOf(p, r), s # u PROVE Beside(BlockOf(r, s), BlockOf(r, u))
  <2>1. CASE s = <<"page_table", 0>>
    BY <1>1, <1>2, <1>4, <1>5, <1>7, <2>1, BesideTurns
  <2>2. CASE s = <<"pcb", 0>>
    BY <1>1, <1>2, <1>4, <1>5, <1>7, <2>2, BesideTurns
  <2>3. ASSUME NEW j \in DOMAIN t.tables, s = <<"kernel", j>> PROVE Beside(BlockOf(r, s), BlockOf(r, u))
    <3>1. BlockOf(r, s) = TableSpan(t.tables[j])
      BY <1>2, <2>3
    <3>2. CASE u = <<"page_table", 0>> \/ u = <<"pcb", 0>>
      BY <1>2, <1>4, <1>5, <3>1, <3>2
    <3>3. ASSUME NEW l \in DOMAIN t.tables, u = <<"kernel", l>> PROVE Beside(BlockOf(r, s), BlockOf(r, u))
      <4>1. l # j /\ BlockOf(r, u) = TableSpan(t.tables[l])
        BY <1>2, <1>7, <2>3, <3>3
      <4> QED
        BY <1>5, <3>1, <4>1
    <3> QED
      BY <1>1, <3>2, <3>3
  <2> QED
    BY <1>1, <2>1, <2>2, <2>3
<1> QED
  BY <1>4, <1>6, <1>7 DEF Owned, BlocksSound

\* From k to k2, p's blocks from those of r to those of r2: whatever was beside the first is beside the second.
Carries(k, k2, p, r, r2) ==
    /\ BlocksSound(k2, p, r2)
    /\ \A s : Used(k, s) /\ (\A t \in SlotsOf(p, r) : Beside(BlockOf(r, t), s)) =>
            Used(k2, s) /\ \A t \in SlotsOf(p, r2) : Beside(BlockOf(r2, t), s)

SameButFirst(r, r2) == r2.pcb = r.pcb /\ r2.page_table = r.page_table /\ r2.kernel_tables = r.kernel_tables

LEMMA MappedBlocks ==
    ASSUME NEW k, NEW p, NEW r, BlocksSound(k, p, r), r.first \in [Index1 -> Nat],
           NEW m, NEW P, NewTables(r.first, k, m, P), NEW r2, SameButFirst(r, r2), r2.first = m.first
    PROVE  Carries(k, m.heap, p, r, r2)
<1>1. ASSUME NEW s \in SlotsOf(p, r2)
      PROVE  \/ s \in SlotsOf(p, r) /\ BlockOf(r2, s) = BlockOf(r, s)
             \/ \E i \in Index1 : New(r.first, m.first, i) /\ s = <<"first", i>> /\ BlockOf(r2, s) = TableSpan(m.first[i])
  <2>1. CASE s = <<"page_table", 0>>
    BY <2>1, SlotsAre DEF SameButFirst
  <2>2. CASE p # kmain /\ s = <<"pcb", 0>>
    BY <2>2, SlotsAre DEF SameButFirst
  <2>3. CASE \E j \in DOMAIN r2.kernel_tables : s = <<"kernel", j>>
    BY <2>3, SlotsAre DEF SameButFirst
  <2>4. CASE \E i \in DOMAIN r2.first : r2.first[i] # NULL /\ s = <<"first", i>>
    <3>1. PICK i \in Index1 : m.first[i] # NULL /\ s = <<"first", i>>
      BY <2>4 DEF NewTables
    <3>2. BlockOf(r2, s) = TableSpan(m.first[i])
      BY <3>1, SlotsAre
    <3>3. CASE r.first[i] = NULL
      BY <3>1, <3>2, <3>3 DEF New
    <3>4. CASE r.first[i] # NULL
      <4>1. m.first[i] = r.first[i] /\ i \in DOMAIN r.first
        BY <3>4 DEF NewTables
      <4>2. s \in SlotsOf(p, r) /\ BlockOf(r, s) = TableSpan(r.first[i])
        BY <3>1, <3>4, <4>1, SlotsAre
      <4> QED
        BY <3>2, <4>1, <4>2
    <3> QED
      BY <3>3, <3>4
  <2> QED
    BY <2>1, <2>2, <2>3, <2>4, SlotsAre
<1>2. /\ \A s : Used(k, s) => Used(m.heap, s)
      /\ \A i \in Index1 : New(r.first, m.first, i) =>
        /\ Used(m.heap, TableSpan(m.first[i]))
        /\ \A s : Used(k, s) => Beside(TableSpan(m.first[i]), s)
        /\ \A j \in Index1 : New(r.first, m.first, j) /\ i # j => Beside(TableSpan(m.first[i]), TableSpan(m.first[j]))
  BY DEF NewTables
<1>3. \A s \in SlotsOf(p, r) :
        /\ Used(k, BlockOf(r, s))
        /\ \A t \in SlotsOf(p, r) : s # t => Beside(BlockOf(r, s), BlockOf(r, t))
  BY DEF BlocksSound
<1>4. \A s \in SlotsOf(p, r2) : Used(m.heap, BlockOf(r2, s))
  BY <1>1, <1>2, <1>3
<1>5. ASSUME NEW s \in SlotsOf(p, r2), NEW t \in SlotsOf(p, r2), s # t PROVE Beside(BlockOf(r2, s), BlockOf(r2, t))
  <2>1. CASE s \in SlotsOf(p, r) /\ BlockOf(r2, s) = BlockOf(r, s)
    <3>1. CASE t \in SlotsOf(p, r) /\ BlockOf(r2, t) = BlockOf(r, t)
      BY <1>3, <1>5, <2>1, <3>1
    <3>2. ASSUME NEW i \in Index1, New(r.first, m.first, i), BlockOf(r2, t) = TableSpan(m.first[i])
          PROVE  Beside(BlockOf(r2, s), BlockOf(r2, t))
      BY <1>2, <1>3, <2>1, <3>2, BesideTurns
    <3> QED
      BY <1>1, <3>1, <3>2
  <2>2. ASSUME NEW i \in Index1, New(r.first, m.first, i), s = <<"first", i>>, BlockOf(r2, s) = TableSpan(m.first[i])
        PROVE  Beside(BlockOf(r2, s), BlockOf(r2, t))
    <3>1. CASE t \in SlotsOf(p, r) /\ BlockOf(r2, t) = BlockOf(r, t)
      BY <1>2, <1>3, <2>2, <3>1
    <3>2. ASSUME NEW j \in Index1, New(r.first, m.first, j), t = <<"first", j>>, BlockOf(r2, t) = TableSpan(m.first[j])
          PROVE  Beside(BlockOf(r2, s), BlockOf(r2, t))
      <4>1. i # j
        BY <1>5, <2>2, <3>2
      <4> QED
        BY <1>2, <2>2, <3>2, <4>1
    <3> QED
      BY <1>1, <3>1, <3>2
  <2> QED
    BY <1>1, <2>1, <2>2
<1>6. ASSUME NEW s, Used(k, s), \A t \in SlotsOf(p, r) : Beside(BlockOf(r, t), s), NEW t \in SlotsOf(p, r2)
      PROVE  Beside(BlockOf(r2, t), s)
  BY <1>1, <1>2, <1>6
<1> QED
  BY <1>2, <1>4, <1>5, <1>6 DEF Carries, BlocksSound

LEMMA UnmappedBlocks ==
    ASSUME NEW k, NEW p, NEW r, BlocksSound(k, p, r), r.first \in [Index1 -> Nat],
           NEW m, NEW P, FreeMaps(r.first, k, P, m), NEW r2, SameButFirst(r, r2), r2.first = m.first
    PROVE  Carries(k, m.heap, p, r, r2)
<1>1. ASSUME NEW s \in SlotsOf(p, r2)
      PROVE  /\ s \in SlotsOf(p, r) /\ BlockOf(r2, s) = BlockOf(r, s)
             /\ \A i \in Index1 : New(m.first, r.first, i) => s # <<"first", i>>
  <2>1. CASE s = <<"page_table", 0>>
    BY <2>1, SlotsAre DEF SameButFirst
  <2>2. CASE p # kmain /\ s = <<"pcb", 0>>
    BY <2>2, SlotsAre DEF SameButFirst
  <2>3. CASE \E j \in DOMAIN r2.kernel_tables : s = <<"kernel", j>>
    BY <2>3, SlotsAre DEF SameButFirst
  <2>4. CASE \E i \in DOMAIN r2.first : r2.first[i] # NULL /\ s = <<"first", i>>
    <3>1. PICK i \in Index1 : m.first[i] # NULL /\ s = <<"first", i>>
      BY <2>4 DEF FreeMaps
    <3>2. BlockOf(r2, s) = TableSpan(m.first[i])
      BY <3>1, SlotsAre
    <3>3. m.first[i] = r.first[i] /\ i \in DOMAIN r.first
      BY <3>1 DEF FreeMaps
    <3>4. s \in SlotsOf(p, r) /\ BlockOf(r, s) = TableSpan(r.first[i])
      BY <3>1, <3>3, SlotsAre
    <3>5. \A j \in Index1 : New(m.first, r.first, j) => j # i
      BY <3>1 DEF New
    <3> QED
      BY <3>1, <3>2, <3>3, <3>4, <3>5
  <2> QED
    BY <2>1, <2>2, <2>3, <2>4, SlotsAre
<1>2. \A s \in SlotsOf(p, r) :
        /\ Used(k, BlockOf(r, s))
        /\ \A t \in SlotsOf(p, r) : s # t => Beside(BlockOf(r, s), BlockOf(r, t))
  BY DEF BlocksSound
<1>3. \A i \in Index1 : New(m.first, r.first, i) =>
        <<"first", i>> \in SlotsOf(p, r) /\ BlockOf(r, <<"first", i>>) = TableSpan(r.first[i])
  BY SlotsAre DEF New
<1>4. \A s : Used(k, s) /\ (\A i \in Index1 : New(m.first, r.first, i) => Beside(TableSpan(r.first[i]), s)) => Used(m.heap, s)
  BY DEF FreeMaps
<1>5. ASSUME NEW s \in SlotsOf(p, r2) PROVE Used(m.heap, BlockOf(r2, s))
  <2>1. ASSUME NEW i \in Index1, New(m.first, r.first, i) PROVE Beside(TableSpan(r.first[i]), BlockOf(r2, s))
    <3>1. PICK t : t = <<"first", i>>
      OBVIOUS
    <3>2. t \in SlotsOf(p, r) /\ BlockOf(r, t) = TableSpan(r.first[i]) /\ t # s
      BY <1>1, <1>3, <2>1, <3>1
    <3> QED
      BY <1>1, <1>2, <3>2
  <2> QED
    BY <1>1, <1>2, <1>4, <2>1
<1>6. \A s \in SlotsOf(p, r2), t \in SlotsOf(p, r2) : s # t => Beside(BlockOf(r2, s), BlockOf(r2, t))
  BY <1>1, <1>2
<1>7. ASSUME NEW s, Used(k, s), \A t \in SlotsOf(p, r) : Beside(BlockOf(r, t), s)
      PROVE  Used(m.heap, s) /\ \A t \in SlotsOf(p, r2) : Beside(BlockOf(r2, t), s)
  <2>1. \A i \in Index1 : New(m.first, r.first, i) => Beside(TableSpan(r.first[i]), s)
    <3>1. ASSUME NEW i \in Index1, New(m.first, r.first, i) PROVE Beside(TableSpan(r.first[i]), s)
      <4>1. PICK t : t = <<"first", i>>
        OBVIOUS
      <4>2. t \in SlotsOf(p, r) /\ BlockOf(r, t) = TableSpan(r.first[i])
        BY <1>3, <3>1, <4>1
      <4>3. Beside(BlockOf(r, t), s)
        BY <1>7, <4>2
      <4> QED
        BY <4>2, <4>3
    <3> QED
      BY <3>1
  <2> QED
    BY <1>1, <1>4, <1>7, <2>1
<1> QED
  BY <1>5, <1>6, <1>7 DEF Carries, BlocksSound

\* A process that changes what it has carries the blocks of all.
LEMMA HeapCarries ==
    ASSUME NEW k, NEW pr, HeapOf(k, pr), NEW c \in DOMAIN pr, NEW k2, HeapSound(k2),
           NEW pr2, DOMAIN pr2 = DOMAIN pr, \A q \in DOMAIN pr \ {c} : pr2[q] = pr[q],
           Carries(k, k2, c, pr[c], pr2[c])
    PROVE  HeapOf(k2, pr2)
<1>1. /\ \A p \in DOMAIN pr : \A s \in SlotsOf(p, pr[p]) :
           /\ Used(k, BlockOf(pr[p], s))
           /\ \A t \in SlotsOf(p, pr[p]) : s # t => Beside(BlockOf(pr[p], s), BlockOf(pr[p], t))
      /\ \A p \in DOMAIN pr, q \in DOMAIN pr : p # q =>
           \A s \in SlotsOf(p, pr[p]), t \in SlotsOf(q, pr[q]) : Beside(BlockOf(pr[p], s), BlockOf(pr[q], t))
  BY DEF HeapOf, BlocksSound, BlocksBeside
<1>2. ASSUME NEW q \in DOMAIN pr, q # c, NEW t \in SlotsOf(q, pr[q])
      PROVE  /\ Used(k2, BlockOf(pr[q], t))
             /\ \A s \in SlotsOf(c, pr2[c]) : Beside(BlockOf(pr2[c], s), BlockOf(pr[q], t))
  <2>1. PICK b : b = BlockOf(pr[q], t)
    OBVIOUS
  <2>2. Used(k, b) /\ \A s \in SlotsOf(c, pr[c]) : Beside(BlockOf(pr[c], s), b)
    BY <1>1, <1>2, <2>1
  <2> QED
    BY <2>1, <2>2 DEF Carries
<1>3. ASSUME NEW p \in DOMAIN pr2 PROVE BlocksSound(k2, p, pr2[p])
  <2>1. CASE p = c
    BY <2>1 DEF Carries
  <2>2. CASE p # c
    <3>1. pr2[p] = pr[p]
      BY <2>2
    <3>2. BlocksSound(k2, p, pr[p])
      BY <1>1, <1>2, <2>2 DEF BlocksSound
    <3> QED
      BY <3>1, <3>2
  <2> QED
    BY <2>1, <2>2
<1>4. ASSUME NEW p \in DOMAIN pr2, NEW q \in DOMAIN pr2 \ {p} PROVE BlocksBeside(p, pr2[p], q, pr2[q])
  <2>1. CASE p = c
    BY <1>2, <2>1 DEF BlocksBeside
  <2>2. CASE q = c
    BY <1>2, <2>2, BesideTurns DEF BlocksBeside
  <2>3. CASE p # c /\ q # c
    BY <1>1, <2>3 DEF BlocksBeside
  <2> QED
    BY <2>1, <2>2, <2>3
<1> QED
  BY <1>3, <1>4 DEF HeapOf

\* So does a process that is added.
LEMMA HeapAdds ==
    ASSUME NEW k, NEW pr, HeapOf(k, pr), NEW c, c \notin DOMAIN pr, NEW k2, HeapSound(k2),
           NEW pr2, DOMAIN pr2 = DOMAIN pr \cup {c}, \A q \in DOMAIN pr : pr2[q] = pr[q],
           Owned(k, k2, c, pr2[c])
    PROVE  HeapOf(k2, pr2)
<1>1. /\ \A p \in DOMAIN pr : \A s \in SlotsOf(p, pr[p]) :
           /\ Used(k, BlockOf(pr[p], s))
           /\ \A t \in SlotsOf(p, pr[p]) : s # t => Beside(BlockOf(pr[p], s), BlockOf(pr[p], t))
      /\ \A p \in DOMAIN pr, q \in DOMAIN pr : p # q =>
           \A s \in SlotsOf(p, pr[p]), t \in SlotsOf(q, pr[q]) : Beside(BlockOf(pr[p], s), BlockOf(pr[q], t))
  BY DEF HeapOf, BlocksSound, BlocksBeside
<1>2. ASSUME NEW q \in DOMAIN pr, NEW t \in SlotsOf(q, pr[q])
      PROVE  /\ Used(k2, BlockOf(pr[q], t))
             /\ \A s \in SlotsOf(c, pr2[c]) : Beside(BlockOf(pr2[c], s), BlockOf(pr[q], t))
  <2>1. PICK b : b = BlockOf(pr[q], t)
    OBVIOUS
  <2>2. Used(k, b)
    BY <1>1, <1>2, <2>1
  <2> QED
    BY <2>1, <2>2 DEF Owned
<1>3. ASSUME NEW p \in DOMAIN pr2 PROVE BlocksSound(k2, p, pr2[p])
  <2>1. CASE p = c
    BY <2>1 DEF Owned
  <2>2. CASE p # c
    <3>1. p \in DOMAIN pr /\ pr2[p] = pr[p]
      BY <2>2
    <3>2. BlocksSound(k2, p, pr[p])
      BY <1>1, <1>2, <3>1 DEF BlocksSound
    <3> QED
      BY <3>1, <3>2
  <2> QED
    BY <2>1, <2>2
<1>4. ASSUME NEW p \in DOMAIN pr2, NEW q \in DOMAIN pr2 \ {p} PROVE BlocksBeside(p, pr2[p], q, pr2[q])
  <2>1. CASE p = c
    BY <1>2, <2>1 DEF BlocksBeside
  <2>2. CASE q = c
    BY <1>2, <2>2, BesideTurns DEF BlocksBeside
  <2>3. CASE p # c /\ q # c
    BY <1>1, <2>3 DEF BlocksBeside
  <2> QED
    BY <2>1, <2>2, <2>3
<1> QED
  BY <1>3, <1>4 DEF HeapOf

\* What is kept stays beside what a process has when that changes.
LEMMA KeptCarries ==
    ASSUME NEW k, NEW pr, NEW K, KeptOf(k, pr, K), NEW c \in DOMAIN pr, NEW k2,
           NEW pr2, DOMAIN pr2 = DOMAIN pr, \A q \in DOMAIN pr \ {c} : pr2[q] = pr[q],
           Carries(k, k2, c, pr[c], pr2[c])
    PROVE  KeptOf(k2, pr2, K)
<1>1. ASSUME NEW s \in K
      PROVE  Used(k2, s) /\ \A t \in SlotsOf(c, pr2[c]) : Beside(BlockOf(pr2[c], t), s)
  <2>1. Used(k, s) /\ \A t \in SlotsOf(c, pr[c]) : Beside(BlockOf(pr[c], t), s)
    BY DEF KeptOf, AllApart, BesideAll
  <2> QED
    BY <2>1 DEF Carries
<1>2. ASSUME NEW s \in K, NEW p \in DOMAIN pr2, p # c
      PROVE  \A t \in SlotsOf(p, pr2[p]) : Beside(BlockOf(pr2[p], t), s)
  BY <1>2 DEF KeptOf, BesideAll
<1>3. AllApart(k2, K)
  BY <1>1 DEF KeptOf, AllApart
<1> QED
  BY <1>1, <1>2, <1>3 DEF KeptOf, BesideAll

\* It does when a process is added.
LEMMA KeptAdds ==
    ASSUME NEW k, NEW pr, NEW K, KeptOf(k, pr, K), NEW c, c \notin DOMAIN pr, NEW k2,
           NEW pr2, DOMAIN pr2 = DOMAIN pr \cup {c}, \A q \in DOMAIN pr : pr2[q] = pr[q],
           Owned(k, k2, c, pr2[c])
    PROVE  KeptOf(k2, pr2, K)
<1>1. ASSUME NEW s \in K
      PROVE  Used(k2, s) /\ \A t \in SlotsOf(c, pr2[c]) : Beside(BlockOf(pr2[c], t), s)
  <2>1. Used(k, s)
    BY DEF KeptOf, AllApart
  <2> QED
    BY <2>1 DEF Owned
<1>2. ASSUME NEW s \in K, NEW p \in DOMAIN pr2, p # c
      PROVE  \A t \in SlotsOf(p, pr2[p]) : Beside(BlockOf(pr2[p], t), s)
  BY <1>2 DEF KeptOf, BesideAll
<1>3. AllApart(k2, K)
  BY <1>1 DEF KeptOf, AllApart
<1> QED
  BY <1>1, <1>2, <1>3 DEF KeptOf, BesideAll

\* A block that is handed out joins the others.
LEMMA OneMoreApart ==
    ASSUME NEW k, NEW K, AllApart(k, K), NEW k2, NEW r, Allotted(k, k2, r)
    PROVE  AllApart(k2, K \cup {r})
<1>1. Used(k2, r) /\ \A s \in K : Used(k2, s) /\ Beside(r, s)
  BY DEF AllApart, Allotted
<1>2. \A s \in K : Beside(s, r)
  BY <1>1, BesideTurns
<1> QED
  BY <1>1, <1>2 DEF AllApart

\* The tables of the processes are there, in use, and each is one process's.
LEMMA ProcessTables ==
    ASSUME VmemTypeOK, HeapInv
    PROVE  /\ SecondSound(kheap)
           /\ \A p \in Alive :
                /\ proc[p].first \in [Index1 -> Nat]
                /\ FirstSound(proc[p].first) /\ TablesBeside(proc[p].first)
                /\ \A c \in Alive \ {p} : \A i, j \in Index1 :
                        proc[p].first[i] # NULL => proc[p].first[i] # proc[c].first[j]
<1>1. ASSUME NEW p \in Alive
      PROVE  proc[p].first \in [Index1 -> Nat] /\ \A i \in Index1 : proc[p].first[i] # NULL => proc[p].first[i] \in DOMAIN second
  BY DEF VmemTypeOK, ProcessRecord, Index1
<1>2. ASSUME NEW p \in Alive, NEW i \in Index1, proc[p].first[i] # NULL
      PROVE  <<"first", i>> \in SlotsOf(p, proc[p]) /\ BlockOf(proc[p], <<"first", i>>) = TableSpan(proc[p].first[i])
  BY <1>1, <1>2, SlotsAre
<1>3. \A p \in Alive, i \in Index1 : proc[p].first[i] # NULL => Used(kheap, TableSpan(proc[p].first[i]))
  BY <1>2 DEF HeapInv, HeapOf, BlocksSound, Alive
<1>4. ASSUME NEW p \in Alive PROVE TablesBeside(proc[p].first)
  <2>1. ASSUME NEW i \in Index1, NEW j \in Index1, i # j, proc[p].first[i] # NULL, proc[p].first[j] # NULL
        PROVE  Beside(TableSpan(proc[p].first[i]), TableSpan(proc[p].first[j]))
    <3>1. PICK s, t : s = <<"first", i>> /\ t = <<"first", j>>
      OBVIOUS
    <3>2. s # t /\ s \in SlotsOf(p, proc[p]) /\ t \in SlotsOf(p, proc[p])
      BY <1>2, <2>1, <3>1
    <3>3. Beside(BlockOf(proc[p], s), BlockOf(proc[p], t))
      BY <3>2 DEF HeapInv, HeapOf, BlocksSound, Alive
    <3> QED
      BY <1>2, <2>1, <3>1, <3>3
  <2> QED
    BY <2>1 DEF TablesBeside
<1>5. ASSUME NEW p \in Alive, NEW c \in Alive \ {p}, NEW i \in Index1, NEW j \in Index1, proc[p].first[i] # NULL,
             proc[p].first[i] = proc[c].first[j]
      PROVE  FALSE
  <2>1. PICK s, t : s = <<"first", i>> /\ t = <<"first", j>>
    OBVIOUS
  <2>2. s \in SlotsOf(p, proc[p]) /\ t \in SlotsOf(c, proc[c])
    BY <1>2, <1>5, <2>1
  <2>3. Beside(BlockOf(proc[p], s), BlockOf(proc[c], t))
    BY <2>2 DEF HeapInv, HeapOf, BlocksBeside, Alive
  <2>4. Beside(TableSpan(proc[p].first[i]), TableSpan(proc[c].first[j]))
    BY <1>2, <1>5, <2>1, <2>3
  <2> QED
    BY <1>3, <1>5, <2>4, BesideDiffers
<1>6. ASSUME NEW p \in Alive PROVE FirstSound(proc[p].first)
  <2>1. ASSUME NEW i \in Index1, NEW j \in Index1, proc[p].first[i] # NULL, proc[p].first[i] = proc[p].first[j], i # j
        PROVE  FALSE
    <3>1. Beside(TableSpan(proc[p].first[i]), TableSpan(proc[p].first[j]))
      BY <1>4, <2>1 DEF TablesBeside
    <3> QED
      BY <1>3, <2>1, <3>1, BesideDiffers
  <2> QED
    BY <1>1, <2>1 DEF FirstSound
<1>7. SecondSound(kheap)
  <2>1. \A a \in DOMAIN second : second[a] \in [Index2 -> Frame \cup {NULL}]
    BY DEF VmemTypeOK
  <2>2. \A a \in DOMAIN second : \E p \in Alive, i \in Index1 : a = proc[p].first[i] /\ a # NULL
    BY DEF VmemTypeOK, Index1
  <2> QED
    BY <1>3, <2>1, <2>2 DEF SecondSound
<1> QED
  BY <1>1, <1>4, <1>5, <1>6, <1>7

\* Tables that are not touched translate as before.
LEMMA ThroughKept ==
    ASSUME NEW g, FirstSound(g), NEW sec2, \A i \in Index1 : g[i] # NULL => sec2[g[i]] = second[g[i]]
    PROVE  \A q \in Page : Through(g, sec2, q) = Through(g, second, q)
<1>1. ASSUME NEW q \in Page PROVE Through(g, sec2, q) = Through(g, second, q)
  <2>1. At1(q) \in Index1
    BY PageIndices
  <2> QED
    BY <2>1 DEF Through, At1
<1> QED
  BY <1>1

\* Translations are frames, or NULL.
LEMMA TranslateType ==
    ASSUME VmemTypeOK
    PROVE  \A p \in Alive, q \in Page : vmem_translate(q, p) \in Frame \cup {NULL}
<1>1. ASSUME NEW p \in Alive, NEW q \in Page PROVE vmem_translate(q, p) \in Frame \cup {NULL}
  <2>1. PICK i, j, a : i = At1(q) /\ j = At2(q) /\ a = proc[p].first[i]
    OBVIOUS
  <2>2. i \in Index1 /\ j \in Index2
    BY <2>1, PageIndices
  <2>3. vmem_translate(q, p) = IF a = NULL THEN NULL ELSE second[a][j]
    BY <2>1 DEF vmem_translate, Through, At1, At2
  <2>4. a # NULL => a \in DOMAIN second
    BY <2>1, <2>2 DEF VmemTypeOK, Index1
  <2>5. a # NULL => second[a] \in [Index2 -> Frame \cup {NULL}]
    BY <2>4 DEF VmemTypeOK
  <2> QED
    BY <2>2, <2>3, <2>5
<1> QED
  BY <1>1

\* RegionsMapped, page by page.
RegionsOf(p) ==
    /\ \A q \in Page : vmem_translate(q, p) # NULL <=> \E m \in Holds(p) : q \in PagesOf(m[1], m[2])
    /\ \A m \in Holds(p) : PagesOf(m[1], m[2]) \in SUBSET Page
    /\ \A m, n \in Holds(p) : m # n => PagesOf(m[1], m[2]) \cap PagesOf(n[1], n[2]) = {}

RegionsHold == \A p \in Alive : RegionsOf(p)

LEMMA RegionsAre == RegionsMapped <=> RegionsHold
<1>1. ASSUME RegionsMapped, NEW p \in Alive PROVE RegionsOf(p)
  <2>1. /\ PagesMapped(p) = UNION {PagesOf(m[1], m[2]) : m \in Holds(p)}
        /\ \A m, n \in Holds(p) : m # n => PagesOf(m[1], m[2]) \cap PagesOf(n[1], n[2]) = {}
    BY <1>1 DEF RegionsMapped
  <2>2. \A q : q \in PagesMapped(p) <=> \E m \in Holds(p) : q \in PagesOf(m[1], m[2])
    BY <2>1
  <2>3. \A q : q \in PagesMapped(p) <=> q \in Page /\ vmem_translate(q, p) # NULL
    BY DEF PagesMapped
  <2> QED
    BY <2>1, <2>2, <2>3 DEF RegionsOf
<1>2. ASSUME \A p \in Alive : RegionsOf(p) PROVE RegionsMapped
  <2>1. ASSUME NEW p \in Alive
        PROVE  /\ PagesMapped(p) = UNION {PagesOf(m[1], m[2]) : m \in Holds(p)}
               /\ \A m, n \in Holds(p) : m # n => PagesOf(m[1], m[2]) \cap PagesOf(n[1], n[2]) = {}
    <3>1. PICK A, B : A = PagesMapped(p) /\ B = UNION {PagesOf(m[1], m[2]) : m \in Holds(p)}
      OBVIOUS
    <3>2. \A q : q \in A <=> q \in Page /\ vmem_translate(q, p) # NULL
      BY <3>1 DEF PagesMapped
    <3>3. \A q : q \in B <=> \E m \in Holds(p) : q \in PagesOf(m[1], m[2])
      BY <3>1
    <3>4. RegionsOf(p)
      BY <1>2
    <3>5. \A q : q \in A <=> q \in B
      BY <3>2, <3>3, <3>4 DEF RegionsOf
    <3>6. A = B
      BY <3>5
    <3> QED
      BY <3>1, <3>4, <3>6 DEF RegionsOf
  <2> QED
    BY <2>1 DEF RegionsMapped
<1> QED
  BY <1>1, <1>2 DEF RegionsHold

-----------------------------------------------------------------------------
(* What a step does to the translations.                                   *)

\* Only c is touched.
OthersSame(c) ==
    \A p \in Alive \ {c} :
        p \in Alive' /\ proc'[p] = proc[p] /\ \A q \in Page : vmem_translate(q, p)' = vmem_translate(q, p)

\* The pages P of c, whose tables were f, are mapped to free frames, one each.
Gains(c, f, P) ==
    /\ Alive' = Alive \cup {c} /\ OthersSame(c)
    /\ \A q \in Page : Through(f, second, q) = IF c \in Alive THEN vmem_translate(q, c) ELSE NULL
    /\ \A q \in Page \ P : vmem_translate(q, c)' = Through(f, second, q)
    /\ \A q \in P : /\ q \in Page /\ Through(f, second, q) = NULL
                    /\ vmem_translate(q, c)' \in Frame \ frame_table
                    /\ \A r \in P : vmem_translate(q, c)' = vmem_translate(r, c)' => q = r
    /\ \A x : x \in frame_table' <=> x \in frame_table \/ \E q \in P : vmem_translate(q, c)' = x

\* The pages P of c are not mapped any more, or c is gone and had no others.
Loses(c, P) ==
    /\ Alive' \in {Alive, Alive \ {c}} /\ c \in Alive /\ OthersSame(c)
    /\ \A q \in Page \ P : IF c \in Alive' THEN vmem_translate(q, c)' = vmem_translate(q, c)
                           ELSE vmem_translate(q, c) = NULL
    /\ \A q \in P : q \in Page /\ vmem_translate(q, c) # NULL /\ (c \in Alive' => vmem_translate(q, c)' = NULL)
    /\ \A x : x \in frame_table' <=> x \in frame_table /\ ~\E q \in P : vmem_translate(q, c) = x

LEMMA NullIsNoFrame == NULL \notin Frame
  BY VmemAssumption DEF NULL, Frame

LEMMA GainsMapsOnce ==
    ASSUME VmemTypeOK, MappedOnce, NEW c, NEW f, NEW P, Gains(c, f, P) PROVE MappedOnce'
<1>1. /\ \A frame \in Frame : frame \in frame_table <=> \E p \in Alive, q \in Page : vmem_translate(q, p) = frame
      /\ \A p, p2 \in Alive, q, q2 \in Page :
            vmem_translate(q, p) # NULL /\ vmem_translate(q, p) = vmem_translate(q2, p2) => p = p2 /\ q = q2
  BY DEF MappedOnce
<1>2. ASSUME NEW p \in Alive, NEW q \in Page, vmem_translate(q, p) # NULL
      PROVE  p \in Alive' /\ vmem_translate(q, p)' = vmem_translate(q, p)
  <2>1. CASE p = c
    <3>1. Through(f, second, q) = vmem_translate(q, c)
      BY <2>1 DEF Gains
    <3>2. q \notin P
      BY <1>2, <2>1, <3>1 DEF Gains
    <3> QED
      BY <2>1, <3>1, <3>2 DEF Gains
  <2>2. CASE p # c
    BY <2>2 DEF Gains, OthersSame
  <2> QED
    BY <2>1, <2>2
<1>3. ASSUME NEW p \in Alive', NEW q \in Page, vmem_translate(q, p)' # NULL
      PROVE  \/ p \in Alive /\ vmem_translate(q, p) = vmem_translate(q, p)' /\ vmem_translate(q, p)' \in frame_table
             \/ p = c /\ q \in P
  <2>1. CASE p = c /\ q \notin P
    <3>1. vmem_translate(q, p)' = Through(f, second, q)
      BY <2>1 DEF Gains
    <3>2. c \in Alive /\ Through(f, second, q) = vmem_translate(q, c)
      BY <1>3, <3>1 DEF Gains
    <3> QED
      BY <1>1, <1>3, <2>1, <3>1, <3>2, TranslateType
  <2>2. CASE p # c
    <3>1. p \in Alive /\ vmem_translate(q, p)' = vmem_translate(q, p)
      BY <2>2 DEF Gains, OthersSame
    <3> QED
      BY <1>1, <1>3, <3>1, TranslateType
  <2> QED
    BY <2>1, <2>2
<1>4. ASSUME NEW frame \in Frame
      PROVE  frame \in frame_table' <=> \E p \in Alive', q \in Page : vmem_translate(q, p)' = frame
  <2>1. ASSUME frame \in frame_table' PROVE \E p \in Alive', q \in Page : vmem_translate(q, p)' = frame
    <3>1. CASE frame \in frame_table
      BY <1>1, <1>2, <3>1, NullIsNoFrame
    <3>2. CASE frame \notin frame_table
      <4>1. PICK q \in P : vmem_translate(q, c)' = frame
        BY <2>1, <3>2 DEF Gains
      <4>2. c \in Alive' /\ q \in Page
        BY DEF Gains
      <4> QED
        BY <4>1, <4>2
    <3> QED
      BY <3>1, <3>2
  <2>2. ASSUME NEW p \in Alive', NEW q \in Page, vmem_translate(q, p)' = frame PROVE frame \in frame_table'
    BY <1>3, <2>2, NullIsNoFrame DEF Gains
  <2> QED
    BY <2>1, <2>2
<1>5. ASSUME NEW p \in Alive', NEW p2 \in Alive', NEW q \in Page, NEW q2 \in Page,
             vmem_translate(q, p)' # NULL, vmem_translate(q, p)' = vmem_translate(q2, p2)'
      PROVE  p = p2 /\ q = q2
  <2>1. CASE p = c /\ q \in P
    <3>1. vmem_translate(q, p)' \notin frame_table
      BY <2>1 DEF Gains
    <3>2. p2 = c /\ q2 \in P
      BY <1>3, <1>5, <3>1
    <3> QED
      BY <1>5, <2>1, <3>2 DEF Gains
  <2>2. CASE ~(p = c /\ q \in P)
    <3>1. p \in Alive /\ vmem_translate(q, p) = vmem_translate(q, p)' /\ vmem_translate(q, p)' \in frame_table
      BY <1>3, <1>5, <2>2
    <3>2. ~(p2 = c /\ q2 \in P)
      BY <1>5, <3>1 DEF Gains
    <3>3. p2 \in Alive /\ vmem_translate(q2, p2) = vmem_translate(q2, p2)'
      BY <1>3, <1>5, <3>2
    <3> QED
      BY <1>1, <1>5, <3>1, <3>3
  <2> QED
    BY <2>1, <2>2
<1> QED
  BY <1>4, <1>5 DEF MappedOnce

LEMMA LosesMapsOnce ==
    ASSUME VmemTypeOK, MappedOnce, NEW c, NEW P, Loses(c, P) PROVE MappedOnce'
<1>1. /\ \A frame \in Frame : frame \in frame_table <=> \E p \in Alive, q \in Page : vmem_translate(q, p) = frame
      /\ \A p, p2 \in Alive, q, q2 \in Page :
            vmem_translate(q, p) # NULL /\ vmem_translate(q, p) = vmem_translate(q2, p2) => p = p2 /\ q = q2
  BY DEF MappedOnce
<1>2. ASSUME NEW p \in Alive, NEW q \in Page, vmem_translate(q, p) # NULL, ~(p = c /\ q \in P)
      PROVE  p \in Alive' /\ vmem_translate(q, p)' = vmem_translate(q, p)
  <2>1. CASE p = c
    BY <1>2, <2>1 DEF Loses
  <2>2. CASE p # c
    BY <2>2 DEF Loses, OthersSame
  <2> QED
    BY <2>1, <2>2
<1>3. ASSUME NEW p \in Alive', NEW q \in Page, vmem_translate(q, p)' # NULL
      PROVE  p \in Alive /\ vmem_translate(q, p) = vmem_translate(q, p)' /\ ~(p = c /\ q \in P)
  <2>1. p \in Alive
    BY DEF Loses
  <2>2. CASE p = c
    BY <1>3, <2>1, <2>2 DEF Loses
  <2>3. CASE p # c
    BY <2>1, <2>3 DEF Loses, OthersSame
  <2> QED
    BY <2>1, <2>2, <2>3
<1>4. ASSUME NEW frame \in Frame
      PROVE  frame \in frame_table' <=> \E p \in Alive', q \in Page : vmem_translate(q, p)' = frame
  <2>1. ASSUME frame \in frame_table' PROVE \E p \in Alive', q \in Page : vmem_translate(q, p)' = frame
    <3>1. frame \in frame_table /\ ~\E q \in P : vmem_translate(q, c) = frame
      BY <2>1 DEF Loses
    <3>2. PICK p \in Alive, q \in Page : vmem_translate(q, p) = frame
      BY <1>1, <3>1
    <3>3. ~(p = c /\ q \in P)
      BY <3>1, <3>2
    <3> QED
      BY <1>2, <3>2, <3>3, NullIsNoFrame
  <2>2. ASSUME NEW p \in Alive', NEW q \in Page, vmem_translate(q, p)' = frame PROVE frame \in frame_table'
    <3>1. p \in Alive /\ vmem_translate(q, p) = frame /\ ~(p = c /\ q \in P)
      BY <1>3, <2>2, NullIsNoFrame
    <3>2. ~\E r \in P : vmem_translate(r, c) = frame
      <4> SUFFICES ASSUME NEW r \in P, vmem_translate(r, c) = frame PROVE FALSE
        OBVIOUS
      <4>1. r \in Page /\ c \in Alive
        BY DEF Loses
      <4> QED
        BY <1>1, <3>1, <4>1, NullIsNoFrame
    <3> QED
      BY <1>1, <3>1, <3>2 DEF Loses
  <2> QED
    BY <2>1, <2>2
<1>5. ASSUME NEW p \in Alive', NEW p2 \in Alive', NEW q \in Page, NEW q2 \in Page,
             vmem_translate(q, p)' # NULL, vmem_translate(q, p)' = vmem_translate(q2, p2)'
      PROVE  p = p2 /\ q = q2
  <2>1. p \in Alive /\ p2 \in Alive /\ vmem_translate(q, p) # NULL /\ vmem_translate(q, p) = vmem_translate(q2, p2)
    BY <1>3, <1>5
  <2> QED
    BY <1>1, <2>1
<1> QED
  BY <1>4, <1>5 DEF MappedOnce

\* The second level tables are those of the processes, and their entries frames.
SecondType ==
    /\ DOMAIN second = {proc[p].first[i] : p \in Alive, i \in 0 .. NbUserTables - 1} \ {NULL}
    /\ \A a \in DOMAIN second : second[a] \in [Index2 -> Frame \cup {NULL}]
    /\ frame_table \subseteq Frame

LEMMA GainsIs ==
    ASSUME VmemTypeOK, HeapInv, TablesInUse, NEW c, NEW f, FirstSound(f),
           c \in Alive => f = proc[c].first, c \notin Alive => f = NoFirst,
           NEW k, NEW m, NEW P, P \in SUBSET Page, NewTables(f, k, m, P), NewPages(f, m, P),
           \A q \in P : Through(f, second, q) = NULL,
           Alive' = Alive \cup {c}, \A p \in Alive \ {c} : proc'[p] = proc[p], proc'[c].first = m.first,
           second' = m.second, frame_table' = m.frames
    PROVE  Gains(c, f, P) /\ SecondType' /\ TablesInUse'
<1>1. /\ DOMAIN second = {proc[p].first[i] : p \in Alive, i \in Index1} \ {NULL}
      /\ frame_table \subseteq Frame
  BY DEF VmemTypeOK, Index1
<1>2. \A q \in Page : At1(q) \in Index1
  BY PageIndices
<1>3. \A p : \A q \in Page : vmem_translate(q, p) = Through(proc[p].first, second, q)
  BY DEF vmem_translate
<1>4. \A p : \A q \in Page : vmem_translate(q, p)' = Through(proc'[p].first, second', q)
  BY DEF vmem_translate
<1>5. \A q \in Page : Through(f, second, q) = IF c \in Alive THEN vmem_translate(q, c) ELSE NULL
  <2>1. \A q \in Page : c \notin Alive => f[At1(q)] = NULL
    BY <1>2 DEF NoFirst, Index1
  <2> QED
    BY <1>3, <2>1 DEF Through, At1
<1>6. ASSUME NEW p \in Alive \ {c}
      PROVE  p \in Alive' /\ proc'[p] = proc[p] /\ \A q \in Page : vmem_translate(q, p)' = vmem_translate(q, p)
  <2>1. PICK g : g = proc[p].first
    OBVIOUS
  <2>2. FirstSound(g)
    BY <2>1, ProcessTables
  <2>3. ASSUME NEW i \in Index1, g[i] # NULL PROVE m.second[g[i]] = second[g[i]]
    <3>1. g[i] \in DOMAIN second
      BY <2>2, <2>3 DEF FirstSound
    <3>2. \A j \in Index1 : f[j] # g[i]
      <4>1. CASE c \in Alive
        BY <2>1, <2>3, <4>1, ProcessTables
      <4>2. CASE c \notin Alive
        BY <2>3, <4>2 DEF NoFirst, Index1
      <4> QED
        BY <4>1, <4>2
    <3> QED
      BY <3>1, <3>2 DEF NewPages
  <2>4. \A q \in Page : Through(g, m.second, q) = Through(g, second, q)
    BY <2>2, <2>3, ThroughKept
  <2> QED
    BY <1>3, <1>4, <2>1, <2>4
<1>7. /\ \A q \in Page \ P : Through(m.first, m.second, q) = Through(f, second, q)
      /\ \A q \in P : /\ Through(m.first, m.second, q) \in Frame \ frame_table
                      /\ \A r \in P : Through(m.first, m.second, q) = Through(m.first, m.second, r) => q = r
      /\ \A x : x \in m.frames <=> x \in frame_table \/ \E q \in P : Through(m.first, m.second, q) = x
  BY DEF NewPages
<1>8. \A q \in Page : vmem_translate(q, c)' = Through(m.first, m.second, q)
  BY <1>4
<1>9. Gains(c, f, P)
  <2>1. OthersSame(c)
    BY <1>6 DEF OthersSame
  <2>2. \A q \in Page \ P : vmem_translate(q, c)' = Through(f, second, q)
    BY <1>7, <1>8
  <2>3. \A q \in P : /\ q \in Page /\ Through(f, second, q) = NULL
                     /\ vmem_translate(q, c)' \in Frame \ frame_table
                     /\ \A r \in P : vmem_translate(q, c)' = vmem_translate(r, c)' => q = r
    BY <1>7, <1>8
  <2>4. \A x : x \in frame_table' <=> x \in frame_table \/ \E q \in P : vmem_translate(q, c)' = x
    BY <1>7, <1>8
  <2> QED
    BY <1>5, <2>1, <2>2, <2>3, <2>4 DEF Gains
<1>10. SecondType'
  <2> DEFINE A == DOMAIN m.second
             B == {proc'[p].first[i] : p \in Alive', i \in Index1} \ {NULL}
  <2>2. \A a : a \in A <=> a \in DOMAIN second \/ \E i \in Index1 : New(f, m.first, i) /\ a = m.first[i]
    BY DEF NewPages
  <2>3. \A a : a \in B <=> a # NULL /\ \E p \in Alive', i \in Index1 : a = proc'[p].first[i]
    OBVIOUS
  <2>4. \A a : a \in DOMAIN second <=> a # NULL /\ \E p \in Alive, i \in Index1 : a = proc[p].first[i]
    BY <1>1
  <2>5. \A i \in Index1 : f[i] # NULL => m.first[i] = f[i]
    BY DEF NewTables
  <2> HIDE DEF A, B
  <2>6. ASSUME NEW a \in A PROVE a \in B
    <3>1. CASE a \in DOMAIN second
      <4>1. PICK p \in Alive, i \in Index1 : a = proc[p].first[i] /\ a # NULL
        BY <2>4, <3>1
      <4>2. p \in Alive' /\ a = proc'[p].first[i]
        <5>1. CASE p = c
          BY <2>5, <4>1, <5>1
        <5>2. CASE p # c
          BY <4>1, <5>2
        <5> QED
          BY <5>1, <5>2
      <4> QED
        BY <2>3, <4>1, <4>2
    <3>2. CASE a \notin DOMAIN second
      BY <2>2, <2>3, <3>2 DEF New
    <3> QED
      BY <3>1, <3>2
  <2>7. ASSUME NEW a \in B PROVE a \in A
    <3>1. PICK p \in Alive', i \in Index1 : a = proc'[p].first[i] /\ a # NULL
      BY <2>3
    <3>2. CASE p # c
      BY <2>2, <2>4, <3>1, <3>2
    <3>3. CASE p = c /\ f[i] = NULL
      BY <2>2, <3>1, <3>3 DEF New
    <3>4. CASE p = c /\ f[i] # NULL
      <4>1. a = f[i] /\ f[i] \in DOMAIN second
        BY <2>5, <3>1, <3>4 DEF FirstSound
      <4> QED
        BY <2>2, <4>1
    <3> QED
      BY <3>2, <3>3, <3>4
  <2>8. A = B
    BY <2>6, <2>7
  <2>9. DOMAIN second' = {proc'[p].first[i] : p \in Alive', i \in 0 .. NbUserTables - 1} \ {NULL}
    BY <2>8 DEF A, B, Index1
  <2>10. \A a \in DOMAIN second' : second'[a] \in [Index2 -> Frame \cup {NULL}]
    BY DEF NewPages
  <2>11. frame_table' \subseteq Frame
    BY <1>1, <1>7
  <2> QED
    BY <2>9, <2>10, <2>11 DEF SecondType
<1>11. TablesInUse'
  <2>1. ASSUME NEW p \in Alive', NEW i \in Index1, proc'[p].first[i] # NULL
        PROVE  \E q \in Page : At1(q) = i /\ vmem_translate(q, p)' # NULL
    <3>1. CASE p # c
      <4>1. p \in Alive /\ proc[p].first[i] # NULL
        BY <2>1, <3>1
      <4>2. PICK q \in Page : At1(q) = i /\ vmem_translate(q, p) # NULL
        BY <4>1 DEF TablesInUse, Index1, At1
      <4> QED
        BY <1>6, <3>1, <4>1, <4>2
    <3>2. CASE p = c /\ f[i] = NULL
      <4>1. PICK q \in P : At1(q) = i
        BY <2>1, <3>2 DEF NewTables, New
      <4>2. vmem_translate(q, c)' \in Frame /\ q \in Page
        BY <1>7, <1>8
      <4> QED
        BY <3>2, <4>1, <4>2, NullIsNoFrame
    <3>3. CASE p = c /\ f[i] # NULL
      <4>1. c \in Alive /\ proc[c].first[i] # NULL
        BY <3>3 DEF NoFirst, Index1
      <4>2. PICK q \in Page : At1(q) = i /\ vmem_translate(q, c) # NULL
        BY <4>1 DEF TablesInUse, Index1, At1
      <4>3. Through(f, second, q) = vmem_translate(q, c)
        BY <1>5, <4>1
      <4>4. vmem_translate(q, c)' = vmem_translate(q, c)
        BY <1>7, <1>8, <4>2, <4>3
      <4> QED
        BY <3>3, <4>2, <4>4
    <3> QED
      BY <3>1, <3>2, <3>3
  <2> QED
    BY <2>1 DEF TablesInUse, Index1, At1
<1> QED
  BY <1>9, <1>10, <1>11

LEMMA LosesIs ==
    ASSUME VmemTypeOK, HeapInv, TablesInUse, NEW c \in Alive, NEW f, f = proc[c].first,
           NEW k, NEW m, NEW P, P \in SUBSET Page, FreeMaps(f, k, P, m),
           \A q \in P : vmem_translate(q, c) # NULL,
           Alive' \in {Alive, Alive \ {c}}, \A p \in Alive \ {c} : proc'[p] = proc[p],
           c \in Alive' => proc'[c].first = m.first,
           c \notin Alive' => \A q \in Page \ P : vmem_translate(q, c) = NULL,
           second' = m.second, frame_table' = m.frames
    PROVE  Loses(c, P) /\ SecondType' /\ TablesInUse'
<1>1. /\ DOMAIN second = {proc[p].first[i] : p \in Alive, i \in Index1} \ {NULL}
      /\ frame_table \subseteq Frame
  BY DEF VmemTypeOK, Index1
<1>2. \A q \in Page : At1(q) \in Index1
  BY PageIndices
<1>3. \A p : \A q \in Page : vmem_translate(q, p) = Through(proc[p].first, second, q)
  BY DEF vmem_translate
<1>4. \A p : \A q \in Page : vmem_translate(q, p)' = Through(proc'[p].first, second', q)
  BY DEF vmem_translate
<1>5. FirstSound(f) /\ f \in [Index1 -> Nat]
  BY ProcessTables
<1>6. /\ \A i \in Index1 : m.first[i] # NULL => m.first[i] = f[i]
      /\ DOMAIN m.second = DOMAIN second \ {f[i] : i \in {j \in Index1 : New(m.first, f, j)}}
      /\ \A a \in DOMAIN m.second : m.second[a] \in [Index2 -> Frame \cup {NULL}]
      /\ \A a \in DOMAIN m.second : (\A i \in Index1 : f[i] # a) => m.second[a] = second[a]
      /\ \A q \in Page \ P : Through(m.first, m.second, q) = Through(f, second, q)
      /\ \A q \in P : Through(m.first, m.second, q) = NULL
      /\ \A x : x \in m.frames <=> x \in frame_table /\ ~\E q \in P : Through(f, second, q) = x
      /\ \A i \in Index1 :
          m.first[i] # NULL /\ (\E q \in Page : At1(q) = i /\ Through(f, second, q) # NULL) =>
              \E q \in Page : At1(q) = i /\ Through(m.first, m.second, q) # NULL
  BY DEF FreeMaps
<1>7. ASSUME NEW p \in Alive \ {c}
      PROVE  p \in Alive' /\ proc'[p] = proc[p] /\ \A q \in Page : vmem_translate(q, p)' = vmem_translate(q, p)
  <2>1. PICK g : g = proc[p].first
    OBVIOUS
  <2>2. FirstSound(g)
    BY <2>1, ProcessTables
  <2>3. ASSUME NEW i \in Index1, g[i] # NULL PROVE m.second[g[i]] = second[g[i]]
    <3>1. g[i] \in DOMAIN second
      BY <2>2, <2>3 DEF FirstSound
    <3>2. \A j \in Index1 : f[j] # g[i]
      BY <2>1, <2>3, ProcessTables
    <3>3. g[i] \in DOMAIN m.second
      BY <1>6, <3>1, <3>2
    <3> QED
      BY <1>6, <3>2, <3>3
  <2>4. \A q \in Page : Through(g, m.second, q) = Through(g, second, q)
    BY <2>2, <2>3, ThroughKept
  <2> QED
    BY <1>3, <1>4, <2>1, <2>4
<1>8. \A q \in Page : Through(f, second, q) = vmem_translate(q, c)
  BY <1>3
<1>9. c \in Alive' => \A q \in Page : vmem_translate(q, c)' = Through(m.first, m.second, q)
  BY <1>4
<1>10. Loses(c, P)
  <2>1. OthersSame(c)
    BY <1>7 DEF OthersSame
  <2>2. \A q \in Page \ P : IF c \in Alive' THEN vmem_translate(q, c)' = vmem_translate(q, c)
                            ELSE vmem_translate(q, c) = NULL
    BY <1>6, <1>8, <1>9
  <2>3. \A q \in P : q \in Page /\ vmem_translate(q, c) # NULL /\ (c \in Alive' => vmem_translate(q, c)' = NULL)
    BY <1>6, <1>9
  <2>4. \A x : x \in frame_table' <=> x \in frame_table /\ ~\E q \in P : vmem_translate(q, c) = x
    BY <1>6, <1>8
  <2> QED
    BY <2>1, <2>2, <2>3, <2>4 DEF Loses
<1>11. \A i \in Index1 : f[i] # NULL => \E q \in Page : At1(q) = i /\ Through(f, second, q) # NULL
  BY <1>8 DEF TablesInUse, Index1, At1
<1>12. c \notin Alive' => \A i \in Index1 : m.first[i] = NULL
  <2> SUFFICES ASSUME c \notin Alive', NEW i \in Index1, m.first[i] # NULL PROVE FALSE
    OBVIOUS
  <2>1. PICK q \in Page : Through(m.first, m.second, q) # NULL
    BY <1>6, <1>11
  <2>2. q \notin P
    BY <1>6, <2>1
  <2> QED
    BY <1>6, <1>8, <2>1, <2>2
<1>13. SecondType'
  <2> DEFINE A == DOMAIN m.second
             B == {proc'[p].first[i] : p \in Alive', i \in Index1} \ {NULL}
  <2>1. \A a : a \in A <=> a \in DOMAIN second /\ ~\E i \in Index1 : New(m.first, f, i) /\ a = f[i]
    BY <1>6
  <2>2. \A a : a \in B <=> a # NULL /\ \E p \in Alive', i \in Index1 : a = proc'[p].first[i]
    OBVIOUS
  <2>3. \A a : a \in DOMAIN second <=> a # NULL /\ \E p \in Alive, i \in Index1 : a = proc[p].first[i]
    BY <1>1
  <2> HIDE DEF A, B
  <2>4. ASSUME NEW a \in A PROVE a \in B
    <3>1. PICK p \in Alive, i \in Index1 : a = proc[p].first[i] /\ a # NULL
      BY <2>1, <2>3
    <3>2. CASE p # c
      BY <2>2, <3>1, <3>2
    <3>3. CASE p = c
      <4>1. m.first[i] # NULL
        BY <2>1, <3>1, <3>3 DEF New
      <4>2. c \in Alive'
        BY <1>12, <4>1
      <4> QED
        BY <1>6, <2>2, <3>1, <3>3, <4>1, <4>2
    <3> QED
      BY <3>2, <3>3
  <2>5. ASSUME NEW a \in B PROVE a \in A
    <3>1. PICK p \in Alive', i \in Index1 : a = proc'[p].first[i] /\ a # NULL
      BY <2>2
    <3>2. p \in Alive
      OBVIOUS
    <3>3. CASE p # c
      <4>1. a = proc[p].first[i]
        BY <3>1, <3>2, <3>3
      <4>2. \A j \in Index1 : f[j] # a
        BY <3>1, <3>2, <3>3, <4>1, ProcessTables
      <4> QED
        BY <2>1, <2>3, <3>1, <3>2, <4>1, <4>2
    <3>4. CASE p = c
      <4>1. a = m.first[i] /\ a = f[i]
        BY <1>6, <3>1, <3>4
      <4>2. \A j \in Index1 : New(m.first, f, j) => f[j] # a
        <5> SUFFICES ASSUME NEW j \in Index1, New(m.first, f, j), f[j] = a PROVE FALSE
          OBVIOUS
        <5>1. j = i
          BY <1>5, <3>1, <4>1 DEF FirstSound
        <5> QED
          BY <3>1, <4>1, <5>1 DEF New
      <4> QED
        BY <2>1, <2>3, <3>1, <4>1, <4>2
    <3> QED
      BY <3>3, <3>4
  <2>6. A = B
    BY <2>4, <2>5
  <2>7. DOMAIN second' = {proc'[p].first[i] : p \in Alive', i \in 0 .. NbUserTables - 1} \ {NULL}
    BY <2>6 DEF A, B, Index1
  <2>8. \A a \in DOMAIN second' : second'[a] \in [Index2 -> Frame \cup {NULL}]
    BY <1>6
  <2>9. frame_table' \subseteq Frame
    BY <1>1, <1>6
  <2> QED
    BY <2>7, <2>8, <2>9 DEF SecondType
<1>14. TablesInUse'
  <2>1. ASSUME NEW p \in Alive', NEW i \in Index1, proc'[p].first[i] # NULL
        PROVE  \E q \in Page : At1(q) = i /\ vmem_translate(q, p)' # NULL
    <3>1. CASE p # c
      <4>1. p \in Alive /\ proc[p].first[i] # NULL
        BY <2>1, <3>1
      <4>2. PICK q \in Page : At1(q) = i /\ vmem_translate(q, p) # NULL
        BY <4>1 DEF TablesInUse, Index1, At1
      <4> QED
        BY <1>7, <3>1, <4>1, <4>2
    <3>2. CASE p = c
      <4>1. m.first[i] # NULL /\ f[i] # NULL
        BY <1>6, <2>1, <3>2
      <4>2. PICK q \in Page : At1(q) = i /\ Through(m.first, m.second, q) # NULL
        BY <1>6, <1>11, <4>1
      <4> QED
        BY <1>9, <3>2, <4>2
    <3> QED
      BY <3>1, <3>2
  <2> QED
    BY <2>1 DEF TablesInUse, Index1, At1
<1> QED
  BY <1>10, <1>13, <1>14

\* What others have they keep.
LEMMA OthersRegions ==
    ASSUME NEW c, OthersSame(c), NEW p \in Alive \ {c}, RegionsOf(p) PROVE RegionsOf(p)'
<1>1. proc'[p] = proc[p] /\ \A q \in Page : vmem_translate(q, p)' = vmem_translate(q, p)
  BY DEF OthersSame
<1>2. Holds(p)' = Holds(p)
  BY <1>1 DEF Holds
<1> QED
  BY <1>1, <1>2 DEF RegionsOf

\* c has the new region besides those of H that it had.
LEMMA GainsRegion ==
    ASSUME NEW c, NEW f, NEW page, NEW size, Gains(c, f, PagesOf(page, size)), NEW H,
           c \in Alive => RegionsOf(c) /\ H = Holds(c), c \notin Alive => H = {},
           Holds(c)' = H \cup {<<page, size>>}
    PROVE  RegionsOf(c)'
<1> DEFINE P == PagesOf(page, size)
<1>1. \A m \in H : PagesOf(m[1], m[2]) \in SUBSET Page
  BY DEF RegionsOf
<1>2. \A q \in Page : Through(f, second, q) # NULL <=> \E m \in H : q \in PagesOf(m[1], m[2])
  BY DEF RegionsOf, Gains
<1>3. \A m, n \in H : m # n => PagesOf(m[1], m[2]) \cap PagesOf(n[1], n[2]) = {}
  BY DEF RegionsOf
<1>4. \A q \in P : q \in Page /\ Through(f, second, q) = NULL /\ vmem_translate(q, c)' # NULL
  BY NullIsNoFrame DEF Gains
<1>5. \A q \in Page \ P : vmem_translate(q, c)' = Through(f, second, q)
  BY DEF Gains
<1> HIDE DEF P
<1>6. \A m \in H \cup {<<page, size>>} : m \in H \/ (m = <<page, size>> /\ PagesOf(m[1], m[2]) = P)
  BY DEF P
<1>7. \A q \in Page : vmem_translate(q, c)' # NULL <=> \E m \in H \cup {<<page, size>>} : q \in PagesOf(m[1], m[2])
  <2>1. ASSUME NEW q \in Page, vmem_translate(q, c)' # NULL
        PROVE  \E m \in H \cup {<<page, size>>} : q \in PagesOf(m[1], m[2])
    <3>1. CASE q \in P
      <4>1. PICK m : m = <<page, size>>
        OBVIOUS
      <4>2. m[1] = page /\ m[2] = size /\ m \in H \cup {<<page, size>>}
        BY <4>1
      <4> QED
        BY <3>1, <4>2 DEF P
    <3>2. CASE q \notin P
      BY <1>2, <1>5, <2>1, <3>2
    <3> QED
      BY <3>1, <3>2
  <2>2. ASSUME NEW q \in Page, NEW m \in H \cup {<<page, size>>}, q \in PagesOf(m[1], m[2])
        PROVE  vmem_translate(q, c)' # NULL
    <3>1. CASE q \in P
      BY <1>4, <3>1
    <3>2. CASE q \notin P
      BY <1>2, <1>5, <1>6, <2>2, <3>2
    <3> QED
      BY <3>1, <3>2
  <2> QED
    BY <2>1, <2>2
<1>8. \A m \in H \cup {<<page, size>>} : PagesOf(m[1], m[2]) \in SUBSET Page
  BY <1>1, <1>4, <1>6
<1>9. \A m \in H : PagesOf(m[1], m[2]) \cap P = {}
  BY <1>1, <1>2, <1>4
<1>10. \A m, n \in H \cup {<<page, size>>} : m # n => PagesOf(m[1], m[2]) \cap PagesOf(n[1], n[2]) = {}
  BY <1>3, <1>6, <1>9
<1> QED
  BY <1>7, <1>8, <1>10 DEF RegionsOf

\* c has its regions but for the one whose pages it loses.
LEMMA LosesRegion ==
    ASSUME NEW c, NEW page, NEW size, Loses(c, PagesOf(page, size)), c \in Alive', RegionsOf(c),
           <<page, size>> \in Holds(c), Holds(c)' = Holds(c) \ {<<page, size>>}
    PROVE  RegionsOf(c)'
<1> DEFINE P == PagesOf(page, size)
<1>1. /\ \A m \in Holds(c) : PagesOf(m[1], m[2]) \in SUBSET Page
      /\ \A q \in Page : vmem_translate(q, c) # NULL <=> \E m \in Holds(c) : q \in PagesOf(m[1], m[2])
      /\ \A m, n \in Holds(c) : m # n => PagesOf(m[1], m[2]) \cap PagesOf(n[1], n[2]) = {}
  BY DEF RegionsOf
<1>2. \A q \in Page : vmem_translate(q, c)' = IF q \in P THEN NULL ELSE vmem_translate(q, c)
  BY DEF Loses
<1>3. \A m \in Holds(c) : m # <<page, size>> => PagesOf(m[1], m[2]) \cap P = {}
  BY <1>1
<1> HIDE DEF P
<1>4. \A m \in Holds(c) : m = <<page, size>> => PagesOf(m[1], m[2]) = P
  BY DEF P
<1>5. \A q \in Page : vmem_translate(q, c)' # NULL <=> \E m \in Holds(c) \ {<<page, size>>} : q \in PagesOf(m[1], m[2])
  BY <1>1, <1>2, <1>3, <1>4
<1> QED
  BY <1>1, <1>5 DEF RegionsOf

-----------------------------------------------------------------------------
(* The steps.                                                              *)

LEMMA MmapKeeps ==
    ASSUME VmemInv, NEW size \in MmapSizes, do_sys_mmap(size) PROVE VmemInv'
<1>1. /\ VmemTypeOK /\ proc[kmain].pcb = NULL
      /\ HeapInv /\ KeptInv /\ TablesInUse /\ MappedOnce /\ RegionsMapped /\ MemoryApart /\ TlbIsolated
  BY DEF VmemInv
<1>2. PICK c \in Alive : c = current
  BY <1>1 DEF VmemTypeOK
<1>3. PICK r \in ProcessRecord : r = proc[c]
  BY <1>1 DEF VmemTypeOK
<1>4. PICK f : f = r.first
  OBVIOUS
<1>5. PICK m : m = vmem_alloc_for_userland(f, kheap, size)
  OBVIOUS
<1>6. PICK r2 : r2 = [r EXCEPT !.first = m.first, !.mapped = @ \cup {<<m.page, size>>}]
  OBVIOUS
<1>7. /\ CanAlloc(f, size) /\ proc' = [proc EXCEPT ![c] = r2] /\ kheap' = m.heap /\ second' = m.second
      /\ frame_table' = m.frames /\ current' = current /\ tlb' = tlb /\ kept' = kept
  BY <1>2, <1>3, <1>4, <1>5, <1>6 DEF do_sys_mmap
<1>8. size \in Nat \ {0}
  BY VmemAssumption
<1>9. FirstSound(f) /\ SecondSound(kheap) /\ HeapSound(kheap) /\ frame_table \in SUBSET Frame
  BY <1>1, <1>3, <1>4, ProcessTables DEF HeapInv, HeapOf, VmemTypeOK
<1>10. AllocMaps(f, kheap, size, m)
  BY <1>5, <1>7, <1>8, <1>9, AllocSoundly
<1>11. PICK P : P = PagesOf(m.page, size)
  OBVIOUS
<1>12. /\ m.page \in Page /\ m.page \in P /\ \A q \in P : q \in Page /\ Through(f, second, q) = NULL
       /\ NewTables(f, kheap, m, P) /\ NewPages(f, m, P)
  BY <1>10, <1>11 DEF AllocMaps
<1>13. /\ r2.first = m.first /\ r2.mapped = r.mapped \cup {<<m.page, size>>} /\ SameButFirst(r, r2)
       /\ r2.memory_start = r.memory_start
  BY <1>6 DEF SameButFirst, ProcessRecord
<1>14. r2 \in ProcessRecord
  <2>1. m.first \in [0 .. NbUserTables - 1 -> Nat]
    BY <1>12 DEF NewTables, Index1
  <2>2. PICK g : g = r.mapped \cup {<<m.page, size>>}
    OBVIOUS
  <2>3. g \in SUBSET (Page \X MmapSizes)
    BY <1>12, <2>2 DEF ProcessRecord
  <2>4. r2 = [r EXCEPT !.first = m.first, !.mapped = g]
    BY <1>6, <2>2
  <2> QED
    BY <2>1, <2>3, <2>4 DEF ProcessRecord
<1>15. Alive' = Alive /\ proc'[c] = r2 /\ \A p \in Alive \ {c} : proc'[p] = proc[p]
  BY <1>7 DEF Alive
<1>16. Gains(c, f, P) /\ SecondType' /\ TablesInUse'
  BY <1>1, <1>3, <1>4, <1>7, <1>9, <1>12, <1>13, <1>15, GainsIs
<1>17. HeapInv' /\ KeptInv'
  <2>1. HeapOf(kheap, proc) /\ BlocksSound(kheap, c, r) /\ r.first \in [Index1 -> Nat]
    BY <1>1, <1>3, ProcessTables DEF HeapInv, HeapOf, Alive
  <2>2. Carries(kheap, m.heap, c, r, r2)
    BY <1>4, <1>12, <1>13, <2>1, MappedBlocks
  <2>3. HeapSound(m.heap)
    BY <1>12 DEF NewTables
  <2>4. PICK pr2 : pr2 = proc'
    OBVIOUS
  <2>5. c \in DOMAIN proc /\ DOMAIN pr2 = DOMAIN proc /\ pr2[c] = r2 /\ \A q \in DOMAIN proc \ {c} : pr2[q] = proc[q]
    BY <1>15, <2>4 DEF Alive
  <2>6. HeapOf(m.heap, pr2)
    BY <1>3, <2>1, <2>2, <2>3, <2>5, HeapCarries
  <2>7. KeptOf(m.heap, pr2, kept)
    BY <1>1, <1>3, <2>2, <2>5, KeptCarries DEF KeptInv
  <2> QED
    BY <1>1, <1>7, <2>4, <2>6, <2>7 DEF HeapInv, KeptInv
<1>18. VmemTypeOK'
  <2>1. kheap'.top \in Nat /\ kheap'.free \in Seq(Block)
    BY <1>17 DEF HeapInv, HeapOf, HeapSound, Heap
  <2>2. \A p \in Alive' : proc'[p] \in ProcessRecord
    BY <1>1, <1>14, <1>15 DEF VmemTypeOK
  <2> QED
    BY <1>1, <1>7, <1>15, <1>16, <1>17, <2>1, <2>2 DEF VmemTypeOK, SecondType, KeptInv
<1>19. proc'[kmain].pcb = NULL
  BY <1>1, <1>3, <1>13, <1>15 DEF SameButFirst, VmemTypeOK
<1>20. MappedOnce'
  BY <1>1, <1>16, GainsMapsOnce
<1>21. RegionsMapped'
  <2>1. \A p \in Alive : RegionsOf(p)
    BY <1>1, RegionsAre DEF RegionsHold
  <2>2. Holds(c)' = Holds(c) \cup {<<m.page, size>>}
    BY <1>3, <1>13, <1>15 DEF Holds
  <2>3. RegionsOf(c)'
    BY <1>11, <1>16, <2>1, <2>2, GainsRegion
  <2>4. \A p \in Alive \ {c} : RegionsOf(p)'
    BY <1>16, <2>1, OthersRegions DEF Gains
  <2>5. RegionsHold'
    BY <1>15, <2>3, <2>4 DEF RegionsHold
  <2> QED
    BY <2>5, RegionsAre, PTL
<1>22. MemoryApart'
  <2>1. c # kmain => r.memory_start # m.page \/ size # MEMORY_SIZE
    <3> SUFFICES ASSUME c # kmain, r.memory_start = m.page, size = MEMORY_SIZE PROVE FALSE
      OBVIOUS
    <3>1. PICK h : h = <<m.page, size>>
      OBVIOUS
    <3>2. h \in Holds(c) /\ h[1] = m.page /\ h[2] = size
      BY <1>3, <3>1 DEF Holds
    <3>3. RegionsOf(c)
      BY <1>1, RegionsAre DEF RegionsHold
    <3>4. vmem_translate(m.page, c) # NULL
      BY <1>11, <1>12, <3>2, <3>3 DEF RegionsOf
    <3> QED
      BY <1>3, <1>4, <1>12, <3>4 DEF vmem_translate
  <2>2. ASSUME NEW p \in Alive' \ {kmain} PROVE <<proc'[p].memory_start, MEMORY_SIZE>> \notin proc'[p].mapped
    <3>1. CASE p # c
      BY <1>1, <1>15, <3>1 DEF MemoryApart
    <3>2. CASE p = c
      <4>1. <<r.memory_start, MEMORY_SIZE>> \notin r.mapped
        BY <1>1, <1>3, <3>2 DEF MemoryApart
      <4>2. <<r.memory_start, MEMORY_SIZE>> # <<m.page, size>>
        BY <2>1, <3>2
      <4> QED
        BY <1>13, <1>15, <3>2, <4>1, <4>2
    <3> QED
      BY <3>1, <3>2
  <2> QED
    BY <2>2 DEF MemoryApart
<1>23. TlbIsolated'
  <2>1. \A p \in Alive \ {c} : \A q \in Page : vmem_translate(q, p)' = vmem_translate(q, p)
    BY <1>16 DEF Gains, OthersSame
  <2> QED
    BY <1>1, <1>2, <1>7, <1>15, <2>1 DEF TlbIsolated
<1> QED
  BY <1>16, <1>17, <1>18, <1>19, <1>20, <1>21, <1>22, <1>23 DEF VmemInv

LEMMA MunmapKeeps ==
    ASSUME VmemInv, NEW page, NEW size, do_sys_munmap(page, size) PROVE VmemInv'
<1>1. /\ VmemTypeOK /\ proc[kmain].pcb = NULL
      /\ HeapInv /\ KeptInv /\ TablesInUse /\ MappedOnce /\ RegionsMapped /\ MemoryApart /\ TlbIsolated
  BY DEF VmemInv
<1>2. PICK c \in Alive : c = current
  BY <1>1 DEF VmemTypeOK
<1>3. PICK r \in ProcessRecord : r = proc[c]
  BY <1>1 DEF VmemTypeOK
<1>4. PICK f : f = r.first
  OBVIOUS
<1>5. PICK m : m = vmem_free(f, kheap, page, size)
  OBVIOUS
<1>6. PICK r2 : r2 = [r EXCEPT !.first = m.first, !.mapped = @ \ {<<page, size>>}]
  OBVIOUS
<1>7. /\ <<page, size>> \in r.mapped /\ proc' = [proc EXCEPT ![c] = r2] /\ kheap' = m.heap /\ second' = m.second
      /\ frame_table' = m.frames /\ current' = current /\ tlb' = tlb /\ kept' = kept
  BY <1>2, <1>3, <1>4, <1>5, <1>6 DEF do_sys_munmap
<1>8. PICK P : P = PagesOf(page, size)
  OBVIOUS
<1>9. FirstSound(f) /\ TablesBeside(f) /\ SecondSound(kheap) /\ HeapSound(kheap)
  BY <1>1, <1>3, <1>4, ProcessTables DEF HeapInv, HeapOf
<1>10. \A p \in Alive : RegionsOf(p)
  BY <1>1, RegionsAre DEF RegionsHold
<1>11. <<page, size>> \in Holds(c)
  BY <1>3, <1>7 DEF Holds
<1>12. P \in SUBSET Page /\ \A q \in P : vmem_translate(q, c) # NULL
  <2>1. PICK h \in Holds(c) : h = <<page, size>>
    BY <1>11
  <2>2. P = PagesOf(h[1], h[2])
    BY <1>8, <2>1
  <2> QED
    BY <1>10, <2>2 DEF RegionsOf
<1>13. FreeMaps(f, kheap, P, m)
  <2>1. \A q \in P : Through(f, second, q) # NULL
    BY <1>3, <1>4, <1>12 DEF vmem_translate
  <2> QED
    BY <1>5, <1>8, <1>9, <1>12, <2>1, FreeSoundly
<1>14. /\ r2.first = m.first /\ r2.mapped = r.mapped \ {<<page, size>>} /\ SameButFirst(r, r2)
       /\ r2.memory_start = r.memory_start
  BY <1>6 DEF SameButFirst, ProcessRecord
<1>15. r2 \in ProcessRecord
  <2>1. m.first \in [0 .. NbUserTables - 1 -> Nat]
    BY <1>13 DEF FreeMaps, Index1
  <2>2. PICK g : g = r.mapped \ {<<page, size>>}
    OBVIOUS
  <2>3. g \in SUBSET (Page \X MmapSizes)
    BY <2>2 DEF ProcessRecord
  <2>4. r2 = [r EXCEPT !.first = m.first, !.mapped = g]
    BY <1>6, <2>2
  <2> QED
    BY <2>1, <2>3, <2>4 DEF ProcessRecord
<1>16. Alive' = Alive /\ proc'[c] = r2 /\ \A p \in Alive \ {c} : proc'[p] = proc[p]
  BY <1>7 DEF Alive
<1>17. Loses(c, P) /\ SecondType' /\ TablesInUse'
  BY <1>1, <1>3, <1>4, <1>7, <1>12, <1>13, <1>14, <1>16, LosesIs
<1>18. HeapInv' /\ KeptInv'
  <2>1. HeapOf(kheap, proc) /\ BlocksSound(kheap, c, r) /\ r.first \in [Index1 -> Nat]
    BY <1>1, <1>3, ProcessTables DEF HeapInv, HeapOf, Alive
  <2>2. Carries(kheap, m.heap, c, r, r2)
    BY <1>4, <1>13, <1>14, <2>1, UnmappedBlocks
  <2>3. HeapSound(m.heap)
    BY <1>13 DEF FreeMaps
  <2>4. PICK pr2 : pr2 = proc'
    OBVIOUS
  <2>5. c \in DOMAIN proc /\ DOMAIN pr2 = DOMAIN proc /\ pr2[c] = r2 /\ \A q \in DOMAIN proc \ {c} : pr2[q] = proc[q]
    BY <1>16, <2>4 DEF Alive
  <2>6. HeapOf(m.heap, pr2)
    BY <1>3, <2>1, <2>2, <2>3, <2>5, HeapCarries
  <2>7. KeptOf(m.heap, pr2, kept)
    BY <1>1, <1>3, <2>2, <2>5, KeptCarries DEF KeptInv
  <2> QED
    BY <1>1, <1>7, <2>4, <2>6, <2>7 DEF HeapInv, KeptInv
<1>19. VmemTypeOK'
  <2>1. kheap'.top \in Nat /\ kheap'.free \in Seq(Block)
    BY <1>18 DEF HeapInv, HeapOf, HeapSound, Heap
  <2>2. \A p \in Alive' : proc'[p] \in ProcessRecord
    BY <1>1, <1>15, <1>16 DEF VmemTypeOK
  <2> QED
    BY <1>1, <1>7, <1>16, <1>17, <1>18, <2>1, <2>2 DEF VmemTypeOK, SecondType, KeptInv
<1>20. proc'[kmain].pcb = NULL
  BY <1>1, <1>3, <1>14, <1>16 DEF SameButFirst, VmemTypeOK
<1>21. MappedOnce'
  BY <1>1, <1>17, LosesMapsOnce
<1>22. RegionsMapped'
  <2>1. Holds(c)' = Holds(c) \ {<<page, size>>}
    <3>1. c # kmain => <<r.memory_start, MEMORY_SIZE>> # <<page, size>>
      BY <1>1, <1>3, <1>7 DEF MemoryApart
    <3> QED
      BY <1>3, <1>14, <1>16, <3>1 DEF Holds
  <2>2. RegionsOf(c)'
    BY <1>8, <1>10, <1>11, <1>16, <1>17, <2>1, LosesRegion
  <2>3. \A p \in Alive \ {c} : RegionsOf(p)'
    BY <1>10, <1>17, OthersRegions DEF Loses
  <2>4. RegionsHold'
    BY <1>16, <2>2, <2>3 DEF RegionsHold
  <2> QED
    BY <2>4, RegionsAre, PTL
<1>23. MemoryApart'
  <2>1. ASSUME NEW p \in Alive' \ {kmain} PROVE <<proc'[p].memory_start, MEMORY_SIZE>> \notin proc'[p].mapped
    <3>1. CASE p # c
      BY <1>1, <1>16, <3>1 DEF MemoryApart
    <3>2. CASE p = c
      BY <1>1, <1>3, <1>14, <1>16, <3>2 DEF MemoryApart
    <3> QED
      BY <3>1, <3>2
  <2> QED
    BY <2>1 DEF MemoryApart
<1>24. TlbIsolated'
  <2>1. \A p \in Alive \ {c} : \A q \in Page : vmem_translate(q, p)' = vmem_translate(q, p)
    BY <1>17 DEF Loses, OthersSame
  <2> QED
    BY <1>1, <1>2, <1>7, <1>16, <2>1 DEF TlbIsolated
<1> QED
  BY <1>17, <1>18, <1>19, <1>20, <1>21, <1>22, <1>23, <1>24 DEF VmemInv

\* The heap k2 is the heap k without c's blocks: the others keep theirs.
Without(k, k2, c, r) ==
    HeapSound(k2) /\ \A s : Used(k, s) /\ (\A t \in SlotsOf(c, r) : Beside(BlockOf(r, t), s)) => Used(k2, s)

LEMMA HeapDrops ==
    ASSUME NEW k, NEW pr, HeapOf(k, pr), NEW c \in DOMAIN pr, NEW k2, Without(k, k2, c, pr[c]), NEW pr2, DOMAIN pr2 = DOMAIN pr \ {c}, \A q \in DOMAIN pr \ {c} : pr2[q] = pr[q]
    PROVE  HeapOf(k2, pr2)
<1>1. /\ \A p \in DOMAIN pr : \A s \in SlotsOf(p, pr[p]) :
           /\ Used(k, BlockOf(pr[p], s))
           /\ \A t \in SlotsOf(p, pr[p]) : s # t => Beside(BlockOf(pr[p], s), BlockOf(pr[p], t))
      /\ \A p \in DOMAIN pr, q \in DOMAIN pr : p # q =>
           \A s \in SlotsOf(p, pr[p]), t \in SlotsOf(q, pr[q]) : Beside(BlockOf(pr[p], s), BlockOf(pr[q], t))
  BY DEF HeapOf, BlocksSound, BlocksBeside
<1>2. ASSUME NEW q \in DOMAIN pr, q # c, NEW t \in SlotsOf(q, pr[q]) PROVE Used(k2, BlockOf(pr[q], t))
  <2>1. PICK b : b = BlockOf(pr[q], t)
    OBVIOUS
  <2>2. Used(k, b) /\ \A s \in SlotsOf(c, pr[c]) : Beside(BlockOf(pr[c], s), b)
    BY <1>1, <1>2, <2>1
  <2> QED
    BY <2>1, <2>2 DEF Without
<1>3. \A p \in DOMAIN pr2 : p \in DOMAIN pr /\ p # c /\ pr2[p] = pr[p]
  OBVIOUS
<1> QED
  BY <1>1, <1>2, <1>3 DEF HeapOf, BlocksSound, BlocksBeside, Without

\* The heap k1 is the heap k, but for the pcb of an orphan.
PcbGone(k, k1, r, orphan) == \A s : Used(k, s) /\ (orphan => Beside(Span(r.pcb, PcbSize), s)) => Used(k1, s)

LEMMA PcbFreed ==
    ASSUME NEW k, HeapSound(k), NEW c, c # kmain, NEW r, BlocksSound(k, c, r), SecondSound(k),
           \A a \in DOMAIN second : Beside(Span(r.pcb, PcbSize), TableSpan(a)), NEW orphan \in BOOLEAN
    PROVE  /\ HeapSound(FreePcb(k, r, orphan)) /\ SecondSound(FreePcb(k, r, orphan))
           /\ PcbGone(k, FreePcb(k, r, orphan), r, orphan)
<1>1. PICK pcb : pcb = Span(r.pcb, PcbSize)
  OBVIOUS
<1>2. Used(k, pcb)
  <2>1. PICK sp : sp = <<"pcb", 0>>
    OBVIOUS
  <2>2. sp \in SlotsOf(c, r) /\ BlockOf(r, sp) = pcb
    BY <1>1, <2>1, SlotsAre
  <2> QED
    BY <2>2 DEF BlocksSound
<1>3. PICK k1 : k1 = FreePcb(k, r, orphan)
  OBVIOUS
<1>4. CASE orphan
  <2>1. Released(k, k1, pcb)
    BY <1>1, <1>2, <1>3, <1>4, FreeSound DEF Span, FreePcb
  <2>2. HeapSound(k1) /\ \A s : Used(k, s) /\ Beside(pcb, s) => Used(k1, s)
    BY <2>1 DEF Released
  <2>3. SecondSound(k1)
    BY <1>1, <2>2 DEF SecondSound
  <2> QED
    BY <1>1, <1>3, <1>4, <2>2, <2>3 DEF PcbGone
<1>5. CASE ~orphan
  <2>1. k1 = k
    BY <1>3, <1>5 DEF FreePcb
  <2> QED
    BY <1>3, <2>1 DEF PcbGone
<1> QED
  BY <1>4, <1>5

\* In the heap k2 all is in use that was in the heap k, but for the blocks F of r.
Remains(k, k2, r, F) ==
    HeapSound(k2) /\ \A s : Used(k, s) /\ (\A t \in F : Beside(BlockOf(r, t), s)) => Used(k2, s)

\* The blocks L are some of r's, and none of F.
AmongOthers(L, c, r, F) == \A s \in L : \E u \in SlotsOf(c, r) \ F : s = BlockOf(r, u)

\* What is freed at exit: all but the tables for kernel and devices, and the pcb of a zombie.
FreedSlots(c, r, orphan) == {t \in SlotsOf(c, r) : t[1] # "kernel" /\ (t[1] = "pcb" => orphan)}

LEMMA ExitFrees ==
    ASSUME NEW k, NEW c, NEW r, r \in ProcessRecord, c # kmain, BlocksSound(k, c, r), NEW orphan \in BOOLEAN,
           NEW k1, PcbGone(k, k1, r, orphan),
           NEW P, NEW m, FreeMaps(r.first, k1, P, m),
           NEW k2, k2 = kFree(m.heap, r.page_table, FIRST_LVL_TT_SIZE, FALSE)
    PROVE  Remains(k, k2, r, FreedSlots(c, r, orphan))
<1>1. \A s \in SlotsOf(c, r) :
        /\ Used(k, BlockOf(r, s))
        /\ \A t \in SlotsOf(c, r) : s # t => Beside(BlockOf(r, s), BlockOf(r, t))
  BY DEF BlocksSound
<1>2. PICK pcb, table : pcb = Span(r.pcb, PcbSize) /\ table = FirstSpan(r.page_table)
  OBVIOUS
<1>3. PICK sp, st : sp = <<"pcb", 0>> /\ st = <<"page_table", 0>>
  OBVIOUS
<1>4. sp \in SlotsOf(c, r) /\ BlockOf(r, sp) = pcb /\ st \in SlotsOf(c, r) /\ BlockOf(r, st) = table /\ sp # st
  BY <1>2, <1>3, SlotsAre
<1>5. Used(k1, table)
  BY <1>1, <1>2, <1>4 DEF PcbGone
<1>6. /\ HeapSound(m.heap)
      /\ \A s : Used(k1, s) /\ (\A i \in Index1 : New(m.first, r.first, i) => Beside(TableSpan(r.first[i]), s)) => Used(m.heap, s)
  BY DEF FreeMaps
<1>7. \A i \in Index1 : New(m.first, r.first, i) =>
         /\ <<"first", i>> \in SlotsOf(c, r) /\ BlockOf(r, <<"first", i>>) = TableSpan(r.first[i])
         /\ <<"first", i>> # st
  BY <1>3, SlotsAre DEF New, ProcessRecord, Index1
<1>8. Used(m.heap, table)
  <2>1. ASSUME NEW i \in Index1, New(m.first, r.first, i) PROVE Beside(TableSpan(r.first[i]), table)
    <3>1. PICK t : t = <<"first", i>>
      OBVIOUS
    <3>2. t \in SlotsOf(c, r) /\ BlockOf(r, t) = TableSpan(r.first[i]) /\ t # st
      BY <1>7, <2>1, <3>1
    <3> QED
      BY <1>1, <1>4, <3>2
  <2> QED
    BY <1>5, <1>6, <2>1
<1>9. Released(m.heap, k2, table)
  BY <1>2, <1>6, <1>8, FreeSound DEF FirstSpan, Span
<1>10. ASSUME NEW s, Used(k, s), \A t \in FreedSlots(c, r, orphan) : Beside(BlockOf(r, t), s) PROVE Used(k2, s)
  <2>1. (orphan => Beside(pcb, s)) /\ Beside(table, s)
    <3>1. st \in FreedSlots(c, r, orphan) /\ (orphan => sp \in FreedSlots(c, r, orphan))
      BY <1>3, <1>4 DEF FreedSlots
    <3> QED
      BY <1>4, <1>10, <3>1
  <2>2. ASSUME NEW i \in Index1, New(m.first, r.first, i) PROVE Beside(TableSpan(r.first[i]), s)
    <3>1. PICK t : t = <<"first", i>>
      OBVIOUS
    <3>2. t \in SlotsOf(c, r) /\ BlockOf(r, t) = TableSpan(r.first[i]) /\ t[1] = "first"
      BY <1>7, <2>2, <3>1
    <3>3. t \in FreedSlots(c, r, orphan)
      BY <3>2 DEF FreedSlots
    <3> QED
      BY <1>10, <3>2, <3>3
  <2>3. Used(k1, s)
    BY <1>2, <1>10, <2>1 DEF PcbGone
  <2>4. Used(m.heap, s)
    BY <1>6, <2>2, <2>3
  <2> QED
    BY <1>9, <2>1, <2>4 DEF Released
<1> QED
  BY <1>9, <1>10 DEF Released, Remains

\* What a process leaves are blocks it had, and none that is freed.
LEMMA LeftAre ==
    ASSUME NEW c, c # kmain, NEW r, r \in ProcessRecord, NEW orphan \in BOOLEAN, NEW s \in LeftBehind(r, orphan)
    PROVE  /\ s \in [addr : Nat, size : Nat]
           /\ \E u \in SlotsOf(c, r) \ FreedSlots(c, r, orphan) : s = BlockOf(r, u)
<1>1. CASE s \in {TableSpan(a) : a \in ToSet(r.kernel_tables)}
  <2>1. PICK j \in DOMAIN r.kernel_tables : s = TableSpan(r.kernel_tables[j])
    BY <1>1 DEF ToSet
  <2>2. PICK u : u = <<"kernel", j>>
    OBVIOUS
  <2>3. u \in SlotsOf(c, r) /\ BlockOf(r, u) = s /\ u[1] = "kernel"
    BY <2>1, <2>2, SlotsAre
  <2>4. r.kernel_tables \in Seq(Nat) /\ SECON_LVL_TT_COUN \in Nat
    BY VmemAssumption DEF ProcessRecord
  <2>5. r.kernel_tables[j] \in Nat
    BY <2>4
  <2> QED
    BY <2>1, <2>3, <2>4, <2>5 DEF FreedSlots, TableSpan, Span
<1>2. CASE ~orphan /\ s = Span(r.pcb, PcbSize)
  <2>1. PICK u : u = <<"pcb", 0>>
    OBVIOUS
  <2>2. u \in SlotsOf(c, r) /\ BlockOf(r, u) = s /\ u[1] = "pcb"
    BY <1>2, <2>1, SlotsAre
  <2>3. r.pcb \in Nat /\ PcbSize \in Nat
    BY VmemAssumption DEF ProcessRecord
  <2> QED
    BY <1>2, <2>2, <2>3 DEF FreedSlots, Span
<1> QED
  BY <1>1, <1>2 DEF LeftBehind

\* They join what is kept.
LEMMA KeptDrops ==
    ASSUME NEW k, NEW pr, HeapOf(k, pr), NEW K, KeptOf(k, pr, K), NEW c \in DOMAIN pr, NEW k2, NEW F,
           Remains(k, k2, pr[c], F), F \subseteq SlotsOf(c, pr[c]), NEW L, AmongOthers(L, c, pr[c], F),
           NEW pr2, DOMAIN pr2 = DOMAIN pr \ {c}, \A q \in DOMAIN pr \ {c} : pr2[q] = pr[q]
    PROVE  KeptOf(k2, pr2, K \cup L)
<1>1. /\ \A s \in SlotsOf(c, pr[c]) :
           /\ Used(k, BlockOf(pr[c], s))
           /\ \A t \in SlotsOf(c, pr[c]) : s # t => Beside(BlockOf(pr[c], s), BlockOf(pr[c], t))
      /\ \A q \in DOMAIN pr : q # c =>
           \A s \in SlotsOf(q, pr[q]), t \in SlotsOf(c, pr[c]) : Beside(BlockOf(pr[q], s), BlockOf(pr[c], t))
  BY DEF HeapOf, BlocksSound, BlocksBeside
<1>2. ASSUME NEW s \in K
      PROVE  /\ Used(k2, s) /\ BesideAll(pr2, s) /\ \A t \in K : s # t => Beside(s, t)
             /\ \A u \in SlotsOf(c, pr[c]) : Beside(BlockOf(pr[c], u), s)
  <2>1. Used(k, s) /\ BesideAll(pr, s) /\ \A t \in K : s # t => Beside(s, t)
    BY DEF KeptOf, AllApart
  <2>2. \A u \in SlotsOf(c, pr[c]) : Beside(BlockOf(pr[c], u), s)
    BY <2>1 DEF BesideAll
  <2>3. BesideAll(pr2, s)
    BY <2>1 DEF BesideAll
  <2> QED
    BY <2>1, <2>2, <2>3 DEF Remains
<1>3. ASSUME NEW u \in SlotsOf(c, pr[c]) \ F
      PROVE  Used(k2, BlockOf(pr[c], u)) /\ BesideAll(pr2, BlockOf(pr[c], u))
  <2>1. PICK b : b = BlockOf(pr[c], u)
    OBVIOUS
  <2>2. Used(k, b) /\ \A t \in F : Beside(BlockOf(pr[c], t), b)
    BY <1>1, <2>1
  <2>3. BesideAll(pr2, b)
    BY <1>1, <2>1 DEF BesideAll
  <2> QED
    BY <2>1, <2>2, <2>3 DEF Remains
<1>4. ASSUME NEW s \in L
      PROVE  /\ Used(k2, s) /\ BesideAll(pr2, s)
             /\ \A t \in K : Beside(s, t) /\ Beside(t, s)
             /\ \A t \in L : s # t => Beside(s, t)
  <2>1. PICK u \in SlotsOf(c, pr[c]) \ F : s = BlockOf(pr[c], u)
    BY DEF AmongOthers
  <2>2. \A t \in K : Beside(s, t) /\ Beside(t, s)
    BY <1>2, <2>1, BesideTurns
  <2>3. ASSUME NEW t \in L, s # t PROVE Beside(s, t)
    <3>1. PICK w \in SlotsOf(c, pr[c]) \ F : t = BlockOf(pr[c], w)
      BY DEF AmongOthers
    <3>2. u # w
      BY <2>1, <2>3, <3>1
    <3> QED
      BY <1>1, <2>1, <3>1, <3>2
  <2> QED
    BY <1>3, <2>1, <2>2, <2>3
<1>5. AllApart(k2, K \cup L)
  BY <1>2, <1>4 DEF AllApart
<1> QED
  BY <1>2, <1>4, <1>5 DEF KeptOf

\* The pcb of a process is beside all second level tables.
LEMMA PcbBeside ==
    ASSUME VmemTypeOK, HeapInv, NEW c \in Alive, c # kmain
    PROVE  \A a \in DOMAIN second : Beside(Span(proc[c].pcb, PcbSize), TableSpan(a))
<1>1. PICK sp : sp = <<"pcb", 0>>
  OBVIOUS
<1>2. sp \in SlotsOf(c, proc[c]) /\ BlockOf(proc[c], sp) = Span(proc[c].pcb, PcbSize)
  BY <1>1, SlotsAre
<1>3. ASSUME NEW p \in Alive, NEW i \in Index1, proc[p].first[i] # NULL
      PROVE  Beside(Span(proc[c].pcb, PcbSize), TableSpan(proc[p].first[i]))
  <2>1. PICK t : t = <<"first", i>>
    OBVIOUS
  <2>2. t # sp /\ t \in SlotsOf(p, proc[p]) /\ BlockOf(proc[p], t) = TableSpan(proc[p].first[i])
    <3>1. i \in DOMAIN proc[p].first
      BY ProcessTables
    <3> QED
      BY <1>1, <1>3, <2>1, <3>1, SlotsAre
  <2>3. CASE p = c
    BY <1>2, <2>2, <2>3 DEF HeapInv, HeapOf, BlocksSound, Alive
  <2>4. CASE p # c
    BY <1>2, <2>2, <2>4 DEF HeapInv, HeapOf, BlocksBeside, Alive
  <2> QED
    BY <2>3, <2>4
<1>4. \A a \in DOMAIN second : \E p \in Alive, i \in Index1 : a = proc[p].first[i] /\ a # NULL
  BY DEF VmemTypeOK, Index1
<1> QED
  BY <1>3, <1>4

LEMMA ExitKeeps ==
    ASSUME VmemInv, NEW next, NEW orphan \in BOOLEAN, do_sys_exit(next, orphan) PROVE VmemInv'
<1>1. /\ VmemTypeOK /\ proc[kmain].pcb = NULL
      /\ HeapInv /\ KeptInv /\ TablesInUse /\ MappedOnce /\ RegionsMapped /\ MemoryApart /\ TlbIsolated
  BY DEF VmemInv
<1>2. PICK c \in Alive : c = current
  BY <1>1 DEF VmemTypeOK
<1>3. PICK r \in ProcessRecord : r = proc[c]
  BY <1>1 DEF VmemTypeOK
<1>4. PICK k1 : k1 = FreePcb(kheap, r, orphan)
  OBVIOUS
<1>5. PICK m : m = vmem_free(r.first, k1, r.memory_start, MEMORY_SIZE)
  OBVIOUS
<1>6. /\ c # kmain /\ r.mapped = {} /\ next \in Alive \ {c}
      /\ kheap' = kFree(m.heap, r.page_table, FIRST_LVL_TT_SIZE, FALSE) /\ second' = m.second
      /\ frame_table' = m.frames /\ proc' = [p \in Alive \ {c} |-> proc[p]] /\ current' = next
      /\ tlb' = NothingCached /\ kept' = kept \cup LeftBehind(r, orphan)
  BY <1>2, <1>3, <1>4, <1>5 DEF do_sys_exit, switch_mmu_to
<1>7. PICK P : P = PagesOf(r.memory_start, MEMORY_SIZE)
  OBVIOUS
<1>8. \A p \in Alive : RegionsOf(p)
  BY <1>1, RegionsAre DEF RegionsHold
<1>9. /\ P \in SUBSET Page /\ \A q \in P : vmem_translate(q, c) # NULL
      /\ \A q \in Page \ P : vmem_translate(q, c) = NULL
  <2>1. PICK h : h = <<r.memory_start, MEMORY_SIZE>>
    OBVIOUS
  <2>2. Holds(c) = {h} /\ P = PagesOf(h[1], h[2])
    BY <1>3, <1>6, <1>7, <2>1 DEF Holds
  <2> QED
    BY <1>8, <2>2 DEF RegionsOf
<1>10. /\ FirstSound(r.first) /\ TablesBeside(r.first) /\ SecondSound(kheap) /\ HeapSound(kheap)
       /\ HeapOf(kheap, proc) /\ BlocksSound(kheap, c, r)
  BY <1>1, <1>3, ProcessTables DEF HeapInv, HeapOf, Alive
<1>11. \A a \in DOMAIN second : Beside(Span(r.pcb, PcbSize), TableSpan(a))
  BY <1>1, <1>3, <1>6, PcbBeside
<1>12. HeapSound(k1) /\ SecondSound(k1) /\ PcbGone(kheap, k1, r, orphan)
  BY <1>4, <1>6, <1>10, <1>11, PcbFreed
<1>13. FreeMaps(r.first, k1, P, m)
  <2>1. \A q \in P : Through(r.first, second, q) # NULL
    BY <1>3, <1>9 DEF vmem_translate
  <2> QED
    BY <1>5, <1>7, <1>9, <1>10, <1>12, <2>1, FreeSoundly
<1>14. PICK k2 : k2 = kFree(m.heap, r.page_table, FIRST_LVL_TT_SIZE, FALSE)
  OBVIOUS
<1>15. PICK F : F = FreedSlots(c, r, orphan)
  OBVIOUS
<1>16. Remains(kheap, k2, r, F)
  <2>1. c # kmain /\ BlocksSound(kheap, c, r)
    BY <1>6, <1>10
  <2> QED
    BY <1>12, <1>13, <1>14, <1>15, <2>1, ExitFrees
<1>17. F \subseteq SlotsOf(c, r)
  BY <1>15 DEF FreedSlots
<1>18. Alive' = Alive \ {c} /\ \A p \in Alive \ {c} : proc'[p] = proc[p]
  BY <1>6 DEF Alive
<1>19. Loses(c, P) /\ SecondType' /\ TablesInUse'
  BY <1>1, <1>3, <1>6, <1>9, <1>13, <1>18, LosesIs
<1>20. HeapInv' /\ KeptInv'
  <2>1. PICK pr2 : pr2 = proc'
    OBVIOUS
  <2>2. c \in DOMAIN proc /\ DOMAIN pr2 = DOMAIN proc \ {c} /\ \A q \in DOMAIN proc \ {c} : pr2[q] = proc[q]
    BY <1>18, <2>1 DEF Alive
  <2>3. Without(kheap, k2, c, r)
    BY <1>16, <1>17 DEF Remains, Without
  <2>4. HeapOf(k2, pr2)
    BY <1>3, <1>10, <2>2, <2>3, HeapDrops
  <2>5. PICK L : L = LeftBehind(r, orphan)
    OBVIOUS
  <2>6. L \subseteq [addr : Nat, size : Nat] /\ AmongOthers(L, c, r, F)
    BY <1>6, <1>15, <2>5, LeftAre DEF AmongOthers
  <2>7. KeptOf(k2, pr2, kept \cup L)
    <3>1. KeptOf(kheap, proc, kept)
      BY <1>1 DEF KeptInv
    <3> QED
      BY <1>3, <1>10, <1>16, <1>17, <2>2, <2>6, <3>1, KeptDrops
  <2> QED
    BY <1>1, <1>6, <1>14, <2>1, <2>4, <2>5, <2>6, <2>7 DEF HeapInv, KeptInv
<1>21. VmemTypeOK'
  <2>1. kheap'.top \in Nat /\ kheap'.free \in Seq(Block)
    BY <1>20 DEF HeapInv, HeapOf, HeapSound, Heap
  <2>2. \A p \in Alive' : proc'[p] \in ProcessRecord
    BY <1>1, <1>18 DEF VmemTypeOK
  <2>3. Alive' \subseteq Process /\ {kmain, current'} \subseteq Alive'
    BY <1>1, <1>6, <1>18 DEF VmemTypeOK
  <2>4. tlb' \in [Page -> Frame \cup {NULL}]
    BY <1>6 DEF NothingCached
  <2> QED
    BY <1>19, <1>20, <2>1, <2>2, <2>3, <2>4 DEF VmemTypeOK, SecondType, KeptInv
<1>22. proc'[kmain].pcb = NULL
  BY <1>1, <1>6, <1>18 DEF VmemTypeOK
<1>23. MappedOnce'
  BY <1>1, <1>19, LosesMapsOnce
<1>24. RegionsMapped'
  <2>1. \A p \in Alive \ {c} : RegionsOf(p)'
    BY <1>8, <1>19, OthersRegions DEF Loses
  <2>2. RegionsHold'
    BY <1>18, <2>1 DEF RegionsHold
  <2> QED
    BY <2>2, RegionsAre, PTL
<1>25. MemoryApart'
  BY <1>1, <1>18 DEF MemoryApart
<1>26. TlbIsolated'
  <2>1. \A q \in Page : tlb'[q] = NULL
    BY <1>6 DEF NothingCached
  <2> QED
    BY <2>1 DEF TlbIsolated
<1> QED
  BY <1>19, <1>20, <1>21, <1>22, <1>23, <1>24, <1>25, <1>26 DEF VmemInv

LEMMA AddKeeps ==
    ASSUME VmemInv, NEW c \in Process, add_process(c) PROVE VmemInv'
<1>1. /\ VmemTypeOK /\ proc[kmain].pcb = NULL
      /\ HeapInv /\ KeptInv /\ TablesInUse /\ MappedOnce /\ RegionsMapped /\ MemoryApart /\ TlbIsolated
  BY DEF VmemInv
<1>2. PICK block : block = kAlloc(kheap, PcbSize)
  OBVIOUS
<1>3. PICK own : own = TranslationTable(block.heap)
  OBVIOUS
<1>4. PICK m : m = vmem_alloc_for_userland(NoFirst, own.heap, MEMORY_SIZE)
  OBVIOUS
<1>5. PICK r2 : r2 = [pcb |-> block.addr, page_table |-> own.base, kernel_tables |-> own.tables,
                      first |-> m.first, memory_start |-> m.page, mapped |-> {}]
  OBVIOUS
<1>6. /\ c \notin Alive /\ CanAlloc(NoFirst, MEMORY_SIZE) /\ kheap' = m.heap
      /\ proc' = [q \in Alive \cup {c} |-> IF q # c THEN proc[q] ELSE r2]
      /\ second' = m.second /\ frame_table' = m.frames /\ tlb' = NothingCached /\ current' = current /\ kept' = kept
  BY <1>2, <1>3, <1>4, <1>5 DEF add_process, switch_mmu_to
<1>7. c # kmain
  BY <1>1, <1>6 DEF VmemTypeOK
<1>8. Alive' = Alive \cup {c} /\ proc'[c] = r2 /\ \A p \in Alive : proc'[p] = proc[p]
  <2>1. \A p \in Alive : p # c
    BY <1>6
  <2> QED
    BY <1>6, <2>1 DEF Alive
<1>9. Allotted(kheap, block.heap, Span(block.addr, PcbSize))
  <2>1. PcbSize \in Nat \ {0} /\ 1 \in Nat \ {0} /\ HeapSound(kheap)
    BY <1>1, VmemAssumption DEF HeapInv, HeapOf
  <2> QED
    BY <1>2, <2>1, AllocSound DEF kAlloc
<1>10. TranslationAllotted(block.heap, own)
  BY <1>3, <1>9, TranslationSound DEF Allotted
<1>11. PICK r : r = [r2 EXCEPT !.first = NoFirst]
  OBVIOUS
<1>12. /\ r.first = NoFirst /\ r.pcb = block.addr /\ r.page_table = own.base /\ r.kernel_tables = own.tables
       /\ SameButFirst(r, r2) /\ r2.first = m.first /\ r2.memory_start = m.page /\ r2.mapped = {} /\ r2.pcb = block.addr
       /\ r2.page_table = own.base /\ r2.kernel_tables = own.tables
  BY <1>5, <1>11 DEF SameButFirst
<1>13. Owned(kheap, own.heap, c, r)
  BY <1>7, <1>9, <1>10, <1>12, AddedBlocks
<1>14. SecondSound(own.heap)
  BY <1>1, <1>13, ProcessTables DEF SecondSound, Owned
<1>15. FirstSound(NoFirst) /\ NoFirst \in [Index1 -> Nat] /\ \A i \in Index1 : NoFirst[i] = NULL
  BY DEF FirstSound, NoFirst, Index1, NULL
<1>16. AllocMaps(NoFirst, own.heap, MEMORY_SIZE, m)
  <2>1. MEMORY_SIZE \in Nat \ {0} /\ frame_table \in SUBSET Frame /\ HeapSound(own.heap)
    BY <1>1, <1>10, VmemAssumption DEF VmemTypeOK, TranslationAllotted
  <2> QED
    BY <1>4, <1>6, <1>14, <1>15, <2>1, AllocSoundly
<1>17. PICK P : P = PagesOf(m.page, MEMORY_SIZE)
  OBVIOUS
<1>18. /\ m.page \in Page /\ m.page \in P /\ P \in SUBSET Page /\ \A q \in P : Through(NoFirst, second, q) = NULL
       /\ NewTables(NoFirst, own.heap, m, P) /\ NewPages(NoFirst, m, P)
  BY <1>16, <1>17 DEF AllocMaps
<1>19. r2 \in ProcessRecord
  <2>1. m.first \in [0 .. NbUserTables - 1 -> Nat]
    BY <1>18 DEF NewTables, Index1
  <2>2. block.addr \in Nat /\ own.base \in Nat /\ own.tables \in Seq(Nat)
    BY <1>9, <1>10 DEF Allotted, TranslationAllotted, Used, Span, FirstSpan
  <2> QED
    BY <1>5, <1>18, <2>1, <2>2 DEF ProcessRecord
<1>20. Gains(c, NoFirst, P) /\ SecondType' /\ TablesInUse'
  <2>1. VmemTypeOK /\ HeapInv /\ TablesInUse
    BY <1>1
  <2>2. Alive' = Alive \cup {c} /\ (\A p \in Alive \ {c} : proc'[p] = proc[p]) /\ proc'[c].first = m.first
    BY <1>8, <1>12
  <2>3. second' = m.second /\ frame_table' = m.frames /\ c \notin Alive
    BY <1>6
  <2> QED
    BY <1>15, <1>18, <2>1, <2>2, <2>3, GainsIs
<1>21. HeapInv' /\ KeptInv'
  <2>1. Carries(own.heap, m.heap, c, r, r2)
    <3>1. BlocksSound(own.heap, c, r)
      BY <1>13 DEF Owned
    <3>2. r.first \in [Index1 -> Nat] /\ NewTables(r.first, own.heap, m, P)
      BY <1>12, <1>15, <1>18
    <3> QED
      BY <1>12, <3>1, <3>2, MappedBlocks
  <2>2. Owned(kheap, m.heap, c, r2)
    BY <1>13, <2>1 DEF Carries, Owned
  <2>3. HeapSound(m.heap) /\ HeapOf(kheap, proc)
    BY <1>1, <1>18 DEF NewTables, HeapInv
  <2>4. PICK pr2 : pr2 = proc'
    OBVIOUS
  <2>5. c \notin DOMAIN proc /\ DOMAIN pr2 = DOMAIN proc \cup {c} /\ pr2[c] = r2 /\ \A q \in DOMAIN proc : pr2[q] = proc[q]
    BY <1>6, <1>8, <2>4 DEF Alive
  <2>6. HeapOf(m.heap, pr2)
    BY <2>2, <2>3, <2>5, HeapAdds
  <2>7. KeptOf(m.heap, pr2, kept)
    BY <1>1, <2>2, <2>5, KeptAdds DEF KeptInv
  <2> QED
    BY <1>1, <1>6, <2>4, <2>6, <2>7 DEF HeapInv, KeptInv
<1>22. VmemTypeOK'
  <2>1. kheap'.top \in Nat /\ kheap'.free \in Seq(Block)
    BY <1>21 DEF HeapInv, HeapOf, HeapSound, Heap
  <2>2. \A p \in Alive' : proc'[p] \in ProcessRecord
    BY <1>1, <1>8, <1>19 DEF VmemTypeOK
  <2>3. Alive' \subseteq Process /\ {kmain, current'} \subseteq Alive'
    BY <1>1, <1>6, <1>8 DEF VmemTypeOK
  <2>4. tlb' \in [Page -> Frame \cup {NULL}]
    BY <1>6 DEF NothingCached
  <2> QED
    BY <1>20, <1>21, <2>1, <2>2, <2>3, <2>4 DEF VmemTypeOK, SecondType, KeptInv
<1>23. proc'[kmain].pcb = NULL
  BY <1>1, <1>8 DEF VmemTypeOK
<1>24. MappedOnce'
  BY <1>1, <1>20, GainsMapsOnce
<1>25. RegionsMapped'
  <2>1. \A p \in Alive : RegionsOf(p)
    BY <1>1, RegionsAre DEF RegionsHold
  <2>2. PICK H : H = {}
    OBVIOUS
  <2>3. Holds(c)' = H \cup {<<m.page, MEMORY_SIZE>>}
    BY <1>7, <1>8, <1>12, <2>2 DEF Holds
  <2>4. RegionsOf(c)'
    BY <1>6, <1>17, <1>20, <2>2, <2>3, GainsRegion
  <2>5. \A p \in Alive : RegionsOf(p)'
    BY <1>6, <1>20, <2>1, OthersRegions DEF Gains
  <2>6. RegionsHold'
    BY <1>8, <2>4, <2>5 DEF RegionsHold
  <2> QED
    BY <2>6, RegionsAre, PTL
<1>26. MemoryApart'
  BY <1>1, <1>8, <1>12 DEF MemoryApart
<1>27. TlbIsolated'
  <2>1. \A q \in Page : tlb'[q] = NULL
    BY <1>6 DEF NothingCached
  <2> QED
    BY <2>1 DEF TlbIsolated
<1> QED
  BY <1>20, <1>21, <1>22, <1>23, <1>24, <1>25, <1>26, <1>27 DEF VmemInv

\* While the tables stay, so does all that is said of them.
LEMMA TablesStay ==
    ASSUME VmemInv, UNCHANGED <<proc, second, frame_table>>, current' \in Alive, HeapInv', KeptInv',
           tlb' \in [Page -> Frame \cup {NULL}], TlbIsolated'
    PROVE  VmemInv'
<1>1. Alive' = Alive
  BY DEF Alive
<1>2. \A p \in Alive : Holds(p)' = Holds(p)
  BY DEF Holds
<1>3. \A p : \A q \in Page : vmem_translate(q, p)' = vmem_translate(q, p)
  BY DEF vmem_translate
<1>4. VmemTypeOK'
  <2>1. kheap'.top \in Nat /\ kheap'.free \in Seq(Block)
    BY DEF HeapInv, HeapOf, HeapSound, Heap
  <2>2. kept' \subseteq [addr : Nat, size : Nat]
    BY DEF KeptInv
  <2> QED
    BY <1>1, <2>1, <2>2 DEF VmemInv, VmemTypeOK
<1>5. proc'[kmain].pcb = NULL
  BY DEF VmemInv
<1>6. TablesInUse' /\ MappedOnce' /\ MemoryApart'
  BY <1>1, <1>3 DEF VmemInv, TablesInUse, MappedOnce, MemoryApart
<1>7. RegionsMapped'
  <2>1. \A p \in Alive : RegionsOf(p)
    BY RegionsAre DEF VmemInv, RegionsHold
  <2>2. \A p \in Alive : RegionsOf(p)'
    BY <1>2, <1>3, <2>1 DEF RegionsOf
  <2>3. RegionsHold'
    BY <1>1, <2>2 DEF RegionsHold
  <2> QED
    BY <2>3, RegionsAre, PTL
<1> QED
  BY <1>4, <1>5, <1>6, <1>7 DEF VmemInv

\* So does what is said of the heap while it stays.
LEMMA HeapStays ==
    ASSUME VmemInv, UNCHANGED <<kheap, proc, kept>> PROVE HeapInv' /\ KeptInv'
  BY DEF VmemInv, HeapInv, KeptInv

\* A zombie's pcb is freed: it was beside what all others have.
LEMMA WaitKeeps ==
    ASSUME VmemInv, do_sys_waitpid PROVE VmemInv'
<1>1. VmemTypeOK /\ HeapInv /\ KeptInv /\ TlbIsolated
  BY DEF VmemInv
<1>2. PICK zombie \in kept :
        /\ zombie.size = PcbSize /\ kept' = kept \ {zombie}
        /\ kheap' = kFree(kheap, zombie.addr, PcbSize, FALSE)
  BY DEF do_sys_waitpid, Zombies
<1>3. UNCHANGED <<proc, second, frame_table, current, tlb>>
  BY DEF do_sys_waitpid
<1>4. PICK k2 : k2 = kFree(kheap, zombie.addr, PcbSize, FALSE)
  OBVIOUS
<1>5. Used(kheap, zombie) /\ BesideAll(proc, zombie) /\ \A t \in kept : zombie # t => Beside(zombie, t)
  BY <1>1 DEF KeptInv, KeptOf, AllApart
<1>6. HeapSound(k2) /\ \A s : Used(kheap, s) /\ Beside(zombie, s) => Used(k2, s)
  <2>1. HeapSound(kheap)
    BY <1>1 DEF HeapInv, HeapOf
  <2>2. Released(kheap, k2, zombie)
    BY <1>2, <1>4, <1>5, <2>1, FreeSound
  <2> QED
    BY <2>2 DEF Released
<1>7. ASSUME NEW p \in DOMAIN proc, NEW s \in SlotsOf(p, proc[p]) PROVE Used(k2, BlockOf(proc[p], s))
  <2>1. Used(kheap, BlockOf(proc[p], s))
    BY <1>1 DEF HeapInv, HeapOf, BlocksSound
  <2>2. Beside(zombie, BlockOf(proc[p], s))
    BY <1>5, BesideTurns DEF BesideAll
  <2> QED
    BY <1>6, <2>1, <2>2
<1>8. HeapOf(k2, proc)
  <2>1. HeapOf(kheap, proc)
    BY <1>1 DEF HeapInv
  <2> QED
    BY <1>6, <1>7, <2>1 DEF HeapOf, BlocksSound
<1>9. KeptOf(k2, proc, kept \ {zombie}) /\ kept \ {zombie} \subseteq [addr : Nat, size : Nat]
  BY <1>1, <1>5, <1>6 DEF KeptInv, KeptOf, AllApart
<1>10. HeapInv' /\ KeptInv'
  BY <1>2, <1>3, <1>4, <1>8, <1>9 DEF HeapInv, KeptInv
<1>11. current' \in Alive /\ tlb' \in [Page -> Frame \cup {NULL}]
  BY <1>1, <1>3 DEF VmemTypeOK
<1>12. TlbIsolated'
  <2>1. Alive' = Alive /\ \A p : \A q \in Page : vmem_translate(q, p)' = vmem_translate(q, p)
    BY <1>3 DEF Alive, vmem_translate
  <2> QED
    BY <1>1, <1>3, <2>1 DEF TlbIsolated
<1> QED
  BY <1>3, <1>10, <1>11, <1>12, TablesStay

LEMMA SwitchKeeps ==
    ASSUME VmemInv, NEW p, Switch(p) PROVE VmemInv'
<1>1. tlb' = NothingCached /\ current' \in Alive /\ UNCHANGED <<kheap, proc, kept, second, frame_table>>
  BY DEF Switch, switch_mmu_to
<1>2. tlb' \in [Page -> Frame \cup {NULL}] /\ \A q \in Page : tlb'[q] = NULL
  BY <1>1 DEF NothingCached
<1>3. TlbIsolated'
  BY <1>2 DEF TlbIsolated
<1> QED
  BY <1>1, <1>2, <1>3, HeapStays, TablesStay

LEMMA AccessKeeps ==
    ASSUME VmemInv, NEW page \in Page, Access(page) PROVE VmemInv'
<1>1. VmemTypeOK /\ MappedOnce /\ TlbIsolated
  BY DEF VmemInv
<1>2. /\ vmem_translate(page, current) # NULL /\ tlb' = [tlb EXCEPT ![page] = vmem_translate(page, current)]
      /\ UNCHANGED <<kheap, proc, kept, second, frame_table, current>>
  BY DEF Access
<1>3. current \in Alive /\ vmem_translate(page, current) \in Frame \cup {NULL}
  BY <1>1, TranslateType DEF VmemTypeOK
<1>4. tlb' \in [Page -> Frame \cup {NULL}]
  BY <1>1, <1>2, <1>3 DEF VmemTypeOK
<1>5. Alive' = Alive /\ \A p : \A q \in Page : vmem_translate(q, p)' = vmem_translate(q, p)
  BY <1>2 DEF Alive, vmem_translate
<1>6. ASSUME NEW pg \in Page, NEW p \in Alive \ {current}, NEW q \in Page, tlb'[pg] # NULL
      PROVE  vmem_translate(q, p) # tlb'[pg]
  <2>1. CASE pg = page
    <3>1. tlb'[pg] = vmem_translate(page, current)
      BY <1>1, <1>2, <2>1 DEF VmemTypeOK
    <3> QED
      BY <1>1, <1>2, <1>3, <3>1 DEF MappedOnce
  <2>2. CASE pg # page
    <3>1. tlb'[pg] = tlb[pg]
      BY <1>1, <1>2, <2>2 DEF VmemTypeOK
    <3> QED
      BY <1>1, <1>6, <3>1 DEF TlbIsolated
  <2> QED
    BY <2>1, <2>2
<1>7. TlbIsolated'
  BY <1>2, <1>5, <1>6 DEF TlbIsolated
<1> QED
  BY <1>2, <1>3, <1>4, <1>7, HeapStays, TablesStay

LEMMA StutterKeeps ==
    ASSUME VmemInv, UNCHANGED vars PROVE VmemInv'
<1>1. UNCHANGED <<kheap, proc, kept, second, frame_table, current, tlb>>
  BY DEF vars
<1>2. current' \in Alive /\ tlb' \in [Page -> Frame \cup {NULL}]
  BY <1>1 DEF VmemInv, VmemTypeOK
<1>3. TlbIsolated'
  <2>1. Alive' = Alive /\ \A p : \A q \in Page : vmem_translate(q, p)' = vmem_translate(q, p)
    BY <1>1 DEF Alive, vmem_translate
  <2> QED
    BY <1>1, <2>1 DEF VmemInv, TlbIsolated
<1> QED
  BY <1>1, <1>2, <1>3, HeapStays, TablesStay

-----------------------------------------------------------------------------
(* The invariant.                                                          *)

\* What the kernel takes first: its translation table.
LEMMA KernelTable ==
    ASSUME NEW k, NEW t, TranslationAllotted(k, t)
    PROVE  AllApart(t.heap, {FirstSpan(t.base)} \cup {TableSpan(a) : a \in ToSet(t.tables)})
<1>1. PICK K : K = {FirstSpan(t.base)} \cup {TableSpan(a) : a \in ToSet(t.tables)}
  OBVIOUS
<1>2. \A s \in K : s = FirstSpan(t.base) \/ \E j \in DOMAIN t.tables : s = TableSpan(t.tables[j])
  BY <1>1 DEF ToSet
<1>3. ASSUME NEW s \in K PROVE Used(t.heap, s) /\ \A u \in K : s # u => Beside(s, u)
  <2>1. CASE s = FirstSpan(t.base)
    BY <1>2, <2>1, BesideTurns DEF TranslationAllotted
  <2>2. ASSUME NEW j \in DOMAIN t.tables, s = TableSpan(t.tables[j])
        PROVE  Used(t.heap, s) /\ \A u \in K : s # u => Beside(s, u)
    <3>1. ASSUME NEW u \in K, s # u PROVE Beside(s, u)
      <4>1. CASE u = FirstSpan(t.base)
        BY <2>2, <4>1 DEF TranslationAllotted
      <4>2. ASSUME NEW l \in DOMAIN t.tables, u = TableSpan(t.tables[l]) PROVE Beside(s, u)
        <5>1. l # j
          BY <2>2, <3>1, <4>2
        <5> QED
          BY <2>2, <4>2, <5>1 DEF TranslationAllotted
      <4> QED
        BY <1>2, <4>1, <4>2
    <3> QED
      BY <2>2, <3>1 DEF TranslationAllotted
  <2> QED
    BY <1>2, <2>1, <2>2
<1> QED
  BY <1>1, <1>3 DEF AllApart

\* The frame table, the tables of kmain and the buffer come next, one beside the other.
Starts(k, frames, own, buffer) ==
    /\ frames = kAlloc(k, FRAME_TABLE_SIZE) /\ own = TranslationTable(frames.heap)
    /\ buffer = kAlloc(own.heap, CmdBufferSize)

OnlyKmain(pr, own) ==
    /\ DOMAIN pr = {kmain}
    /\ pr[kmain].page_table = own.base /\ pr[kmain].kernel_tables = own.tables /\ pr[kmain].first = NoFirst

StartTaken(K, frames, buffer) ==
    K \cup {Span(frames.addr, FRAME_TABLE_SIZE)} \cup {Span(buffer.addr, CmdBufferSize)}

LEMMA StartBlocks ==
    ASSUME NEW k, NEW K, HeapSound(k), AllApart(k, K), NEW frames, NEW own, NEW buffer,
           Starts(k, frames, own, buffer), NEW pr, OnlyKmain(pr, own)
    PROVE  /\ HeapOf(buffer.heap, pr)
           /\ KeptOf(buffer.heap, pr, StartTaken(K, frames, buffer))
           /\ own.base \in Nat /\ own.tables \in Seq(Nat) /\ frames.addr \in Nat /\ buffer.addr \in Nat
<1>1. frames = kAlloc(k, FRAME_TABLE_SIZE) /\ own = TranslationTable(frames.heap) /\ buffer = kAlloc(own.heap, CmdBufferSize)
  BY DEF Starts
<1>2. PICK r : r = pr[kmain]
  OBVIOUS
<1>3. r.page_table = own.base /\ r.kernel_tables = own.tables /\ r.first = NoFirst /\ DOMAIN pr = {kmain}
  BY <1>2 DEF OnlyKmain
<1>4. FRAME_TABLE_SIZE \in Nat \ {0} /\ CmdBufferSize \in Nat \ {0} /\ 1 \in Nat \ {0}
  BY VmemAssumption
<1>5. PICK table, line : table = Span(frames.addr, FRAME_TABLE_SIZE) /\ line = Span(buffer.addr, CmdBufferSize)
  OBVIOUS
<1>6. Allotted(k, frames.heap, table)
  BY <1>4, <1>5, <1>1, AllocSound DEF kAlloc
<1>7. AllApart(frames.heap, K \cup {table})
  BY <1>6, OneMoreApart
<1>8. TranslationAllotted(frames.heap, own)
  BY <1>6, <1>1, TranslationSound DEF Allotted
<1>9. Owned(frames.heap, own.heap, kmain, r)
  BY <1>8, <1>3, KmainBlocks
<1>10. HeapSound(own.heap) /\ own.base \in Nat /\ own.tables \in Seq(Nat)
  BY <1>8 DEF TranslationAllotted, Used, FirstSpan, Span
<1>11. Allotted(own.heap, buffer.heap, line)
  BY <1>4, <1>5, <1>10, <1>1, AllocSound DEF kAlloc
<1>12. AllApart(own.heap, K \cup {table})
  BY <1>7, <1>9 DEF AllApart, Owned
<1>13. AllApart(buffer.heap, (K \cup {table}) \cup {line})
  BY <1>11, <1>12, OneMoreApart
<1>14. ASSUME NEW t \in SlotsOf(kmain, r)
       PROVE  /\ Used(buffer.heap, BlockOf(r, t)) /\ Beside(BlockOf(r, t), line)
              /\ \A s \in K \cup {table} : Beside(BlockOf(r, t), s)
  <2>1. Used(own.heap, BlockOf(r, t))
    BY <1>9 DEF Owned, BlocksSound
  <2>2. Used(buffer.heap, BlockOf(r, t)) /\ Beside(line, BlockOf(r, t))
    BY <1>11, <2>1 DEF Allotted
  <2>3. \A s \in K \cup {table} : Used(frames.heap, s)
    BY <1>7 DEF AllApart
  <2> QED
    BY <1>9, <2>2, <2>3, BesideTurns DEF Owned
<1>15. HeapOf(buffer.heap, pr)
  <2>1. HeapSound(buffer.heap)
    BY <1>11 DEF Allotted
  <2>2. BlocksSound(buffer.heap, kmain, r)
    BY <1>9, <1>14 DEF Owned, BlocksSound
  <2> QED
    BY <1>2, <1>3, <2>1, <2>2 DEF HeapOf
<1>16. \A s \in (K \cup {table}) \cup {line} : BesideAll(pr, s)
  BY <1>14, <1>2, <1>3 DEF BesideAll
<1>17. KeptOf(buffer.heap, pr, (K \cup {table}) \cup {line})
  BY <1>13, <1>16 DEF KeptOf
<1>18. frames.addr \in Nat /\ buffer.addr \in Nat
  BY <1>5, <1>6, <1>11 DEF Allotted, Used, Span
<1> QED
  BY <1>5, <1>10, <1>15, <1>17, <1>18 DEF StartTaken

LEMMA InitKeeps == Init => VmemInv
<1> SUFFICES ASSUME Init PROVE VmemInv
  OBVIOUS
<1>1. PICK k : k = [top |-> kernel_heap_start, free |-> <<>>]
  OBVIOUS
<1>2. PICK kernel : kernel = TranslationTable(k)
  OBVIOUS
<1>3. PICK frames : frames = kAlloc(kernel.heap, FRAME_TABLE_SIZE)
  OBVIOUS
<1>4. PICK own : own = TranslationTable(frames.heap)
  OBVIOUS
<1>5. PICK buffer : buffer = kAlloc(own.heap, CmdBufferSize)
  OBVIOUS
<1>6. PICK r : r = [pcb |-> NULL, page_table |-> own.base, kernel_tables |-> own.tables,
                     first |-> NoFirst, memory_start |-> 0, mapped |-> {}]
  OBVIOUS
<1>7. PICK K : K = {FirstSpan(kernel.base)} \cup {TableSpan(a) : a \in ToSet(kernel.tables)}
  OBVIOUS
<1>8. /\ kheap = buffer.heap /\ proc = [p \in {kmain} |-> r] /\ second = [a \in {} |-> EmptyTable]
      /\ frame_table = {} /\ current = kmain /\ tlb = NothingCached
      /\ kept = K \cup {Span(frames.addr, FRAME_TABLE_SIZE)} \cup {Span(buffer.addr, CmdBufferSize)}
  BY <1>1, <1>2, <1>3, <1>4, <1>5, <1>6, <1>7 DEF Init, FirstSpan
<1>9. /\ r.pcb = NULL /\ r.page_table = own.base /\ r.kernel_tables = own.tables /\ r.first = NoFirst
      /\ r.memory_start = 0 /\ r.mapped = {}
  BY <1>6
<1>10. Alive = {kmain} /\ proc[kmain] = r /\ DOMAIN second = {}
  BY <1>8 DEF Alive
<1>11. HeapSound(k)
  <2>1. k.top = kernel_heap_start /\ k.free = <<>> /\ k.top \in Nat /\ k.free \in Seq(Block) /\ DOMAIN k.free = {}
    BY <1>1, VmemAssumption
  <2>2. k \in Heap
    BY <1>1, <2>1 DEF Heap
  <2> QED
    BY <2>1, <2>2 DEF HeapSound
<1>12. TranslationAllotted(k, kernel)
  BY <1>2, <1>11, TranslationSound
<1>13. HeapSound(kernel.heap) /\ AllApart(kernel.heap, K)
  BY <1>12, <1>7, KernelTable DEF TranslationAllotted
<1>14. DOMAIN proc = {kmain}
  BY <1>8
<1>15. /\ HeapOf(kheap, proc) /\ KeptOf(kheap, proc, kept)
       /\ own.base \in Nat /\ own.tables \in Seq(Nat) /\ frames.addr \in Nat /\ buffer.addr \in Nat
  <2>1. Starts(kernel.heap, frames, own, buffer)
    BY <1>3, <1>4, <1>5 DEF Starts
  <2>2. OnlyKmain(proc, own)
    BY <1>9, <1>10, <1>14 DEF OnlyKmain
  <2>3. kept = StartTaken(K, frames, buffer)
    BY <1>8 DEF StartTaken
  <2> QED
    BY <1>8, <1>13, <2>1, <2>2, <2>3, StartBlocks
<1>16. kept \subseteq [addr : Nat, size : Nat]
  <2>1. kernel.base \in Nat /\ kernel.tables \in Seq(Nat)
    BY <1>12 DEF TranslationAllotted, Used, FirstSpan, Span
  <2>2. \A a \in ToSet(kernel.tables) : a \in Nat
    BY <2>1 DEF ToSet
  <2>3. {FRAME_TABLE_SIZE, CmdBufferSize, SECON_LVL_TT_COUN, FIRST_LVL_TT_SIZE} \subseteq Nat
    BY VmemAssumption
  <2> QED
    BY <1>8, <1>7, <1>15, <2>1, <2>2, <2>3 DEF FirstSpan, TableSpan, Span
<1>17. HeapInv /\ KeptInv
  BY <1>15, <1>16 DEF HeapInv, KeptInv
<1>18. NoFirst \in [Index1 -> Nat] /\ \A i \in Index1 : NoFirst[i] = NULL
  BY DEF NoFirst, Index1, NULL
<1>19. \A q \in Page : vmem_translate(q, kmain) = NULL
  <2>1. ASSUME NEW q \in Page PROVE vmem_translate(q, kmain) = NULL
    <3>1. At1(q) \in Index1
      BY PageIndices
    <3> QED
      BY <1>9, <1>10, <1>18, <3>1 DEF vmem_translate, Through, At1
  <2> QED
    BY <2>1
<1>20. VmemTypeOK
  <2>1. kheap.top \in Nat /\ kheap.free \in Seq(Block)
    BY <1>17 DEF HeapInv, HeapOf, HeapSound, Heap
  <2>2. r \in ProcessRecord
    <3>1. own.base \in Nat /\ own.tables \in Seq(Nat)
      BY <1>15
    <3>2. 0 \in Page
      <4>1. PICK n : n = NbUserTables * SECON_LVL_TT_COUN
        OBVIOUS
      <4>2. NbUserTables \in Nat \ {0} /\ SECON_LVL_TT_COUN \in Nat \ {0}
        BY VmemAssumption
      <4>3. n \in Nat /\ 0 < n
        BY <4>1, <4>2
      <4> QED
        BY <4>1, <4>3 DEF Page
    <3>3. NoFirst \in [0 .. NbUserTables - 1 -> Nat]
      BY <1>18 DEF Index1
    <3>4. PICK z \in Nat, start \in Page : z = NULL /\ start = 0
      BY <3>2 DEF NULL
    <3>5. PICK f \in [0 .. NbUserTables - 1 -> Nat] : f = NoFirst
      BY <3>3
    <3>6. r = [pcb |-> z, page_table |-> own.base, kernel_tables |-> own.tables,
               first |-> f, memory_start |-> start, mapped |-> {}]
      BY <1>6, <3>4, <3>5
    <3> QED
      BY <3>1, <3>6 DEF ProcessRecord
  <2>3. DOMAIN second = {proc[p].first[i] : p \in Alive, i \in 0 .. NbUserTables - 1} \ {NULL}
    <3> DEFINE D == {proc[p].first[i] : p \in Alive, i \in 0 .. NbUserTables - 1} \ {NULL}
    <3>1. \A p \in Alive, i \in 0 .. NbUserTables - 1 : proc[p].first[i] = NULL
      BY <1>9, <1>10, <1>18 DEF Index1
    <3>2. \A a : a \notin D
      BY <3>1
    <3> HIDE DEF D
    <3>3. D = {}
      BY <3>2
    <3> QED
      BY <1>10, <3>3 DEF D
  <2>4. tlb \in [Page -> Frame \cup {NULL}]
    BY <1>8 DEF NothingCached
  <2>5. Alive \subseteq Process /\ {kmain, current} \subseteq Alive /\ \A p \in Alive : proc[p] \in ProcessRecord
    BY <1>8, <1>10, <2>2, VmemAssumption
  <2>6. frame_table \subseteq Frame /\ \A a \in DOMAIN second : second[a] \in [Index2 -> Frame \cup {NULL}]
    BY <1>8, <1>10
  <2> QED
    BY <1>16, <2>1, <2>3, <2>4, <2>5, <2>6 DEF VmemTypeOK
<1>21. TablesInUse
  BY <1>9, <1>10, <1>18 DEF TablesInUse, Index1
<1>22. MappedOnce
  <2>1. \A p \in Alive, q \in Page : vmem_translate(q, p) = NULL
    BY <1>10, <1>19
  <2> QED
    BY <1>8, <2>1, NullIsNoFrame DEF MappedOnce
<1>23. RegionsMapped
  <2>1. Holds(kmain) = {}
    BY <1>9, <1>10 DEF Holds
  <2>2. RegionsOf(kmain)
    BY <1>19, <2>1 DEF RegionsOf
  <2>3. RegionsHold
    BY <1>10, <2>2 DEF RegionsHold
  <2> QED
    BY <2>3, RegionsAre
<1>24. MemoryApart /\ TlbIsolated
  BY <1>8, <1>10 DEF MemoryApart, TlbIsolated
<1> QED
  BY <1>9, <1>10, <1>17, <1>20, <1>21, <1>22, <1>23, <1>24 DEF VmemInv

LEMMA NextKeeps ==
    ASSUME VmemInv, [Next]_vars PROVE VmemInv'
<1>1. CASE \E p \in Process : add_process(p)
  BY <1>1, AddKeeps
<1>2. CASE \E p \in Process : Switch(p)
  BY <1>2, SwitchKeeps
<1>3. CASE \E p \in Process, orphan \in BOOLEAN : do_sys_exit(p, orphan)
  BY <1>3, ExitKeeps
<1>4. CASE \E size \in MmapSizes : do_sys_mmap(size)
  BY <1>4, MmapKeeps
<1>5. CASE \E m \in proc[current].mapped : do_sys_munmap(m[1], m[2])
  BY <1>5, MunmapKeeps
<1>6. CASE \E page \in Page : Access(page)
  BY <1>6, AccessKeeps
<1>7. CASE do_sys_waitpid
  BY <1>7, WaitKeeps
<1>8. CASE UNCHANGED vars
  BY <1>8, StutterKeeps
<1> QED
  BY <1>1, <1>2, <1>3, <1>4, <1>5, <1>6, <1>7, <1>8 DEF Next

\* The inductive invariant of virtual memory, with what the properties below need beside
\* themselves: every block of a process is in use in the heap and beside those of all others,
\* a table of the second level is there as long as something is mapped in it (so that vmem_free
\* frees just the tables that are empty), and the occupied frames are those that are mapped.
THEOREM VmemInvariant == Spec => []VmemInv
<1> QED
  BY InitKeeps, NextKeeps, PTL DEF Spec

\* The state stays well typed.
THEOREM VmemTypes == Spec => []VmemTypeOK
<1>1. VmemInv => VmemTypeOK
  BY DEF VmemInv
<1> QED
  BY <1>1, VmemInvariant, PTL

\* A process can reach the pages of its stack, its heap and what it mapped, and no others; what
\* add_process, sys_mmap and sys_munmap do to two processes, or to two regions, never overlaps.
THEOREM ReachesItsRegions == Spec => []RegionsMapped
<1>1. VmemInv => RegionsMapped
  BY DEF VmemInv
<1> QED
  BY <1>1, VmemInvariant, PTL

\* What the processor has cached of the current process, also of pages that sys_munmap has taken
\* from it since, is not the frame of another process: switch_mmu_to comes before anyone gets it.
THEOREM CachedIsOwn == Spec => []TlbIsolated
<1>1. VmemInv => TlbIsolated
  BY DEF VmemInv
<1> QED
  BY <1>1, VmemInvariant, PTL

\* The occupation table marks the frames that are mapped, each for one page of one process:
\* vmem_alloc_for_userland takes only free ones, vmem_free gives all back.
THEOREM FramesAreExact == Spec => []FramesExact
<1>1. ASSUME VmemInv PROVE FramesExact
  <2>1. /\ \A frame \in Frame : frame \in frame_table <=> \E p \in Alive, q \in Page : vmem_translate(q, p) = frame
        /\ \A p, p2 \in Alive, q, q2 \in Page :
            vmem_translate(q, p) # NULL /\ vmem_translate(q, p) = vmem_translate(q2, p2) => p = p2 /\ q = q2
    BY <1>1 DEF VmemInv, MappedOnce
  <2>2. ASSUME NEW frame \in Frame
        PROVE  Cardinality({m \in Alive \X Page : vmem_translate(m[2], m[1]) = frame}) =
                   IF frame \in frame_table THEN 1 ELSE 0
    <3> DEFINE M == {m \in Alive \X Page : vmem_translate(m[2], m[1]) = frame}
    <3>1. frame # NULL
      BY NullIsNoFrame
    <3>2. CASE frame \in frame_table
      <4>1. PICK p \in Alive, q \in Page : vmem_translate(q, p) = frame
        BY <2>1, <3>2
      <4>2. <<p, q>> \in M
        BY <4>1
      <4>3. ASSUME NEW m \in M PROVE m = <<p, q>>
        <5>1. m = <<m[1], m[2]>> /\ m[1] \in Alive /\ m[2] \in Page /\ vmem_translate(m[2], m[1]) = frame
          BY <4>3
        <5>2. m[1] = p /\ m[2] = q
          BY <2>1, <3>1, <4>1, <5>1
        <5> QED
          BY <5>1, <5>2
      <4> HIDE DEF M
      <4>4. M = {<<p, q>>}
        BY <4>2, <4>3
      <4> QED
        BY <3>2, <4>4, FS_Singleton DEF M
    <3>3. CASE frame \notin frame_table
      <4>1. \A m : m \notin M
        BY <2>1, <3>3
      <4> HIDE DEF M
      <4>2. M = {}
        BY <4>1
      <4> QED
        BY <3>3, <4>2, FS_EmptySet DEF M
    <3> QED
      BY <3>2, <3>3
  <2> QED
    BY <2>2 DEF FramesExact
<1> QED
  BY <1>1, VmemInvariant, PTL

-----------------------------------------------------------------------------
(* The kernel heap hands out what nobody has.                              *)

\* Blocks that are one beside the other share no word.
LEMMA BesideIsApart ==
    ASSUME NEW r, NEW s, r.addr \in Nat, r.size \in Nat, s.addr \in Nat, s.size \in Nat, Beside(r, s)
    PROVE  Promise!Apart(r, s)
BY DEF Beside, Promise!Apart, Promise!Words

\* What the kernel has of its heap is kept, or it has it for one of the processes.
LEMMA KernelBlocksAre ==
    ASSUME NEW b \in KernelBlocks
    PROVE  \/ \E s \in kept : b = Held(Nobody, <<"kept", 0>>, s)
           \/ \E p \in Alive : \E s \in SlotsOf(p, proc[p]) : b = Held(p, s, BlockOf(proc[p], s))
BY DEF KernelBlocks

\* For whom does not matter for where.
LEMMA HeldIs ==
    ASSUME NEW owner, NEW slot, NEW s
    PROVE  /\ Held(owner, slot, s).addr = s.addr /\ Held(owner, slot, s).size = s.size
           /\ \A k : Used(k, Held(owner, slot, s)) <=> Used(k, s)
           /\ \A t : (Beside(Held(owner, slot, s), t) <=> Beside(s, t)) /\ (Beside(t, Held(owner, slot, s)) <=> Beside(t, s))
<1>1. Held(owner, slot, s).addr = s.addr /\ Held(owner, slot, s).size = s.size
  BY DEF Held
<1> QED
  BY <1>1 DEF Used, Beside

LEMMA KernelBlocksApart ==
    ASSUME VmemInv
    PROVE  /\ \A b \in KernelBlocks : Used(kheap, b)
           /\ \A b, c \in KernelBlocks : b # c => Promise!Apart(b, c)
<1>1. /\ \A p \in Alive : \A s \in SlotsOf(p, proc[p]) :
           /\ Used(kheap, BlockOf(proc[p], s))
           /\ \A t \in SlotsOf(p, proc[p]) : s # t => Beside(BlockOf(proc[p], s), BlockOf(proc[p], t))
      /\ \A p, q \in Alive : p # q =>
           \A s \in SlotsOf(p, proc[p]), t \in SlotsOf(q, proc[q]) : Beside(BlockOf(proc[p], s), BlockOf(proc[q], t))
  BY DEF VmemInv, HeapInv, HeapOf, BlocksSound, BlocksBeside, Alive
<1>2. \A s \in kept :
        /\ Used(kheap, s) /\ \A t \in kept : s # t => Beside(s, t)
        /\ \A p \in Alive : \A t \in SlotsOf(p, proc[p]) : Beside(BlockOf(proc[p], t), s)
  BY DEF VmemInv, KeptInv, KeptOf, AllApart, BesideAll, Alive
<1>3. ASSUME NEW b \in KernelBlocks PROVE Used(kheap, b)
  <2>1. CASE \E s \in kept : b = Held(Nobody, <<"kept", 0>>, s)
    BY <1>2, <2>1, HeldIs
  <2>2. CASE \E p \in Alive : \E s \in SlotsOf(p, proc[p]) : b = Held(p, s, BlockOf(proc[p], s))
    BY <1>1, <2>2, HeldIs
  <2> QED
    BY <2>1, <2>2, KernelBlocksAre
<1>4. ASSUME NEW b \in KernelBlocks, NEW c \in KernelBlocks, b # c PROVE Beside(b, c)
  <2>1. ASSUME NEW s \in kept, b = Held(Nobody, <<"kept", 0>>, s) PROVE Beside(b, c)
    <3>1. ASSUME NEW t \in kept, c = Held(Nobody, <<"kept", 0>>, t) PROVE Beside(b, c)
      <4>1. s # t
        BY <1>4, <2>1, <3>1
      <4>2. Beside(s, t)
        BY <1>2, <4>1
      <4> QED
        BY <2>1, <3>1, <4>2, HeldIs
    <3>2. ASSUME NEW q \in Alive, NEW t \in SlotsOf(q, proc[q]), c = Held(q, t, BlockOf(proc[q], t)) PROVE Beside(b, c)
      <4>1. Beside(s, BlockOf(proc[q], t))
        BY <1>2, BesideTurns
      <4> QED
        BY <2>1, <3>2, <4>1, HeldIs
    <3> QED
      BY <3>1, <3>2, KernelBlocksAre
  <2>2. ASSUME NEW p \in Alive, NEW s \in SlotsOf(p, proc[p]), b = Held(p, s, BlockOf(proc[p], s)) PROVE Beside(b, c)
    <3>1. ASSUME NEW t \in kept, c = Held(Nobody, <<"kept", 0>>, t) PROVE Beside(b, c)
      <4>1. Beside(BlockOf(proc[p], s), t)
        BY <1>2
      <4> QED
        BY <2>2, <3>1, <4>1, HeldIs
    <3>2. ASSUME NEW q \in Alive, NEW t \in SlotsOf(q, proc[q]), c = Held(q, t, BlockOf(proc[q], t)) PROVE Beside(b, c)
      <4>1. p = q => s # t
        BY <1>4, <2>2, <3>2
      <4>2. Beside(BlockOf(proc[p], s), BlockOf(proc[q], t))
        BY <1>1, <4>1
      <4> QED
        BY <2>2, <3>2, <4>2, HeldIs
    <3> QED
      BY <3>1, <3>2, KernelBlocksAre
  <2> QED
    BY <2>1, <2>2, KernelBlocksAre
<1>5. ASSUME NEW b \in KernelBlocks, NEW c \in KernelBlocks, b # c PROVE Promise!Apart(b, c)
  <2>1. b.addr \in Nat /\ b.size \in Nat /\ c.addr \in Nat /\ c.size \in Nat
    BY <1>3 DEF Used
  <2> QED
    BY <1>4, <1>5, <2>1, BesideIsApart
<1> QED
  BY <1>3, <1>5

\* kAlloc, kAlloc_aligned and kFree implement an allocator: what add_process, sys_mmap and exit
\* take and give back is never shared, pcbs and tables of both levels alike.
THEOREM KernelHeapImplementsRegions == Spec => KeepsBlocksApart
<1> DEFINE HeldApart == \A b, c \in KernelBlocks : b # c => Promise!Apart(b, c)
<1>1. VmemInv => HeldApart
  BY KernelBlocksApart
<1>2. HeldApart => Promise!RegionsInit
  BY DEF Promise!RegionsInit
<1>3. HeldApart' => Promise!RegionsNext
  BY DEF Promise!RegionsNext, Promise!Exchange, Promise!Apart, Promise!Words
<1> HIDE DEF HeldApart
<1> QED
  BY <1>1, <1>2, <1>3, InitKeeps, VmemInvariant, PTL DEF Spec, KeepsBlocksApart, Promise!RegionsSpec

\* The free list: its blocks lie within the heap, no two share a word, and none is anybody's.
\* That two calls take one block, or that one block is freed twice, cannot happen.
THEOREM FreeListIsApart == Spec => []FreeListApart
<1>1. ASSUME VmemInv PROVE FreeListApart
  <2>1. HeapSound(kheap) /\ kheap \in Heap
    BY <1>1 DEF VmemInv, HeapInv, HeapOf, HeapSound
  <2>2. \A i \in DOMAIN kheap.free : kheap.free[i].addr \in Nat /\ kheap.free[i].size \in Nat
    BY <2>1, HeapIs
  <2>3. \A i \in DOMAIN kheap.free : \A r \in KernelBlocks :
          r.addr \in Nat /\ r.size \in Nat /\ Beside(kheap.free[i], r)
    BY <1>1, KernelBlocksApart DEF Used
  <2>4. ASSUME NEW i \in DOMAIN kheap.free
        PROVE  /\ kheap.free[i].addr >= kernel_heap_start
               /\ kheap.free[i].addr + kheap.free[i].size <= kheap.top
               /\ \A j \in DOMAIN kheap.free \ {i} : Promise!Apart(kheap.free[i], kheap.free[j])
               /\ \A r \in KernelBlocks : Promise!Apart(kheap.free[i], r)
    <3>1. kheap.free[i].addr >= kernel_heap_start /\ kheap.free[i].addr + kheap.free[i].size <= kheap.top
      BY <2>1, <2>2, VmemAssumption DEF HeapSound
    <3>2. \A j \in DOMAIN kheap.free \ {i} : Promise!Apart(kheap.free[i], kheap.free[j])
      BY <2>1, <2>2, BesideIsApart DEF HeapSound
    <3>3. \A r \in KernelBlocks : Promise!Apart(kheap.free[i], r)
      BY <2>2, <2>3, BesideIsApart
    <3> QED
      BY <3>1, <3>2, <3>3
  <2> QED
    BY <2>4 DEF FreeListApart
<1> QED
  BY <1>1, VmemInvariant, PTL
=============================================================================

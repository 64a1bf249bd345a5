---------------------------- MODULE MallocProofs ----------------------------
(* What holds of the process heap for every heap size, header size and sizes asked for, as     *)
(* long as programs keep to the calls that malloc.c serves rightly (Careful).                   *)
EXTENDS Malloc, FiniteSetTheorems, WellFoundedInduction, TLAPS

\* The headers hp are one list from the start of the heap up: no block reaches into the next,
\* and none lies between a block and the next.
OneList(hp) ==
    /\ DOMAIN hp \subseteq Nat
    /\ \A b \in DOMAIN hp : hp[b] \in Header
    /\ HeapStart \in DOMAIN hp /\ hp[HeapStart].previous = NULL
    /\ \A b \in DOMAIN hp :
        /\ hp[b].next # NULL =>
               /\ hp[b].next \in DOMAIN hp /\ hp[hp[b].next].previous = b
               /\ b + HEAP_BLOCK_SIZE + hp[b].size <= hp[b].next
        /\ hp[b].previous # NULL => hp[b].previous \in DOMAIN hp /\ hp[hp[b].previous].next = b
        /\ hp[b].previous = NULL => b = HeapStart
    /\ \A b, c \in DOMAIN hp : b < c => hp[b].next # NULL /\ hp[b].next <= c

\* Two free blocks one behind the other, the second not the last: gfree has them to merge.
ToMerge(hp, b) ==
    /\ hp[b].is_free /\ hp[b].next # NULL
    /\ hp[hp[b].next].is_free /\ hp[hp[b].next].next # NULL

\* What a call knows in its loops of what it found when it was made.
CallState ==
    /\ pc = "idle" => size = 0 /\ moving = NULL
    /\ pc = "find_free_block" =>
           /\ size \in Sizes /\ SafeToAsk(size)
           /\ \A c \in DOMAIN heap : c < block => ~Fits(c, size)
           /\ moving # NULL => Next_(moving) # NULL
    /\ pc = "copy" => size = 0 /\ moving # NULL /\ Next_(moving) # NULL
    /\ pc \in {"go_back", "fusion"} => size = 0 /\ moving = NULL /\ heap[block].is_free
    /\ pc = "go_back" => MayFree(block)
    /\ pc = "fusion" => Next_(block) # NULL

\* Free neighbours are at most three in a row, and only around the block that was freed.
Merging ==
    /\ pc \in {"idle", "find_free_block", "copy"} => \A b \in DOMAIN heap : ~ToMerge(heap, b)
    /\ pc = "go_back" =>
        \/ \A b \in DOMAIN heap : ToMerge(heap, b) => b = block \/ Next_(b) = block
        \/ \A b \in DOMAIN heap : ToMerge(heap, b) => b = block \/ b = Next_(block)
    /\ pc = "fusion" => \A b \in DOMAIN heap : ToMerge(heap, b) => b = block \/ b = Next_(block)

MallocInv == OneList(heap) /\ MallocTypeOK /\ CallState /\ Merging

-----------------------------------------------------------------------------
(* What the operations on the headers do to the list.                      *)

\* No block but the next one is between a block and what lies behind it.
LEMMA NextIsAbove ==
    ASSUME NEW hp, OneList(hp), NEW b \in DOMAIN hp, hp[b].next # NULL
    PROVE  /\ hp[b].next \in DOMAIN hp /\ b < hp[b].next
           /\ b + HEAP_BLOCK_SIZE + hp[b].size <= hp[b].next
           /\ hp[hp[b].next].previous = b
           /\ \A c \in DOMAIN hp : hp[c].next = hp[b].next => c = b
<1>1. b \in Nat /\ hp[b] \in Header
  BY DEF OneList
<1> QED
  BY <1>1, MallocAssumption DEF OneList, Header, NULL

\* Whether a block is in use is nothing to the links.
LEMMA FlagKeepsList ==
    ASSUME NEW hp, OneList(hp), NEW b \in DOMAIN hp, NEW f \in BOOLEAN
    PROVE  OneList([hp EXCEPT ![b].is_free = f])
<1> DEFINE new == [hp EXCEPT ![b].is_free = f]
<1>1. DOMAIN new = DOMAIN hp
  OBVIOUS
<1>2. \A a \in DOMAIN hp : /\ new[a] \in Header
                           /\ new[a].size = hp[a].size
                           /\ new[a].next = hp[a].next
                           /\ new[a].previous = hp[a].previous
  BY DEF OneList, Header
<1>3. OneList(new)
  <2> HIDE DEF new
  <2> QED
    BY <1>1, <1>2 DEF OneList
<1> QED
  BY <1>3

\* What split_block asks of a block, and what becomes of the headers.
CanSplit(hp, b, s) ==
    /\ b \in DOMAIN hp /\ s \in Nat /\ s <= hp[b].size
    /\ hp[b].next # NULL => b + hp[b].size + 2 * HEAP_BLOCK_SIZE <= hp[b].next

IsSplit(hp, new, b, s, second) ==
    /\ second = b + s + HEAP_BLOCK_SIZE /\ second \in Nat /\ second \notin DOMAIN hp
    /\ DOMAIN new = DOMAIN hp \cup {second}
    /\ \A a \in DOMAIN new : new[a] \in Header
    /\ new[second].size = hp[b].size - s /\ new[second].next = hp[b].next
    /\ new[second].previous = b /\ new[second].is_free
    /\ new[b].size = s /\ new[b].next = second
    /\ new[b].previous = hp[b].previous /\ new[b].is_free = hp[b].is_free
    /\ \A a \in DOMAIN hp \ {b} :
           /\ new[a].size = hp[a].size /\ new[a].next = hp[a].next
           /\ new[a].previous = IF a = hp[b].next THEN second ELSE hp[a].previous
           /\ new[a].is_free = hp[a].is_free

\* split_block, header by header.
LEMMA SplitHeaders ==
    ASSUME NEW hp, OneList(hp), NEW b, NEW s, CanSplit(hp, b, s)
    PROVE  IsSplit(hp, split_block(hp, b, s), b, s, b + s + HEAP_BLOCK_SIZE)
<1> SUFFICES ASSUME NEW second, second = b + s + HEAP_BLOCK_SIZE,
                    NEW new, new = split_block(hp, b, s)
             PROVE  IsSplit(hp, new, b, s, second)
  OBVIOUS
<1>0. /\ b \in DOMAIN hp /\ s \in Nat /\ s <= hp[b].size
      /\ hp[b].next # NULL => b + hp[b].size + 2 * HEAP_BLOCK_SIZE <= hp[b].next
  BY DEF CanSplit
<1> DEFINE mid == [a \in DOMAIN hp \cup {second} |->
                      CASE a = second -> [size |-> hp[b].size - s, next |-> hp[b].next,
                                          previous |-> b, is_free |-> TRUE]
                        [] a = b -> [hp[b] EXCEPT !.size = s, !.next = second]
                        [] OTHER -> hp[a]]
<1>1. b \in Nat /\ hp[b] \in Header /\ hp[b].size \in Nat /\ DOMAIN hp \subseteq Nat
  BY <1>0 DEF OneList, Header
<1>2. HEAP_BLOCK_SIZE \in Nat \ {0}
  BY MallocAssumption
<1>3. second \in Nat /\ b < second /\ second # NULL
  BY <1>0, <1>1, <1>2 DEF NULL
<1>4. hp[b].next # NULL => hp[b].next \in DOMAIN hp /\ second < hp[b].next
  BY <1>0, <1>1, <1>2 DEF OneList
<1>5. second \notin DOMAIN hp
  BY <1>0, <1>1, <1>2, <1>3, <1>4 DEF OneList
<1>6. /\ DOMAIN mid = DOMAIN hp \cup {second}
      /\ mid[second] = [size |-> hp[b].size - s, next |-> hp[b].next, previous |-> b, is_free |-> TRUE]
      /\ mid[b] = [hp[b] EXCEPT !.size = s, !.next = second]
      /\ \A a \in DOMAIN hp \ {b} : mid[a] = hp[a]
  BY <1>0, <1>5
<1>7. new = LinkBack(mid, second, hp[b].next)
  BY DEF split_block
<1> HIDE DEF mid
<1>8. /\ DOMAIN new = DOMAIN hp \cup {second}
      /\ new[second] = [size |-> hp[b].size - s, next |-> hp[b].next, previous |-> b, is_free |-> TRUE]
      /\ new[b] = [hp[b] EXCEPT !.size = s, !.next = second]
      /\ \A a \in DOMAIN hp \ {b} :
             new[a] = IF a = hp[b].next THEN [hp[a] EXCEPT !.previous = second] ELSE hp[a]
  <2>1. CASE hp[b].next = NULL
    <3>1. new = mid
      BY <1>7, <2>1 DEF LinkBack
    <3>2. \A a \in DOMAIN hp : a # hp[b].next
      BY <1>1, <2>1 DEF NULL
    <3> QED
      BY <1>5, <1>6, <3>1, <3>2
  <2>2. CASE hp[b].next # NULL
    <3>1. new = [mid EXCEPT ![hp[b].next].previous = second]
      BY <1>7, <2>2 DEF LinkBack
    <3>2. hp[b].next \in DOMAIN hp \ {b} /\ hp[b].next # second
      BY <1>4, <2>2, <1>1, <1>3
    <3>3. /\ DOMAIN new = DOMAIN mid
          /\ new[second] = mid[second] /\ new[b] = mid[b]
          /\ new[hp[b].next] = [mid[hp[b].next] EXCEPT !.previous = second]
          /\ \A a \in DOMAIN hp \ {b, hp[b].next} : new[a] = mid[a]
      BY <1>6, <3>1, <3>2, <1>3
    <3> QED
      BY <1>5, <1>6, <3>2, <3>3
  <2> QED
    BY <2>1, <2>2
<1>9. \A a \in DOMAIN hp : hp[a] \in Header
  BY DEF OneList
<1>10. /\ new[second] \in Header
       /\ new[second].size = hp[b].size - s /\ new[second].next = hp[b].next
       /\ new[second].previous = b /\ new[second].is_free
  BY <1>0, <1>1, <1>8, <1>9 DEF Header
<1>11. /\ new[b] \in Header /\ new[b].size = s /\ new[b].next = second
       /\ new[b].previous = hp[b].previous /\ new[b].is_free = hp[b].is_free
  BY <1>0, <1>1, <1>3, <1>8, <1>9 DEF Header
<1>12. \A a \in DOMAIN hp \ {b} :
           /\ new[a] \in Header /\ new[a].size = hp[a].size /\ new[a].next = hp[a].next
           /\ new[a].previous = IF a = hp[b].next THEN second ELSE hp[a].previous
           /\ new[a].is_free = hp[a].is_free
  BY <1>3, <1>8, <1>9 DEF Header
<1> QED
  BY <1>3, <1>5, <1>8, <1>10, <1>11, <1>12 DEF IsSplit

\* A block that is split makes two of the list, if the second header has room.
LEMMA SplitKeepsList ==
    ASSUME NEW hp, OneList(hp), NEW b, NEW s, CanSplit(hp, b, s)
    PROVE  OneList(split_block(hp, b, s))
<1> SUFFICES ASSUME NEW second, NEW new, IsSplit(hp, new, b, s, second)
             PROVE  OneList(new)
  BY SplitHeaders
<1>0. /\ b \in DOMAIN hp /\ s \in Nat /\ s <= hp[b].size
      /\ hp[b].next # NULL => b + hp[b].size + 2 * HEAP_BLOCK_SIZE <= hp[b].next
  BY DEF CanSplit
<1>1. /\ second \in Nat /\ second \notin DOMAIN hp /\ DOMAIN new = DOMAIN hp \cup {second}
      /\ second = b + s + HEAP_BLOCK_SIZE
  BY DEF IsSplit
<1>2. /\ b \in Nat /\ DOMAIN hp \subseteq Nat /\ HEAP_BLOCK_SIZE \in Nat \ {0}
      /\ \A a \in DOMAIN hp : hp[a] \in Header /\ hp[a].size \in Nat
      /\ b < second /\ second # NULL
  BY <1>0, <1>1, MallocAssumption DEF OneList, Header, NULL
<1>3. hp[b].next # NULL => /\ hp[b].next \in DOMAIN hp /\ b < hp[b].next
                           /\ second + HEAP_BLOCK_SIZE + (hp[b].size - s) <= hp[b].next
                           /\ \A c \in DOMAIN hp : hp[c].next = hp[b].next => c = b
  BY <1>0, <1>1, <1>2, NextIsAbove
<1>4. /\ new[second].size = hp[b].size - s /\ new[second].next = hp[b].next
      /\ new[second].previous = b
      /\ new[b].size = s /\ new[b].next = second /\ new[b].previous = hp[b].previous
      /\ \A a \in DOMAIN hp \ {b} :
             /\ new[a].size = hp[a].size /\ new[a].next = hp[a].next
             /\ new[a].previous = IF a = hp[b].next THEN second ELSE hp[a].previous
  BY DEF IsSplit
<1>5. \A a \in DOMAIN new : new[a] \in Header
  BY DEF IsSplit
<1>6. HeapStart \in DOMAIN new /\ new[HeapStart].previous = NULL
  BY <1>1, <1>3, <1>4, <1>2 DEF OneList, HeapStart, NULL
<1>7. ASSUME NEW a \in DOMAIN new, new[a].next # NULL
      PROVE  /\ new[a].next \in DOMAIN new /\ new[new[a].next].previous = a
             /\ a + HEAP_BLOCK_SIZE + new[a].size <= new[a].next
  <2>1. CASE a = second
    BY <1>1, <1>0, <1>2, <1>3, <1>4, <1>7, <2>1
  <2>2. CASE a = b
    BY <1>1, <1>0, <1>2, <1>4, <2>2
  <2>3. CASE a \in DOMAIN hp \ {b}
    <3>1. /\ hp[a].next \in DOMAIN hp /\ hp[hp[a].next].previous = a
          /\ a + HEAP_BLOCK_SIZE + hp[a].size <= hp[a].next
          /\ hp[a].next # hp[b].next
      BY <1>3, <1>4, <1>7, <2>3 DEF OneList
    <3> QED
      BY <1>1, <1>4, <2>3, <3>1
  <2> QED
    BY <1>1, <2>1, <2>2, <2>3
<1>8. ASSUME NEW a \in DOMAIN new
      PROVE  /\ new[a].previous # NULL => /\ new[a].previous \in DOMAIN new
                                          /\ new[new[a].previous].next = a
             /\ new[a].previous = NULL => a = HeapStart
  <2>1. CASE a = second
    BY <1>1, <1>0, <1>2, <1>4, <2>1 DEF NULL
  <2>2. CASE a = b
    BY <1>1, <1>0, <1>2, <1>3, <1>4, <2>2 DEF OneList
  <2>3. CASE a \in DOMAIN hp \ {b}
    <3>1. CASE a = hp[b].next
      BY <1>1, <1>0, <1>2, <1>4, <2>3, <3>1
    <3>2. CASE a # hp[b].next
      BY <1>1, <1>4, <2>3, <3>2 DEF OneList
    <3> QED
      BY <3>1, <3>2
  <2> QED
    BY <1>1, <2>1, <2>2, <2>3
<1>9. ASSUME NEW a \in DOMAIN new, NEW c \in DOMAIN new, a < c
      PROVE  new[a].next # NULL /\ new[a].next <= c
  <2>1. \A x \in DOMAIN hp : b < x => hp[b].next # NULL /\ hp[b].next <= x
    BY <1>0 DEF OneList
  <2>2. CASE a = second
    BY <1>1, <1>0, <1>2, <1>3, <1>4, <1>9, <2>1, <2>2
  <2>3. CASE a = b
    BY <1>1, <1>0, <1>2, <1>3, <1>4, <1>9, <2>1, <2>3
  <2>4. CASE a \in DOMAIN hp \ {b}
    <3>1. CASE c = second
      <4>1. a < b \/ b < a
        BY <1>0, <1>2, <2>4
      <4>2. ~(b < a)
        BY <1>1, <1>0, <1>2, <1>3, <1>9, <2>1, <2>4, <3>1
      <4>3. hp[a].next # NULL /\ hp[a].next <= b /\ hp[a].next \in Nat
        BY <1>0, <1>2, <2>4, <4>1, <4>2 DEF OneList
      <4> QED
        BY <1>1, <1>2, <1>4, <2>4, <3>1, <4>3
    <3>2. CASE c # second
      BY <1>1, <1>4, <1>9, <2>4, <3>2 DEF OneList
    <3> QED
      BY <3>1, <3>2
  <2> QED
    BY <1>1, <2>2, <2>3, <2>4
<1>10. DOMAIN new \subseteq Nat
  BY <1>1, <1>2
<1> QED
  BY <1>5, <1>6, <1>7, <1>8, <1>9, <1>10 DEF OneList

\* What becomes of the headers when block b swallows "gone".
IsFusion(new, b, gone) ==
    /\ gone = heap[b].next /\ gone \in DOMAIN heap /\ gone # b
    /\ DOMAIN new = DOMAIN heap \ {gone}
    /\ \A a \in DOMAIN new : new[a] \in Header
    /\ new[b].size = heap[b].size + heap[gone].size /\ new[b].next = heap[gone].next
    /\ new[b].previous = heap[b].previous /\ new[b].is_free = heap[b].is_free
    /\ \A a \in DOMAIN heap \ {b, gone} :
           /\ new[a].size = heap[a].size /\ new[a].next = heap[a].next
           /\ new[a].previous = IF a = heap[gone].next THEN b ELSE heap[a].previous
           /\ new[a].is_free = heap[a].is_free

\* Fusion, header by header.
LEMMA FusionHeaders ==
    ASSUME OneList(heap), NEW b \in DOMAIN heap, Next_(b) # NULL
    PROVE  IsFusion(Fusion(b), b, Next_(b))
<1> SUFFICES ASSUME NEW gone, gone = heap[b].next,
                    NEW new, new = Fusion(b)
             PROVE  IsFusion(new, b, gone)
  BY DEF Next_
<1>1. /\ b \in Nat /\ DOMAIN heap \subseteq Nat
      /\ \A a \in DOMAIN heap : heap[a] \in Header /\ heap[a].size \in Nat
  BY DEF OneList, Header
<1>2. gone \in DOMAIN heap /\ b < gone /\ gone \in Nat
  BY <1>1, NextIsAbove DEF Next_
<1>3. heap[gone].next # NULL => heap[gone].next \in DOMAIN heap \ {b, gone}
  BY <1>1, <1>2, NextIsAbove
<1> DEFINE rest == [a \in DOMAIN heap \ {gone} |->
                       IF a = b THEN [heap[b] EXCEPT !.size = @ + heap[gone].size,
                                                     !.next = heap[gone].next]
                       ELSE heap[a]]
<1>4. /\ DOMAIN rest = DOMAIN heap \ {gone}
      /\ rest[b] = [heap[b] EXCEPT !.size = @ + heap[gone].size, !.next = heap[gone].next]
      /\ \A a \in DOMAIN heap \ {b, gone} : rest[a] = heap[a]
  BY <1>1, <1>2
<1>5. new = LinkBack(rest, b, heap[gone].next)
  BY DEF Fusion, Next_
<1> HIDE DEF rest
<1>6. /\ DOMAIN new = DOMAIN heap \ {gone}
      /\ new[b] = [heap[b] EXCEPT !.size = @ + heap[gone].size, !.next = heap[gone].next]
      /\ \A a \in DOMAIN heap \ {b, gone} :
             new[a] = IF a = heap[gone].next THEN [heap[a] EXCEPT !.previous = b] ELSE heap[a]
  <2>1. CASE heap[gone].next = NULL
    <3>1. new = rest
      BY <1>5, <2>1 DEF LinkBack
    <3>2. \A a \in DOMAIN heap : a # heap[gone].next
      BY <1>1, <2>1 DEF NULL
    <3> QED
      BY <1>4, <3>1, <3>2
  <2>2. CASE heap[gone].next # NULL
    <3>1. new = [rest EXCEPT ![heap[gone].next].previous = b]
      BY <1>5, <2>2 DEF LinkBack
    <3>2. heap[gone].next \in DOMAIN heap \ {b, gone}
      BY <1>3, <2>2
    <3>3. /\ DOMAIN new = DOMAIN rest /\ new[b] = rest[b]
          /\ new[heap[gone].next] = [rest[heap[gone].next] EXCEPT !.previous = b]
          /\ \A a \in DOMAIN heap \ {b, gone, heap[gone].next} : new[a] = rest[a]
      BY <1>1, <1>2, <1>4, <3>1, <3>2
    <3> QED
      BY <1>4, <3>2, <3>3
  <2> QED
    BY <2>1, <2>2
<1>7. /\ new[b] \in Header
      /\ new[b].size = heap[b].size + heap[gone].size /\ new[b].next = heap[gone].next
      /\ new[b].previous = heap[b].previous /\ new[b].is_free = heap[b].is_free
  <2>1. heap[b] \in Header /\ heap[gone] \in Header
    BY <1>1, <1>2
  <2>2. new[b] = [size |-> heap[b].size + heap[gone].size, next |-> heap[gone].next,
                  previous |-> heap[b].previous, is_free |-> heap[b].is_free]
    BY <1>6, <2>1 DEF Header
  <2>3. /\ heap[b].size + heap[gone].size \in Nat /\ heap[gone].next \in Nat \cup {NULL}
        /\ heap[b].previous \in Nat \cup {NULL} /\ heap[b].is_free \in BOOLEAN
    BY <2>1 DEF Header
  <2> QED
    BY <2>2, <2>3 DEF Header
<1>8. \A a \in DOMAIN heap \ {b, gone} :
           /\ new[a] \in Header /\ new[a].size = heap[a].size /\ new[a].next = heap[a].next
           /\ new[a].previous = IF a = heap[gone].next THEN b ELSE heap[a].previous
           /\ new[a].is_free = heap[a].is_free
  <2> TAKE a \in DOMAIN heap \ {b, gone}
  <2>1. heap[a] \in Header /\ b \in Nat
    BY <1>1
  <2>2. CASE a = heap[gone].next
    <3>1. new[a] = [heap[a] EXCEPT !.previous = b]
      BY <1>6, <2>2
    <3> QED
      BY <2>1, <2>2, <3>1 DEF Header
  <2>3. CASE a # heap[gone].next
    BY <1>6, <2>1, <2>3
  <2> QED
    BY <2>2, <2>3
<1> QED
  BY <1>1, <1>2, <1>6, <1>7, <1>8 DEF IsFusion

\* A block that swallows the next leaves one list.
LEMMA FusionKeepsList ==
    ASSUME OneList(heap), NEW b \in DOMAIN heap, Next_(b) # NULL
    PROVE  OneList(Fusion(b))
<1> SUFFICES ASSUME NEW gone, NEW new, IsFusion(new, b, gone)
             PROVE  OneList(new)
  BY FusionHeaders
<1>1. /\ gone = heap[b].next /\ gone \in DOMAIN heap /\ gone # b
      /\ DOMAIN new = DOMAIN heap \ {gone}
  BY DEF IsFusion
<1>2. /\ b \in Nat /\ DOMAIN heap \subseteq Nat /\ HEAP_BLOCK_SIZE \in Nat
      /\ \A a \in DOMAIN heap : heap[a].size \in Nat
  BY MallocAssumption DEF OneList, Header
<1>3. /\ b < gone /\ gone \in Nat /\ b + HEAP_BLOCK_SIZE + heap[b].size <= gone
      /\ heap[gone].previous = b
      /\ \A c \in DOMAIN heap : heap[c].next = gone => c = b
  BY <1>1, <1>2, NextIsAbove DEF Next_
<1>4. /\ new[b].size = heap[b].size + heap[gone].size /\ new[b].next = heap[gone].next
      /\ new[b].previous = heap[b].previous
      /\ \A a \in DOMAIN heap \ {b, gone} :
             /\ new[a].size = heap[a].size /\ new[a].next = heap[a].next
             /\ new[a].previous = IF a = heap[gone].next THEN b ELSE heap[a].previous
  BY DEF IsFusion
<1>5. heap[gone].next # NULL =>
          /\ heap[gone].next \in DOMAIN heap \ {b, gone}
          /\ gone + HEAP_BLOCK_SIZE + heap[gone].size <= heap[gone].next
          /\ \A c \in DOMAIN heap : heap[c].next = heap[gone].next => c = gone
  BY <1>1, <1>2, <1>3, NextIsAbove
<1>6. DOMAIN new \subseteq Nat /\ \A a \in DOMAIN new : new[a] \in Header
  BY <1>1, <1>2 DEF IsFusion
<1>7. HeapStart \in DOMAIN new /\ new[HeapStart].previous = NULL
  <2>1. HeapStart \in DOMAIN heap /\ heap[HeapStart].previous = NULL
    BY DEF OneList
  <2>2. HeapStart # gone /\ HeapStart # heap[gone].next
    <3>1. HeapStart < gone
      BY <1>2, <1>3 DEF HeapStart
    <3>2. heap[gone].next # NULL => gone < heap[gone].next
      BY <1>1, NextIsAbove
    <3>3. heap[gone].next # NULL => heap[gone].next \in Nat
      BY <1>2, <1>5
    <3> QED
      BY <1>3, <3>1, <3>2, <3>3 DEF HeapStart, NULL
  <2> QED
    BY <1>1, <1>4, <2>1, <2>2
<1>8. ASSUME NEW a \in DOMAIN new, new[a].next # NULL
      PROVE  /\ new[a].next \in DOMAIN new /\ new[new[a].next].previous = a
             /\ a + HEAP_BLOCK_SIZE + new[a].size <= new[a].next
  <2>1. CASE a = b
    <3>1. a + HEAP_BLOCK_SIZE + new[a].size <= gone + HEAP_BLOCK_SIZE + heap[gone].size
      BY <1>1, <1>2, <1>3, <1>4, <2>1
    <3>2. heap[gone].next \in Nat
      BY <1>2, <1>4, <1>5, <1>8, <2>1
    <3> QED
      BY <1>1, <1>2, <1>3, <1>4, <1>5, <1>8, <2>1, <3>1, <3>2
  <2>2. CASE a # b
    <3>1. /\ heap[a].next \in DOMAIN heap /\ heap[heap[a].next].previous = a
          /\ a + HEAP_BLOCK_SIZE + heap[a].size <= heap[a].next
      BY <1>1, <1>4, <1>8, <2>2 DEF OneList
    <3>2. heap[a].next # gone /\ heap[a].next # heap[gone].next
      BY <1>1, <1>3, <1>4, <1>5, <1>8, <2>2
    <3> QED
      BY <1>1, <1>4, <2>2, <3>1, <3>2
  <2> QED
    BY <2>1, <2>2
<1>9. ASSUME NEW a \in DOMAIN new
      PROVE  /\ new[a].previous # NULL => /\ new[a].previous \in DOMAIN new
                                          /\ new[new[a].previous].next = a
             /\ new[a].previous = NULL => a = HeapStart
  <2>1. CASE a = b
    <3>1. heap[b].previous # gone
      BY <1>1, <1>2, <1>3, <1>5 DEF OneList, NULL
    <3> QED
      BY <1>1, <1>3, <1>4, <2>1, <3>1 DEF OneList
  <2>2. CASE a # b /\ a = heap[gone].next
    BY <1>1, <1>2, <1>4, <1>9, <2>2 DEF NULL
  <2>3. CASE a # b /\ a # heap[gone].next
    <3>1. new[a].previous = heap[a].previous
      BY <1>1, <1>4, <1>9, <2>3
    <3>2. heap[a].previous # gone /\ heap[a].previous # b
      BY <1>1, <1>2, <1>9, <2>3 DEF OneList, NULL
    <3> QED
      BY <1>1, <1>4, <1>9, <2>3, <3>1, <3>2 DEF OneList
  <2> QED
    BY <2>1, <2>2, <2>3
<1>10. ASSUME NEW a \in DOMAIN new, NEW c \in DOMAIN new, a < c
       PROVE  new[a].next # NULL /\ new[a].next <= c
  <2>1. heap[a].next # NULL /\ heap[a].next <= c
    BY <1>1, <1>10 DEF OneList
  <2>2. CASE a = b
    <3>1. gone < c
      BY <1>1, <1>2, <1>3, <1>10, <2>1, <2>2
    <3> QED
      BY <1>1, <1>4, <2>2, <3>1 DEF OneList
  <2>3. CASE a # b
    BY <1>1, <1>4, <2>1, <2>3
  <2> QED
    BY <2>2, <2>3
<1> QED
  BY <1>6, <1>7, <1>8, <1>9, <1>10 DEF OneList

\* The headers when only the flag of block b is written.
IsFlagged(hp, new, b, f) ==
    /\ DOMAIN new = DOMAIN hp
    /\ \A a \in DOMAIN hp :
           /\ new[a].size = hp[a].size /\ new[a].next = hp[a].next
           /\ new[a].is_free = IF a = b THEN f ELSE hp[a].is_free

\* Writing a flag, header by header.
LEMMA FlagHeaders ==
    ASSUME NEW hp, OneList(hp), NEW b \in DOMAIN hp, NEW f \in BOOLEAN
    PROVE  IsFlagged(hp, [hp EXCEPT ![b].is_free = f], b, f)
<1>1. \A a \in DOMAIN hp : hp[a] \in Header
  BY DEF OneList
<1>2. \A a \in DOMAIN hp : a # b => [hp EXCEPT ![b].is_free = f][a] = hp[a]
  OBVIOUS
<1>3. [hp EXCEPT ![b].is_free = f][b] = [hp[b] EXCEPT !.is_free = f]
  OBVIOUS
<1>4. /\ [hp EXCEPT ![b].is_free = f][b].size = hp[b].size
      /\ [hp EXCEPT ![b].is_free = f][b].next = hp[b].next
      /\ [hp EXCEPT ![b].is_free = f][b].is_free = f
  BY <1>1, <1>3 DEF Header
<1> QED
  BY <1>2, <1>4 DEF IsFlagged

\* A block that is split gets no free neighbours but those of the second block.
LEMMA SplitMerges ==
    ASSUME NEW hp, OneList(hp), NEW b, NEW s, NEW new, NEW second,
           b \in DOMAIN hp, IsSplit(hp, new, b, s, second),
           NEW a \in DOMAIN new, ToMerge(new, a)
    PROVE  \/ a = b \/ new[a].next = b
           \/ /\ a = second /\ hp[b].next # NULL
              /\ hp[hp[b].next].is_free /\ hp[hp[b].next].next # NULL
           \/ a \in DOMAIN hp /\ ToMerge(hp, a)
<1>1. /\ second \notin DOMAIN hp /\ DOMAIN new = DOMAIN hp \cup {second}
      /\ new[second].next = hp[b].next
      /\ \A x \in DOMAIN hp \ {b} : new[x].next = hp[x].next /\ new[x].is_free = hp[x].is_free
  BY DEF IsSplit
<1>2. new[a].next # NULL /\ new[a].is_free /\ new[new[a].next].is_free /\ new[new[a].next].next # NULL
  BY DEF ToMerge
<1>3. CASE a = second
  <2>1. hp[b].next \in DOMAIN hp \ {b}
    BY <1>1, <1>2, <1>3, NextIsAbove DEF OneList
  <2> QED
    BY <1>1, <1>2, <1>3, <2>1
<1>4. CASE a \in DOMAIN hp \ {b} /\ new[a].next # b
  <2>1. hp[a].next \in DOMAIN hp \ {b}
    BY <1>1, <1>2, <1>4 DEF OneList
  <2> QED
    BY <1>1, <1>2, <1>4, <2>1 DEF ToMerge
<1> QED
  BY <1>1, <1>3, <1>4

\* A block that swallows the next gets free neighbours only behind it.
LEMMA FusionMerges ==
    ASSUME OneList(heap), NEW b \in DOMAIN heap, NEW gone, NEW new, IsFusion(new, b, gone),
           NEW a \in DOMAIN new, ToMerge(new, a)
    PROVE  a = b \/ (a \in DOMAIN heap /\ a # gone /\ ToMerge(heap, a))
<1>1. /\ gone = heap[b].next /\ gone \in DOMAIN heap /\ gone # b
      /\ DOMAIN new = DOMAIN heap \ {gone}
      /\ new[b].is_free = heap[b].is_free
      /\ \A x \in DOMAIN heap \ {b, gone} :
             new[x].next = heap[x].next /\ new[x].is_free = heap[x].is_free
  BY DEF IsFusion
<1>2. new[a].next # NULL /\ new[a].is_free /\ new[new[a].next].is_free /\ new[new[a].next].next # NULL
  BY DEF ToMerge
<1> SUFFICES ASSUME a # b PROVE a \in DOMAIN heap /\ a # gone /\ ToMerge(heap, a)
  OBVIOUS
<1>3. heap[a].next \in DOMAIN heap \ {gone} /\ heap[a].next # NULL
  <2>1. gone # NULL
    BY <1>1 DEF OneList, NULL
  <2> QED
    BY <1>1, <1>2, <2>1, NextIsAbove
<1>4. heap[heap[a].next].next # NULL
  <2>1. CASE heap[a].next = b
    BY <1>1, <2>1 DEF OneList, NULL
  <2>2. CASE heap[a].next # b
    BY <1>1, <1>2, <1>3, <2>2
  <2> QED
    BY <2>1, <2>2
<1> QED
  BY <1>1, <1>2, <1>3, <1>4 DEF ToMerge

-----------------------------------------------------------------------------
(* What the actions do to the heap.                                        *)

\* The heap when block b was taken for s words: what is left of the block is free.
IsTaken(new, b, s) ==
    /\ OneList(new)
    /\ DOMAIN heap \subseteq DOMAIN new
    /\ new[b].size = s /\ ~new[b].is_free
    /\ \A a \in DOMAIN heap \ {b} :
           /\ new[a].size = heap[a].size /\ new[a].next = heap[a].next
           /\ new[a].is_free = heap[a].is_free
    /\ \A a \in DOMAIN new \ DOMAIN heap : new[a].is_free
    /\ \A a \in DOMAIN new : ~ToMerge(new, a)

\* Taking a block keeps the list one, and free blocks apart.
LEMMA OccupyHeaders ==
    ASSUME OneList(heap), NEW b \in DOMAIN heap, NEW s \in Nat, Fits(b, s), RoomToSplit(b, s),
           \A a \in DOMAIN heap : ~ToMerge(heap, a)
    PROVE  IsTaken(occupy_block_and_split_if_necessary(b, s), b, s)
<1> DEFINE mid == IF heap[b].size > s THEN split_block(heap, b, s) ELSE heap
           new == [mid EXCEPT ![b].is_free = FALSE]
<1>1. heap[b].is_free /\ heap[b].size >= s /\ heap[b].size \in Nat /\ b \in Nat
  BY DEF Fits, OneList, Header
<1>2. CASE heap[b].size > s
  <2>1. CanSplit(heap, b, s)
    BY <1>1, <1>2, MallocAssumption DEF CanSplit, RoomToSplit, Next_
  <2>2. PICK second : IsSplit(heap, mid, b, s, second)
    BY <1>2, <2>1, SplitHeaders
  <2>3. OneList(mid)
    BY <1>2, <2>1, SplitKeepsList
  <2> HIDE DEF mid
  <2>4. /\ second \notin DOMAIN heap /\ DOMAIN mid = DOMAIN heap \cup {second}
        /\ mid[second].next = heap[b].next /\ mid[second].is_free
        /\ mid[b].size = s
        /\ \A a \in DOMAIN heap \ {b} :
               /\ mid[a].size = heap[a].size /\ mid[a].next = heap[a].next
               /\ mid[a].is_free = heap[a].is_free
    BY <2>2 DEF IsSplit
  <2>5. IsFlagged(mid, new, b, FALSE) /\ OneList(new)
    BY <2>3, <2>4, FlagHeaders, FlagKeepsList
  <2> HIDE DEF new
  <2>6. /\ DOMAIN new = DOMAIN mid /\ ~new[b].is_free
        /\ \A a \in DOMAIN mid : /\ new[a].size = mid[a].size /\ new[a].next = mid[a].next
                                 /\ a # b => new[a].is_free = mid[a].is_free
    BY <2>4, <2>5 DEF IsFlagged
  <2>7. ASSUME NEW a \in DOMAIN new, ToMerge(new, a) PROVE FALSE
    <3>1. a # b /\ new[a].next # b /\ new[a].next \in DOMAIN new
      BY <2>5, <2>6, <2>7 DEF ToMerge, OneList
    <3>2. ToMerge(mid, a) /\ mid[a].next # b
      BY <2>6, <2>7, <3>1 DEF ToMerge
    <3>3. \/ /\ heap[b].next # NULL
             /\ heap[heap[b].next].is_free /\ heap[heap[b].next].next # NULL
          \/ a \in DOMAIN heap /\ ToMerge(heap, a)
      BY <2>2, <2>6, <3>1, <3>2, SplitMerges
    <3> QED
      BY <1>1, <3>3 DEF ToMerge
  <2>8. IsTaken(new, b, s)
    BY <2>4, <2>5, <2>6, <2>7 DEF IsTaken
  <2> QED
    BY <2>8 DEF occupy_block_and_split_if_necessary, new, mid
<1>3. CASE ~(heap[b].size > s)
  <2>1. mid = heap /\ heap[b].size = s
    BY <1>1, <1>3
  <2> HIDE DEF mid
  <2>2. IsFlagged(heap, new, b, FALSE) /\ OneList(new)
    BY <2>1, FlagHeaders, FlagKeepsList
  <2> HIDE DEF new
  <2>3. /\ DOMAIN new = DOMAIN heap /\ ~new[b].is_free
        /\ \A a \in DOMAIN heap : /\ new[a].size = heap[a].size /\ new[a].next = heap[a].next
                                  /\ a # b => new[a].is_free = heap[a].is_free
    BY <2>2 DEF IsFlagged
  <2>4. ASSUME NEW a \in DOMAIN new, ToMerge(new, a) PROVE FALSE
    <3>1. a # b /\ new[a].next # b /\ new[a].next \in DOMAIN new
      BY <2>2, <2>3, <2>4 DEF ToMerge, OneList
    <3> QED
      BY <2>3, <2>4, <3>1 DEF ToMerge
  <2>5. IsTaken(new, b, s)
    BY <2>1, <2>2, <2>3, <2>4 DEF IsTaken
  <2> QED
    BY <2>5 DEF occupy_block_and_split_if_necessary, new, mid
<1> QED
  BY <1>2, <1>3

-----------------------------------------------------------------------------
(* The invariant.                                                          *)

\* A heap of one block is one list.
LEMMA MallocInitially == Init => MallocInv
<1> SUFFICES ASSUME Init PROVE MallocInv
  OBVIOUS
<1> USE DEF Init, HeapStart, NULL
<1>1. HEAP_SIZE - HEAP_BLOCK_SIZE \in Nat
  BY MallocAssumption
<1>2. /\ DOMAIN heap = {0}
      /\ heap[0] = [size |-> HEAP_SIZE - HEAP_BLOCK_SIZE, next |-> -1, previous |-> -1, is_free |-> TRUE]
  OBVIOUS
<1>3. heap[0] \in Header
  BY <1>1, <1>2 DEF Header
<1>4. heap[0].next = -1 /\ heap[0].previous = -1 /\ heap[0].is_free
  BY <1>2
<1>5. OneList(heap)
  BY <1>2, <1>3, <1>4 DEF OneList
<1>6. MallocTypeOK
  BY <1>2, <1>3, <1>4 DEF MallocTypeOK
<1>7. CallState
  BY DEF CallState
<1>8. Merging
  BY <1>2, <1>4 DEF Merging, ToMerge
<1> QED
  BY <1>5, <1>6, <1>7, <1>8 DEF MallocInv

\* gmalloc and grealloc begin their search.
LEMMA BeginSearch ==
    ASSUME MallocInv, NEW s \in Sizes, NEW old, pc = "idle", SafeToAsk(s),
           old = NULL \/ (old \in DOMAIN asked /\ Next_(old) # NULL),
           EnterLoop("find_free_block", HeapStart, s, old), UNCHANGED <<heap, asked>>
    PROVE  MallocInv'
<1>1. pc' = "find_free_block" /\ block' = HeapStart /\ size' = s /\ moving' = old
  BY DEF EnterLoop
<1>2. OneList(heap)'
  BY DEF MallocInv
<1>3. MallocTypeOK'
  BY <1>1 DEF MallocInv, MallocTypeOK, OneList, NULL, HeapStart
<1>4. CallState'
  <2>1. SafeToAsk(s)'
    BY DEF SafeToAsk, FirstFit, Fits, RoomToSplit, LastHasRoom, Next_
  <2>2. \A c \in DOMAIN heap : ~(c < HeapStart)
    BY DEF MallocInv, OneList, HeapStart
  <2> QED
    BY <1>1, <2>1, <2>2 DEF MallocInv, CallState, Fits, Next_
<1>5. Merging'
  BY <1>1 DEF MallocInv, Merging
<1> QED
  BY <1>2, <1>3, <1>4, <1>5 DEF MallocInv

\* The search for a block goes on, or fails.
LEMMA FindKeeps == ASSUME MallocInv, find_free_block PROVE MallocInv'
<1>1. /\ pc = "find_free_block" /\ UNCHANGED <<heap, asked>> /\ ~Fits(block, size)
      /\ \/ pc' = "idle" /\ block' = NULL /\ size' = 0 /\ moving' = NULL
         \/ /\ Next_(block) # NULL /\ pc' = pc /\ block' = Next_(block)
            /\ size' = size /\ moving' = moving
  BY DEF find_free_block, Return, EnterLoop
<1>2. block \in DOMAIN heap /\ (Next_(block) # NULL => Next_(block) \in DOMAIN heap)
  BY <1>1 DEF MallocInv, MallocTypeOK, OneList, Next_
<1>3. OneList(heap)'
  BY <1>1 DEF MallocInv
<1>4. MallocTypeOK'
  BY <1>1, <1>2 DEF MallocInv, MallocTypeOK, NULL
<1>5. CallState'
  <2>1. CASE pc' = "idle"
    BY <1>1, <2>1, <1>2 DEF CallState, MallocInv, MallocTypeOK, NULL
  <2>2. CASE Next_(block) # NULL /\ pc' = pc /\ block' = Next_(block) /\ size' = size /\ moving' = moving
    <3>1. SafeToAsk(size)' /\ size \in Sizes
      BY <1>1, <2>2 DEF MallocInv, CallState, SafeToAsk, FirstFit, Fits, RoomToSplit, LastHasRoom, Next_
    <3>2. ASSUME NEW c \in DOMAIN heap, c < Next_(block) PROVE ~Fits(c, size)
      <4>0. c \in Nat /\ block \in Nat /\ Next_(block) \in Nat
        BY <1>2, <2>2 DEF MallocInv, OneList
      <4>1. c < block \/ c = block \/ block < c
        BY <4>0
      <4>2. ~(block < c)
        BY <1>2, <2>2, <3>2, <4>0 DEF MallocInv, OneList, Next_
      <4>3. c < block => ~Fits(c, size)
        BY <1>1 DEF MallocInv, CallState
      <4> QED
        BY <1>1, <4>1, <4>2, <4>3
    <3> QED
      BY <1>1, <2>2, <3>1, <3>2 DEF MallocInv, CallState, Fits, Next_
  <2> QED
    BY <1>1, <2>1, <2>2
<1>6. Merging'
  BY <1>1 DEF MallocInv, Merging
<1> QED
  BY <1>3, <1>4, <1>5, <1>6 DEF MallocInv

\* The block is found and taken; grealloc has two blocks then.
LEMMA TakeKeeps == ASSUME Careful, MallocInv, take_block PROVE MallocInv'
<1> DEFINE taken == occupy_block_and_split_if_necessary(block, size)
<1>1. pc = "find_free_block" /\ Fits(block, size)
  BY DEF take_block
<1>2. /\ OneList(heap) /\ block \in DOMAIN heap /\ size \in Sizes /\ size \in Nat
      /\ RoomToSplit(block, size) /\ \A a \in DOMAIN heap : ~ToMerge(heap, a)
  <2>1. /\ block \in DOMAIN heap /\ size \in Sizes /\ SafeToAsk(size)
        /\ \A c \in DOMAIN heap : c < block => ~Fits(c, size)
    BY <1>1 DEF MallocInv, MallocTypeOK, CallState
  <2> QED
    BY <1>1, <2>1, MallocAssumption DEF MallocInv, Merging, SafeToAsk, FirstFit
<1>3. IsTaken(taken, block, size)
  BY <1>1, <1>2, OccupyHeaders
<1> HIDE DEF taken
<1>4. /\ OneList(taken) /\ DOMAIN heap \subseteq DOMAIN taken
      /\ taken[block].size = size /\ ~taken[block].is_free
      /\ \A a \in DOMAIN heap \ {block} :
             /\ taken[a].size = heap[a].size /\ taken[a].next = heap[a].next
             /\ taken[a].is_free = heap[a].is_free
      /\ \A a \in DOMAIN taken \ DOMAIN heap : taken[a].is_free
      /\ \A a \in DOMAIN taken : ~ToMerge(taken, a)
  BY <1>3 DEF IsTaken
<1>5. /\ DOMAIN asked = {b \in DOMAIN heap : ~heap[b].is_free} /\ heap[block].is_free
      /\ \A b \in DOMAIN asked : asked[b] \in 0 .. heap[b].size
      /\ moving \in DOMAIN asked \cup {NULL}
      /\ moving # NULL => Next_(moving) # NULL
  BY <1>1 DEF MallocInv, MallocTypeOK, CallState, Fits
<1>6. DOMAIN asked \cup {block} = {b \in DOMAIN taken : ~taken[b].is_free}
  BY <1>2, <1>4, <1>5
<1>7. DOMAIN taken \subseteq Nat /\ \A b \in DOMAIN taken : taken[b] \in Header
  BY <1>4 DEF OneList
<1>8. /\ heap' = taken /\ asked' = With(block, size)
      /\ DOMAIN asked' = DOMAIN asked \cup {block} /\ asked'[block] = size
      /\ \A b \in DOMAIN asked \ {block} : asked'[b] = asked[b]
  BY DEF take_block, taken, With
<1>9. \/ pc' = "idle" /\ block' = NULL /\ size' = 0 /\ moving' = NULL
      \/ moving # NULL /\ pc' = "copy" /\ block' = block /\ size' = 0 /\ moving' = moving
  BY DEF take_block, Return, EnterLoop
<1>10. \A b \in DOMAIN asked' : asked'[b] \in 0 .. taken[b].size
  BY <1>2, <1>4, <1>5, <1>8
<1>11. block # NULL
  BY <1>2 DEF OneList, NULL
<1>12. MallocTypeOK'
  BY <1>2, <1>4, <1>5, <1>6, <1>7, <1>8, <1>9, <1>10, <1>11 DEF MallocTypeOK
<1>13. CallState'
  <2>1. moving # NULL => moving \in DOMAIN heap \ {block}
    BY <1>5
  <2>2. moving # NULL => taken[moving].next # NULL
    BY <1>4, <1>5, <2>1 DEF Next_
  <2> QED
    BY <1>8, <1>9, <2>2 DEF CallState, Next_
<1>14. Merging'
  BY <1>4, <1>8, <1>9 DEF Merging
<1> QED
  BY <1>4, <1>8, <1>12, <1>13, <1>14 DEF MallocInv

\* gfree, also within grealloc, marks the block and looks back.
LEMMA FreeKeeps ==
    ASSUME MallocInv, NEW b \in DOMAIN asked, pc \in {"idle", "copy"}, MayFree(b), StartFree(b)
    PROVE  MallocInv'
<1> DEFINE new == [heap EXCEPT ![b].is_free = TRUE]
<1>1. /\ pc \in {"idle", "copy"} /\ MayFree(b) /\ heap' = new /\ asked' = Without(b)
      /\ pc' = "go_back" /\ block' = b /\ size' = 0 /\ moving' = NULL
  BY DEF StartFree, EnterLoop
<1>2. /\ OneList(heap) /\ b \in DOMAIN heap /\ b # NULL
      /\ DOMAIN asked = {a \in DOMAIN heap : ~heap[a].is_free}
      /\ \A a \in DOMAIN asked : asked[a] \in 0 .. heap[a].size
      /\ \A a \in DOMAIN heap : ~ToMerge(heap, a)
  BY <1>1 DEF MallocInv, MallocTypeOK, Merging, OneList, NULL
<1>3. IsFlagged(heap, new, b, TRUE) /\ OneList(new)
  BY <1>2, FlagHeaders, FlagKeepsList
<1> HIDE DEF new
<1>4. /\ DOMAIN new = DOMAIN heap
      /\ \A a \in DOMAIN heap :
             /\ new[a].size = heap[a].size /\ new[a].next = heap[a].next
             /\ new[a].is_free = IF a = b THEN TRUE ELSE heap[a].is_free
  BY <1>3 DEF IsFlagged
<1>5. DOMAIN asked' = DOMAIN asked \ {b} /\ \A a \in DOMAIN asked' : asked'[a] = asked[a]
  BY <1>1 DEF Without
<1>6. MallocTypeOK'
  <2>1. DOMAIN new \subseteq Nat /\ (\A a \in DOMAIN new : new[a] \in Header) /\ b \in DOMAIN new
    BY <1>2, <1>3, <1>4 DEF OneList
  <2>2. DOMAIN asked' = {a \in DOMAIN new : ~new[a].is_free}
    BY <1>2, <1>4, <1>5
  <2>3. \A a \in DOMAIN asked' : asked'[a] \in 0 .. new[a].size
    BY <1>2, <1>4, <1>5
  <2> QED
    BY <1>1, <1>2, <2>1, <2>2, <2>3 DEF MallocTypeOK
<1>7. heap'[b].next # NULL \/ (heap'[b].previous # NULL /\ heap'[heap'[b].previous].is_free)
  <2>1. new[b].previous = heap[b].previous
    <3>1. heap[b] \in Header
      BY <1>2 DEF OneList
    <3>2. new[b] = [heap[b] EXCEPT !.is_free = TRUE]
      BY <1>2 DEF new
    <3> QED
      BY <3>1, <3>2 DEF Header
  <2>2. CASE heap[b].next # NULL
    BY <1>1, <1>2, <1>4, <2>2
  <2>3. CASE heap[b].previous # NULL /\ heap[heap[b].previous].is_free
    <3>1. heap[b].previous \in DOMAIN heap
      BY <1>2, <2>3 DEF OneList
    <3>2. new[heap[b].previous].is_free
      BY <1>4, <2>3, <3>1
    <3> QED
      BY <1>1, <2>1, <2>3, <3>2
  <2> QED
    BY <1>1, <2>2, <2>3 DEF MayFree, FreeBefore, Next_
<1>8. CallState'
  <2>1. new[b].is_free
    BY <1>2, <1>4
  <2> QED
    BY <1>1, <1>7, <2>1 DEF CallState, MayFree, FreeBefore, Next_
<1>9. ASSUME NEW a \in DOMAIN new, ToMerge(new, a)
      PROVE  a = b \/ new[a].next = b
  <2>1. new[a].next # NULL => new[a].next \in DOMAIN new
    BY <1>3 DEF OneList
  <2>2. a # b /\ new[a].next # b => ToMerge(heap, a)
    BY <1>4, <1>9, <2>1 DEF ToMerge
  <2> QED
    BY <1>2, <1>4, <2>2
<1>10. Merging'
  BY <1>1, <1>9 DEF Merging, Next_
<1> QED
  BY <1>1, <1>3, <1>6, <1>8, <1>10 DEF MallocInv

\* gfree looks for the first of the free blocks that end in the freed one.
LEMMA GoBackKeeps == ASSUME MallocInv, go_back PROVE MallocInv'
<1>1. /\ pc = "go_back" /\ UNCHANGED <<heap, asked>> /\ size' = 0 /\ moving' = NULL
      /\ \/ FreeBefore(block) /\ pc' = "go_back" /\ block' = heap[block].previous
         \/ ~FreeBefore(block) /\ pc' = "fusion" /\ block' = block
  BY DEF go_back, EnterLoop
<1>2. /\ OneList(heap) /\ block \in DOMAIN heap /\ block # NULL
      /\ heap[block].is_free /\ MayFree(block)
  BY <1>1 DEF MallocInv, MallocTypeOK, CallState
<1>3. FreeBefore(block) =>
          /\ heap[block].previous \in DOMAIN heap /\ heap[block].previous # NULL
          /\ heap[heap[block].previous].is_free /\ heap[heap[block].previous].next = block
  BY <1>2 DEF FreeBefore, OneList
<1>4. OneList(heap)'
  BY <1>1, <1>2
<1>5. MallocTypeOK'
  BY <1>1, <1>2, <1>3 DEF MallocInv, MallocTypeOK
<1>6. CallState'
  BY <1>1, <1>2, <1>3 DEF CallState, MayFree, Next_, FreeBefore
<1>7. Merging'
  <2>1. CASE FreeBefore(block)
    <3> DEFINE p == heap[block].previous
    <3>1. p \in DOMAIN heap /\ heap[p].is_free /\ heap[p].next = block /\ block' = p /\ pc' = "go_back"
      BY <1>1, <1>3, <2>1
    <3>2. ASSUME NEW a \in DOMAIN heap, ToMerge(heap, a) PROVE a = p \/ a = block
      <4>1. CASE a = block
        BY <4>1
      <4>2. CASE a # block /\ heap[a].next = block
        BY <1>2, <4>2, NextIsAbove
      <4>3. CASE a # block /\ heap[a].next # block
        <5>1. /\ a = Next_(block)
              /\ \A x \in DOMAIN heap : ToMerge(heap, x) => x = block \/ x = Next_(block)
          BY <1>1, <3>2, <4>3 DEF MallocInv, Merging, Next_
        <5>2. ToMerge(heap, p)
          BY <1>2, <3>1, <3>2, <5>1 DEF ToMerge, Next_, OneList, NULL
        <5>3. p < block
          BY <1>2, <3>1, NextIsAbove
        <5>4. block < Next_(block)
          BY <1>2, <3>2, <5>1, NextIsAbove DEF Next_, OneList, NULL
        <5> QED
          BY <1>2, <3>1, <5>1, <5>2, <5>3, <5>4 DEF OneList
      <4> QED
        BY <4>1, <4>2, <4>3
    <3> QED
      BY <1>1, <3>1, <3>2 DEF Merging, Next_
  <2>2. CASE ~FreeBefore(block)
    <3>1. ASSUME NEW a \in DOMAIN heap, ToMerge(heap, a) PROVE a = block \/ a = Next_(block)
      <4>1. CASE a = block \/ Next_(a) # block
        BY <1>1, <3>1, <4>1 DEF MallocInv, Merging
      <4>2. CASE Next_(a) = block
        BY <1>2, <2>2, <3>1, <4>2 DEF ToMerge, FreeBefore, OneList, Next_, NULL
      <4> QED
        BY <4>1, <4>2
    <3> QED
      BY <1>1, <2>2, <3>1 DEF Merging, Next_
  <2> QED
    BY <2>1, <2>2
<1> QED
  BY <1>4, <1>5, <1>6, <1>7 DEF MallocInv

\* gfree merges the free blocks from there on, and returns.
LEMMA FusionKeeps == ASSUME MallocInv, fusion PROVE MallocInv'
<1>1. /\ pc = "fusion" /\ UNCHANGED asked
      /\ \/ MayFuse(block) /\ heap' = Fusion(block) /\ UNCHANGED <<pc, block, size, moving>>
         \/ /\ ~MayFuse(block) /\ UNCHANGED heap
            /\ pc' = "idle" /\ block' = NULL /\ size' = 0 /\ moving' = NULL
  BY DEF fusion, Return, loopVars
<1>2. /\ OneList(heap) /\ block \in DOMAIN heap /\ block # NULL /\ size = 0 /\ moving = NULL
      /\ heap[block].is_free /\ Next_(block) # NULL
      /\ DOMAIN asked = {a \in DOMAIN heap : ~heap[a].is_free}
      /\ \A a \in DOMAIN asked : asked[a] \in 0 .. heap[a].size
      /\ \A a \in DOMAIN heap : ToMerge(heap, a) => a = block \/ a = Next_(block)
  BY <1>1 DEF MallocInv, MallocTypeOK, CallState, Merging
<1>3. CASE MayFuse(block)
  <2>1. heap' = Fusion(block) /\ UNCHANGED <<asked, pc, block, size, moving>>
    BY <1>1, <1>3
  <2>2. OneList(heap') /\ IsFusion(heap', block, Next_(block))
    BY <1>2, <2>1, FusionHeaders, FusionKeepsList
  <2>3. /\ Next_(block) \in DOMAIN heap /\ Next_(block) # block
        /\ heap[Next_(block)].is_free /\ heap[Next_(block)].next # NULL
    BY <1>3, <2>2 DEF MayFuse, IsFusion, Next_
  <2>4. /\ DOMAIN heap' = DOMAIN heap \ {Next_(block)}
        /\ heap'[block].is_free /\ heap'[block].next = heap[Next_(block)].next
        /\ \A a \in DOMAIN heap \ {block, Next_(block)} :
               heap'[a].size = heap[a].size /\ heap'[a].is_free = heap[a].is_free
    BY <1>2, <2>2 DEF IsFusion
  <2>5. MallocTypeOK'
    <3>1. DOMAIN heap' \subseteq Nat /\ (\A a \in DOMAIN heap' : heap'[a] \in Header) /\ block \in DOMAIN heap'
      BY <1>2, <2>2, <2>3, <2>4 DEF OneList
    <3>2. DOMAIN asked = {a \in DOMAIN heap' : ~heap'[a].is_free}
      BY <1>2, <2>3, <2>4
    <3>3. \A a \in DOMAIN asked : asked[a] \in 0 .. heap'[a].size
      <4> TAKE a \in DOMAIN asked
      <4>1. a \in DOMAIN heap \ {block, Next_(block)}
        BY <1>2, <2>3
      <4> QED
        BY <1>2, <2>4, <4>1
    <3> QED
      BY <1>1, <1>2, <2>1, <3>1, <3>2, <3>3 DEF MallocTypeOK
  <2>6. CallState'
    BY <1>1, <1>2, <2>1, <2>3, <2>4 DEF CallState, Next_
  <2>7. ASSUME NEW a \in DOMAIN heap', ToMerge(heap', a) PROVE a = block
    BY <1>2, <2>2, <2>7, FusionMerges
  <2>8. Merging'
    BY <1>1, <2>1, <2>7 DEF Merging
  <2> QED
    BY <2>2, <2>5, <2>6, <2>8 DEF MallocInv
<1>4. CASE ~MayFuse(block)
  <2>1. UNCHANGED <<heap, asked>> /\ pc' = "idle" /\ block' = NULL /\ size' = 0 /\ moving' = NULL
    BY <1>1, <1>4
  <2>2. \A a \in DOMAIN heap : ~ToMerge(heap, a)
    BY <1>2, <1>4 DEF ToMerge, MayFuse, Next_
  <2>3. MallocTypeOK'
    BY <2>1 DEF MallocInv, MallocTypeOK
  <2>4. CallState'
    BY <2>1 DEF CallState
  <2>5. Merging'
    BY <2>1, <2>2 DEF Merging
  <2> QED
    BY <1>2, <2>1, <2>3, <2>4, <2>5 DEF MallocInv
<1> QED
  BY <1>3, <1>4

\* grealloc finds the block large enough.
LEMMA EnoughKeeps ==
    ASSUME MallocInv, NEW b \in DOMAIN asked, NEW s \in Sizes, grealloc_enough(b, s) PROVE MallocInv'
<1>1. pc = "idle" /\ heap[b].size >= s /\ asked' = With(b, s) /\ UNCHANGED <<heap, pc, block, size, moving>>
  BY DEF grealloc_enough, loopVars
<1>2. /\ DOMAIN asked = {a \in DOMAIN heap : ~heap[a].is_free} /\ s \in Nat
      /\ \A a \in DOMAIN heap : heap[a].size \in Nat
  BY MallocAssumption DEF MallocInv, MallocTypeOK, Header
<1>3. DOMAIN asked' = DOMAIN asked
  BY <1>1 DEF With
<1>4. \A a \in DOMAIN asked' : asked'[a] \in 0 .. heap[a].size
  BY <1>1, <1>2, <1>3 DEF With, MallocInv, MallocTypeOK
<1>5. MallocTypeOK'
  BY <1>1, <1>3, <1>4 DEF MallocInv, MallocTypeOK
<1>6. CallState'
  BY <1>1 DEF MallocInv, CallState
<1>7. Merging' /\ OneList(heap')
  BY <1>1 DEF MallocInv, Merging, Next_
<1> QED
  BY <1>5, <1>6, <1>7 DEF MallocInv

\* A block that swallowed the next one can be split for all it has now.
LEMMA FusionLeavesRoom ==
    ASSUME OneList(heap), NEW b \in DOMAIN heap, Next_(b) # NULL, NEW s \in Nat,
           heap[Next_(b)].size + heap[b].size >= s,
           NEW hp, IsFusion(hp, b, Next_(b))
    PROVE  CanSplit(hp, b, s)
<1>1. PICK gone : gone = Next_(b)
  OBVIOUS
<1>2. /\ gone \in DOMAIN heap /\ gone # b /\ DOMAIN hp = DOMAIN heap \ {gone}
      /\ hp[b].size = heap[b].size + heap[gone].size /\ hp[b].next = heap[gone].next
  BY <1>1 DEF IsFusion
<1>3. /\ b \in Nat /\ gone \in Nat /\ heap[b].size \in Nat /\ heap[gone].size \in Nat
      /\ HEAP_BLOCK_SIZE \in Nat
  BY <1>2, MallocAssumption DEF OneList, Header
<1>4. b + HEAP_BLOCK_SIZE + heap[b].size <= gone
  BY <1>1, NextIsAbove DEF Next_
<1>5. heap[gone].next # NULL =>
          gone + HEAP_BLOCK_SIZE + heap[gone].size <= heap[gone].next /\ heap[gone].next \in Nat
  BY <1>2 DEF OneList
<1>6. s <= hp[b].size
  BY <1>1, <1>2, <1>3
<1>7. hp[b].next # NULL => b + hp[b].size + 2 * HEAP_BLOCK_SIZE <= hp[b].next
  BY <1>2, <1>3, <1>4, <1>5
<1> QED
  BY <1>2, <1>6, <1>7 DEF CanSplit

\* grealloc swallows the next block and splits off what it does not need: the header that went
\* makes the room for the one that comes.
LEMMA ReallocFusionKeeps ==
    ASSUME MallocInv, NEW b \in DOMAIN asked, NEW s \in Sizes, grealloc_fusion(b, s) PROVE MallocInv'
<1> DEFINE hp == Fusion(b)
           gone == Next_(b)
           second == b + s + HEAP_BLOCK_SIZE
<1>1. /\ pc = "idle" /\ heap[b].size < s /\ Next_(b) # NULL
      /\ heap[Next_(b)].is_free /\ heap[Next_(b)].size + heap[b].size >= s
      /\ heap' = split_block(hp, b, s) /\ asked' = With(b, s)
      /\ UNCHANGED <<pc, block, size, moving>>
  BY DEF grealloc_fusion, FitsWithNext, loopVars
<1>2. /\ OneList(heap) /\ b \in DOMAIN heap /\ ~heap[b].is_free /\ s \in Nat
      /\ DOMAIN asked = {a \in DOMAIN heap : ~heap[a].is_free}
      /\ \A a \in DOMAIN asked : asked[a] \in 0 .. heap[a].size
      /\ \A a \in DOMAIN heap : ~ToMerge(heap, a)
      /\ block = NULL /\ size = 0 /\ moving = NULL
  BY <1>1, MallocAssumption DEF MallocInv, MallocTypeOK, Merging, CallState
<1>3. OneList(hp) /\ IsFusion(hp, b, gone)
  BY <1>1, <1>2, FusionHeaders, FusionKeepsList
<1> HIDE DEF hp
<1>4. /\ gone \in DOMAIN heap /\ gone # b /\ DOMAIN hp = DOMAIN heap \ {gone}
      /\ hp[b].size = heap[b].size + heap[gone].size /\ hp[b].next = heap[gone].next
      /\ ~hp[b].is_free
      /\ \A a \in DOMAIN heap \ {b, gone} :
             /\ hp[a].size = heap[a].size /\ hp[a].next = heap[a].next
             /\ hp[a].is_free = heap[a].is_free
  BY <1>2, <1>3 DEF IsFusion
<1>5. CanSplit(hp, b, s)
  BY <1>1, <1>2, <1>3, FusionLeavesRoom DEF gone
<1>6. OneList(heap') /\ IsSplit(hp, heap', b, s, second)
  BY <1>1, <1>3, <1>5, SplitHeaders, SplitKeepsList
<1> HIDE DEF second, gone
<1>7. /\ second \notin DOMAIN hp /\ DOMAIN heap' = DOMAIN hp \cup {second}
      /\ heap'[second].is_free /\ heap'[b].size = s /\ ~heap'[b].is_free
      /\ \A a \in DOMAIN hp \ {b} :
             heap'[a].size = hp[a].size /\ heap'[a].is_free = hp[a].is_free
  BY <1>4, <1>6 DEF IsSplit
<1>8. DOMAIN asked' = DOMAIN asked /\ asked'[b] = s /\ \A a \in DOMAIN asked \ {b} : asked'[a] = asked[a]
  BY <1>1 DEF With
<1>9. MallocTypeOK'
  <2>1. DOMAIN asked' = {a \in DOMAIN heap' : ~heap'[a].is_free}
    BY <1>1, <1>2, <1>4, <1>7, <1>8 DEF gone
  <2>2. \A a \in DOMAIN asked' : asked'[a] \in 0 .. heap'[a].size
    <3> TAKE a \in DOMAIN asked'
    <3>1. CASE a = b
      BY <1>2, <1>7, <1>8, <3>1
    <3>2. CASE a # b
      <4>1. a \in DOMAIN heap \ {b, gone}
        BY <1>1, <1>2, <1>8, <3>2 DEF gone
      <4> QED
        BY <1>2, <1>4, <1>7, <1>8, <3>2, <4>1
    <3> QED
      BY <3>1, <3>2
  <2>3. DOMAIN heap' \subseteq Nat /\ \A a \in DOMAIN heap' : heap'[a] \in Header
    BY <1>6 DEF OneList
  <2> QED
    BY <1>1, <1>2, <2>1, <2>2, <2>3 DEF MallocTypeOK
<1>10. CallState'
  BY <1>1, <1>2 DEF CallState
<1>11. ASSUME NEW a \in DOMAIN heap', ToMerge(heap', a) PROVE FALSE
  <2>1. a # b /\ heap'[a].next # b
    BY <1>7, <1>11 DEF ToMerge
  <2>2. CASE /\ hp[b].next # NULL /\ hp[hp[b].next].is_free /\ hp[hp[b].next].next # NULL
    <3>1. heap[gone].next \in DOMAIN heap \ {b, gone}
      <4>1. heap[gone].next \in DOMAIN heap /\ gone < heap[gone].next
        BY <1>2, <1>4, <2>2, NextIsAbove
      <4>2. b < gone
        BY <1>1, <1>2, NextIsAbove DEF gone, Next_
      <4> QED
        BY <1>2, <1>4, <4>1, <4>2 DEF OneList
    <3>2. ToMerge(heap, gone)
      BY <1>1, <1>4, <2>2, <3>1 DEF ToMerge, gone
    <3> QED
      BY <1>2, <1>4, <3>2
  <2>3. CASE a \in DOMAIN hp /\ ToMerge(hp, a)
    <3>1. a = b \/ (a \in DOMAIN heap /\ a # gone /\ ToMerge(heap, a))
      BY <1>2, <1>3, <2>3, FusionMerges
    <3> QED
      BY <1>2, <2>1, <3>1
  <2> QED
    <3>1. b \in DOMAIN hp
      BY <1>2, <1>4
    <3> QED
      BY <1>3, <1>6, <1>11, <2>1, <2>2, <2>3, <3>1, SplitMerges
<1>12. Merging'
  BY <1>1, <1>11 DEF Merging
<1> QED
  BY <1>6, <1>9, <1>10, <1>12 DEF MallocInv

\* Every step keeps the invariant.
LEMMA MallocNext == Careful /\ MallocInv /\ [Next]_vars => MallocInv'
<1> SUFFICES ASSUME Careful, MallocInv, [Next]_vars PROVE MallocInv'
  OBVIOUS
<1>1. ASSUME NEW s \in Sizes, gmalloc(s) PROVE MallocInv'
  BY <1>1, BeginSearch DEF gmalloc
<1>2. ASSUME NEW b \in DOMAIN asked, gfree(b) PROVE MallocInv'
  BY <1>2, FreeKeeps DEF gfree
<1>3. ASSUME NEW b \in DOMAIN asked, NEW s \in Sizes, grealloc_enough(b, s) PROVE MallocInv'
  BY <1>3, EnoughKeeps
<1>4. ASSUME NEW b \in DOMAIN asked, NEW s \in Sizes, grealloc_fusion(b, s) PROVE MallocInv'
  BY <1>4, ReallocFusionKeeps
<1>5. ASSUME NEW b \in DOMAIN asked, NEW s \in Sizes, grealloc_move(b, s) PROVE MallocInv'
  BY <1>5, BeginSearch DEF grealloc_move
<1>6. CASE find_free_block
  BY <1>6, FindKeeps
<1>7. CASE take_block
  BY <1>7, TakeKeeps
<1>8. CASE go_back
  BY <1>8, GoBackKeeps
<1>9. CASE fusion
  BY <1>9, FusionKeeps
<1>10. CASE FreeOld
  <2>1. /\ pc = "copy" /\ StartFree(moving) /\ moving \in DOMAIN asked /\ MayFree(moving)
    BY <1>10 DEF FreeOld, MallocInv, MallocTypeOK, CallState, MayFree
  <2> QED
    BY <2>1, FreeKeeps
<1>11. CASE UNCHANGED vars
  BY <1>11 DEF vars, loopVars, MallocInv, MallocTypeOK, CallState, Merging, SafeToAsk, FirstFit, Fits,
               RoomToSplit, LastHasRoom, Next_, MayFree, FreeBefore
<1> QED
  BY <1>1, <1>2, <1>3, <1>4, <1>5, <1>6, <1>7, <1>8, <1>9, <1>10, <1>11 DEF Next

\* The inductive invariant holds of every state of a heap used with care.
THEOREM MallocInvariant == Careful => (Spec => []MallocInv)
<1> SUFFICES ASSUME Careful PROVE Spec => []MallocInv
  OBVIOUS
<1>1. MallocInv /\ [Next]_vars => MallocInv'
  BY MallocNext
<1> QED
  BY <1>1, MallocInitially, PTL DEF Spec

-----------------------------------------------------------------------------
(* What the invariant says to the programs.                                *)

\* A block ends before any block above it begins.
LEMMA BlocksInOrder ==
    ASSUME NEW hp, OneList(hp), NEW b \in DOMAIN hp, NEW c \in DOMAIN hp, b < c
    PROVE  b + HEAP_BLOCK_SIZE + hp[b].size <= c
<1>1. hp[b].next # NULL /\ hp[b].next <= c /\ hp[b].next \in DOMAIN hp
  BY DEF OneList
<1>2. b + HEAP_BLOCK_SIZE + hp[b].size <= hp[b].next
  BY <1>1, NextIsAbove
<1>3. b \in Nat /\ c \in Nat /\ hp[b].next \in Nat /\ hp[b].size \in Nat /\ HEAP_BLOCK_SIZE \in Nat
  BY <1>1, MallocAssumption DEF OneList, Header
<1> QED
  BY <1>1, <1>2, <1>3

\* The variables keep their types in every state: what a program asked for fits into its block,
\* and a block that grealloc is to copy stays in use until it is copied.
THEOREM MallocTypeCorrect == Careful => (Spec => []MallocTypeOK)
<1> SUFFICES ASSUME Careful PROVE Spec => []MallocTypeOK
  OBVIOUS
<1>1. MallocInv => MallocTypeOK
  BY DEF MallocInv
<1> QED
  BY <1>1, MallocInvariant, PTL

\* The headers are one list, and no block reaches into the header of the next, however long
\* programs split, merge and move blocks.
THEOREM ListStaysSound == Careful => (Spec => []ListSound)
<1> SUFFICES ASSUME Careful PROVE Spec => []ListSound
  OBVIOUS
<1>1. MallocInv => ListSound
  BY DEF MallocInv, OneList, ListSound, LinksMirror, NoOverlap, Next_
<1> QED
  BY <1>1, MallocInvariant, PTL

\* After gfree has merged, no two free blocks follow each other but before the last.
THEOREM FreeBlocksStayApart == Careful => (Spec => []FreeBlocksApart)
<1> SUFFICES ASSUME Careful PROVE Spec => []FreeBlocksApart
  OBVIOUS
<1>1. MallocInv => FreeBlocksApart
  BY DEF MallocInv, Merging, ToMerge, FreeBlocksApart, Next_
<1> QED
  BY <1>1, MallocInvariant, PTL

\* With care no program can write a header: what MCMalloc_headers.cfg finds needs a call that
\* Careful excludes.
THEOREM HeadersStayIntact == Careful => (Spec => []HeadersIntact)
<1> SUFFICES ASSUME Careful PROVE Spec => []HeadersIntact
  OBVIOUS
<1>1. MallocInv => HeadersIntact
  <2> SUFFICES ASSUME MallocInv, NEW b \in DOMAIN asked, NEW h \in DOMAIN heap,
                      NEW x \in b + HEAP_BLOCK_SIZE .. b + HEAP_BLOCK_SIZE + asked[b] - 1,
                      x \in h .. h + HEAP_BLOCK_SIZE - 1
               PROVE  FALSE
    BY DEF HeadersIntact
  <2>1. /\ OneList(heap) /\ b \in DOMAIN heap /\ b \in Nat /\ h \in Nat
        /\ heap[b].size \in Nat /\ heap[h].size \in Nat /\ asked[b] \in 0 .. heap[b].size
        /\ HEAP_BLOCK_SIZE \in Nat
    BY MallocAssumption DEF MallocInv, MallocTypeOK, Header
  <2>2. CASE b < h
    <3>1. b + HEAP_BLOCK_SIZE + heap[b].size <= h
      BY <2>1, <2>2, BlocksInOrder
    <3> QED
      BY <2>1, <3>1
  <2>3. CASE h < b
    <3>1. h + HEAP_BLOCK_SIZE + heap[h].size <= b
      BY <2>1, <2>3, BlocksInOrder
    <3> QED
      BY <2>1, <3>1
  <2>4. CASE h = b
    BY <2>1, <2>4
  <2> QED
    BY <2>1, <2>2, <2>3, <2>4
<1> QED
  BY <1>1, MallocInvariant, PTL

\* What two programs hold, or one program of two calls, lies apart.
LEMMA PointersApart ==
    ASSUME MallocInv, NEW b \in DOMAIN asked, NEW c \in DOMAIN asked, b # c
    PROVE  Promise!Apart(Pointer(b), Pointer(c))
<1>1. /\ OneList(heap) /\ b \in DOMAIN heap /\ c \in DOMAIN heap /\ b \in Nat /\ c \in Nat
      /\ heap[b].size \in Nat /\ heap[c].size \in Nat
      /\ asked[b] \in 0 .. heap[b].size /\ asked[c] \in 0 .. heap[c].size
      /\ HEAP_BLOCK_SIZE \in Nat
  BY MallocAssumption DEF MallocInv, MallocTypeOK, Header
<1>2. b < c => b + HEAP_BLOCK_SIZE + heap[b].size <= c
  BY <1>1, BlocksInOrder
<1>3. c < b => c + HEAP_BLOCK_SIZE + heap[c].size <= b
  BY <1>1, BlocksInOrder
<1> QED
  BY <1>1, <1>2, <1>3 DEF Promise!Apart, Promise!Words, Pointer

\* gmalloc, grealloc and gfree implement an allocator: a region that is handed out lies apart
\* from all that are held, also from the one grealloc has not given back yet.
THEOREM MallocImplementsRegions == Careful => (Spec => KeepsRegionsApart)
<1> SUFFICES ASSUME Careful PROVE Spec => KeepsRegionsApart
  OBVIOUS
<1>1. Init => Promise!RegionsInit
  BY DEF Init, Promise!RegionsInit
<1> DEFINE HeldApart == \A b, c \in DOMAIN asked : b # c => Promise!Apart(Pointer(b), Pointer(c))
<1>2. MallocInv => HeldApart
  BY PointersApart
<1>3. HeldApart' => Promise!RegionsNext
  BY DEF Promise!RegionsNext, Promise!Exchange, Promise!Apart, Promise!Words, Pointer
<1> HIDE DEF HeldApart
<1>4. MallocInv /\ [Next]_vars => MallocInv'
  BY MallocNext
<1> QED
  BY <1>1, <1>2, <1>3, <1>4, MallocInitially, PTL DEF Spec, KeepsRegionsApart, Promise!RegionsSpec

-----------------------------------------------------------------------------
(* The end of the heap.                                                    *)

\* Every header is inside the heap, and so is every block in use.
Inside(hp) ==
    \A b \in DOMAIN hp :
        /\ b + HEAP_BLOCK_SIZE <= HEAP_SIZE
        /\ ~hp[b].is_free => b + HEAP_BLOCK_SIZE + hp[b].size <= HEAP_SIZE

\* A block that is taken ends inside, and so does the header behind it.
LEMMA TakeStaysInside ==
    ASSUME OneList(heap), Inside(heap), NEW b \in DOMAIN heap, NEW s \in Nat, Fits(b, s), RoomToSplit(b, s)
    PROVE  Inside(occupy_block_and_split_if_necessary(b, s))
<1> DEFINE mid == IF heap[b].size > s THEN split_block(heap, b, s) ELSE heap
           new == [mid EXCEPT ![b].is_free = FALSE]
<1>1. /\ heap[b].size >= s /\ heap[b].size \in Nat /\ b \in Nat /\ HEAP_BLOCK_SIZE \in Nat /\ HEAP_SIZE \in Nat
      /\ heap[b].next # NULL => /\ heap[b].next \in Nat /\ heap[b].next + HEAP_BLOCK_SIZE <= HEAP_SIZE
                                /\ b + HEAP_BLOCK_SIZE + heap[b].size <= heap[b].next
  BY MallocAssumption DEF Fits, OneList, Header, Inside
<1>2. CASE heap[b].size > s
  <2>1. /\ CanSplit(heap, b, s)
        /\ b + s + 2 * HEAP_BLOCK_SIZE <= HEAP_SIZE
    BY <1>1, <1>2 DEF CanSplit, RoomToSplit, LastHasRoom, Next_
  <2>2. PICK second : IsSplit(heap, mid, b, s, second)
    BY <1>2, <2>1, SplitHeaders
  <2>3. OneList(mid)
    BY <1>2, <2>1, SplitKeepsList
  <2> HIDE DEF mid
  <2>4. /\ second = b + s + HEAP_BLOCK_SIZE /\ second \notin DOMAIN heap
        /\ DOMAIN mid = DOMAIN heap \cup {second} /\ mid[second].is_free /\ mid[b].size = s
        /\ \A a \in DOMAIN heap \ {b} : mid[a].size = heap[a].size /\ mid[a].is_free = heap[a].is_free
    BY <2>2 DEF IsSplit
  <2>5. IsFlagged(mid, new, b, FALSE)
    BY <2>3, <2>4, FlagHeaders
  <2> HIDE DEF new
  <2>6. /\ DOMAIN new = DOMAIN mid
        /\ \A a \in DOMAIN mid : new[a].size = mid[a].size /\ (a # b => new[a].is_free = mid[a].is_free)
    BY <2>5 DEF IsFlagged
  <2>7. second + HEAP_BLOCK_SIZE <= HEAP_SIZE /\ b + HEAP_BLOCK_SIZE + s <= HEAP_SIZE
    BY <1>1, <2>1, <2>4
  <2>8. Inside(new)
    BY <2>4, <2>6, <2>7 DEF Inside
  <2> QED
    BY <2>8 DEF occupy_block_and_split_if_necessary, new, mid
<1>3. CASE ~(heap[b].size > s)
  <2>1. mid = heap /\ heap[b].size = s
    BY <1>1, <1>3
  <2> HIDE DEF mid
  <2>2. IsFlagged(heap, new, b, FALSE)
    BY <2>1, FlagHeaders
  <2> HIDE DEF new
  <2>3. /\ DOMAIN new = DOMAIN heap
        /\ \A a \in DOMAIN heap : new[a].size = heap[a].size /\ (a # b => new[a].is_free = heap[a].is_free)
    BY <2>2 DEF IsFlagged
  <2>4. b + HEAP_BLOCK_SIZE + s <= HEAP_SIZE
    BY <1>1, <2>1 DEF RoomToSplit, LastHasRoom, Next_
  <2>5. Inside(new)
    BY <2>1, <2>3, <2>4 DEF Inside
  <2> QED
    BY <2>5 DEF occupy_block_and_split_if_necessary, new, mid
<1> QED
  BY <1>2, <1>3

\* A block that swallows the next one is in use if it was, and the others are as before.
LEMMA FusionStaysInside ==
    ASSUME OneList(heap), Inside(heap), NEW b \in DOMAIN heap, Next_(b) # NULL
    PROVE  /\ \A a \in DOMAIN Fusion(b) : a + HEAP_BLOCK_SIZE <= HEAP_SIZE
           /\ \A a \in DOMAIN Fusion(b) \ {b} :
                  ~Fusion(b)[a].is_free => a + HEAP_BLOCK_SIZE + Fusion(b)[a].size <= HEAP_SIZE
           /\ Fusion(b)[b].is_free = heap[b].is_free
<1>1. PICK new, gone : new = Fusion(b) /\ IsFusion(new, b, gone)
  BY FusionHeaders
<1> QED
  BY <1>1 DEF IsFusion, Inside

\* Every step keeps the heap inside.
LEMMA InsideNext == Careful /\ MallocInv /\ Inside(heap) /\ [Next]_vars => Inside(heap')
<1> SUFFICES ASSUME Careful, MallocInv, Inside(heap), [Next]_vars PROVE Inside(heap')
  OBVIOUS
<1>1. OneList(heap) /\ DOMAIN asked = {b \in DOMAIN heap : ~heap[b].is_free}
  BY DEF MallocInv, MallocTypeOK
<1>2. UNCHANGED heap => Inside(heap')
  OBVIOUS
<1>3. ASSUME NEW b \in DOMAIN asked, StartFree(b) PROVE Inside(heap')
  <2>1. b \in DOMAIN heap /\ heap' = [heap EXCEPT ![b].is_free = TRUE]
    BY <1>1, <1>3 DEF StartFree
  <2>2. IsFlagged(heap, heap', b, TRUE)
    BY <1>1, <2>1, FlagHeaders
  <2> QED
    BY <2>1, <2>2 DEF IsFlagged, Inside
<1>4. ASSUME NEW b \in DOMAIN asked, NEW s \in Sizes, grealloc_fusion(b, s) PROVE Inside(heap')
  <2>1. /\ heap' = split_block(Fusion(b), b, s) /\ b \in DOMAIN heap /\ Next_(b) # NULL /\ s \in Nat
        /\ heap[Next_(b)].size + heap[b].size >= s
        /\ Next_(Next_(b)) # NULL \/ b + s + 2 * HEAP_BLOCK_SIZE <= HEAP_SIZE
    BY <1>1, <1>4, MallocAssumption DEF grealloc_fusion, FitsWithNext, LastHasRoom
  <2>2. PICK hp, gone : hp = Fusion(b) /\ IsFusion(hp, b, gone) /\ OneList(hp) /\ gone = Next_(b)
    BY <1>1, <2>1, FusionHeaders, FusionKeepsList
  <2>3. CanSplit(hp, b, s)
    BY <1>1, <2>1, <2>2, FusionLeavesRoom
  <2>4. /\ \A a \in DOMAIN hp : a + HEAP_BLOCK_SIZE <= HEAP_SIZE
        /\ \A a \in DOMAIN hp \ {b} : ~hp[a].is_free => a + HEAP_BLOCK_SIZE + hp[a].size <= HEAP_SIZE
    BY <1>1, <2>1, <2>2, FusionStaysInside
  <2>5. b + s + 2 * HEAP_BLOCK_SIZE <= HEAP_SIZE
    <3>1. CASE Next_(gone) # NULL
      <4>1. hp[b].next # NULL /\ hp[b].next \in DOMAIN hp /\ b \in DOMAIN hp
        BY <2>2, <2>3, <3>1 DEF IsFusion, Next_, OneList, CanSplit
      <4>2. b + hp[b].size + 2 * HEAP_BLOCK_SIZE <= hp[b].next /\ s <= hp[b].size
        BY <2>3, <4>1 DEF CanSplit
      <4>3. hp[b].next + HEAP_BLOCK_SIZE <= HEAP_SIZE
        BY <2>4, <4>1
      <4>4. b \in Nat /\ hp[b].size \in Nat /\ hp[b].next \in Nat /\ HEAP_BLOCK_SIZE \in Nat /\ HEAP_SIZE \in Nat
        BY <2>2, <4>1, MallocAssumption DEF OneList, Header
      <4> QED
        BY <2>1, <4>2, <4>3, <4>4
    <3> QED
      BY <2>1, <2>2, <3>1
  <2>6. PICK second : IsSplit(hp, heap', b, s, second)
    BY <2>1, <2>2, <2>3, SplitHeaders
  <2>7. /\ second = b + s + HEAP_BLOCK_SIZE /\ DOMAIN heap' = DOMAIN hp \cup {second}
        /\ heap'[second].is_free /\ heap'[b].size = s
        /\ \A a \in DOMAIN hp \ {b} : heap'[a].size = hp[a].size /\ heap'[a].is_free = hp[a].is_free
    BY <2>6 DEF IsSplit
  <2>8. second + HEAP_BLOCK_SIZE <= HEAP_SIZE /\ b + HEAP_BLOCK_SIZE + s <= HEAP_SIZE
    <3>1. b \in Nat /\ HEAP_BLOCK_SIZE \in Nat /\ HEAP_SIZE \in Nat
      BY <1>1, <2>1, MallocAssumption DEF OneList
    <3> QED
      BY <2>1, <2>5, <2>7, <3>1
  <2> QED
    BY <2>4, <2>7, <2>8 DEF Inside
<1>5. CASE take_block
  <2>1. pc = "find_free_block" /\ Fits(block, size)
    BY <1>5 DEF take_block
  <2>2. /\ block \in DOMAIN heap /\ size \in Sizes /\ SafeToAsk(size)
        /\ \A c \in DOMAIN heap : c < block => ~Fits(c, size)
    BY <2>1 DEF MallocInv, MallocTypeOK, CallState
  <2>3. size \in Nat /\ RoomToSplit(block, size)
    BY <2>1, <2>2, MallocAssumption DEF SafeToAsk, FirstFit
  <2> QED
    BY <1>1, <1>5, <2>1, <2>2, <2>3, TakeStaysInside DEF take_block
<1>6. CASE fusion
  <2>1. pc = "fusion" /\ (UNCHANGED heap \/ heap' = Fusion(block))
    BY <1>6 DEF fusion
  <2>2. block \in DOMAIN heap /\ Next_(block) # NULL /\ heap[block].is_free
    BY <2>1 DEF MallocInv, MallocTypeOK, CallState
  <2> QED
    BY <1>1, <1>2, <2>1, <2>2, FusionStaysInside DEF Inside
<1>7. ASSUME NEW s \in Sizes, gmalloc(s) PROVE Inside(heap')
  BY <1>2, <1>7 DEF gmalloc
<1>8. ASSUME NEW b \in DOMAIN asked, NEW s \in Sizes, grealloc_enough(b, s) \/ grealloc_move(b, s)
      PROVE  Inside(heap')
  BY <1>2, <1>8 DEF grealloc_enough, grealloc_move
<1>9. CASE find_free_block \/ go_back \/ UNCHANGED vars
  BY <1>2, <1>9 DEF find_free_block, go_back, vars
<1>10. CASE FreeOld
  BY <1>3, <1>10 DEF FreeOld, MallocInv, MallocTypeOK, CallState
<1> QED
  BY <1>3, <1>4, <1>5, <1>6, <1>7, <1>8, <1>9, <1>10 DEF Next, gfree

\* Neither headers nor what programs hold are ever behind the end of the heap, where the stack of
\* the process is, although the last block says that it has more words than there are.
THEOREM StaysWithinHeap == Careful => (Spec => []WithinHeap)
<1> SUFFICES ASSUME Careful PROVE Spec => []WithinHeap
  OBVIOUS
<1> DEFINE In == Inside(heap)
<1>1. Init => In
  BY MallocAssumption DEF Init, Inside, HeapStart
<1>2. MallocInv /\ In /\ [Next]_vars => In'
  BY InsideNext
<1>3. MallocInv /\ In => WithinHeap
  <2> SUFFICES ASSUME MallocInv, In PROVE WithinHeap
    OBVIOUS
  <2>1. \A b \in DOMAIN heap : b + HEAP_BLOCK_SIZE <= HEAP_SIZE
    BY DEF Inside
  <2>2. ASSUME NEW b \in DOMAIN asked PROVE b + HEAP_BLOCK_SIZE + asked[b] <= HEAP_SIZE
    <3>1. b \in DOMAIN heap /\ ~heap[b].is_free /\ asked[b] \in 0 .. heap[b].size
      BY DEF MallocInv, MallocTypeOK
    <3>2. b \in Nat /\ heap[b].size \in Nat /\ HEAP_BLOCK_SIZE \in Nat /\ HEAP_SIZE \in Nat
      BY <3>1, MallocAssumption DEF MallocInv, OneList, Header
    <3>3. b + HEAP_BLOCK_SIZE + heap[b].size <= HEAP_SIZE
      BY <3>1 DEF Inside
    <3> QED
      BY <3>1, <3>2, <3>3
  <2> QED
    BY <2>1, <2>2 DEF WithinHeap
<1> HIDE DEF In
<1> QED
  BY <1>1, <1>2, <1>3, MallocInvariant, PTL DEF Spec

-----------------------------------------------------------------------------
(* The sum of the sizes.                                                   *)

\* A set of naturals has a least element: the only induction these proofs need.
LEMMA LeastElement ==
    ASSUME NEW T \in SUBSET Nat, T # {}
    PROVE  \E n \in T : \A m \in T : ~(m < n)
<1>1. PICK n \in T : \A m \in T : <<m, n>> \notin OpToRel(<, Nat)
  BY NatLessThanWellFounded, WFMin
<1>2. \A m \in T : m < n => <<m, n>> \in OpToRel(<, Nat)
  BY DEF OpToRel
<1> QED
  BY <1>1, <1>2

\* Subsets of a finite set, by how many members they have.
LEMMA Smaller ==
    ASSUME NEW T, IsFiniteSet(T)
    PROVE  /\ \A s \in SUBSET T : IsFiniteSet(s) /\ Cardinality(s) \in Nat /\ (Cardinality(s) = 0 <=> s = {})
           /\ \A s \in SUBSET T : \A x \in s :
                 s \ {x} \in SUBSET T /\ Cardinality(s \ {x}) = Cardinality(s) - 1
           /\ \A s \in SUBSET T : Cardinality(s) <= Cardinality(T)
<1>1. ASSUME NEW s \in SUBSET T
      PROVE  IsFiniteSet(s) /\ Cardinality(s) \in Nat /\ Cardinality(s) <= Cardinality(T)
  BY FS_Subset, FS_CardinalityType
<1>2. ASSUME NEW s \in SUBSET T PROVE Cardinality(s) = 0 <=> s = {}
  BY <1>1, FS_EmptySet
<1>3. ASSUME NEW s \in SUBSET T, NEW x \in s
      PROVE  s \ {x} \in SUBSET T /\ Cardinality(s \ {x}) = Cardinality(s) - 1
  BY <1>1, FS_RemoveElement
<1> QED
  BY <1>1, <1>2, <1>3

\* w holds the sums over the subsets of T, as the definition of MapThenSumSet takes them.
Sums(w, g, T) ==
    w = [s \in SUBSET T |-> IF s = {} THEN 0
                            ELSE g[CHOOSE x \in s : TRUE].size + w[s \ {CHOOSE x \in s : TRUE}]]

LEMMA SumsExist == \A g, T : IsFiniteSet(T) => \E w : Sums(w, g, T)
<1> SUFFICES ASSUME NEW g, NEW T, IsFiniteSet(T) PROVE \E w : Sums(w, g, T)
  OBVIOUS
<1> DEFINE K == Cardinality(T)
           One(s) == CHOOSE x \in s : TRUE
           Sets(n) == {s \in SUBSET T : Cardinality(s) <= n}
           To(n, w) == w = [s \in Sets(n) |-> IF s = {} THEN 0 ELSE g[One(s)].size + w[s \ {One(s)}]]
           without == {n \in 0 .. K : \A w : ~To(n, w)}
<1>1. /\ K \in Nat
      /\ \A s \in SUBSET T : Cardinality(s) \in Nat /\ (Cardinality(s) = 0 <=> s = {})
      /\ \A s \in SUBSET T : \A x \in s : s \ {x} \in SUBSET T /\ Cardinality(s \ {x}) = Cardinality(s) - 1
      /\ \A s \in SUBSET T : Cardinality(s) <= K
  BY Smaller, FS_CardinalityType
<1>2. \A s \in SUBSET T : s # {} => One(s) \in s
  OBVIOUS
<1> HIDE DEF K, One
<1>3. without = {}
  <2> SUFFICES ASSUME without # {} PROVE FALSE
    OBVIOUS
  <2>1. PICK n \in without : \A m \in without : ~(m < n)
    <3>1. without \in SUBSET Nat
      BY <1>1
    <3> HIDE DEF without
    <3> QED
      BY <3>1, LeastElement
  <2>2. n # 0
    <3> DEFINE v == [s \in Sets(0) |-> 0]
    <3>1. \A s \in Sets(0) : s = {}
      BY <1>1
    <3>2. v = [s \in Sets(0) |-> IF s = {} THEN 0 ELSE g[One(s)].size + v[s \ {One(s)}]]
      BY <3>1
    <3> HIDE DEF v, Sets
    <3> QED
      BY <2>1, <3>2
  <2>3. PICK v : To(n - 1, v)
    <3>1. n - 1 \in 0 .. K /\ n - 1 < n
      BY <1>1, <2>1, <2>2
    <3> HIDE DEF To
    <3> QED
      BY <2>1, <3>1
  <2> DEFINE w == [s \in Sets(n) |-> IF s = {} THEN 0 ELSE g[One(s)].size + v[s \ {One(s)}]]
  <2>4. n \in Nat /\ n > 0
    BY <1>1, <2>1, <2>2
  <2>5. \A s \in Sets(n) : s # {} => s \ {One(s)} \in Sets(n - 1) /\ s \ {One(s)} \in Sets(n)
    BY <1>1, <1>2, <2>4
  <2>6. \A s \in Sets(n - 1) : s \in Sets(n) /\ w[s] = v[s]
    <3> SUFFICES ASSUME NEW s \in Sets(n - 1) PROVE s \in Sets(n) /\ w[s] = v[s]
      OBVIOUS
    <3>1. s \in Sets(n)
      BY <1>1, <2>4
    <3> HIDE DEF Sets
    <3>2. v[s] = IF s = {} THEN 0 ELSE g[One(s)].size + v[s \ {One(s)}]
      BY <2>3
    <3> QED
      BY <3>1, <3>2
  <2>7. To(n, w)
    <3>1. \A s \in Sets(n) : s # {} => v[s \ {One(s)}] = w[s \ {One(s)}]
      BY <2>5, <2>6
    <3> HIDE DEF Sets
    <3> QED
      BY <3>1
  <2> QED
    BY <2>1, <2>7
<1>4. K \in 0 .. K
  BY <1>1
<1>5. \E w : To(K, w)
  <2> HIDE DEF To
  <2> QED
    BY <1>3, <1>4
<1>6. Sets(K) = SUBSET T
  BY <1>1
<1>7. ASSUME NEW w, To(K, w) PROVE Sums(w, g, T)
  <2> HIDE DEF Sets
  <2> QED
    BY <1>6, <1>7 DEF One, Sums
<1> HIDE DEF To
<1> QED
  BY <1>5, <1>7

\* The sum of the sizes of the headers g at the addresses T.
Total(g, T) == MapThenSumSet(LAMBDA b : g[b].size, T)

LEMMA TotalIs ==
    ASSUME NEW g, NEW T, IsFiniteSet(T)
    PROVE  \E w : Sums(w, g, T) /\ Total(g, T) = w[T]
<1> DEFINE iter[s \in SUBSET T] ==
        IF s = {} THEN 0 ELSE LET x == CHOOSE y \in s : TRUE IN g[x].size + iter[s \ {x}]
<1>1. PICK w : Sums(w, g, T)
  BY SumsExist
<1>2. Sums(iter, g, T)
  BY <1>1 DEF Sums
<1>3. Total(g, T) = iter[T]
  BY DEF Total, MapThenSumSet, MapThenFoldSet
<1> QED
  BY <1>2, <1>3

\* The sums of two functions agree on the sets on which the functions do.
LEMMA SumsAgree ==
    ASSUME NEW T, IsFiniteSet(T), NEW S \in SUBSET T, NEW g, NEW h, NEW v, NEW w,
           Sums(v, g, T), Sums(w, h, S), \A x \in S : g[x].size = h[x].size
    PROVE  v[S] = w[S]
<1> DEFINE One(s) == CHOOSE x \in s : TRUE
           differ == {n \in Nat : \E s \in SUBSET S : Cardinality(s) = n /\ v[s] # w[s]}
<1>1. /\ \A s \in SUBSET S : Cardinality(s) \in Nat
      /\ \A s \in SUBSET S : \A x \in s : s \ {x} \in SUBSET S /\ Cardinality(s \ {x}) = Cardinality(s) - 1
  BY FS_Subset, Smaller
<1>2. \A s \in SUBSET S : s # {} => One(s) \in s /\ One(s) \in S
  OBVIOUS
<1>3. \A s \in SUBSET S : /\ v[s] = IF s = {} THEN 0 ELSE g[One(s)].size + v[s \ {One(s)}]
                          /\ w[s] = IF s = {} THEN 0 ELSE h[One(s)].size + w[s \ {One(s)}]
  BY DEF Sums
<1> HIDE DEF One
<1>4. differ = {}
  <2> SUFFICES ASSUME differ # {} PROVE FALSE
    OBVIOUS
  <2>1. PICK n \in differ : \A m \in differ : ~(m < n)
    <3>1. differ \in SUBSET Nat
      OBVIOUS
    <3> HIDE DEF differ
    <3> QED
      BY <3>1, LeastElement
  <2>2. PICK s \in SUBSET S : Cardinality(s) = n /\ v[s] # w[s]
    BY <2>1
  <2>3. s # {}
    BY <1>3, <2>2
  <2>4. /\ s \ {One(s)} \in SUBSET S /\ Cardinality(s \ {One(s)}) = n - 1
        /\ Cardinality(s \ {One(s)}) \in Nat /\ n - 1 < n
    BY <1>1, <1>2, <2>2, <2>3
  <2>5. v[s \ {One(s)}] = w[s \ {One(s)}]
    BY <2>1, <2>4
  <2> QED
    BY <1>2, <1>3, <2>2, <2>3, <2>5
<1> QED
  BY <1>1, <1>4

\* Sums are numbers, and it does not matter which member is added last.
LEMMA SumsTakeAny ==
    ASSUME NEW T, IsFiniteSet(T), NEW g, NEW w, Sums(w, g, T), \A x \in T : g[x].size \in Nat
    PROVE  \A s \in SUBSET T : w[s] \in Nat /\ \A x \in s : w[s] = g[x].size + w[s \ {x}]
<1> DEFINE One(s) == CHOOSE x \in s : TRUE
           Good(s) == w[s] \in Nat /\ \A x \in s : w[s] = g[x].size + w[s \ {x}]
           bad == {n \in Nat : \E s \in SUBSET T : Cardinality(s) = n /\ ~Good(s)}
<1>1. /\ \A s \in SUBSET T : Cardinality(s) \in Nat
      /\ \A s \in SUBSET T : \A x \in s : s \ {x} \in SUBSET T /\ Cardinality(s \ {x}) = Cardinality(s) - 1
  BY Smaller
<1>2. \A s \in SUBSET T : s # {} => One(s) \in s /\ One(s) \in T
  OBVIOUS
<1>3. \A s \in SUBSET T : w[s] = IF s = {} THEN 0 ELSE g[One(s)].size + w[s \ {One(s)}]
  BY DEF Sums
<1> HIDE DEF One
<1>4. bad = {}
  <2> SUFFICES ASSUME bad # {} PROVE FALSE
    OBVIOUS
  <2>1. PICK n \in bad : \A m \in bad : ~(m < n)
    <3>1. bad \in SUBSET Nat
      OBVIOUS
    <3> HIDE DEF bad
    <3> QED
      BY <3>1, LeastElement
  <2>2. PICK s \in SUBSET T : Cardinality(s) = n /\ ~Good(s)
    BY <2>1
  <2>3. ASSUME NEW u \in SUBSET T, Cardinality(u) < n PROVE Good(u)
    <3> HIDE DEF Good
    <3>1. Cardinality(u) \notin bad
      BY <2>1, <2>3
    <3> QED
      BY <1>1, <3>1
  <2>4. s # {}
    <3>1. w[{}] = 0
      BY <1>3
    <3>2. Good({})
      BY <3>1
    <3> HIDE DEF Good
    <3> QED
      BY <2>2, <3>2
  <2>5. PICK y : y = One(s)
    OBVIOUS
  <2>6. y \in s /\ y \in T /\ w[s] = g[y].size + w[s \ {y}]
    BY <1>2, <1>3, <2>4, <2>5
  <2>7. \A x \in s : s \ {x} \in SUBSET T /\ Good(s \ {x})
    <3> HIDE DEF Good
    <3> QED
      BY <1>1, <2>1, <2>2, <2>3
  <2>8. w[s] \in Nat
    <3>1. Good(s \ {y})
      BY <2>6, <2>7
    <3>2. w[s \ {y}] \in Nat
      BY <3>1
    <3>3. g[y].size \in Nat
      BY <2>6
    <3> QED
      BY <2>6, <3>2, <3>3
  <2>9. ASSUME NEW x \in s PROVE w[s] = g[x].size + w[s \ {x}]
    <3>1. CASE x = y
      BY <2>6, <3>1
    <3>2. CASE x # y
      <4>1. (s \ {x}) \ {y} = (s \ {y}) \ {x} /\ x \in s \ {y} /\ y \in s \ {x} /\ x \in T
        BY <2>6, <3>2
      <4>2. PICK u : u = (s \ {y}) \ {x}
        OBVIOUS
      <4>3. w[s \ {y}] = g[x].size + w[u] /\ w[s \ {x}] = g[y].size + w[u]
        BY <2>6, <2>7, <4>1, <4>2
      <4>4. w[u] \in Nat
        <5>1. s \ {y} \in SUBSET T /\ Cardinality(s \ {y}) = n - 1
          BY <1>1, <2>2, <2>6
        <5>2. u \in SUBSET T /\ Cardinality(u) = n - 1 - 1
          BY <1>1, <4>1, <4>2, <5>1
        <5>3. n \in Nat
          BY <2>1
        <5>4. Cardinality(u) < n
          BY <5>2, <5>3
        <5>5. Good(u)
          BY <2>3, <5>2, <5>4
        <5> QED
          BY <5>5
      <4>5. g[x].size \in Nat /\ g[y].size \in Nat
        BY <2>6, <4>1
      <4> QED
        BY <2>6, <4>3, <4>4, <4>5
    <3> QED
      BY <3>1, <3>2
  <2> QED
    BY <2>2, <2>8, <2>9
<1> QED
  BY <1>1, <1>4

\* The sum over a set is that over the set without x, and the size of x.
LEMMA TotalTakes ==
    ASSUME NEW g, NEW T, IsFiniteSet(T), \A x \in T : g[x].size \in Nat
    PROVE  /\ Total(g, T) \in Nat
           /\ \A x \in T : Total(g, T) = g[x].size + Total(g, T \ {x})
<1>1. PICK w : Sums(w, g, T) /\ Total(g, T) = w[T]
  BY TotalIs
<1>2. Total(g, T) \in Nat
  BY <1>1, SumsTakeAny
<1>3. ASSUME NEW x \in T PROVE Total(g, T) = g[x].size + Total(g, T \ {x})
  <2>1. PICK S : S = T \ {x}
    OBVIOUS
  <2>2. IsFiniteSet(S) /\ S \in SUBSET T
    BY <2>1, FS_Subset
  <2>3. PICK v : Sums(v, g, S) /\ Total(g, S) = v[S]
    BY <2>2, TotalIs
  <2>4. w[S] = v[S]
    BY <1>1, <2>2, <2>3, SumsAgree
  <2>5. w[T] = g[x].size + w[T \ {x}]
    BY <1>1, SumsTakeAny
  <2> QED
    BY <1>1, <2>1, <2>3, <2>4, <2>5
<1> QED
  BY <1>2, <1>3

\* The sum depends only on the sizes at these addresses.
LEMMA TotalSame ==
    ASSUME NEW g, NEW h, NEW T, IsFiniteSet(T), \A x \in T : g[x].size = h[x].size
    PROVE  Total(g, T) = Total(h, T)
<1>1. PICK v : Sums(v, g, T) /\ Total(g, T) = v[T]
  BY TotalIs
<1>2. PICK w : Sums(w, h, T) /\ Total(h, T) = w[T]
  BY TotalIs
<1>3. v[T] = w[T]
  BY <1>1, <1>2, SumsAgree
<1> QED
  BY <1>1, <1>2, <1>3

\* The headers new have the words that the headers hp have.
SameWords(hp, new) ==
    IsFiniteSet(DOMAIN hp) => IsFiniteSet(DOMAIN new) /\ Total(new, DOMAIN new) = Total(hp, DOMAIN hp)

\* split_block gives the second block what it takes from the first.
LEMMA SplitKeepsWords ==
    ASSUME NEW hp, OneList(hp), NEW b, NEW s, CanSplit(hp, b, s)
    PROVE  SameWords(hp, split_block(hp, b, s))
<1>1. PICK new, second : new = split_block(hp, b, s) /\ IsSplit(hp, new, b, s, second)
  BY SplitHeaders
<1>2. /\ b \in DOMAIN hp /\ s \in Nat /\ s <= hp[b].size
      /\ \A a \in DOMAIN hp : hp[a].size \in Nat
  BY DEF CanSplit, OneList, Header
<1>3. /\ second \notin DOMAIN hp /\ DOMAIN new = DOMAIN hp \cup {second}
      /\ \A a \in DOMAIN new : new[a].size \in Nat
      /\ new[second].size = hp[b].size - s /\ new[b].size = s
      /\ \A a \in DOMAIN hp \ {b} : new[a].size = hp[a].size
  BY <1>1, <1>2 DEF IsSplit, Header
<1> SUFFICES ASSUME IsFiniteSet(DOMAIN hp)
             PROVE  IsFiniteSet(DOMAIN new) /\ Total(new, DOMAIN new) = Total(hp, DOMAIN hp)
  BY <1>1 DEF SameWords
<1>4. PICK D, E, R : D = DOMAIN hp /\ E = DOMAIN new /\ R = D \ {b}
  OBVIOUS
<1>5. IsFiniteSet(E) /\ IsFiniteSet(R)
  BY <1>3, <1>4, FS_AddElement, FS_Subset
<1>6. E \ {second} = D /\ second \in E /\ b \in D
  BY <1>2, <1>3, <1>4
<1>7. Total(new, E) = new[second].size + Total(new, D)
  BY <1>3, <1>4, <1>5, <1>6, TotalTakes
<1>8. Total(new, D) = new[b].size + Total(new, R)
  BY <1>3, <1>4, <1>6, TotalTakes
<1>9. Total(hp, D) = hp[b].size + Total(hp, R)
  BY <1>2, <1>4, <1>6, TotalTakes
<1>10. Total(new, R) = Total(hp, R)
  BY <1>3, <1>4, <1>5, TotalSame
<1>11. Total(hp, R) \in Nat
  BY <1>2, <1>4, <1>5, TotalTakes
<1>12. hp[b].size \in Nat
  BY <1>2
<1> QED
  BY <1>2, <1>3, <1>4, <1>5, <1>7, <1>8, <1>9, <1>10, <1>11, <1>12

\* A block that swallows the next one has the words of both.
LEMMA FusionKeepsWords ==
    ASSUME OneList(heap), NEW b \in DOMAIN heap, Next_(b) # NULL
    PROVE  SameWords(heap, Fusion(b))
<1>1. PICK new, gone : new = Fusion(b) /\ IsFusion(new, b, gone)
  BY FusionHeaders
<1>2. \A a \in DOMAIN heap : heap[a].size \in Nat
  BY DEF OneList, Header
<1>3. /\ gone \in DOMAIN heap /\ gone # b /\ DOMAIN new = DOMAIN heap \ {gone}
      /\ \A a \in DOMAIN new : new[a].size \in Nat
      /\ new[b].size = heap[b].size + heap[gone].size
      /\ \A a \in DOMAIN heap \ {b, gone} : new[a].size = heap[a].size
  BY <1>1 DEF IsFusion, Header
<1> SUFFICES ASSUME IsFiniteSet(DOMAIN heap)
             PROVE  IsFiniteSet(DOMAIN new) /\ Total(new, DOMAIN new) = Total(heap, DOMAIN heap)
  BY <1>1 DEF SameWords
<1>4. PICK D, E, R : D = DOMAIN heap /\ E = DOMAIN new /\ R = D \ {b, gone}
  OBVIOUS
<1>5. IsFiniteSet(E) /\ IsFiniteSet(R)
  BY <1>3, <1>4, FS_Subset
<1>6. D \ {gone} = E /\ E \ {b} = R /\ gone \in D /\ b \in E
  BY <1>3, <1>4
<1>7. Total(heap, D) = heap[gone].size + Total(heap, E)
  BY <1>2, <1>4, <1>6, TotalTakes
<1>8. Total(heap, E) = heap[b].size + Total(heap, R)
  BY <1>2, <1>4, <1>5, <1>6, TotalTakes
<1>9. Total(new, E) = new[b].size + Total(new, R)
  BY <1>3, <1>4, <1>5, <1>6, TotalTakes
<1>10. Total(new, R) = Total(heap, R)
  BY <1>3, <1>4, <1>5, TotalSame
<1>11. Total(heap, R) \in Nat
  BY <1>2, <1>4, <1>5, TotalTakes
<1>12. heap[b].size \in Nat /\ heap[gone].size \in Nat
  BY <1>2, <1>3
<1> QED
  BY <1>3, <1>4, <1>5, <1>7, <1>8, <1>9, <1>10, <1>11, <1>12

\* A flag is no word of a block.
LEMMA FlagKeepsWords ==
    ASSUME NEW hp, OneList(hp), NEW b \in DOMAIN hp, NEW f \in BOOLEAN
    PROVE  SameWords(hp, [hp EXCEPT ![b].is_free = f])
<1>1. PICK new : new = [hp EXCEPT ![b].is_free = f]
  OBVIOUS
<1>2. DOMAIN new = DOMAIN hp /\ \A a \in DOMAIN hp : new[a].size = hp[a].size
  BY <1>1, FlagHeaders DEF IsFlagged
<1>3. IsFiniteSet(DOMAIN hp) => Total(new, DOMAIN hp) = Total(hp, DOMAIN hp)
  BY <1>2, TotalSame
<1> QED
  BY <1>1, <1>2, <1>3 DEF SameWords

\* A block that is taken loses no word to nobody: the rest of it is a block again.
LEMMA OccupyKeepsWords ==
    ASSUME OneList(heap), NEW b \in DOMAIN heap, NEW s \in Nat, Fits(b, s), RoomToSplit(b, s)
    PROVE  SameWords(heap, occupy_block_and_split_if_necessary(b, s))
<1>1. PICK mid : mid = IF heap[b].size > s THEN split_block(heap, b, s) ELSE heap
  OBVIOUS
<1>2. heap[b].size >= s /\ heap[b].size \in Nat /\ b \in Nat
  BY DEF Fits, OneList, Header
<1>3. OneList(mid) /\ SameWords(heap, mid) /\ b \in DOMAIN mid
  <2>1. CASE heap[b].size > s
    <3>1. CanSplit(heap, b, s)
      BY <1>2, <2>1, MallocAssumption DEF CanSplit, RoomToSplit, Next_
    <3>2. OneList(mid) /\ SameWords(heap, mid)
      BY <1>1, <2>1, <3>1, SplitKeepsList, SplitKeepsWords
    <3>3. PICK second : IsSplit(heap, mid, b, s, second)
      BY <1>1, <2>1, <3>1, SplitHeaders
    <3> QED
      BY <3>2, <3>3 DEF IsSplit
  <2>2. CASE ~(heap[b].size > s)
    BY <1>1, <2>2 DEF SameWords
  <2> QED
    BY <2>1, <2>2
<1>4. SameWords(mid, [mid EXCEPT ![b].is_free = FALSE])
  BY <1>3, FlagKeepsWords
<1>5. occupy_block_and_split_if_necessary(b, s) = [mid EXCEPT ![b].is_free = FALSE]
  BY <1>1 DEF occupy_block_and_split_if_necessary
<1> QED
  BY <1>3, <1>4, <1>5 DEF SameWords

\* All words of the heap are in some block, and there are finitely many of those.
AllWords(hp) == IsFiniteSet(DOMAIN hp) /\ Total(hp, DOMAIN hp) = HEAP_SIZE - HEAP_BLOCK_SIZE

LEMMA WordsAddUp == AllWords(heap) => SizesAddUp
  BY DEF AllWords, Total, SizesAddUp

\* In the one block of the beginning are all words.
LEMMA AllWordsInitially == Init => AllWords(heap)
<1> SUFFICES ASSUME Init PROVE AllWords(heap)
  OBVIOUS
<1>1. DOMAIN heap = {HeapStart} /\ heap[HeapStart].size = HEAP_SIZE - HEAP_BLOCK_SIZE
  BY DEF Init
<1>2. HEAP_SIZE - HEAP_BLOCK_SIZE \in Nat
  BY MallocAssumption
<1>3. IsFiniteSet({HeapStart}) /\ IsFiniteSet({})
  BY FS_Singleton, FS_EmptySet
<1>4. {HeapStart} \ {HeapStart} = {}
  OBVIOUS
<1>5. Total(heap, {HeapStart}) = heap[HeapStart].size + Total(heap, {})
  BY <1>1, <1>2, <1>3, <1>4, TotalTakes
<1>6. Total(heap, {}) = 0
  <2>1. PICK w : Sums(w, heap, {}) /\ Total(heap, {}) = w[{}]
    BY <1>3, TotalIs
  <2>2. w[{}] = 0
    <3>1. {} \in SUBSET {}
      OBVIOUS
    <3> QED
      BY <2>1, <3>1 DEF Sums
  <2> QED
    BY <2>1, <2>2
<1> QED
  BY <1>1, <1>2, <1>3, <1>5, <1>6 DEF AllWords, HeapStart

\* Every step leaves the words in the blocks.
LEMMA WordsNext == Careful /\ MallocInv /\ AllWords(heap) /\ [Next]_vars => AllWords(heap')
<1> SUFFICES ASSUME Careful, MallocInv, AllWords(heap), [Next]_vars PROVE AllWords(heap')
  OBVIOUS
<1>1. OneList(heap) /\ DOMAIN asked = {b \in DOMAIN heap : ~heap[b].is_free}
  BY DEF MallocInv, MallocTypeOK
<1>2. SameWords(heap, heap') => AllWords(heap')
  BY DEF SameWords, AllWords
<1>3. UNCHANGED heap => AllWords(heap')
  OBVIOUS
<1>4. ASSUME NEW b \in DOMAIN asked, StartFree(b) PROVE AllWords(heap')
  BY <1>1, <1>2, <1>4, FlagKeepsWords DEF StartFree
<1>5. ASSUME NEW b \in DOMAIN asked, NEW s \in Sizes, grealloc_fusion(b, s) PROVE AllWords(heap')
  <2>1. /\ heap' = split_block(Fusion(b), b, s) /\ b \in DOMAIN heap /\ Next_(b) # NULL /\ s \in Nat
        /\ heap[Next_(b)].size + heap[b].size >= s
    BY <1>1, <1>5, MallocAssumption DEF grealloc_fusion, FitsWithNext
  <2>2. PICK hp, gone : hp = Fusion(b) /\ IsFusion(hp, b, gone) /\ OneList(hp) /\ gone = Next_(b)
    BY <1>1, <2>1, FusionHeaders, FusionKeepsList
  <2>3. SameWords(heap, hp)
    BY <1>1, <2>1, <2>2, FusionKeepsWords
  <2>4. CanSplit(hp, b, s)
    BY <1>1, <2>1, <2>2, FusionLeavesRoom
  <2>5. SameWords(hp, heap')
    BY <2>1, <2>2, <2>4, SplitKeepsWords
  <2> QED
    BY <1>2, <2>3, <2>5 DEF SameWords
<1>6. CASE take_block
  <2>1. pc = "find_free_block" /\ Fits(block, size)
    BY <1>6 DEF take_block
  <2>2. /\ block \in DOMAIN heap /\ size \in Sizes /\ SafeToAsk(size)
        /\ \A c \in DOMAIN heap : c < block => ~Fits(c, size)
    BY <2>1 DEF MallocInv, MallocTypeOK, CallState
  <2>3. size \in Nat /\ RoomToSplit(block, size)
    BY <2>1, <2>2, MallocAssumption DEF SafeToAsk, FirstFit
  <2>4. SameWords(heap, heap')
    BY <1>1, <1>6, <2>1, <2>2, <2>3, OccupyKeepsWords DEF take_block
  <2> QED
    BY <1>2, <2>4
<1>7. CASE fusion
  <2>1. pc = "fusion" /\ (UNCHANGED heap \/ heap' = Fusion(block))
    BY <1>7 DEF fusion
  <2>2. block \in DOMAIN heap /\ Next_(block) # NULL
    BY <2>1 DEF MallocInv, MallocTypeOK, CallState
  <2>3. SameWords(heap, Fusion(block))
    BY <1>1, <2>2, FusionKeepsWords
  <2> QED
    BY <1>2, <1>3, <2>1, <2>3
<1>8. ASSUME NEW s \in Sizes, gmalloc(s) PROVE AllWords(heap')
  BY <1>3, <1>8 DEF gmalloc
<1>9. ASSUME NEW b \in DOMAIN asked, NEW s \in Sizes, grealloc_enough(b, s) \/ grealloc_move(b, s)
      PROVE  AllWords(heap')
  BY <1>3, <1>9 DEF grealloc_enough, grealloc_move
<1>10. CASE find_free_block \/ go_back \/ UNCHANGED vars
  BY <1>3, <1>10 DEF find_free_block, go_back, vars
<1>11. CASE FreeOld
  BY <1>4, <1>11 DEF FreeOld, MallocInv, MallocTypeOK, CallState
<1> QED
  BY <1>4, <1>5, <1>6, <1>7, <1>8, <1>9, <1>10, <1>11 DEF Next, gfree

\* However long programs split, merge and move blocks, no word of the heap is lost for good: the
\* sizes in the headers always add up to what the heap had at first.
THEOREM SizesCorrect == Careful => (Spec => []SizesAddUp)
<1> SUFFICES ASSUME Careful PROVE Spec => []SizesAddUp
  OBVIOUS
<1> DEFINE Words == AllWords(heap)
<1>1. Init => Words
  BY AllWordsInitially
<1>2. MallocInv /\ Words /\ [Next]_vars => Words'
  BY WordsNext
<1>3. Words => SizesAddUp
  BY WordsAddUp
<1> HIDE DEF Words
<1> QED
  BY <1>1, <1>2, <1>3, MallocInvariant, PTL DEF Spec
=============================================================================

------------------------------- MODULE Malloc -------------------------------
(***************************************************************************)
(* gmalloc, grealloc and gfree of a process (src/src/malloc.c): a doubly   *)
(* linked list of blocks behind their headers, first fit, merged when they *)
(* are freed.  Addresses count from the process's memory_start, in words.  *)
(* A step is an iteration of a loop, or what stands between two loops.     *)
(***************************************************************************)
EXTENDS Integers, FiniteSets, FiniteSetsExt

CONSTANTS
    HEAP_SIZE, HEAP_BLOCK_SIZE,     \* the heap and a header
    Sizes,                          \* what programs ask for
    MaxTaken,                       \* bound: blocks a program holds at a time
    Careful                         \* do programs keep to the calls malloc.c serves rightly?

ASSUME MallocAssumption ==
    /\ HEAP_BLOCK_SIZE \in Nat \ {0} /\ HEAP_SIZE \in Nat /\ HEAP_SIZE > HEAP_BLOCK_SIZE
    /\ Sizes \subseteq Nat \ {0} /\ MaxTaken \in Nat /\ Careful \in BOOLEAN

NULL == -1
HeapStart == 0
WordBytes == 4

VARIABLES
    heap,       \* the headers in the list, by address
    asked,      \* for the blocks programs hold, what they asked for
    pc,         \* the loop the process is in
    block,      \* where in the list it is
    size,       \* what it looks for
    moving      \* the block grealloc is to copy

loopVars == <<pc, block, size, moving>>
vars == <<heap, asked, loopVars>>

Header == [size : Nat, next : Nat \cup {NULL}, previous : Nat \cup {NULL}, is_free : BOOLEAN]

MallocTypeOK ==
    /\ DOMAIN heap \subseteq Nat
    /\ \A b \in DOMAIN heap : heap[b] \in Header
    /\ DOMAIN asked = {b \in DOMAIN heap : ~heap[b].is_free}
    /\ \A b \in DOMAIN asked : asked[b] \in 0 .. heap[b].size
    /\ pc \in {"idle", "find_free_block", "copy", "go_back", "fusion"}
    /\ pc = "idle" <=> block = NULL
    /\ block \in DOMAIN heap \cup {NULL}
    /\ size \in Sizes \cup {0}
    /\ moving \in DOMAIN asked \cup {NULL}

\* add_process: one block takes the whole heap.
Init ==
    /\ heap = [b \in {HeapStart} |-> [size |-> HEAP_SIZE - HEAP_BLOCK_SIZE, next |-> NULL,
                                      previous |-> NULL, is_free |-> TRUE]]
    /\ asked = [b \in {} |-> 0]
    /\ pc = "idle" /\ block = NULL /\ size = 0 /\ moving = NULL

-----------------------------------------------------------------------------
(* What a step does to the headers.                                        *)

Next_(b) == heap[b].next

\* Mutant: a free block will do, whatever its size.
FitsAnySize(b, s) == heap[b].is_free

Fits(b, s) == heap[b].is_free /\ heap[b].size >= s

\* The headers hp when the block behind b is "next", or b is the last one.
LinkBack(hp, b, next) == IF next = NULL THEN hp ELSE [hp EXCEPT ![next].previous = b]

\* Mutant: the block behind the second one still points to the first.
SplitForgetsBack(hp, b, s) ==
    LET second == b + s + HEAP_BLOCK_SIZE
    IN  [a \in DOMAIN hp \cup {second} |->
            CASE a = second -> [size |-> hp[b].size - s, next |-> hp[b].next, previous |-> b, is_free |-> TRUE]
              [] a = b -> [hp[b] EXCEPT !.size = s, !.next = second]
              [] OTHER -> hp[a]]

\* Mutant: the second header stands where the whole block ended.
SplitAtOldEnd(hp, b, s) ==
    LET second == b + hp[b].size + HEAP_BLOCK_SIZE
    IN  LinkBack([a \in DOMAIN hp \cup {second} |->
            CASE a = second -> [size |-> hp[b].size - s, next |-> hp[b].next, previous |-> b, is_free |-> TRUE]
              [] a = b -> [hp[b] EXCEPT !.size = s, !.next = second]
              [] OTHER -> hp[a]], second, hp[b].next)

\* The second block has the rest of the size, its header not taken off.
split_block(hp, b, s) ==
    LET second == b + s + HEAP_BLOCK_SIZE
    IN  LinkBack([a \in DOMAIN hp \cup {second} |->
            CASE a = second -> [size |-> hp[b].size - s, next |-> hp[b].next, previous |-> b, is_free |-> TRUE]
              [] a = b -> [hp[b] EXCEPT !.size = s, !.next = second]
              [] OTHER -> hp[a]], second, hp[b].next)

occupy_block_and_split_if_necessary(b, s) ==
    [(IF heap[b].size > s THEN split_block(heap, b, s) ELSE heap) EXCEPT ![b].is_free = FALSE]

\* Block b swallows the block behind it, but for that one's header.
Fusion(b) ==
    LET gone == Next_(b)
        rest == [a \in DOMAIN heap \ {gone} |->
                    IF a = b THEN [heap[b] EXCEPT !.size = @ + heap[gone].size, !.next = heap[gone].next]
                    ELSE heap[a]]
    IN  LinkBack(rest, b, heap[gone].next)

Without(b) == [a \in DOMAIN asked \ {b} |-> asked[a]]
With(b, s) == [a \in DOMAIN asked \cup {b} |-> IF a = b THEN s ELSE asked[a]]

-----------------------------------------------------------------------------
(* The calls.                                                              *)

Return == pc' = "idle" /\ block' = NULL /\ size' = 0 /\ moving' = NULL
EnterLoop(loop, b, s, old) == pc' = loop /\ block' = b /\ size' = s /\ moving' = old

\* What is handed out, and the second header that split_block writes behind it, end before the
\* next block or, behind the last one, before the end of the heap, whatever the sizes say.
LastHasRoom(b, s) == b + s + 2 * HEAP_BLOCK_SIZE <= HEAP_SIZE
RoomToSplit(b, s) ==
    IF Next_(b) = NULL
    THEN LastHasRoom(b, s) \/ (heap[b].size = s /\ b + s + HEAP_BLOCK_SIZE <= HEAP_SIZE)
    ELSE heap[b].size = s \/ b + heap[b].size + 2 * HEAP_BLOCK_SIZE <= Next_(b)

FirstFit(b, s) == Fits(b, s) /\ \A c \in DOMAIN heap : c < b => ~Fits(c, s)
SafeToAsk(s) == Careful => \A b \in DOMAIN heap : FirstFit(b, s) => RoomToSplit(b, s)

gmalloc(s) ==
    /\ pc = "idle" /\ Cardinality(DOMAIN asked) < MaxTaken
    /\ SafeToAsk(s)
    /\ EnterLoop("find_free_block", HeapStart, s, NULL)
    /\ UNCHANGED <<heap, asked>>

\* Mutant: behind the last block, the search begins again.
SearchWraps ==
    /\ pc = "find_free_block" /\ ~Fits(block, size)
    /\ EnterLoop(pc, IF Next_(block) = NULL THEN HeapStart ELSE Next_(block), size, moving)
    /\ UNCHANGED <<heap, asked>>

\* Behind the last block of the list the loop first reads a header at address NULL, which is
\* mapped and open to all (vmem.c:105 and 203): it returns NULL whether that one fits or not.
find_free_block ==
    /\ pc = "find_free_block" /\ ~Fits(block, size)
    /\ IF Next_(block) = NULL THEN Return ELSE EnterLoop(pc, Next_(block), size, moving)
    /\ UNCHANGED <<heap, asked>>

\* gmalloc returns the block, grealloc copies the old one into it, and has both meanwhile.
take_block ==
    /\ pc = "find_free_block" /\ Fits(block, size)
    /\ heap' = occupy_block_and_split_if_necessary(block, size)
    /\ asked' = With(block, size)
    /\ IF moving = NULL THEN Return ELSE EnterLoop("copy", block, 0, moving)

\* Mutant: a freed block is merged with what is behind it only.
NeverBefore(b) == FALSE

FreeBefore(b) == heap[b].previous # NULL /\ heap[heap[b].previous].is_free

\* gfree looks at what is behind the block: nothing, if it is the last and stays apart.
MayFree(b) == Next_(b) # NULL \/ FreeBefore(b)

StartFree(b) ==
    /\ heap' = [heap EXCEPT ![b].is_free = TRUE]
    /\ asked' = Without(b)
    /\ EnterLoop("go_back", b, 0, NULL)

gfree(b) == pc = "idle" /\ b \in DOMAIN asked /\ MayFree(b) /\ StartFree(b)

\* grealloc has copied, and frees the old block.
FreeOld == pc = "copy" /\ StartFree(moving)

go_back ==
    /\ pc = "go_back"
    /\ IF FreeBefore(block) THEN EnterLoop(pc, heap[block].previous, 0, NULL)
       ELSE EnterLoop("fusion", block, 0, NULL)
    /\ UNCHANGED <<heap, asked>>

\* The last block is never swallowed.
MayFuse(b) == heap[Next_(b)].is_free /\ Next_(Next_(b)) # NULL

fusion ==
    /\ pc = "fusion"
    /\ IF MayFuse(block) THEN heap' = Fusion(block) /\ UNCHANGED loopVars
       ELSE Return /\ UNCHANGED heap
    /\ UNCHANGED asked

\* grealloc of nothing is gmalloc, and to nothing it is gfree.
grealloc_enough(b, s) ==
    /\ pc = "idle" /\ b \in DOMAIN asked /\ heap[b].size >= s
    /\ asked' = With(b, s)
    /\ UNCHANGED <<heap, loopVars>>

FitsWithNext(b, s) == Next_(b) # NULL /\ heap[Next_(b)].is_free /\ heap[Next_(b)].size + heap[b].size >= s

grealloc_fusion(b, s) ==
    /\ pc = "idle" /\ b \in DOMAIN asked /\ heap[b].size < s /\ FitsWithNext(b, s)
    /\ Careful => Next_(Next_(b)) # NULL \/ LastHasRoom(b, s)
    /\ heap' = split_block(Fusion(b), b, s)
    /\ asked' = With(b, s)
    /\ UNCHANGED loopVars

\* What is to be copied is counted in bytes and copied in words, and one word more.
Copied(b) == WordBytes * heap[b].size + 1
CopyFits(b, s) == Careful => Copied(b) <= s

grealloc_move(b, s) ==
    /\ pc = "idle" /\ b \in DOMAIN asked /\ heap[b].size < s /\ ~FitsWithNext(b, s)
    /\ Next_(b) # NULL /\ CopyFits(b, s) /\ SafeToAsk(s)
    /\ EnterLoop("find_free_block", HeapStart, s, b)
    /\ UNCHANGED <<heap, asked>>

Next ==
    \/ \E s \in Sizes : gmalloc(s)
    \/ \E b \in DOMAIN asked :
        \/ gfree(b)
        \/ \E s \in Sizes : grealloc_enough(b, s) \/ grealloc_fusion(b, s) \/ grealloc_move(b, s)
    \/ find_free_block \/ take_block \/ FreeOld \/ go_back \/ fusion

Spec == Init /\ [][Next]_vars

\* A process runs its own call to the end.
FairSpec == Spec /\ WF_vars(find_free_block \/ take_block \/ FreeOld \/ go_back \/ fusion)

-----------------------------------------------------------------------------
LinksMirror ==
    /\ HeapStart \in DOMAIN heap /\ heap[HeapStart].previous = NULL
    /\ \A b \in DOMAIN heap :
        /\ Next_(b) # NULL => Next_(b) \in DOMAIN heap /\ heap[Next_(b)].previous = b
        /\ heap[b].previous # NULL => Next_(heap[b].previous) = b
        /\ heap[b].previous = NULL => b = HeapStart

NoOverlap == \A b \in DOMAIN heap : Next_(b) # NULL => b + HEAP_BLOCK_SIZE + heap[b].size <= Next_(b)

\* The list is one, from the start of the heap up: its links mirror each other, and no block
\* reaches into the header of the next one, although split_block gives the second block of two
\* the size of its own header too much.
ListSound == LinksMirror /\ NoOverlap

\* Whatever is split, merged and moved, no word of the heap is lost for good.
SizesAddUp == MapThenSumSet(LAMBDA b : heap[b].size, DOMAIN heap) = HEAP_SIZE - HEAP_BLOCK_SIZE

\* "it is not possible that two free blocks follow each other" (malloc.c:97): true between
\* calls of all pairs but those with the last block.
FreeBlocksApart ==
    pc = "idle" => \A b \in DOMAIN heap :
        heap[b].is_free /\ Next_(b) # NULL /\ heap[Next_(b)].is_free => Next_(Next_(b)) = NULL

\* Every call returns: no loop over the list goes on for ever.
CallsReturn == pc # "idle" ~> pc = "idle"

\* "Meta data of block is stored at first position. block* + 1 => the first available address
\* for the user" (malloc.c:70), and gfree asserts what it reads there: no word a program may
\* write belongs to a header.
HeadersIntact ==
    \A b \in DOMAIN asked : \A h \in DOMAIN heap :
        (b + HEAP_BLOCK_SIZE .. b + HEAP_BLOCK_SIZE + asked[b] - 1) \cap (h .. h + HEAP_BLOCK_SIZE - 1) = {}

\* add_process gives a process HEAP_SIZE words of its memory for its heap (sched.c:99), and the
\* stack has the rest, but split_block takes no header off what is left of the last block: no
\* header, and no word a program may write, is behind the end of the heap.
WithinHeap ==
    /\ \A b \in DOMAIN heap : b + HEAP_BLOCK_SIZE <= HEAP_SIZE
    /\ \A b \in DOMAIN asked : b + HEAP_BLOCK_SIZE + asked[b] <= HEAP_SIZE

\* The regions programs hold lie apart, also the two that grealloc has while it copies.
Pointer(b) == [addr |-> b + HEAP_BLOCK_SIZE, size |-> asked[b]]
Promise == INSTANCE Regions WITH Region <- [addr : Nat, size : Nat],
                                 live <- {Pointer(b) : b \in DOMAIN asked}
KeepsRegionsApart == Promise!RegionsSpec
=============================================================================

-------------------------------- MODULE Vmem --------------------------------
(***************************************************************************)
(* Virtual memory and the kernel heap under it (src/src/vmem.c,            *)
(* vmem_helper.c, kheap.c, with add_process and free_process of sched.c):  *)
(* two levels of translation tables per process, allocated and freed in    *)
(* the kernel heap, a frame occupation table, and the translations the     *)
(* processor caches.  Words stand for the units of the heap, PAGE_SIZE for *)
(* the size of a page in the unit of mmap; everything here runs with       *)
(* interrupts off, so that a call is one step.                             *)
(***************************************************************************)
EXTENDS Integers, FiniteSets, Sequences, SequencesExt

CONSTANTS
    Process, kmain,                     \* the processes, and the one that is there from the start
    PAGE_SIZE, NbFrames,                \* frames for user pages: 1 .. NbFrames
    SECON_LVL_TT_COUN,                  \* entries, and words, of a second level table
    FIRST_LVL_TT_SIZE,                  \* words of a first level table
    NbKernelTables, NbUserTables,       \* second level tables for kernel and devices, for users
    FRAME_TABLE_SIZE, CmdBufferSize,    \* what else the kernel takes at its start
    PcbSize, MEMORY_SIZE, MmapSizes,
    kernel_heap_start, kernel_heap_limit,
    MaxCached                           \* bound: translations cached at a time

ASSUME VmemAssumption ==
    /\ kmain \in Process
    /\ {PAGE_SIZE, SECON_LVL_TT_COUN, NbUserTables, PcbSize, MEMORY_SIZE, kernel_heap_start} \subseteq Nat \ {0}
    /\ {NbFrames, NbKernelTables, kernel_heap_limit, MaxCached} \subseteq Nat /\ MmapSizes \subseteq Nat \ {0}
    /\ FIRST_LVL_TT_SIZE \in Nat /\ FIRST_LVL_TT_SIZE >= NbKernelTables + NbUserTables
    /\ {FRAME_TABLE_SIZE, CmdBufferSize} \subseteq Nat \ {0}
    \* So kAlloc meets no freed table of the second level, and a size tells what is a pcb.
    /\ PcbSize \notin {FIRST_LVL_TT_SIZE, SECON_LVL_TT_COUN, FRAME_TABLE_SIZE, CmdBufferSize}

NULL == 0
Frame == 1 .. NbFrames
Page == 0 .. NbUserTables * SECON_LVL_TT_COUN - 1      \* from 0x1000000 on
Index2 == 0 .. SECON_LVL_TT_COUN - 1

VARIABLES
    kheap,          \* [top, free]: kernel_heap_top and freelist, the latest block first
    proc,           \* the processes that live, see ProcessRecord
    kept,           \* the blocks the kernel has that belong to none of them
    second,         \* the second level tables for user pages, by address: frames, or NULL
    frame_table,    \* the occupied frames
    current,
    tlb             \* the translations of the current process that are cached, or NULL

vars == <<kheap, proc, kept, second, frame_table, current, tlb>>

Alive == DOMAIN proc
Block == [addr : Nat, size : Nat, flagged : BOOLEAN]
Span(addr, size) == [addr |-> addr, size |-> size]
TableSpan(addr) == Span(addr, SECON_LVL_TT_COUN)

\* pcb and page_table are addresses; first[i] is the address of the table for the i-th group of
\* user pages; memory_start is the first page of stack and heap; mapped is what the process
\* got from sys_mmap, pairs of a first page and a size.
ProcessRecord ==
    [pcb : Nat, page_table : Nat, kernel_tables : Seq(Nat), first : [0 .. NbUserTables - 1 -> Nat],
     memory_start : Page, mapped : SUBSET (Page \X MmapSizes)]

VmemTypeOK ==
    /\ kheap.top \in Nat /\ kheap.free \in Seq(Block)
    /\ Alive \subseteq Process /\ {kmain, current} \subseteq Alive
    /\ \A p \in Alive : proc[p] \in ProcessRecord
    /\ kept \subseteq [addr : Nat, size : Nat]
    /\ DOMAIN second = {proc[p].first[i] : p \in Alive, i \in 0 .. NbUserTables - 1} \ {NULL}
    /\ \A a \in DOMAIN second : second[a] \in [Index2 -> Frame \cup {NULL}]
    /\ frame_table \subseteq Frame
    /\ tlb \in [Page -> Frame \cup {NULL}]

-----------------------------------------------------------------------------
(* The kernel heap: functions of kheap.                                    *)

aligned_value(addr, align) == ((addr + align - 1) \div align) * align

Unlinked(k, i) == [k EXCEPT !.free = RemoveAt(@, i)]

\* A second level table is freed with the flag of its descriptor still in its address: link and
\* size go into the table, not to its start.  The default build runs under QEMU, which performs
\* the unaligned accesses.
kFree(k, addr, size, flagged) == [k EXCEPT !.free = <<[addr |-> addr, size |-> size, flagged |-> flagged]>> \o @]

\* Mutant: the gap before an aligned block is not counted.
TopUnaligned(k, aligned, size) == [k EXCEPT !.top = @ + size]

TopAbove(k, aligned, size) == [k EXCEPT !.top = aligned + size]

\* The first free block of just this size at an aligned address, or the top, aligned: the gap
\* is freed.  A block is [addr, heap]: its address and the heap that is left.
kAlloc_aligned(k, size, align) ==
    LET fit == SelectInSeq(k.free, LAMBDA b : ~b.flagged /\ b.addr % align = 0 /\ b.size = size)
        aligned == aligned_value(k.top, align)
        above == TopAbove(k, aligned, size)
    IN  IF fit # 0 THEN [addr |-> k.free[fit].addr, heap |-> Unlinked(k, fit)]
        ELSE [addr |-> aligned,
              heap |-> IF aligned = k.top THEN above ELSE kFree(above, k.top, aligned - k.top, FALSE)]

\* kAlloc is the same without alignment.
kAlloc(k, size) == kAlloc_aligned(k, size, 1)

\* A table is filled with FORBIDDEN_BYTE, which is 0: nothing is mapped.
EmptyTable == [j \in Index2 |-> NULL]

Table2(k) == kAlloc_aligned(k, SECON_LVL_TT_COUN, SECON_LVL_TT_COUN)

\* n tables in a row: [addrs, heap].
Tables2(k, n) ==
    LET T[i \in 0 .. n] ==
            IF i = 0 THEN [addrs |-> <<>>, heap |-> k]
            ELSE [addrs |-> Append(T[i - 1].addrs, Table2(T[i - 1].heap).addr), heap |-> Table2(T[i - 1].heap).heap]
    IN  T[n]

\* Past the limit kAlloc returns an address that nobody tests.
InLimit(k) == k.top <= kernel_heap_limit

\* init_translation_table: a first level table and the tables for kernel and devices.
TranslationTable(k) ==
    LET base == kAlloc_aligned(k, FIRST_LVL_TT_SIZE, FIRST_LVL_TT_SIZE)
        own == Tables2(base.heap, NbKernelTables)
    IN  [base |-> base.addr, tables |-> own.addrs, heap |-> own.heap]

-----------------------------------------------------------------------------
(* Translation.                                                            *)

\* vmem_translate through first level entries f and second level tables t.
Through(f, t, page) ==
    IF f[page \div SECON_LVL_TT_COUN] = NULL THEN NULL
    ELSE t[f[page \div SECON_LVL_TT_COUN]][page % SECON_LVL_TT_COUN]

vmem_translate(page, p) == Through(proc[p].first, second, page)

get_nb_pages(size) ==
    IF size \div PAGE_SIZE = (size - 1) \div PAGE_SIZE THEN size \div PAGE_SIZE + 1 ELSE size \div PAGE_SIZE

PagesOf(page, size) == page .. page + get_nb_pages(size) - 1
TablesOf(page, size) == {q \div SECON_LVL_TT_COUN : q \in PagesOf(page, size)}

-----------------------------------------------------------------------------
(* Mapping and unmapping, for first level entries f and kernel heap k.     *)

\* Mutant: only the first page is looked at.
RoomForFirst(f, size) ==
    {page \in Page : PagesOf(page, size) \subseteq Page /\ Through(f, second, page) = NULL}

\* Where enough pages in a row are not mapped.
RoomFor(f, size) ==
    {page \in Page : \A q \in PagesOf(page, size) : q \in Page /\ Through(f, second, q) = NULL}

FreeFrames == Frame \ frame_table
NthOf(S, n) == CHOOSE x \in S : Cardinality({y \in S : y <= x}) = n

\* Past the last free frame, and where there is no room, the code goes on with what it has.
CanAlloc(f, size) == RoomFor(f, size) # {} /\ Cardinality(FreeFrames) >= get_nb_pages(size)

\* The first room, tables where the first level has none, and the first free frames.
vmem_alloc_for_userland(f, k, size) ==
    LET page == Min(RoomFor(f, size))
        missing == {i \in TablesOf(page, size) : f[i] = NULL}
        fresh == Tables2(k, Cardinality(missing))
        f2 == [i \in DOMAIN f |-> IF i \in missing THEN fresh.addrs[Cardinality({j \in missing : j <= i})] ELSE f[i]]
        FrameOf(q) == NthOf(FreeFrames, q - page + 1)
        old == [a \in DOMAIN second \cup ToSet(fresh.addrs) |-> IF a \in ToSet(fresh.addrs) THEN EmptyTable ELSE second[a]]
    IN  [page |-> page, first |-> f2, heap |-> fresh.heap,
         frames |-> frame_table \cup {FrameOf(q) : q \in PagesOf(page, size)},
         second |-> [a \in DOMAIN old |-> [j \in Index2 |->
            IF \E q \in PagesOf(page, size) : f2[q \div SECON_LVL_TT_COUN] = a /\ q % SECON_LVL_TT_COUN = j
            THEN FrameOf(CHOOSE q \in PagesOf(page, size) : f2[q \div SECON_LVL_TT_COUN] = a /\ q % SECON_LVL_TT_COUN = j)
            ELSE old[a][j]]]]

is_table2_free(table) == table = EmptyTable

\* Mutant: the descriptors stay.
KeepsDescriptors(f, page, size) == second

Cleared(f, page, size) ==
    [a \in DOMAIN second |-> [j \in Index2 |->
        IF \E q \in PagesOf(page, size) : f[q \div SECON_LVL_TT_COUN] = a /\ q % SECON_LVL_TT_COUN = j
        THEN NULL ELSE second[a][j]]]

\* The tables that are empty, freed one after another.
FreeTables2(k, f, empty) ==
    LET F[i \in 0 .. NbUserTables] ==
            IF i = 0 THEN k
            ELSE IF i - 1 \in empty THEN kFree(F[i - 1], f[i - 1], SECON_LVL_TT_COUN, TRUE) ELSE F[i - 1]
    IN  F[NbUserTables]

\* The frames are given back, and the tables that nothing is left in.
vmem_free(f, k, page, size) ==
    LET cleared == Cleared(f, page, size)
        empty == {i \in TablesOf(page, size) : is_table2_free(cleared[f[i]])}
        freed == {f[i] : i \in empty}
    IN  [first |-> [i \in DOMAIN f |-> IF i \in empty THEN NULL ELSE f[i]],
         heap |-> FreeTables2(k, f, empty),
         frames |-> frame_table \ {Through(f, second, q) : q \in PagesOf(page, size)},
         second |-> [a \in DOMAIN second \ freed |-> cleared[a]]]

-----------------------------------------------------------------------------
(* The system calls of the current process.                                *)

NoFirst == [i \in 0 .. NbUserTables - 1 |-> NULL]
NothingCached == [q \in Page |-> NULL]

\* init_kernel: vmem_init takes the kernel's own tables and the frame table, sched_init the
\* tables of kmain; then comes cmd_buffer.
Init ==
    LET kernel == TranslationTable([top |-> kernel_heap_start, free |-> <<>>])
        frames == kAlloc(kernel.heap, FRAME_TABLE_SIZE)
        own == TranslationTable(frames.heap)
        buffer == kAlloc(own.heap, CmdBufferSize)
    IN  /\ kheap = buffer.heap
        /\ kept = {Span(kernel.base, FIRST_LVL_TT_SIZE), Span(frames.addr, FRAME_TABLE_SIZE),
                   Span(buffer.addr, CmdBufferSize)} \cup {TableSpan(a) : a \in ToSet(kernel.tables)}
        /\ proc = [p \in {kmain} |-> [pcb |-> NULL, page_table |-> own.base, kernel_tables |-> own.tables,
                                      first |-> NoFirst, memory_start |-> 0, mapped |-> {}]]
        /\ second = [a \in {} |-> EmptyTable]
        /\ frame_table = {}
        /\ current = kmain
        /\ tlb = NothingCached

\* Mutant: only the table base is set.
KeepsTlb == UNCHANGED tlb

\* switch_mmu_to invalidates the TLB.
switch_mmu_to == tlb' = NothingCached

\* The part of add_process that takes memory; it visits the new process's tables.
add_process(p) ==
    /\ p \notin Alive
    /\ LET block == kAlloc(kheap, PcbSize)
           own == TranslationTable(block.heap)
           memory == vmem_alloc_for_userland(NoFirst, own.heap, MEMORY_SIZE)
       IN  /\ CanAlloc(NoFirst, MEMORY_SIZE) /\ InLimit(memory.heap)
           /\ proc' = [q \in Alive \cup {p} |-> IF q # p THEN proc[q] ELSE
                [pcb |-> block.addr, page_table |-> own.base, kernel_tables |-> own.tables,
                 first |-> memory.first, memory_start |-> memory.page, mapped |-> {}]]
           /\ kheap' = memory.heap
           /\ second' = memory.second
           /\ frame_table' = memory.frames
    /\ switch_mmu_to
    /\ UNCHANGED <<current, kept>>

do_sys_mmap(size) ==
    /\ CanAlloc(proc[current].first, size)
    /\ LET m == vmem_alloc_for_userland(proc[current].first, kheap, size)
       IN  /\ InLimit(m.heap)
           /\ proc' = [proc EXCEPT ![current].first = m.first, ![current].mapped = @ \cup {<<m.page, size>>}]
           /\ kheap' = m.heap
           /\ second' = m.second
           /\ frame_table' = m.frames
    /\ UNCHANGED <<current, kept, tlb>>

\* Programs unmap what they mapped, once.
do_sys_munmap(page, size) ==
    /\ <<page, size>> \in proc[current].mapped
    /\ LET m == vmem_free(proc[current].first, kheap, page, size)
       IN  /\ proc' = [proc EXCEPT ![current].first = m.first, ![current].mapped = @ \ {<<page, size>>}]
           /\ kheap' = m.heap
           /\ second' = m.second
           /\ frame_table' = m.frames
    /\ UNCHANGED <<current, kept, tlb>>

\* The pcbs of processes that somebody has to wait for.
Zombies == {b \in kept : b.size = PcbSize}

\* Mutant: a zombie's pcb is freed like any other.
FreesAnyPcb(k, p, orphan) == kFree(k, p.pcb, PcbSize, FALSE)

\* The pcb is freed unless a process other than kmain will wait for it.
FreePcb(k, p, orphan) == IF orphan THEN kFree(k, p.pcb, PcbSize, FALSE) ELSE k

\* What free_process leaves: the tables for kernel and devices, and the pcb of a zombie.
LeftBehind(p, orphan) ==
    {TableSpan(a) : a \in ToSet(p.kernel_tables)} \cup IF orphan THEN {} ELSE {Span(p.pcb, PcbSize)}

\* do_sys_exit and free_process: the pcb of an orphan, the memory and the first level table are
\* freed, in this order.  Programs unmap what they mapped and wait for their children before they
\* exit (module Family has what becomes of children that are zombies then).
do_sys_exit(next, orphan) ==
    /\ current # kmain /\ proc[current].mapped = {} /\ next \in Alive \ {current}
    /\ orphan \/ Alive \ {kmain, current} # {}
    /\ LET p == proc[current]
           m == vmem_free(p.first, FreePcb(kheap, p, orphan), p.memory_start, MEMORY_SIZE)
       IN  /\ kheap' = kFree(m.heap, p.page_table, FIRST_LVL_TT_SIZE, FALSE)
           /\ kept' = kept \cup LeftBehind(p, orphan)
           /\ second' = m.second
           /\ frame_table' = m.frames
    /\ proc' = [p \in Alive \ {current} |-> proc[p]]
    /\ current' = next
    /\ switch_mmu_to

\* do_sys_waitpid frees the pcb of a process that has exited; whose child it is, module Family says.
do_sys_waitpid ==
    /\ current # kmain
    /\ \E zombie \in Zombies :
          /\ kheap' = kFree(kheap, zombie.addr, PcbSize, FALSE)
          /\ kept' = kept \ {zombie}
    /\ UNCHANGED <<proc, second, frame_table, current, tlb>>

\* The scheduler elects another process.
Switch(p) ==
    /\ p \in Alive \ {current}
    /\ current' = p
    /\ switch_mmu_to
    /\ UNCHANGED <<kheap, proc, kept, second, frame_table>>

\* The processor looks a page up that is not cached.
Access(page) ==
    /\ Cardinality({q \in Page : tlb[q] # NULL}) < MaxCached
    /\ tlb[page] = NULL /\ vmem_translate(page, current) # NULL
    /\ tlb' = [tlb EXCEPT ![page] = vmem_translate(page, current)]
    /\ UNCHANGED <<kheap, proc, kept, second, frame_table, current>>

Next ==
    \/ \E p \in Process : add_process(p) \/ Switch(p)
    \/ \E p \in Process, orphan \in BOOLEAN : do_sys_exit(p, orphan)
    \/ do_sys_waitpid
    \/ \E size \in MmapSizes : do_sys_mmap(size)
    \/ \E m \in proc[current].mapped : do_sys_munmap(m[1], m[2])
    \/ \E page \in Page : Access(page)

Spec == Init /\ [][Next]_vars

-----------------------------------------------------------------------------
PagesMapped(p) == {q \in Page : vmem_translate(q, p) # NULL}
Holds(p) == proc[p].mapped \cup (IF p = kmain THEN {} ELSE {<<proc[p].memory_start, MEMORY_SIZE>>})

\* Each process has just the pages of its stack and heap and of what it mapped, each once.
RegionsMapped ==
    \A p \in Alive :
        /\ PagesMapped(p) = UNION {PagesOf(m[1], m[2]) : m \in Holds(p)}
        /\ \A m, n \in Holds(p) : m # n => PagesOf(m[1], m[2]) \cap PagesOf(n[1], n[2]) = {}

\* A frame is marked exactly if one page of one process is mapped to it, and it is never two.
FramesExact ==
    \A frame \in Frame :
        Cardinality({m \in Alive \X Page : vmem_translate(m[2], m[1]) = frame}) =
            IF frame \in frame_table THEN 1 ELSE 0

\* Although munmap leaves the TLB alone, what is cached never leads to another process's frame.
TlbIsolated ==
    \A page \in Page, p \in Alive \ {current}, q \in Page :
        tlb[page] # NULL => vmem_translate(q, p) # tlb[page]

\* What a process has of the kernel heap, by what it has it for.
SlotsOf(p, r) ==
    {<<"page_table", 0>>} \cup (IF p = kmain THEN {} ELSE {<<"pcb", 0>>})
    \cup ({"kernel"} \X DOMAIN r.kernel_tables)
    \cup ({"first"} \X {i \in DOMAIN r.first : r.first[i] # NULL})

BlockOf(r, s) ==
    CASE s[1] = "page_table" -> Span(r.page_table, FIRST_LVL_TT_SIZE)
      [] s[1] = "pcb" -> Span(r.pcb, PcbSize)
      [] s[1] = "kernel" -> TableSpan(r.kernel_tables[s[2]])
      [] s[1] = "first" -> TableSpan(r.first[s[2]])

\* What the kernel has of its heap, and for whom: a block it has twice counts twice.
Held(owner, slot, b) == [owner |-> owner, slot |-> slot, addr |-> b.addr, size |-> b.size]
Nobody == "nobody"
KernelBlocks ==
    {Held(Nobody, <<"kept", 0>>, b) : b \in kept}
    \cup UNION {{Held(p, s, BlockOf(proc[p], s)) : s \in SlotsOf(p, proc[p])} : p \in Alive}

Promise == INSTANCE Regions WITH
    Region <- [owner : Process \cup {Nobody}, slot : STRING \X Nat, addr : Nat, size : Nat], live <- KernelBlocks

\* kAlloc, kAlloc_aligned and kFree keep what the kernel has apart, what dead processes have left
\* behind included.
KeepsBlocksApart == Promise!RegionsSpec

\* The blocks of the free list, no two of which share a word, are nobody's, and lie below the top.
FreeListApart ==
    \A i \in DOMAIN kheap.free :
        LET b == kheap.free[i]
        IN  /\ b.addr >= kernel_heap_start /\ b.addr + b.size <= kheap.top
            /\ \A j \in DOMAIN kheap.free \ {i} : Promise!Apart(b, kheap.free[j])
            /\ \A r \in KernelBlocks : Promise!Apart(b, r)
=============================================================================

# A verification project for Momo-OS

Momo-OS is a small single-CPU operating system for the Raspberry Pi 1 (`src/`). This
directory holds TLA+ models of its core, the TLC configurations that check them and proofs
checked by TLAPS. Paths below are relative to the repository.

## The system and its parts

| Part | State | Operations | How it interacts |
|---|---|---|---|
| Scheduler: `src/sched.c`, `src/schedulers.c` | `current_process`, the circular list `next`/`previous`, `status`, `priority`, `nb_process`, `pid_counter`, `current_scheduler`, the random generator `x` | `sched_init`, `add_process`, `create_process*`, `do_sys_exit`, `elect`, `do_sys_setscheduler`, `free_process` | called by every system call that gives up the CPU and by the timer interrupt |
| Context switches: `src/sched_svc.c`, `src/sched_irq.c` | registers, link registers, stack pointers and `cpsr_user` in each pcb | `do_sys_yield`, `do_sys_yieldto`, `irq_handler` | save the context, call `elect`, load another |
| Semaphores: `src/sem.c` | `counter`, `first_waiting`, the link `next_waiting_sem` in each pcb | `sem_init`, `sem_down`, `sem_up`, `sem_wait_for` | mask interrupts, change `status` of processes, call `sys_yield` |
| Process families: `src/fork.c`, `free_process` | `child`, `brother`, `ppid`, `return_code` | `do_sys_fork`, `do_sys_waitpid`, `free_process` | give pcbs back to the kernel heap |
| Kernel heap: `src/kheap.c` | free list, `kernel_heap_top` | `kAlloc`, `kAlloc_aligned`, `kFree` | pcbs and page tables live there |
| Virtual memory: `src/vmem.c` | page tables, `frame_table`, the MMU's table base | `init_translation_table`, `vmem_alloc_for_userland`, `vmem_free`, `switch_mmu_to`, mmap/munmap | used by `add_process`, `free_process`, `elect` |
| User heap: `src/malloc.c` | the block list at `heap` of each process | `gmalloc`, `grealloc`, `gfree` | command parser, programs |
| Shell and keyboard: `src/shell.c`, `src/keyboard.c`, `src/command_parser.c` | `cmd_buffer`, its index and size, two semaphores | prompt, edit a line, parse and run it | hand `cmd_buffer` to each other with `cmd_buffer_sem` and `shell_sem` |
| Screen: `src/fb.c`, `src/fb_cursor.c`, `src/font.c` | cursor, end of text, prompt | print, backspace, delete, move | written by several processes without a lock |
| Devices: `src/hw.c`, `src/pwm.c`, `src/uart.c`, `lib/libcsud.a` | device registers | timer, LEDs, sound, serial port, USB | I/O |

What is hard. There is one CPU, but a timer interrupt can come between any two instructions of
a program that does not mask it; it saves the context, elects and resumes another program.
System calls and the interrupt handler run with interrupts off, so they exclude each other,
but they leave the CPU to another program in the middle of what their caller was doing
(`sem_down` yields inside its critical section). `elect()` uses `current_process` itself as
the cursor of its loops and calls itself when the process it chose cannot run. Pcbs are
reused as soon as they are freed.

What makes each part correct: the list stays one cycle and `nb_process` its size; the elected
process can run, runs in its own context and on its own page table, and is the only one marked
RUNNING; an election ends, and no ready process starves; semaphores count, lose no wakeup and
exclude; a pcb, a frame and a block of memory have one owner; a line of text belongs to the
keyboard or to the shell, never to both. `PROJECT.json` lists the hazards at their lines.

## The modules

`Sched` models the process list, the scheduler and the context switches.

* `pc` is what the CPU executes: a program (`"user"`), the head of `elect()` (`"elect"`) or the
  loop of the scheduler function (`"loop"`). A system call that does not elect is one action,
  because interrupts are off during it. An election is `ElectTerminated`, `ElectBlocked` or
  `ElectReady` (the three branches of `elect()`), then one `Hop`, `FixPriorityIteration` or
  `DynamicPriorityIteration` per iteration of a scheduler loop, then `Dispatch` or, when
  `elect()` calls itself, `ElectAgain`.
* `next`, `previous`, `pid`, `status`, `priority`, `nb_process`, `pid_counter`, `scheduler` and
  `x` are the variables of the code. `live` is the set of pcbs in use, `victim`, `left` and
  `choose` are locals of `elect()` and of the scheduler functions, `mmu` is the process whose
  page table the MMU walks and `armed` says that the timer will interrupt.
* A context is the place of a program, its I bit and its USER-mode bit. `cpu` is the one in the
  registers, `saved` those in the pcbs, and `at`, a history variable, says where each program
  really is.
* `add_process` may give a new process any pcb that is not in use, with whatever priority the
  memory held. All callers of `create_process` in the repository are `kmain`, before it starts
  the timer or with interrupts masked (`MayCreate`); `fork` may come from any other process.
  `kmain` never exits, blocks or forks. `do_sys_yieldto` is enabled by the constant
  `YieldToUsed`: only tests that `tools/run-all-tests.py` leaves out call it.
* Only the low seven bits of the random generator are kept, because they depend on nothing else.

`Sem` extends it with `sem.c`, one action per statement that reads or writes a semaphore, so that
an interrupt is possible wherever the I bit allows it. `step` is where each process is,
`permits` and `holding` are history variables: units in hand (initial value, plus completed `++`
of `sem_up`, minus returns of `sem_down`) and what a program that brackets holds.

`AbsSem` is the promise of `include/sem.h`: FIFO counting semaphores. `Sem` implements it with
`value` = the counter when positive and `queue` = the waiting list read along its links.

`Family` models children: `add_process`'s child lists, `do_sys_waitpid`, `do_sys_exit` with
`free_process`, and `kAlloc` and `kFree` for blocks of the size of a pcb. It stands beside
`Sched`: there the list and the elections matter, here who owns a pcb, so any process of the
list may take the next step (`linked`), and `elect()` within `do_sys_exit` is one action with it.

* Addresses and pids are numbers, because the heap keeps the link of a free block in the word
  that was `pid` and its size in the word that was `ppid`: `pid[p]` of a free pcb is the next
  free one, and `free_process` may read a size where it looks for a parent.
* `do_sys_waitpid` is `WaitFirst`, `WaitAny` or `WaitOther` (the lookup, masked), then one `Poll`
  per iteration of the busy wait with interrupts on, then `EndWait`, masked again. `waiter` is the
  process inside it, the other `waitVars` its locals.
* `parent`, `exits` and `reported` are history variables.
* `kernel` is what runs: one that forks, whose `kmain` creates its processes before
  `start_kernel`, or one that `creates` processes later too (`test/kmain-schedulers.c`), whose
  processes do not fork. No test does both. As nobody takes kmain's children out of its list,
  `add_process` then walks freed pcbs, and links a pcb behind itself or cuts the list at it.
* `MayWait` keeps to what the programs of the repository do: one wait at a time (two would share
  the SVC stack), by a process that has children. `LeavesZombies` says whether a program may exit
  while a child it did not wait for is dead.

`Regions` is what any allocator promises: each region handed out lies apart from all that were
handed out before and not taken back. `Malloc` and `Vmem` both implement it.

`Malloc` models the heap of a process, one action per loop iteration of `gmalloc`, `grealloc` and
`gfree`, or per stretch of code between two loops.

* `heap` maps the addresses of the headers in the list to `struct heap_block`; `asked` says which
  blocks the programs hold and how much they asked for. Addresses and sizes count in words from
  `memory_start`. `pc`, `block`, `size` and `moving` are the loop and its locals. While `grealloc`
  copies (`"copy"`), the program holds the old block and the new one.
* `malloc.c` does not serve every sequence of calls rightly. With `Careful` programs keep to
  those it does: what first fit finds has room for the second header that `split_block` writes, before
  the next block or, behind the last one, before the end of the heap, which is not what the sizes
  say (`RoomToSplit`, see `malloc_headers`), and `grealloc` moves a block only to one that takes
  the copy (`CopyFits`, see below). `MayFree` leaves out freeing the last block of the
  list when the one before it is taken: `gfree` reads through `NULL` there, and what it reads
  decides what it does. `find_free_block` reads a header at address `NULL` too, behind the last
  block, but returns `NULL` whatever is in it; that page is mapped and readable in USER mode.

`Vmem` models `vmem.c` over `kheap.c`, with the parts of `add_process` and `free_process` that take
and give back memory. All of it runs with interrupts off, so that a system call is one action.

* `kheap` is the free list (latest first, found only by exact size and alignment) and the top.
  `proc` holds what a pcb says of memory, `second` the second level tables by address,
  `frame_table` the occupied frames and `tlb` what the processor has cached of the current
  process's translations (`Access`); `switch_mmu_to` empties it.
* First level tables, the tables for kernel and devices, and pcbs are blocks of the kernel
  heap; tables for user pages are also their entries. The kernel's entries map
  addresses to themselves and are left out, but their tables are allocated and, as in the
  code, never freed.
* `kept` are the blocks that belong to no living process: those of the start (the kernel's own
  tables, the frame table and `cmd_buffer`, in the order of `init_kernel`, with kmain's tables
  between), the tables for kernel and devices that a dead process leaves, and the pcbs of zombies,
  which `do_sys_waitpid` frees. `KernelBlocks` names every block with its owner and what it is for, so
  that a block handed out twice is two.
* Whose child a zombie is stays with `Family`: here any process that lives may wait for it.
* Allocation is modelled up to the last free frame and page (`CanAlloc`) and the end of the
  kernel heap (`InLimit`), which the code does not test for. Programs unmap what
  they mapped, once, and before they exit, and have waited for their children.
* `vmem_free` frees a second level table under the address of its descriptor, flag bit
  included. Such a block is `flagged` and never matches: `kAlloc_aligned` finds it unaligned, and
  `kAlloc` is never asked for its size. Its link and size are written and read unaligned: the
  default build runs under QEMU, which performs such accesses. On the processor itself, as
  `vmem.c:229` sets it up, a load from there is rotated, and the free list breaks behind
  the block: that is not modelled.

`CommandParser` is `parse_command` as operators on a buffer. A record of `Loop` is what its `while` loop works on
(the buffer with the NULs written so far, `delim_addr`, whether that delimiter opens a quotation, the
words so far), `Iterate` is one iteration, and the recursive function `L` iterates until `end_pos`; `Words` says
without parsing what the words of a line are.

`Terminal` composes the keyboard process, the shell, the parser, the screen of `fb_cursor.c` and two
semaphores of module `AbsSem` (which `Sem` implements). A step is a system call, the handling of
a key on the screen, its handling in the buffer, or one printed character.

* `kpc` and `spc` say where the two processes are, `cmd_buffer`, `cmd_buffer_idx` and `cmd_buffer_size`
  are those of the code, `out` is what the shell has yet to print, `args` the words it found.
* The screen is one line of cells, row after row; `cursor`, `end` and `prompt` are the pairs
  `cursor_x`, `cursor_y` and so on as one number. A cell holds the character it shows.
* Commands are `echo`, `clear` and unknown ones.
* `cmd_buffer` comes from `kAlloc`, whose loop clears the first byte and no other.
* `MayPress` is what a user may press. The
  code does not handle the rest: at index 0 backspace and the left arrow make the unsigned
  index (and size) wrap; a backspace inside
  the line fills its tail with NULs, because `cmd_backspace` copies from the end down; an
  insertion at index 0 of a line never ends its loop (`i >= 0`); the delete key moves the index
  although the cursor stays (and is not modelled); Enter inside the line cuts it there; an odd number of quotes
  makes the parser search behind the buffer; a line longer than the buffer is written past its
  end; and text below the last row is drawn outside the screen, because nothing scrolls.

The `MC` modules give constants values. The proofs are in modules of their own: `SchedProofs` and
`SchedOrderProofs` about `Sched`, `SemProofs` and `SemQueueProofs` about `Sem`, `FamilyProofs`, `MallocProofs`,
`VmemProofs` and `TerminalProofs` about the modules they are named for.

## The runs

| Run | Question | Bounds |
|---|---|---|
| `sched_list` | Is the list one cycle, `nb_process` its size, kmain alone self-linked, the running process the only RUNNING one and on its own page table, and does the fixed-priority loop elect a process of highest priority? Does every ready process run, except under fixed priorities? | kmain and two pcbs, four processes ever created, so that a pcb is used twice; from round robin to both priority schedulers; priorities 0 and 1 |
| `sched_contexts` | Does every program resume where it was? Does the random generator come to every place of the list, from each of its states? | kmain and two pcbs, four processes ever created, by kmain and by fork, so that a pcb is used twice; two places per program, `sys_yieldto` allowed, round robin |
| `sched_fixed` | Do elections end under fixed priorities? They do not | violation: see below |
| `sem_signals` | Do the semaphores count, queue every blocked process, implement `AbsSem` and use the scheduler as `Sched` allows? | kmain and three processes, one semaphore |
| `sem_mutex` | Do programs that release what they take exclude each other, and is every waiter served? | kmain and three processes, initial value 1 |
| `family_waits` | Is every pcb freed once and by its owner, do child lists and `ppid` stay right although pcbs are used again, is every wait answered with the right code? | kmain and four pcbs, four processes created; programs wait for the children that die before them |
| `family_zombies` | Does a dead child of a process that exits go with it? It does not | violation: see below |
| `malloc_calls` | Does the block list stay one list of blocks that lie apart, within the heap, are free neighbours merged, do calls return and what programs hold lie apart (`Regions`), also while `grealloc` copies? | a heap of 13 words, headers of one, requests of 1, 2 and 5 words, three blocks held at a time |
| `malloc_headers` | The same heap, sizes chosen freely: do headers stay out of what programs write? They do not | violation: see below |
| `vmem_memory` | Does each process have just its pages, has each marked frame one page, does the TLB keep processes apart? | kmain and one process that comes and goes, pages of two units, four pages and three frames, tables of two entries, a kernel heap of 32 words |
| `vmem_exits` | Do the blocks of the kernel heap, taken, left behind and free, lie apart (`Regions`), the pcb of a zombie until it is waited for among them? | two processes beside kmain that come and go, three frames, mappings of two pages, a kernel heap of 44 words, nothing cached |
| `terminal_lines` | Do keyboard and shell exclude each other, do screen and buffer show the same line, does the shell run the words that stand there, does the prompt come back? | lines of up to four characters out of a letter, space and quote, a screen of five rows of four cells |

Three pcbs give a list with a first, a middle and a last element, in which a process is
unlinked next to kmain and away from it, and the third creation on two pcbs reuses one; with
four processes on a semaphore a waiting list has a head, a middle and a tail.
In `family_waits` a child list has a first, a
middle and a last element, families are three generations deep, and a pcb that was waited for
goes to the next process forked.
A child list of kmain in a kernel that `creates` holds freed pcbs, and the third creation links one of them again.
Five words are the smallest request that makes `grealloc` move a block of one word (`CopyFits`), and
in 13 words that happens, the copy stands beside its original, and three blocks in a row are split,
merged in both orders and taken again.
In `vmem_memory` a region spans two second level tables, a table is shared by two
regions, kmain may hold what the process wants, the pcb and the first level table of one process go to the next,
and the kernel heap lasts for two processes in turn, although each loses second level tables. In `vmem_exits`
there are three processes, one of which exits while another lives that will wait for it, each has a table
from its start and one from a mapping, and the heap has room for three of them in turn or two at a time.
In `terminal_lines` the prompt takes half a row, so that a line of four characters crosses the end of a
row, `clear` and `echo` both occur (as `ee` and `e`), with and without an argument, quoted or not, and shorter
lines follow longer ones in the same buffer.
`MaxPid`, `NbPhases`, `MaxPermits` and the dynamic scheduler's `MaxPriority` (20 in the code)
bound what would grow for ever, `MaxTaken` and `MaxCached` the number of blocks held and of cached
translations. `sched_contexts` has three programs, so that `sys_yieldto` has a choice and a pcb is
saved into, freed and used again; the theorem `ContextCorrect` covers any number.

Fairness: the kernel runs to its end (weak fairness of `elect`), `kmain` starts the timer, a
program that masks interrupts unmasks them, and an interrupt that is pending again and again
while unmasked is taken (strong fairness, because programs mask and unmask). Nothing is
assumed of the programs themselves, except in `sem_mutex` that they release what they took,
without which no waiter could be served. `family_waits` assumes that the process in
`do_sys_waitpid`, which stays READY or RUNNING, runs again and again: that is `NoStarvation`,
which `sched_list` checks for round robin and dynamic priorities; under fixed priorities the
busy wait of a process of higher priority than its child would not end.
`terminal_lines` assumes of keyboard and shell that each goes on when it can (weak fairness of its own
steps), which is `NoStarvation` for the processor and `WaitersServed` and `ImplementsAbsSem` for the
semaphores; nobody has to press a key. `malloc_calls` assumes that a process that runs its own loop
runs it to the end. The runs of `Vmem` need none.

The runs of `Vmem` do not check for deadlock: kmain alone, with all pages mapped, cached and
nothing to switch to, is a state of its model that need not go on. Nor do those of `Family`, where all
processes may have exited and kmain idles.

Three runs end in a violation, each against a sentence of the code:

* `sched_fixed`: `elect()` calls itself to "Elect the next one" (`src/schedulers.c:165`), but
  under fixed priorities a blocked process of highest priority is elected every time, and the
  recursion never ends. Under dynamic priorities each choice lowers the priority, and it ends.
* `family_zombies`: "If process had child, these become orphans" and "if orphan process, cannot
  become zombie" (`src/sched.c:131,149`), but for a child that is dead already `free_process`
  frees the exiting process instead (`src/sched.c:139`): the child is never freed. Programs
  that wait, as the shell's `fork` command and `test/kmain-fork-wait-waitpid.c` do, do not meet
  this; `test/kmain-fork.c` can.
* `malloc_headers`: "block* + 1 => the first available address for the user" (`src/malloc.c:70`), and
  `gfree` asserts what it reads there, but `split_block` gives the second block the size of its own
  header too much (`src/malloc.c:36`, "TODO correct ?"), so that a block handed out later ends
  inside the header of the next one: `gmalloc(2)`, `gfree`, `gmalloc(1)`, `gmalloc(1)` in words
  with headers of one.

No run shows what else was met on the way:

* `include/sem.h:18` promises to block "until the semaphores reaches the specified value", but
  `sem_wait_for` looks only when it is elected, and misses a value that is reached and left in between.
* "A process knows his children and his brothers" (`include/process.h:40`), but `add_process` walks
  kmain's list of children, in which freed pcbs stay (`src/sched.c:78`), and cuts it at the one that is
  used again: a child that lives is no longer in it. `ChildrenAreOwn` does not speak of kmain's list;
  `WalksEnd` says that walks over it end.
* "it is not possible that two free blocks follow each other" (`src/malloc.c:97`), but the last block
  of the list is never merged, which `FreeBlocksApart` allows for.
* "Copy content of old block to new one" (`src/malloc.c:124`), but the loop copies `size + 1` words,
  where `size` counts bytes, and so over the header behind the new block. `CopyFits` keeps the model to copies
  that fit. Contents are not modelled, so that no run shows either that `parse_command` asks `grealloc`
  for `counter++` words and then writes the one behind them (`src/command_parser.c:62`).
* "Free table 2" (`src/vmem.c:424`), but what is freed is the descriptor, one more than the table's
  address, and no allocation finds it.
* "free page table" (`src/sched.c:160`), but only the first level table is freed, and the second level
  tables for kernel and devices stay allocated for ever (`LeftBehind`).
* "if (cmd_buffer_idx < 0)" (`src/keyboard.c:58`) never holds of an unsigned index: the left arrow on an
  empty line makes it the largest number. `MayPress` leaves that out.

## What is proved

The theorems hold for every finite set of pcbs, every priority, scheduler choice, size and bound
that the ASSUMEs of the modules admit. Each invariant was checked by TLC on the run of its module
before it was proved.

* Process list. `ListInv` (`TypeOK`, `Ring`, `Counted`) is the inductive invariant.
  `Ring` is what the code never writes down: every process of the list has its successor in the
  list, two have never the same one, `previous` undoes `next` everywhere but at kmain, some
  process ends the list at kmain, and pids grow from kmain on, so that the cycle is one.
  `TypeOK` alone is not inductive (a scheduler loop divides by `nb_process`), nor is `Ring`
  without `CursorInside`, which says where the cursor of a loop may be while a process is being
  deleted. `AloneMeansSelfLinked` needs to know that whoever remains alone was unlinked through
  kmain's neighbour, `RunsCurrent` (only without `sys_yieldto`) and `ZombieUnlinked` that no two
  processes are marked RUNNING and none but the current one can be TERMINATED during an election,
  and `ContextPreserved` both.
* Order of the list. `OneCycle` follows from `Ring`: a set of pcbs closed under `next` that holds kmain
  holds all of them, because the least pid it leaves out would have its predecessor inside; and a walk as long
  as the list, having to meet one pcb twice, has come round. `ElectsTopPriority` has the invariant
  `WalkInv`: there is a set `V` the fixed-priority loop has visited in which nobody beats `choose`, which
  `next` leaves only from the last one visited, and outside of which there are no more processes than
  iterations are left; at the end it is closed, and so the whole list.
* Semaphores. `SemInv` adds the types of `sem.c`, that only kmain is ever in USER mode, that the arguments
  of a function in progress are semaphores, and that its critical statements are masked. From
  it `SemImplementsSched` shows that every step of the semaphores is a step of `Sched`, so that all
  theorems about `Sched` hold of the composition.
* Waiting lists. `QueueInv` says of every semaphore that some sequence without repetition, read from
  `first_waiting` along `next_waiting_sem`, consists of exactly the processes asleep on it (`Listed`); that
  a process is BLOCKED only where its step says so (`BlockedInside`); that links that are in no
  list are cleared; and that counter, units in hand and length agree at every statement, also between
  the decrement of `sem_down` and the block (`Counts`). `CounterCountsWaiters`,
  `BlockedIsQueued` and `MutualExclusion` follow, the last by counting the holders; for
  `ImplementsAbsSem` each statement is shown to be a step of `AbsSem` (`Take`, `Join`, `GiveBack` or
  `HandOver`) or to leave its value and queue alone.
* User heap, for programs that are `Careful`. `MallocInv` is `MallocTypeOK`, one list of blocks in which
  none reaches into the next (`OneList`), where the call in progress is in it (`CallState`), and
  that free neighbours exist only where a call is about to merge them (`Merging`). What is asked fits
  before the next block and before the end of the heap (`StaysWithinHeap`), which the size of the last
  block does not bound. Besides the runs' invariants, `HeadersIntact` is a theorem of careful programs, where `malloc_headers` refutes it for
  others; `MallocImplementsRegions` maps each step to one of `Regions` or a stutter. For `SizesAddUp`,
  `TotalTakes` shows that the sum over a finite set is the sum without any of its members and that
  member, `TotalSame` that it depends on the sizes only; `split_block` and `Fusion` then keep it.
* Keyboard, shell and screen. `OneAtTheTerminal` rests on `OneRight`: there is one right to the buffer, and it is a unit
  of `cmd_buffer_sem` or of `shell_sem` or with one of the processes. `ScreenInv` adds that a
  prompt just printed is followed by nothing, that the shell prints at the end of the text, and, key by
  key, how far screen and buffer may differ while one of them has been edited.
* The words the shell runs. `LoopInv` is the invariant of the loop of `parse_command` on a line of any length,
  its quotes in pairs: the separators before `delim_addr` are NULs, the rest is as typed, the words found are the
  words of the line that start before it, in their order, and `opens` says whether the quotes up to it are odd in number. Each
  iteration goes on by a place at least (`IterateKeeps`), so that the loop is over after as many as the buffer has
  places (`ParseIs`); that the n-th word found is the n-th of `Words` (`WordsFound`) is
  because ranks and increasing sequences of the same set agree (`RankOfIncreasing`). `ShellRunsWhatIsShown` also needs
  that the line the shell takes is the line on the screen: `LineInv` says, on top of
  `ScreenInv`, that nothing is shown behind the end of the text, and what holds from the \n being pressed to its being
  shown, stored, sent and parsed, where the cursor may be rows away from the line.
* Families, as long as no process exits before it has waited for the children that are dead (without
  it `family_zombies` shows a child that is lost). `FamInv` says that the free list read through the pids is a stack
  of blocks without repetition (`Stacked`), that the pids of pcbs in use are unique and larger than
  their creators' (`Pids`), that what is not in the scheduler's list is a zombie of one that is (`Members`), that
  the children of a process are linked in the order of their pids (`ChildLists`: it fixes every link, so that what is
  appended or taken out anywhere leaves a list), and where `do_sys_waitpid` is (`Waits`). The
  walks of the code are `Along`, a recursive function; that it meets exactly a closed set without a closed
  proper part is `AlongIs`, by the pigeonhole principle. `ChildLists` does not speak of kmain's list in
  a kernel that `creates`: there `WalksCorrect` rests on less, that kmain's list ends.

* Virtual memory. `Allotted` and `Released` say what one call of `kAlloc_aligned` or `kFree` does to a heap: the
  block that comes out was nobody's and is now in use, and what was in use stays so. `AllocSoundly` and
  `FreeSoundly` carry this through `vmem_alloc_for_userland` and `vmem_free`: how many tables are missing and how
  many frames are needed is counted in sets, the n-th of which `NthIs` finds, and each page
  gets a frame of its own. `VmemInv` joins, process by process and block by block, that what the kernel has is in
  use and beside the rest (`HeapInv`), that a table is there as long as a page is mapped in it (`TablesInUse`:
  `vmem_free` then frees on exit all the tables a process has, and none is left behind),
  that frames are marked while mapped, once (`MappedOnce`), that regions are apart (`RegionsMapped`), and that what
  is cached is nobody else's. What no process has any more is kept in the invariant as blocks in use (`KeptInv`):
  an exit adds what it leaves (`LeftAre`), a wait takes out the one pcb it frees (`WaitKeeps`). `FramesExact`,
  `FreeListApart` and the refinement `KeepsBlocksApart` follow from it. The
  proof assumes that a pcb differs in size from the tables and the buffer (`VmemAssumption`): a second level table is
  freed with the flag of its descriptor in its address, which only alignment keeps from being handed out
  again, and zombies are told from other blocks that are kept by their size.

Inductions are made by hand, from the least element of a set of naturals, because the induction
theorems of the library take operators.

Model-checked only is what needs fairness, which is out of the prover's reach: `NoStarvation`,
`WaitersServed`, `WaitReturns`, `CallsReturn` and `PromptComesBack`, and `RandomReachesAll`, which is about the
values a recursive function takes.

`VmemTypeOK`, `TerminalTypeOK`, `InsideIsMasked`, `ZombieUnlinked` and `SizesAddUp` are properties of no
run; the theorems and their invariants have them. No run elects with the random scheduler, of whose loop the theorems speak as of the others;
`sched_contexts` checks the places it draws by themselves.

## Not modelled

* Pixels and fonts, sound, serial port, USB and boot code are I/O without state that interacts.
* The SVC stack. `do_sys_waitpid` busy-waits in SVC mode with interrupts on, so that two
  processes inside it would leave each other's frames on the one stack; programs of the
  repository wait one at a time, which `Family` takes for granted.
* Callers of semaphores in USER mode, where masking does nothing: the tests that call `sem_init`
  from `kmain` while other processes run.
* What the code does where it does not test: past the last frame or page or the end of the
  kernel heap, what follows from keys that `MayPress` leaves out, calls of `gmalloc` that `Careful` leaves out
  (`malloc_headers` stops at the first that goes wrong), `gfree` of a last block, waits
  without children. It reads or writes memory that is not its own there.
* The creation of a process with interrupts on, by `kmain` while the timer runs: no kernel of the
  repository does it.
* The commands `ps`, `fork` and those that play sound. `ps` walks the process list while it
  changes; a `fork` of the shell prints from two processes at once, and a switch between the
  two `move_right` of `fb_print_char` leaves the cursor behind the end of the text: nothing in
  the code prevents it, so there is no property to state.
* `fb_set_zoom` (called once, before anything is printed; its `max_x` is one column too many,
  so that the last character of a row is drawn in the next), `str_to_int`, and the contents of memory.

## Plan

Everything the code lets a small model say is modelled, and every safety property of a passing run but
`RandomReachesAll` is a theorem. Liveness stays with TLC. A change of the code goes first into the module that maps its
lines, then through the runs, then through the one lemma of the action it changes.

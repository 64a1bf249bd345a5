--------------------------- MODULE TerminalProofs ---------------------------
(* What holds of the keyboard and the shell for every screen, line length and set of letters. *)
EXTENDS Terminal, FiniteSetTheorems, SequenceTheorems, WellFoundedInduction, TLAPS

BothSems == {"cmd_buffer_sem", "shell_sem"}

\* Whom the semaphores let wait, and where.
QueuesOK ==
    /\ value \in [BothSems -> Nat] /\ DOMAIN queue = BothSems
    /\ queue["cmd_buffer_sem"] \in {<< >>, <<"keyboard">>}
    /\ queue["shell_sem"] \in {<< >>, <<"shell">>}
    /\ queue["cmd_buffer_sem"] # << >> => kpc \in {"poll", "reset"}
    /\ queue["shell_sem"] # << >> => spc = "parse"

KeyboardWaits == queue["cmd_buffer_sem"] # << >>
ShellWaits == queue["shell_sem"] # << >>
KeyboardHas == kpc \in {"poll", "screen", "buffer", "send", "reset"} /\ ~KeyboardWaits
ShellHas == spc # "wait" /\ ~ShellWaits

\* There is one right to the terminal: a process has it, or it is a unit of a semaphore.
OneRight ==
    /\ \A s \in BothSems : value[s] \in {0, 1}
    /\ value["cmd_buffer_sem"] = 1 => value["shell_sem"] = 0 /\ ~KeyboardHas /\ ~ShellHas
    /\ value["shell_sem"] = 1 => ~KeyboardHas /\ ~ShellHas
    /\ ~(KeyboardHas /\ ShellHas)

ProgramCounters ==
    /\ kpc \in {"begin", "poll", "screen", "buffer", "send", "sleep", "reset"}
    /\ spc \in {"prompt", "open", "wait", "parse", "run", "print", "clear", "cleared"}

RightInv == ProgramCounters /\ QueuesOK /\ OneRight

\* Until the first prompt the buffer is as kAlloc left it, and the shell has not parsed anything.
FirstLine ==
    kpc = "begin" \/ (kpc = "poll" /\ KeyboardWaits) =>
        /\ cmd_buffer[0] = NUL /\ value["shell_sem"] = 0
        /\ spc \in {"prompt", "open", "wait"} \/ (spc = "parse" /\ ShellWaits)

\* Positions and indices are no negative numbers, and what is written stays within its memory.
NumbersOK ==
    /\ cmd_buffer_idx \in Nat /\ cmd_buffer_size \in Nat
    /\ cursor \in Nat /\ end \in Nat /\ prompt \in Nat
    /\ DOMAIN screen = Cell /\ DOMAIN cmd_buffer = Index /\ key \in Key

\* Where the prompt was just printed, the line that follows is empty.
Fresh == cursor = prompt /\ end = prompt
PromptIsFresh ==
    /\ spc = "open" => Fresh
    /\ value["cmd_buffer_sem"] = 1 => Fresh
    /\ kpc = "reset" /\ ~KeyboardWaits => Fresh
    /\ kpc = "begin" \/ (kpc = "poll" /\ KeyboardWaits) => cmd_buffer_idx = 0 /\ cmd_buffer_size = 0

\* What the shell prints is printed at the end of the text, but after fb_clear, where a \n comes
\* before the next prompt.
PrintsAtEnd ==
    /\ kpc = "send" \/ (kpc = "buffer" /\ key = NewLine) => cursor = end
    /\ value["shell_sem"] = 1 => cursor = end
    /\ spc \in {"prompt", "run", "clear"} \/ (spc = "parse" /\ ~ShellWaits) => cursor = end
    /\ spc = "print" => cursor = end \/ out = <<NewLine>>

\* The line in the buffer is made of characters and ends with a NUL.
BufferHoldsLine ==
    /\ cmd_buffer_idx <= cmd_buffer_size /\ cmd_buffer_size <= MaxLine
    /\ cmd_buffer[cmd_buffer_size] = NUL
    /\ \A i \in 0 .. cmd_buffer_size - 1 : cmd_buffer[i] \in Char

\* What was pressed can be done on the screen and in the buffer.
Doable ==
    /\ key \in Char => /\ cmd_buffer_size < MaxLine
                       /\ cmd_buffer_idx = cmd_buffer_size \/ cmd_buffer_idx > 0
    /\ key = FB_BACKSPACE => cmd_buffer_idx > 0 /\ cmd_buffer_idx = cmd_buffer_size
    /\ key = FB_ARROW_LEFT => cmd_buffer_idx > 0

AtLine ==
    /\ BufferHoldsLine
    /\ cursor = prompt + cmd_buffer_idx /\ end = prompt + cmd_buffer_size
    /\ cmd_buffer_size > 0 => end \in Cell

ShownBut(hole) == \A i \in 0 .. cmd_buffer_size - 1 : i # hole => screen[prompt + i] = cmd_buffer[i]

\* After the key was handled on the screen, and before it is in the buffer.
HalfDone ==
    /\ BufferHoldsLine /\ Doable
    /\ key \in Char =>
        /\ cursor = prompt + cmd_buffer_idx + 1 /\ end = prompt + cmd_buffer_size + 1 /\ end \in Cell
        /\ \A i \in 0 .. cmd_buffer_size :
               screen[prompt + i] = IF i < cmd_buffer_idx THEN cmd_buffer[i]
                                    ELSE IF i = cmd_buffer_idx THEN key ELSE cmd_buffer[i - 1]
    /\ key = FB_BACKSPACE =>
        /\ cursor = prompt + cmd_buffer_size - 1 /\ end = cursor /\ end \in Cell
        /\ \A i \in 0 .. cmd_buffer_size - 2 : screen[prompt + i] = cmd_buffer[i]
    /\ key \in {FB_ARROW_LEFT, FB_ARROW_RIGHT} =>
        /\ end = prompt + cmd_buffer_size /\ (cmd_buffer_size > 0 => end \in Cell)
        /\ \A i \in 0 .. cmd_buffer_size - 1 : screen[prompt + i] = cmd_buffer[i]
    /\ key = FB_ARROW_LEFT => cursor = prompt + cmd_buffer_idx - 1
    /\ key = FB_ARROW_RIGHT =>
        cursor = prompt + (IF cmd_buffer_idx = cmd_buffer_size THEN cmd_buffer_idx ELSE cmd_buffer_idx + 1)

Editing ==
    /\ kpc = "poll" /\ ~KeyboardWaits => AtLine /\ ShownBut(cmd_buffer_idx)
    /\ kpc = "screen" =>
        /\ AtLine /\ Doable /\ \A i \in 0 .. cmd_buffer_size - 1 : screen[prompt + i] = cmd_buffer[i]
        /\ key \in Char => end + 1 \in Cell
    /\ kpc = "buffer" /\ key # NewLine => HalfDone

ScreenInv == RightInv /\ FirstLine /\ NumbersOK /\ PromptIsFresh /\ PrintsAtEnd /\ Editing

-----------------------------------------------------------------------------
(* The semaphores.                                                         *)

\* A process runs if it does not wait at its semaphore.
LEMMA RunsMeans ==
    ASSUME QueuesOK
    PROVE  (Runs("keyboard") <=> ~KeyboardWaits) /\ (Runs("shell") <=> ~ShellWaits)
<1> USE DEF Runs, Semaphore!Queued, KeyboardWaits, ShellWaits
<1>1. /\ queue["cmd_buffer_sem"] \in {<< >>, <<"keyboard">>}
      /\ queue["shell_sem"] \in {<< >>, <<"shell">>}
  BY DEF QueuesOK
<1>2. DOMAIN << >> = {} /\ DOMAIN <<"keyboard">> = {1} /\ DOMAIN <<"shell">> = {1}
  OBVIOUS
<1>3. << >> # <<"keyboard">> /\ << >> # <<"shell">>
  OBVIOUS
<1>4. <<"keyboard">>[1] = "keyboard" /\ <<"shell">>[1] = "shell"
  OBVIOUS
<1> QED
  BY <1>1, <1>2, <1>3, <1>4

\* sem_down of a process that runs, at its own semaphore: a unit, or the queue.
LEMMA DownMeans ==
    ASSUME QueuesOK, NEW s \in BothSems, NEW p, queue[s] = << >>, sem_down(s, p)
    PROVE  \/ /\ value[s] > 0 /\ queue' = queue
              /\ value' = [value EXCEPT ![s] = value[s] - 1]
           \/ /\ value[s] = 0 /\ value' = value
              /\ queue' = [queue EXCEPT ![s] = <<p>>]
<1> USE DEF sem_down, Semaphore!Take, Semaphore!Join
<1>1. Append(<< >>, p) = <<p>>
  OBVIOUS
<1> QED
  BY <1>1

\* sem_up: the unit goes to who waits, or to the semaphore.
LEMMA UpMeans ==
    ASSUME QueuesOK, NEW s \in BothSems, sem_up(s)
    PROVE  \/ /\ queue[s] = << >> /\ queue' = queue
              /\ value' = [value EXCEPT ![s] = value[s] + 1]
           \/ /\ queue[s] # << >> /\ value' = value
              /\ queue' = [queue EXCEPT ![s] = << >>]
<1> USE DEF sem_up, Semaphore!HandOver, Semaphore!GiveBack
<1>1. Tail(<<"keyboard">>) = << >> /\ Tail(<<"shell">>) = << >>
  OBVIOUS
<1>2. queue[s] \in {<< >>, <<"keyboard">>, <<"shell">>}
  BY DEF QueuesOK, BothSems
<1> QED
  BY <1>1, <1>2

\* The shell has the terminal when the kernel starts both processes.
LEMMA RightInitially == Init => RightInv
<1> SUFFICES ASSUME Init PROVE RightInv
  OBVIOUS
<1>1. /\ kpc = "begin" /\ spc = "prompt"
      /\ value = [s \in BothSems |-> 0] /\ queue = [s \in BothSems |-> << >>]
  BY DEF Init, Semaphore!Init, InitialValue, BothSems
<1>2. QueuesOK
  BY <1>1 DEF QueuesOK, BothSems
<1> QED
  BY <1>1, <1>2 DEF RightInv, ProgramCounters, OneRight, KeyboardHas, BothSems

\* Steps that touch no semaphore leave the right where it is.
LEMMA RightKept ==
    ASSUME RightInv, UNCHANGED semVars,
           ProgramCounters',
           kpc' = kpc \/ (kpc \in {"poll", "screen", "buffer", "reset"} /\ ~KeyboardWaits),
           spc' = spc \/ (spc # "wait" /\ ~ShellWaits)
    PROVE  RightInv'
<1>1. UNCHANGED <<value, queue>>
  BY DEF semVars
<1>2. UNCHANGED <<KeyboardWaits, ShellWaits>>
  BY <1>1 DEF KeyboardWaits, ShellWaits
<1>3. (KeyboardHas' => KeyboardHas) /\ (ShellHas' => ShellHas)
  BY <1>2 DEF KeyboardHas, ShellHas
<1>4. QueuesOK'
  BY <1>1 DEF RightInv, QueuesOK, KeyboardWaits, ShellWaits
<1>5. OneRight'
  BY <1>1, <1>3 DEF RightInv, OneRight
<1> QED
  BY <1>4, <1>5 DEF RightInv

\* Every step keeps the right to the terminal one.
LEMMA RightNext == RightInv /\ [Next]_vars => RightInv'
<1> SUFFICES ASSUME RightInv, [Next]_vars PROVE RightInv'
  OBVIOUS
<1>1. /\ QueuesOK /\ ProgramCounters /\ OneRight
      /\ (Runs("keyboard") <=> ~KeyboardWaits) /\ (Runs("shell") <=> ~ShellWaits)
  BY RunsMeans DEF RightInv
<1> DEFINE c == "cmd_buffer_sem"
           s == "shell_sem"
<1>2. /\ c \in BothSems /\ s \in BothSems /\ c # s
      /\ value \in [BothSems -> Nat] /\ DOMAIN queue = BothSems
      /\ value[c] \in {0, 1} /\ value[s] \in {0, 1}
  BY <1>1 DEF QueuesOK, OneRight, BothSems
<1>3. CASE Blink \/ (\E k \in Key : Press(k)) \/ EditScreen \/ EditBuffer \/ ResetLine
  <2>1. /\ UNCHANGED <<shellVars, semVars>> /\ ~KeyboardWaits
        /\ kpc \in {"poll", "screen", "buffer", "reset"}
        /\ kpc' \in {"poll", "screen", "buffer", "send"}
    BY <1>1, <1>3 DEF Blink, Press, EditScreen, EditBuffer, ResetLine, keyboardVars
  <2> QED
    BY <1>1, <2>1, RightKept DEF ProgramCounters, shellVars
<1>4. CASE PrintNext \/ EndPrompt \/ ParseCommand \/ RunCommand \/ ClearScreen \/ EndCommand
  <2>1. /\ UNCHANGED <<keyboardVars, semVars>> /\ ~ShellWaits /\ spc # "wait"
        /\ spc' \in {"prompt", "open", "run", "print", "clear", "cleared"}
    <3>1. CASE RunCommand
      BY <1>1, <3>1 DEF RunCommand
    <3>2. CASE PrintNext \/ EndPrompt \/ ParseCommand \/ ClearScreen \/ EndCommand
      BY <1>1, <3>2 DEF PrintNext, EndPrompt, ParseCommand, ClearScreen, EndCommand
    <3> QED
      BY <1>4, <3>1, <3>2
  <2> QED
    BY <1>1, <2>1, RightKept DEF ProgramCounters, keyboardVars
<1>5. CASE BeginKeyboard \/ SleepUntilPrompt
  <2>1. /\ sem_down(c, "keyboard") /\ UNCHANGED spc
        /\ kpc \in {"begin", "sleep"} /\ kpc' \in {"poll", "reset"}
    BY <1>5 DEF BeginKeyboard, SleepUntilPrompt, shellVars
  <2>2. queue[c] = << >>
    BY <1>1, <2>1 DEF QueuesOK
  <2>3. \/ value[c] = 1 /\ queue' = queue /\ value' = [value EXCEPT ![c] = 0]
        \/ value[c] = 0 /\ value' = value /\ queue' = [queue EXCEPT ![c] = <<"keyboard">>]
    BY <1>1, <1>2, <2>1, <2>2, DownMeans
  <2>4. QueuesOK' /\ ProgramCounters'
    <3>1. value' \in [BothSems -> Nat]
      BY <1>2, <2>3
    <3>2. /\ DOMAIN queue' = BothSems /\ queue'[s] = queue[s]
          /\ queue'[c] = << >> \/ queue'[c] = <<"keyboard">>
      BY <1>2, <2>2, <2>3
    <3> QED
      BY <1>1, <2>1, <3>1, <3>2 DEF QueuesOK, ProgramCounters
  <2>5. CASE value[c] = 1 /\ queue' = queue /\ value' = [value EXCEPT ![c] = 0]
    <3>1. value'[c] = 0 /\ value'[s] = value[s] /\ UNCHANGED <<KeyboardWaits, ShellWaits>>
      BY <1>2, <2>5 DEF KeyboardWaits, ShellWaits
    <3>2. OneRight'
      BY <1>1, <1>2, <2>1, <2>5, <3>1 DEF OneRight, KeyboardHas, ShellHas, BothSems
    <3> QED
      BY <2>4, <3>2 DEF RightInv
  <2>6. CASE value[c] = 0 /\ value' = value /\ queue' = [queue EXCEPT ![c] = <<"keyboard">>]
    <3>1. << >> # <<"keyboard">>
      OBVIOUS
    <3>2. KeyboardWaits' /\ UNCHANGED ShellWaits
      BY <1>2, <2>6, <3>1 DEF KeyboardWaits, ShellWaits
    <3>3. OneRight'
      BY <1>1, <1>2, <2>1, <2>6, <3>2 DEF OneRight, KeyboardHas, ShellHas, BothSems
    <3> QED
      BY <2>4, <3>3 DEF RightInv
  <2> QED
    BY <2>3, <2>5, <2>6
<1>6. CASE SendCommand
  <2>1. /\ sem_up(s) /\ UNCHANGED spc /\ kpc = "send" /\ kpc' = "sleep" /\ ~KeyboardWaits
    BY <1>1, <1>6 DEF SendCommand, shellVars
  <2>2. \/ queue[s] = << >> /\ queue' = queue /\ value' = [value EXCEPT ![s] = value[s] + 1]
        \/ queue[s] # << >> /\ value' = value /\ queue' = [queue EXCEPT ![s] = << >>]
    BY <1>1, <1>2, <2>1, UpMeans
  <2>3. KeyboardHas /\ value[c] = 0 /\ value[s] = 0 /\ ~ShellHas
    BY <1>1, <1>2, <2>1 DEF KeyboardHas, OneRight
  <2>4. QueuesOK' /\ ProgramCounters'
    BY <1>1, <1>2, <2>1, <2>2 DEF QueuesOK, ProgramCounters, BothSems, KeyboardWaits
  <2>5. OneRight'
    BY <1>1, <1>2, <2>1, <2>2, <2>3
       DEF OneRight, KeyboardHas, ShellHas, KeyboardWaits, ShellWaits, BothSems
  <2> QED
    BY <2>4, <2>5 DEF RightInv
<1>7. CASE WaitForCommand
  <2>1. /\ sem_down(s, "shell") /\ UNCHANGED kpc /\ spc = "wait" /\ spc' = "parse"
    BY <1>7 DEF WaitForCommand, keyboardVars
  <2>2. queue[s] = << >>
    BY <1>1, <2>1 DEF QueuesOK
  <2>3. \/ value[s] = 1 /\ queue' = queue /\ value' = [value EXCEPT ![s] = 0]
        \/ value[s] = 0 /\ value' = value /\ queue' = [queue EXCEPT ![s] = <<"shell">>]
    BY <1>1, <1>2, <2>1, <2>2, DownMeans
  <2>4. QueuesOK' /\ ProgramCounters'
    <3>1. value' \in [BothSems -> Nat]
      BY <1>2, <2>3
    <3>2. /\ DOMAIN queue' = BothSems /\ queue'[c] = queue[c]
          /\ queue'[s] = << >> \/ queue'[s] = <<"shell">>
      BY <1>2, <2>2, <2>3
    <3> QED
      BY <1>1, <2>1, <3>1, <3>2 DEF QueuesOK, ProgramCounters
  <2>5. CASE value[s] = 1 /\ queue' = queue /\ value' = [value EXCEPT ![s] = 0]
    <3>1. value'[s] = 0 /\ value'[c] = value[c] /\ UNCHANGED <<KeyboardWaits, ShellWaits>>
      BY <1>2, <2>5 DEF KeyboardWaits, ShellWaits
    <3>2. OneRight'
      BY <1>1, <1>2, <2>1, <2>5, <3>1 DEF OneRight, KeyboardHas, ShellHas, BothSems
    <3> QED
      BY <2>4, <3>2 DEF RightInv
  <2>6. CASE value[s] = 0 /\ value' = value /\ queue' = [queue EXCEPT ![s] = <<"shell">>]
    <3>1. << >> # <<"shell">>
      OBVIOUS
    <3>2. ShellWaits' /\ UNCHANGED KeyboardWaits
      BY <1>2, <2>6, <3>1 DEF KeyboardWaits, ShellWaits
    <3>3. OneRight'
      BY <1>1, <1>2, <2>1, <2>6, <3>2 DEF OneRight, KeyboardHas, ShellHas, BothSems
    <3> QED
      BY <2>4, <3>3 DEF RightInv
  <2> QED
    BY <2>3, <2>5, <2>6
<1>8. CASE OpenLine
  <2>1. /\ sem_up(c) /\ UNCHANGED kpc /\ spc = "open" /\ spc' = "wait" /\ ~ShellWaits
    BY <1>1, <1>8 DEF OpenLine, keyboardVars
  <2>2. \/ queue[c] = << >> /\ queue' = queue /\ value' = [value EXCEPT ![c] = value[c] + 1]
        \/ queue[c] # << >> /\ value' = value /\ queue' = [queue EXCEPT ![c] = << >>]
    BY <1>1, <1>2, <2>1, UpMeans
  <2>3. ShellHas /\ value[c] = 0 /\ value[s] = 0 /\ ~KeyboardHas
    BY <1>1, <1>2, <2>1 DEF ShellHas, OneRight
  <2>4. QueuesOK' /\ ProgramCounters'
    BY <1>1, <1>2, <2>1, <2>2 DEF QueuesOK, ProgramCounters, BothSems, ShellWaits
  <2>5. OneRight'
    BY <1>1, <1>2, <2>1, <2>2, <2>3
       DEF OneRight, KeyboardHas, ShellHas, KeyboardWaits, ShellWaits, BothSems
  <2> QED
    BY <2>4, <2>5 DEF RightInv
<1>9. CASE UNCHANGED vars
  <2>1. UNCHANGED <<kpc, spc, semVars>>
    BY <1>9 DEF vars, keyboardVars, shellVars
  <2> QED
    BY <1>1, <2>1, RightKept DEF ProgramCounters
<1> QED
  BY <1>3, <1>4, <1>5, <1>6, <1>7, <1>8, <1>9 DEF Next, KeyboardStep, ShellStep

\* The inductive invariant behind OneAtTheTerminal.
LEMMA RightInvariant == Spec => []RightInv
  BY RightInitially, RightNext, PTL DEF Spec

\* The two semaphores alone keep the keyboard and the shell from the buffer and the screen at
\* the same time: each is made without a unit, and each process gives the other what it took.
THEOREM TerminalIsExclusive == Spec => []OneAtTheTerminal
<1>1. RightInv => OneAtTheTerminal
  BY RunsMeans DEF RightInv, OneRight, KeyboardHas, ShellHas, OneAtTheTerminal,
     KeyboardHasTerminal, ShellHasTerminal
<1> QED
  BY <1>1, RightInvariant, PTL

-----------------------------------------------------------------------------
(* What the parser rests on: least elements, numbers of elements, loops.   *)

\* A set of naturals has a least element: the only induction these proofs need.
LEMMA LeastElement ==
    ASSUME NEW T \in SUBSET Nat, T # {}
    PROVE  \E n \in T : \A m \in T : ~(m < n)
<1>1. PICK n \in T : \A m \in T : <<m, n>> \notin OpToRel(<, Nat)
  BY NatLessThanWellFounded, WFMin
<1>2. \A m \in T : m < n => <<m, n>> \in OpToRel(<, Nat)
  BY DEF OpToRel
<1> QED
  BY <1>1, <1>2

\* Min is that element.
LEMMA MinIs ==
    ASSUME NEW T \in SUBSET Nat, T # {}
    PROVE  Min(T) \in T /\ \A m \in T : Min(T) <= m
<1>1. PICK n \in T : \A m \in T : ~(m < n)
  BY LeastElement
<1>2. \A m \in T : n <= m
  BY <1>1
<1> QED
  BY <1>1, <1>2 DEF Min

\* As many elements as an increasing sequence of them is long, and the k-th is in place k.
LEMMA RankOfIncreasing ==
    ASSUME NEW c \in Nat, NEW b \in [1 .. c -> Nat],
           \A i, j \in 1 .. c : i < j => b[i] < b[j]
    PROVE  /\ Cardinality({b[i] : i \in 1 .. c}) = c
           /\ \A k \in 1 .. c : Cardinality({x \in {b[i] : i \in 1 .. c} : x <= b[k]}) = k
<1>1. \A i, j \in 1 .. c : b[i] \in Nat /\ (b[i] = b[j] => i = j) /\ (b[i] <= b[j] => i <= j)
  OBVIOUS
<1>2. ASSUME NEW k \in 0 .. c PROVE Cardinality({b[i] : i \in 1 .. k}) = k
  <2> DEFINE S == {b[i] : i \in 1 .. k}
             f == [i \in 1 .. k |-> b[i]]
  <2>1. f \in Bijection(1 .. k, S)
    <3>1. f \in [1 .. k -> S] /\ \A i \in 1 .. k : f[i] = b[i]
      OBVIOUS
    <3>2. \A i, j \in 1 .. k : f[i] = f[j] => i = j
      BY <1>1, <3>1
    <3>3. \A y \in S : \E i \in 1 .. k : f[i] = y
      BY <3>1
    <3> HIDE DEF f, S
    <3> QED
      BY <3>1, <3>2, <3>3 DEF Bijection, Injection, Surjection, IsInjective
  <2> HIDE DEF f, S
  <2>2. ExistsBijection(1 .. k, S)
    BY <2>1 DEF ExistsBijection
  <2>3. Cardinality(S) = k
    BY <2>2, FS_CountingElements
  <2> QED
    BY <2>3 DEF S
<1>3. ASSUME NEW k \in 1 .. c
      PROVE  {x \in {b[i] : i \in 1 .. c} : x <= b[k]} = {b[i] : i \in 1 .. k}
  <2>1. ASSUME NEW x \in {b[i] : i \in 1 .. k} PROVE x \in {b[i] : i \in 1 .. c} /\ x <= b[k]
    <3>1. PICK i \in 1 .. k : x = b[i]
      OBVIOUS
    <3>2. i \in 1 .. c /\ (i = k \/ i < k)
      OBVIOUS
    <3> QED
      BY <1>1, <3>1, <3>2
  <2>2. ASSUME NEW x \in {b[i] : i \in 1 .. c}, x <= b[k] PROVE x \in {b[i] : i \in 1 .. k}
    <3>1. PICK i \in 1 .. c : x = b[i]
      OBVIOUS
    <3>2. i \in 1 .. k
      BY <1>1, <2>2, <3>1
    <3> QED
      BY <3>1, <3>2
  <2> QED
    BY <2>1, <2>2
<1>4. c \in 0 .. c /\ \A k \in 1 .. c : k \in 0 .. c
  OBVIOUS
<1> QED
  BY <1>2, <1>3, <1>4

\* n steps of g from s0, as a function, exist if g stays within S.
StaysIn(S, g) == \A s \in S : g[s] \in S
StepsOf(w, n, s0, g) == w[0] = s0 /\ \A i \in 1 .. n : w[i] = g[w[i - 1]]

LEMMA StepsExist ==
    ASSUME NEW n \in Nat, NEW S, NEW s0 \in S, NEW g, StaysIn(S, g)
    PROVE  \E w \in [0 .. n -> S] : StepsOf(w, n, s0, g)
<1>0. \A s \in S : g[s] \in S
  BY DEF StaysIn
<1> DEFINE To(m, w) == w \in [0 .. m -> S] /\ w[0] = s0 /\ \A i \in 1 .. m : w[i] = g[w[i - 1]]
           without == {m \in 0 .. n : \A w : ~To(m, w)}
<1>1. without = {}
  <2> SUFFICES ASSUME without # {} PROVE FALSE
    OBVIOUS
  <2>1. PICK m \in without : \A l \in without : ~(l < m)
    <3>1. without \in SUBSET Nat
      OBVIOUS
    <3> HIDE DEF without
    <3> QED
      BY <3>1, LeastElement
  <2>2. m # 0
    <3> DEFINE w == [i \in 0 .. 0 |-> s0]
    <3>1. To(0, w)
      OBVIOUS
    <3> QED
      BY <2>1, <3>1
  <2>3. PICK w : To(m - 1, w)
    <3>1. m - 1 \in 0 .. n /\ m - 1 < m
      BY <2>1, <2>2
    <3> HIDE DEF To
    <3> QED
      BY <2>1, <3>1
  <2> DEFINE v == [i \in 0 .. m |-> IF i = m THEN g[w[m - 1]] ELSE w[i]]
  <2>4. m \in 1 .. n /\ m - 1 \in 0 .. m - 1
    BY <2>1, <2>2
  <2>5. w[m - 1] \in S
    BY <2>3, <2>4
  <2>6. g[w[m - 1]] \in S
    BY <1>0, <2>5
  <2>7. v \in [0 .. m -> S] /\ v[0] = s0
    BY <2>3, <2>4, <2>6
  <2>8. ASSUME NEW i \in 1 .. m PROVE v[i] = g[v[i - 1]]
    <3>1. i - 1 \in 0 .. m /\ i - 1 # m /\ v[i - 1] = w[i - 1]
      BY <2>4
    <3>2. CASE i = m
      BY <3>1, <3>2
    <3>3. CASE i # m
      <4>1. i \in 1 .. m - 1 /\ i \in 0 .. m
        BY <2>4, <3>3
      <4>2. v[i] = w[i]
        BY <3>3, <4>1
      <4> QED
        BY <2>3, <3>1, <4>1, <4>2
    <3> QED
      BY <3>2, <3>3
  <2>9. To(m, v)
    BY <2>7, <2>8
  <2> HIDE DEF To, v
  <2> QED
    BY <2>1, <2>9
<1>2. n \in 0 .. n
  OBVIOUS
<1>3. PICK w : To(n, w)
  <2> HIDE DEF To
  <2> QED
    BY <1>1, <1>2
<1> QED
  BY <1>3 DEF StepsOf

\* The recursive function that a loop is makes those steps, and stays within S.
LoopOf(n, s0, g) == CHOOSE f : f = [k \in 0 .. n |-> IF k = 0 THEN s0 ELSE g[f[k - 1]]]

LEMMA LoopIs ==
    ASSUME NEW n \in Nat, NEW S, NEW s0 \in S, NEW g, StaysIn(S, g),
           NEW L, L = LoopOf(n, s0, g)
    PROVE  /\ L[0] = s0 /\ \A k \in 1 .. n : L[k] = g[L[k - 1]]
           /\ \A k \in 0 .. n : L[k] \in S
<1>1. PICK w \in [0 .. n -> S] : w[0] = s0 /\ \A i \in 1 .. n : w[i] = g[w[i - 1]]
  BY StepsExist DEF StepsOf
<1>2. w = [k \in 0 .. n |-> IF k = 0 THEN s0 ELSE g[w[k - 1]]]
  BY <1>1
<1>3. L = [k \in 0 .. n |-> IF k = 0 THEN s0 ELSE g[L[k - 1]]]
  BY <1>2 DEF LoopOf
<1>4. L[0] = s0 /\ \A k \in 1 .. n : L[k] = g[L[k - 1]]
  <2>1. \A k \in 0 .. n : L[k] = IF k = 0 THEN s0 ELSE g[L[k - 1]]
    BY <1>3, Zenon
  <2> QED
    BY <2>1
<1> DEFINE outside == {k \in 0 .. n : L[k] \notin S}
<1>5. outside = {}
  <2> SUFFICES ASSUME outside # {} PROVE FALSE
    OBVIOUS
  <2>1. PICK m \in outside : \A l \in outside : ~(l < m)
    <3>1. outside \in SUBSET Nat
      OBVIOUS
    <3> HIDE DEF outside
    <3> QED
      BY <3>1, LeastElement
  <2>2. m \in 1 .. n /\ L[m] \notin S
    BY <1>4, <2>1
  <2>3. m - 1 \in 0 .. n /\ m - 1 < m
    BY <2>2
  <2>4. L[m - 1] \in S
    BY <2>1, <2>3
  <2> QED
    BY <1>4, <2>2, <2>4 DEF StaysIn
<1> QED
  BY <1>4, <1>5

-----------------------------------------------------------------------------
(* The parser.                                                             *)

\* strfnd finds the first place of c, or what lies behind the buffer.
LEMMA StrfndIs ==
    ASSUME NEW M \in Nat, NEW buf, DOMAIN buf = 0 .. M, NEW i \in 0 .. M + 1, NEW c
    PROVE  /\ strfnd(buf, i, c) \in i .. M + 1
           /\ strfnd(buf, i, c) <= M => buf[strfnd(buf, i, c)] = c
           /\ \A q \in i .. M : q < strfnd(buf, i, c) => buf[q] # c
<1> DEFINE S == {j \in 0 .. M : j >= i /\ buf[j] = c} \cup {M + 1}
<1>1. Cardinality(0 .. M) = M + 1
  BY FS_Interval
<1>2. strfnd(buf, i, c) = Min(S)
  BY <1>1 DEF strfnd
<1>3. Min(S) \in S /\ \A j \in S : Min(S) <= j
  <2>1. S \in SUBSET Nat /\ S # {}
    OBVIOUS
  <2> HIDE DEF S
  <2> QED
    BY <2>1, MinIs
<1>4. PICK r : r = strfnd(buf, i, c)
  OBVIOUS
<1>5. r \in S /\ \A j \in S : r <= j
  BY <1>2, <1>3, <1>4
<1>6. r \in i .. M + 1 /\ (r <= M => buf[r] = c)
  BY <1>5
<1>7. ASSUME NEW q \in i .. M, q < r PROVE buf[q] # c
  <2>1. q \in 0 .. M /\ q >= i /\ ~(r <= q)
    BY <1>6, <1>7
  <2> QED
    BY <1>5, <2>1
<1> QED
  BY <1>4, <1>6, <1>7

\* The characters that matter are told apart.
LEMMA DelimsDiffer == NUL # Space /\ NUL # Quote /\ NUL # NewLine /\ Space # Quote /\ Space # NewLine /\ Quote # NewLine
  BY DEF NUL, Space, Quote, NewLine

\* find_next_delim stops at the first space or quote, or at a NUL behind where it starts.
NextDelim(M, buf, i, r) ==
    /\ r \in i .. M + 1
    /\ r <= M => buf[r] \in {Space, Quote} \/ (buf[r] = NUL /\ r > i)
    /\ \A q \in i .. M : q < r => buf[q] \notin {Space, Quote} /\ (q > i => buf[q] # NUL)

LEMMA NextDelimIs ==
    ASSUME NEW M \in Nat, NEW buf, DOMAIN buf = 0 .. M, NEW i \in 0 .. M
    PROVE  NextDelim(M, buf, i, find_next_delim(buf, i))
<1>1. PICK x, y, z : x = strfnd(buf, i, Space) /\ y = strfnd(buf, i, Quote) /\ z = strfnd(buf, i + 1, NUL)
  OBVIOUS
<1>2. i \in 0 .. M + 1 /\ i + 1 \in 0 .. M + 1
  OBVIOUS
<1>3. /\ x \in i .. M + 1 /\ (x <= M => buf[x] = Space) /\ \A q \in i .. M : q < x => buf[q] # Space
      /\ y \in i .. M + 1 /\ (y <= M => buf[y] = Quote) /\ \A q \in i .. M : q < y => buf[q] # Quote
      /\ z \in i + 1 .. M + 1 /\ (z <= M => buf[z] = NUL) /\ \A q \in i + 1 .. M : q < z => buf[q] # NUL
  BY <1>1, <1>2, StrfndIs
<1>4. PICK r : r = Min({x, y, z})
  OBVIOUS
<1>5. r \in {x, y, z} /\ r <= x /\ r <= y /\ r <= z
  <2>1. {x, y, z} \in SUBSET Nat /\ {x, y, z} # {}
    BY <1>3
  <2> QED
    BY <1>4, <2>1, MinIs
<1>6. /\ r \in i .. M + 1
      /\ r <= M => buf[r] \in {Space, Quote} \/ (buf[r] = NUL /\ r > i)
  BY <1>3, <1>5
<1>7. ASSUME NEW q \in i .. M, q < r PROVE buf[q] \notin {Space, Quote} /\ (q > i => buf[q] # NUL)
  BY <1>3, <1>5, <1>7
<1>8. find_next_delim(buf, i) = r
  BY <1>1, <1>4 DEF find_next_delim
<1> QED
  BY <1>6, <1>7, <1>8 DEF NextDelim

\* The quotes before a place are a number.
LEMMA QuotesCount == ASSUME NEW t, NEW a \in Nat PROVE QuotesBefore(t, a) \in Nat
<1>1. IsFiniteSet(1 .. a - 1)
  BY FS_Interval
<1>2. {j \in 1 .. a - 1 : t[j] = Quote} \in SUBSET (1 .. a - 1)
  OBVIOUS
<1>3. IsFiniteSet({j \in 1 .. a - 1 : t[j] = Quote})
  BY <1>1, <1>2, FS_Subset
<1> QED
  BY <1>3, FS_CardinalityType DEF QuotesBefore

\* There is none before the first place.
LEMMA QuotesFirst == ASSUME NEW t PROVE QuotesBefore(t, 1) = 0
<1>1. {j \in 1 .. 1 - 1 : t[j] = Quote} = {}
  OBVIOUS
<1> QED
  BY <1>1, FS_EmptySet DEF QuotesBefore

\* Where no quote lies between, there are as many before the one place as before the other.
LEMMA QuotesSame ==
    ASSUME NEW t, NEW a \in Nat \ {0}, NEW b \in Nat, a <= b, \A j \in a .. b - 1 : t[j] # Quote
    PROVE  QuotesBefore(t, b) = QuotesBefore(t, a)
<1>1. {j \in 1 .. b - 1 : t[j] = Quote} = {j \in 1 .. a - 1 : t[j] = Quote}
  <2>1. ASSUME NEW j \in 1 .. b - 1, t[j] = Quote PROVE j \in 1 .. a - 1
    BY <2>1
  <2>2. 1 .. a - 1 \in SUBSET (1 .. b - 1)
    OBVIOUS
  <2> QED
    BY <2>1, <2>2
<1> QED
  BY <1>1 DEF QuotesBefore

\* Behind a quote there is one more, and behind anything else as many.
LEMMA QuotesNext ==
    ASSUME NEW t, NEW a \in Nat \ {0}
    PROVE  QuotesBefore(t, a + 1) = QuotesBefore(t, a) + (IF t[a] = Quote THEN 1 ELSE 0)
<1> DEFINE S == {j \in 1 .. a - 1 : t[j] = Quote}
<1>1. CASE t[a] = Quote
  <2>1. {j \in 1 .. a + 1 - 1 : t[j] = Quote} = S \cup {a} /\ a \notin S
    BY <1>1
  <2>2. IsFiniteSet(1 .. a - 1) /\ S \in SUBSET (1 .. a - 1)
    BY FS_Interval
  <2>3. IsFiniteSet(S)
    BY <2>2, FS_Subset
  <2> HIDE DEF S
  <2>4. Cardinality(S \cup {a}) = Cardinality(S) + 1
    BY <2>1, <2>3, FS_AddElement
  <2> QED
    BY <1>1, <2>1, <2>4 DEF QuotesBefore, S
<1>2. CASE t[a] # Quote
  <2>1. \A j \in a .. a + 1 - 1 : t[j] # Quote
    BY <1>2
  <2>2. a + 1 \in Nat /\ a <= a + 1
    OBVIOUS
  <2>3. QuotesBefore(t, a + 1) = QuotesBefore(t, a)
    BY <2>1, <2>2, QuotesSame
  <2> QED
    BY <1>2, <2>3, QuotesCount
<1> QED
  BY <1>1, <1>2

\* The line of n characters in the buffer, with its NUL where the \n was.
Cleaned(cmd, M, n) ==
    /\ M \in Nat /\ n \in Nat /\ n < M /\ DOMAIN cmd = 0 .. M /\ cmd \in [0 .. M -> Range(cmd)]
    /\ cmd[n] = NUL /\ cmd[n + 1] = NUL
    /\ \A q \in 0 .. n - 1 : cmd[q] # NUL

\* t is that line as it is read, with the spaces that follow it.
Shows(t, cmd, n) ==
    /\ Len(t) \in Nat /\ n <= Len(t) /\ DOMAIN t = 1 .. Len(t)
    /\ \A i \in 1 .. n : t[i] = cmd[i - 1]
    /\ \A i \in n + 1 .. Len(t) : t[i] = Space
    /\ QuotesBefore(t, n + 1) % 2 = 0

\* Place q of the buffer separates words, and a word starts at place p behind a separator.
Cuts(t, q) == Separates(t, q + 1)
Opening(t, q) == t[q + 1] = Quote /\ QuotesBefore(t, q + 1) % 2 = 0
StartsBehind(t, n, p) == p \in 1 .. n - 1 /\ Cuts(t, p - 1) /\ ~Cuts(t, p)

\* The parser's words: the line's beginning, and in order what starts behind the separators
\* before place at.
WordsUpTo(found_at, t, n, at) ==
    /\ found_at \in Seq(Nat) /\ Len(found_at) > 0 /\ found_at[1] = 0
    /\ \A i, j \in 1 .. Len(found_at) : i < j => found_at[i] < found_at[j]
    /\ \A p \in Nat : (\E i \in 2 .. Len(found_at) : found_at[i] = p) <=> StartsBehind(t, n, p) /\ p <= at

\* The parser is at a separator or at the end; it has cut the line at every separator before.
LoopInv(l, cmd, t, n) ==
    /\ l \in Loop(cmd) /\ l.buf[n] = NUL
    /\ l.delim_addr < n => Cuts(t, l.delim_addr) /\ (l.opens <=> Opening(t, l.delim_addr))
    /\ \A q \in 0 .. n - 1 :
        /\ q > l.delim_addr => l.buf[q] = cmd[q]
        /\ q < l.delim_addr => l.buf[q] = IF Cuts(t, q) THEN NUL ELSE cmd[q]
    /\ WordsUpTo(l.args, t, n, l.delim_addr)

\* An opening quote leaves an odd number of quotes behind it, another separator an even one.
LEMMA ParityBehind ==
    ASSUME NEW t, NEW q \in Nat, Cuts(t, q)
    PROVE  Opening(t, q) <=> QuotesBefore(t, q + 2) % 2 = 1
<1>1. q + 1 \in Nat \ {0} /\ q + 1 + 1 = q + 2
  OBVIOUS
<1>2. PICK c \in Nat : c = QuotesBefore(t, q + 1)
  BY <1>1, QuotesCount
<1>3. QuotesBefore(t, q + 2) = c + (IF t[q + 1] = Quote THEN 1 ELSE 0)
  BY <1>1, <1>2, QuotesNext
<1>4. (c % 2 = 0 \/ c % 2 = 1) /\ (c % 2 = 0 <=> (c + 1) % 2 = 1)
  OBVIOUS
<1>5. CASE t[q + 1] = Quote
  BY <1>2, <1>3, <1>4, <1>5 DEF Opening
<1>6. CASE t[q + 1] # Quote
  BY <1>2, <1>3, <1>6 DEF Cuts, Separates, Opening
<1> QED
  BY <1>5, <1>6

\* What the parser goes on to from a separator: the next one, or the end.
Goes(t, n, at, next) ==
    /\ next \in at + 1 .. n
    /\ \A q \in at + 1 .. next - 1 : ~Cuts(t, q)
    /\ next < n => Cuts(t, next)

\* The buffer that the parser has cut at place at, before the end of the line.
CutAt(cut, cmd, M, n, at) ==
    /\ DOMAIN cut = 0 .. M /\ cut[at] = NUL /\ cut[n] = NUL
    /\ \A q \in at + 1 .. n - 1 : cut[q] = cmd[q]

\* Where no quote lies between, the parity behind a separator is that before a later place.
LEMMA ParityKept ==
    ASSUME NEW t, NEW a \in Nat, NEW b \in Nat, a < b, \A q \in a + 1 .. b - 1 : t[q + 1] # Quote
    PROVE  QuotesBefore(t, b + 1) = QuotesBefore(t, a + 2)
<1>1. a + 2 \in Nat \ {0} /\ b + 1 \in Nat /\ a + 2 <= b + 1
  OBVIOUS
<1>2. ASSUME NEW j \in a + 2 .. b + 1 - 1 PROVE t[j] # Quote
  <2>1. j - 1 \in a + 1 .. b - 1 /\ j - 1 + 1 = j
    OBVIOUS
  <2> QED
    BY <2>1
<1> QED
  BY <1>1, <1>2, QuotesSame

\* Behind an opening quote the next separator is the closing one, which a balanced line has.
LEMMA GoesToQuote ==
    ASSUME NEW cmd, NEW M \in Nat, NEW n \in Nat, NEW t, Cleaned(cmd, M, n), Shows(t, cmd, n),
           NEW cut, NEW at \in 0 .. n - 1, CutAt(cut, cmd, M, n, at),
           QuotesBefore(t, at + 2) % 2 = 1
    PROVE  /\ Goes(t, n, at, strfnd(cut, at, Quote))
           /\ ~Opening(t, strfnd(cut, at, Quote))
<1>0. DOMAIN cut = 0 .. M /\ cut[at] = NUL /\ cut[n] = NUL /\ \A q \in at + 1 .. n - 1 : cut[q] = cmd[q]
  BY DEF CutAt
<1>1. /\ M \in Nat /\ n \in Nat /\ n < M /\ at \in 0 .. M + 1 /\ at \in Nat
      /\ \A q \in 0 .. n - 1 : t[q + 1] = cmd[q]
  <2>1. M \in Nat /\ n \in Nat /\ n < M /\ \A i \in 1 .. n : t[i] = cmd[i - 1]
    BY DEF Cleaned, Shows
  <2>2. \A q \in 0 .. n - 1 : q + 1 \in 1 .. n /\ q + 1 - 1 = q
    BY <2>1
  <2> QED
    BY <2>1, <2>2
<1>2. PICK r : r = strfnd(cut, at, Quote)
  OBVIOUS
<1>3. r \in at .. M + 1 /\ (r <= M => cut[r] = Quote) /\ \A q \in at .. M : q < r => cut[q] # Quote
  BY <1>0, <1>1, <1>2, StrfndIs
<1>4. r \in at + 1 .. M + 1
  BY <1>0, <1>1, <1>3, DelimsDiffer
<1>5. ASSUME NEW q \in at + 1 .. n - 1, q < r PROVE t[q + 1] # Quote
  <2>1. q \in at .. M /\ q \in 0 .. n - 1
    BY <1>1
  <2> QED
    BY <1>0, <1>1, <1>3, <1>5, <2>1
<1>6. r < n
  <2> SUFFICES ASSUME r >= n PROVE FALSE
    BY <1>1, <1>4
  <2>1. \A q \in at + 1 .. n - 1 : t[q + 1] # Quote
    BY <1>1, <1>4, <1>5
  <2>2. QuotesBefore(t, n + 1) = QuotesBefore(t, at + 2)
    BY <1>1, <2>1, ParityKept
  <2> QED
    BY <2>2 DEF Shows
<1>7. r \in 0 .. n - 1 /\ r \in at + 1 .. n - 1 /\ r <= M
  BY <1>1, <1>4, <1>6
<1>8. t[r + 1] = Quote
  BY <1>0, <1>1, <1>3, <1>7
<1>9. QuotesBefore(t, r + 1) = QuotesBefore(t, at + 2)
  <2>1. \A q \in at + 1 .. r - 1 : q \in at + 1 .. n - 1 /\ q < r
    BY <1>7
  <2> QED
    BY <1>1, <1>5, <1>7, <2>1, ParityKept
<1>10. ASSUME NEW q \in at + 1 .. r - 1 PROVE ~Cuts(t, q)
  <2>1. q \in at + 1 .. n - 1 /\ q < r /\ q \in Nat /\ at < q
    BY <1>7
  <2>2. \A p \in at + 1 .. q - 1 : p \in at + 1 .. n - 1 /\ p < r
    BY <1>7, <2>1
  <2>3. QuotesBefore(t, q + 1) = QuotesBefore(t, at + 2)
    BY <1>1, <1>5, <2>1, <2>2, ParityKept
  <2> QED
    BY <1>5, <2>1, <2>3 DEF Cuts, Separates
<1> QED
  BY <1>2, <1>7, <1>8, <1>9, <1>10 DEF Goes, Cuts, Separates, Opening

\* Outside quotations the next separator is the next space or quote.
LEMMA GoesToDelim ==
    ASSUME NEW cmd, NEW M \in Nat, NEW n \in Nat, NEW t, Cleaned(cmd, M, n), Shows(t, cmd, n),
           NEW cut, NEW at \in 0 .. n - 1, CutAt(cut, cmd, M, n, at),
           QuotesBefore(t, at + 2) % 2 = 0
    PROVE  /\ Goes(t, n, at, find_next_delim(cut, at))
           /\ find_next_delim(cut, at) < n =>
                 (Opening(t, find_next_delim(cut, at)) <=> cut[find_next_delim(cut, at)] = Quote)
<1>0. DOMAIN cut = 0 .. M /\ cut[at] = NUL /\ cut[n] = NUL /\ \A q \in at + 1 .. n - 1 : cut[q] = cmd[q]
  BY DEF CutAt
<1>1. /\ M \in Nat /\ n \in Nat /\ n < M /\ at \in 0 .. M /\ at \in Nat
      /\ \A q \in 0 .. n - 1 : t[q + 1] = cmd[q] /\ cmd[q] # NUL
  <2>1. /\ M \in Nat /\ n \in Nat /\ n < M /\ \A i \in 1 .. n : t[i] = cmd[i - 1]
        /\ \A q \in 0 .. n - 1 : cmd[q] # NUL
    BY DEF Cleaned, Shows
  <2>2. \A q \in 0 .. n - 1 : q + 1 \in 1 .. n /\ q + 1 - 1 = q
    BY <2>1
  <2> QED
    BY <2>1, <2>2
<1>2. PICK r : r = find_next_delim(cut, at)
  OBVIOUS
<1>3. /\ r \in at .. M + 1
      /\ r <= M => cut[r] \in {Space, Quote} \/ (cut[r] = NUL /\ r > at)
      /\ \A q \in at .. M : q < r => cut[q] \notin {Space, Quote} /\ (q > at => cut[q] # NUL)
  <2>1. NextDelim(M, cut, at, r)
    BY <1>0, <1>1, <1>2, NextDelimIs
  <2> QED
    BY <2>1 DEF NextDelim
<1>4. r \in at + 1 .. n
  <2>1. n \in at .. M /\ n > at
    BY <1>1
  <2>2. ~(n < r)
    BY <1>0, <1>3, <2>1, DelimsDiffer
  <2>3. r # at
    BY <1>0, <1>1, <1>3, DelimsDiffer
  <2> QED
    BY <1>1, <1>3, <2>2, <2>3
<1>5. ASSUME NEW q \in at + 1 .. n - 1, q < r PROVE t[q + 1] \notin {Space, Quote}
  <2>1. q \in at .. M /\ q \in 0 .. n - 1
    BY <1>1
  <2> QED
    BY <1>0, <1>1, <1>3, <1>5, <2>1
<1>6. ASSUME NEW q \in at + 1 .. r - 1 PROVE ~Cuts(t, q)
  <2>1. q \in at + 1 .. n - 1 /\ q < r
    BY <1>4
  <2> QED
    BY <1>5, <2>1 DEF Cuts, Separates
<1>7. QuotesBefore(t, r + 1) = QuotesBefore(t, at + 2)
  <2>1. \A q \in at + 1 .. r - 1 : q \in at + 1 .. n - 1 /\ q < r
    BY <1>4
  <2> QED
    BY <1>1, <1>4, <1>5, <2>1, ParityKept
<1>8. r < n => t[r + 1] = cut[r] /\ cut[r] \in {Space, Quote}
  BY <1>0, <1>1, <1>3, <1>4
<1> QED
  BY <1>2, <1>4, <1>6, <1>7, <1>8 DEF Goes, Cuts, Separates, Opening

\* What an iteration cuts, and what it goes on to.
CutOf(l) == [l.buf EXCEPT ![l.delim_addr] = NUL]
NextOf(l) == IF l.opens THEN strfnd(CutOf(l), l.delim_addr, Quote) ELSE find_next_delim(CutOf(l), l.delim_addr)

\* One iteration goes on to the next separator or to the end.
LEMMA IterationGoes ==
    ASSUME NEW cmd, NEW M \in Nat, NEW n \in Nat, NEW t, Cleaned(cmd, M, n), Shows(t, cmd, n),
           NEW l, LoopInv(l, cmd, t, n), l.delim_addr < n
    PROVE  /\ Goes(t, n, l.delim_addr, NextOf(l))
           /\ NextOf(l) < n => (Opening(t, NextOf(l)) <=> ~l.opens /\ CutOf(l)[NextOf(l)] = Quote)
<1>1. PICK at, cut, next : at = l.delim_addr /\ cut = CutOf(l) /\ next = NextOf(l)
  OBVIOUS
<1>2. /\ at \in 0 .. n - 1 /\ at \in Nat /\ n < M /\ DOMAIN cmd = 0 .. M
      /\ l.opens \in BOOLEAN /\ DOMAIN l.buf = 0 .. M
  <2>1. l.delim_addr \in Nat /\ l.opens \in BOOLEAN /\ l.buf \in [DOMAIN cmd -> Range(cmd) \cup {NUL}]
    BY DEF LoopInv, Loop
  <2> QED
    BY <1>1, <2>1 DEF Cleaned
<1>3. CutAt(cut, cmd, M, n, at)
  <2>1. \A q \in at + 1 .. n - 1 : q \in 0 .. n - 1 /\ q > at /\ q \in 0 .. M
    BY <1>2
  <2>2. \A q \in 0 .. n - 1 : q > at => l.buf[q] = cmd[q]
    BY <1>1 DEF LoopInv
  <2>3. at \in 0 .. M /\ n \in 0 .. M /\ n # at
    BY <1>2
  <2>4. cut = [l.buf EXCEPT ![at] = NUL] /\ l.buf[n] = NUL
    BY <1>1 DEF CutOf, LoopInv
  <2> QED
    BY <1>2, <2>1, <2>2, <2>3, <2>4 DEF CutAt
<1>4. l.opens <=> QuotesBefore(t, at + 2) % 2 = 1
  <2>1. Cuts(t, at) /\ (l.opens <=> Opening(t, at))
    BY <1>1 DEF LoopInv
  <2> QED
    BY <1>2, <2>1, ParityBehind
<1>5. CASE l.opens
  <2>1. next = strfnd(cut, at, Quote)
    BY <1>1, <1>5 DEF NextOf
  <2>2. Goes(t, n, at, next) /\ ~Opening(t, next)
    BY <1>2, <1>3, <1>4, <1>5, <2>1, GoesToQuote
  <2> QED
    BY <1>1, <1>5, <2>2
<1>6. CASE ~l.opens
  <2>1. QuotesBefore(t, at + 2) % 2 = 0
    <3>1. QuotesBefore(t, at + 2) \in Nat
      BY <1>2, QuotesCount
    <3> QED
      BY <1>4, <1>6, <3>1
  <2>2. next = find_next_delim(cut, at)
    BY <1>1, <1>6 DEF NextOf
  <2>3. Goes(t, n, at, next) /\ (next < n => (Opening(t, next) <=> cut[next] = Quote))
    BY <1>2, <1>3, <2>1, <2>2, GoesToDelim
  <2> QED
    BY <1>1, <1>6, <2>3
<1> QED
  BY <1>2, <1>5, <1>6

\* The word between two separators, if there is one, comes behind those that were found before.
LEMMA WordAdded ==
    ASSUME NEW t, NEW n \in Nat, NEW at \in 0 .. n - 1, NEW next, Goes(t, n, at, next),
           Cuts(t, at), NEW found_at, WordsUpTo(found_at, t, n, at)
    PROVE  WordsUpTo(AddWord(found_at, at, next), t, n, next)
<1>1. /\ next \in at + 1 .. n /\ \A q \in at + 1 .. next - 1 : ~Cuts(t, q)
      /\ next < n => Cuts(t, next)
  BY DEF Goes
<1>2. ASSUME NEW p \in Nat
      PROVE  StartsBehind(t, n, p) /\ p <= next <=>
                 (StartsBehind(t, n, p) /\ p <= at) \/ (p = at + 1 /\ at + 1 # next)
  <2>1. CASE p <= at
    BY <1>1, <2>1
  <2>2. CASE p = at + 1
    <3>1. p - 1 = at
      BY <2>2
    <3>2. CASE at + 1 = next
      BY <1>1, <2>2, <3>2 DEF StartsBehind
    <3>3. CASE at + 1 # next
      <4>1. p \in at + 1 .. next - 1 /\ p \in 1 .. n - 1
        BY <1>1, <2>2, <3>3
      <4> QED
        BY <1>1, <2>2, <3>1, <3>3, <4>1 DEF StartsBehind
    <3> QED
      BY <3>2, <3>3
  <2>3. CASE p > at + 1
    <3>1. p <= next => p - 1 \in at + 1 .. next - 1
      BY <1>1, <2>3
    <3> QED
      BY <1>1, <2>3, <3>1 DEF StartsBehind
  <2> QED
    BY <2>1, <2>2, <2>3
<1>3. /\ found_at \in Seq(Nat) /\ Len(found_at) > 0 /\ found_at[1] = 0 /\ Len(found_at) \in Nat
      /\ \A i, j \in 1 .. Len(found_at) : i < j => found_at[i] < found_at[j]
      /\ \A p \in Nat : (\E i \in 2 .. Len(found_at) : found_at[i] = p) <=> StartsBehind(t, n, p) /\ p <= at
  BY DEF WordsUpTo
<1>4. CASE at + 1 = next
  BY <1>2, <1>3, <1>4 DEF WordsUpTo, AddWord
<1>5. CASE at + 1 # next
  <2>1. PICK new : new = Append(found_at, at + 1)
    OBVIOUS
  <2>2. PICK k \in Nat : k = Len(found_at)
    BY <1>3
  <2>3. /\ new \in Seq(Nat) /\ Len(new) = k + 1 /\ new[k + 1] = at + 1
        /\ \A i \in 1 .. k : new[i] = found_at[i]
    BY <1>3, <2>1, <2>2
  <2>4. \A i \in 1 .. k : found_at[i] < at + 1
    <3> TAKE i \in 1 .. k
    <3>1. CASE i = 1
      BY <1>3, <3>1
    <3>2. CASE i # 1
      <4>1. i \in 2 .. Len(found_at) /\ found_at[i] \in Nat
        BY <1>3, <2>2, <3>2
      <4>2. found_at[i] <= at
        BY <1>3, <4>1
      <4> QED
        BY <4>1, <4>2
    <3> QED
      BY <3>1, <3>2
  <2>5. ASSUME NEW i \in 1 .. k + 1, NEW j \in 1 .. k + 1, i < j PROVE new[i] < new[j]
    <3>1. i \in 1 .. k
      BY <2>5
    <3>2. j = k + 1 \/ j \in 1 .. k
      OBVIOUS
    <3> QED
      BY <1>3, <2>2, <2>3, <2>4, <2>5, <3>1, <3>2
  <2>6. ASSUME NEW p \in Nat
        PROVE  (\E i \in 2 .. k + 1 : new[i] = p) <=> StartsBehind(t, n, p) /\ p <= next
    <3>1. (\E i \in 2 .. k + 1 : new[i] = p) <=> (\E i \in 2 .. k : found_at[i] = p) \/ p = at + 1
      <4>1. \A i \in 2 .. k + 1 : i = k + 1 \/ i \in 2 .. k
        OBVIOUS
      <4>2. \A i \in 2 .. k : i \in 1 .. k /\ i \in 2 .. k + 1
        OBVIOUS
      <4>3. k + 1 \in 2 .. k + 1
        BY <1>3, <2>2
      <4> QED
        BY <2>3, <4>1, <4>2, <4>3
    <3> QED
      BY <1>2, <1>3, <1>5, <2>2, <3>1
  <2>7. new[1] = 0
    BY <1>3, <2>2, <2>3
  <2>8. WordsUpTo(new, t, n, next)
    BY <2>3, <2>5, <2>6, <2>7 DEF WordsUpTo
  <2> QED
    BY <1>5, <2>1, <2>8 DEF AddWord
<1> QED
  BY <1>4, <1>5

\* An iteration keeps the invariant and goes on by a place at least.
LEMMA IterateKeeps ==
    ASSUME NEW cmd, NEW M \in Nat, NEW n \in Nat, NEW t, Cleaned(cmd, M, n), Shows(t, cmd, n),
           NEW l, LoopInv(l, cmd, t, n), l.delim_addr < n
    PROVE  LoopInv(Iterate(l), cmd, t, n) /\ Iterate(l).delim_addr > l.delim_addr
<1>1. PICK at, cut : at = l.delim_addr /\ cut = CutOf(l) /\ cut = [l.buf EXCEPT ![at] = NUL]
  BY DEF CutOf
<1>2. PICK next : next = NextOf(l) /\ next = IF l.opens THEN strfnd(cut, at, Quote) ELSE find_next_delim(cut, at)
  BY <1>1 DEF NextOf
<1> DEFINE opens == ~l.opens /\ cut[next] = Quote
<1>4. Goes(t, n, at, next) /\ (next < n => (Opening(t, next) <=> opens))
  <2>1. /\ Goes(t, n, l.delim_addr, NextOf(l))
        /\ NextOf(l) < n => (Opening(t, NextOf(l)) <=> ~l.opens /\ CutOf(l)[NextOf(l)] = Quote)
    BY IterationGoes
  <2> QED
    BY <1>1, <1>2, <2>1
<1>5. /\ at \in Nat /\ at \in 0 .. n - 1 /\ n < M /\ DOMAIN cmd = 0 .. M
      /\ l.buf \in [0 .. M -> Range(cmd) \cup {NUL}] /\ opens \in BOOLEAN
      /\ WordsUpTo(l.args, t, n, at) /\ Cuts(t, at) /\ l.buf[n] = NUL
      /\ \A q \in 0 .. n - 1 : /\ q > at => l.buf[q] = cmd[q]
                               /\ q < at => l.buf[q] = IF Cuts(t, q) THEN NUL ELSE cmd[q]
  <2>1. l.delim_addr \in Nat /\ l.buf \in [DOMAIN cmd -> Range(cmd) \cup {NUL}]
    BY DEF LoopInv, Loop
  <2> QED
    BY <1>1, <2>1 DEF Cleaned, LoopInv
<1>6. /\ next \in at + 1 .. n /\ next \in Nat /\ \A q \in at + 1 .. next - 1 : ~Cuts(t, q)
      /\ next < n => Cuts(t, next)
  BY <1>4, <1>5 DEF Goes
<1>7. PICK buf : buf = [cut EXCEPT ![next] = NUL]
  OBVIOUS
<1>8. WordsUpTo(AddWord(l.args, at, next), t, n, next)
  BY <1>4, <1>5, WordAdded
<1>9. PICK m : m = [buf |-> buf, delim_addr |-> next, opens |-> opens, args |-> AddWord(l.args, at, next)]
  OBVIOUS
<1>10. Iterate(l) = m
  BY <1>1, <1>2, <1>7, <1>9 DEF Iterate
<1>11. /\ m.buf = buf /\ m.delim_addr = next /\ m.opens = opens /\ m.args = AddWord(l.args, at, next)
  BY <1>9
<1>12. buf \in [0 .. M -> Range(cmd) \cup {NUL}]
  BY <1>1, <1>5, <1>7
<1>13. m \in Loop(cmd)
  <2>1. AddWord(l.args, at, next) \in Seq(Nat)
    BY <1>8 DEF WordsUpTo
  <2> QED
    BY <1>5, <1>6, <1>9, <1>12, <2>1 DEF Loop
<1>14. buf[n] = NUL
  <2>1. n \in 0 .. M /\ at \in 0 .. M /\ next \in 0 .. M
    BY <1>5, <1>6
  <2> QED
    BY <1>1, <1>5, <1>7, <2>1
<1>15. ASSUME NEW q \in 0 .. n - 1
       PROVE  /\ q > next => buf[q] = cmd[q]
              /\ q < next => buf[q] = IF Cuts(t, q) THEN NUL ELSE cmd[q]
  <2>1. q \in 0 .. M /\ at \in 0 .. M /\ next \in 0 .. M
    BY <1>5, <1>6
  <2>2. CASE q > next
    <3>1. q > at /\ q # next
      BY <1>5, <1>6, <2>2
    <3>2. buf[q] = l.buf[q]
      BY <1>1, <1>5, <1>7, <2>1, <3>1
    <3> QED
      BY <1>5, <1>6, <2>2, <3>1, <3>2
  <2>3. CASE q < next /\ q # at
    <3>1. buf[q] = l.buf[q]
      BY <1>1, <1>5, <1>6, <1>7, <2>1, <2>3
    <3>2. q < at \/ q \in at + 1 .. next - 1
      BY <1>5, <1>6, <2>3
    <3>3. q > at \/ q < at
      BY <1>5, <2>3
    <3> QED
      BY <1>5, <1>6, <2>3, <3>1, <3>2, <3>3
  <2>4. CASE q = at
    <3>1. buf[q] = NUL
      BY <1>1, <1>5, <1>7, <2>1, <2>4
    <3> QED
      BY <1>5, <1>6, <2>4, <3>1
  <2>5. CASE q = next
    BY <2>5
  <2> QED
    BY <1>6, <2>2, <2>3, <2>4, <2>5
<1>16. LoopInv(m, cmd, t, n)
  <2>1. m.delim_addr < n => Cuts(t, m.delim_addr) /\ (m.opens <=> Opening(t, m.delim_addr))
    BY <1>4, <1>6, <1>11
  <2>2. \A q \in 0 .. n - 1 : /\ q > m.delim_addr => m.buf[q] = cmd[q]
                              /\ q < m.delim_addr => m.buf[q] = IF Cuts(t, q) THEN NUL ELSE cmd[q]
    BY <1>11, <1>15
  <2>3. m.buf[n] = NUL /\ WordsUpTo(m.args, t, n, m.delim_addr)
    BY <1>5, <1>6, <1>8, <1>11, <1>14
  <2> HIDE DEF opens
  <2> QED
    BY <1>13, <2>1, <2>2, <2>3 DEF LoopInv
<1> QED
  BY <1>1, <1>5, <1>6, <1>10, <1>11, <1>16

\* The line as it was typed, before it is parsed.
Typed(buf, M, n) ==
    /\ M \in Nat /\ n \in Nat /\ n < M /\ DOMAIN buf = 0 .. M
    /\ buf[n] = NewLine /\ buf[n + 1] = NUL
    /\ \A q \in 0 .. n - 1 : buf[q] # NUL /\ buf[q] # NewLine

LEMMA CleanIs ==
    ASSUME NEW buf, NEW M \in Nat, NEW n \in Nat, Typed(buf, M, n), NEW t, Shows(t, buf, n),
           NEW cmd, cmd = clean_command(buf)
    PROVE  /\ Cleaned(cmd, M, n) /\ Shows(t, cmd, n) /\ DOMAIN cmd = 0 .. M
           /\ \A q \in 0 .. n - 1 : cmd[q] = buf[q]
           /\ strfnd(cmd, 0, NUL) = n
<1>1. /\ n < M /\ DOMAIN buf = 0 .. M /\ buf[n] = NewLine /\ buf[n + 1] = NUL
      /\ \A q \in 0 .. n - 1 : buf[q] # NUL /\ buf[q] # NewLine
  BY DEF Typed
<1>2. 0 \in 0 .. M + 1 /\ n \in 0 .. M /\ n + 1 \in 0 .. M /\ n + 1 # n
  BY <1>1
<1>3. strfnd(buf, 0, NewLine) = n
  <2>1. PICK r : r = strfnd(buf, 0, NewLine)
    OBVIOUS
  <2>2. r \in 0 .. M + 1 /\ (r <= M => buf[r] = NewLine) /\ \A q \in 0 .. M : q < r => buf[q] # NewLine
    BY <1>1, <1>2, <2>1, StrfndIs
  <2>3. ~(n < r) /\ r <= n
    BY <1>1, <1>2, <2>2
  <2> QED
    BY <1>1, <1>2, <2>1, <2>2, <2>3
<1>4. /\ cmd = [buf EXCEPT ![n] = NUL] /\ DOMAIN cmd = 0 .. M /\ cmd \in [0 .. M -> Range(cmd)]
      /\ cmd[n] = NUL /\ cmd[n + 1] = NUL
  <2>1. cmd = [buf EXCEPT ![n] = NUL]
    BY <1>3 DEF clean_command
  <2> QED
    BY <1>1, <1>2, <2>1 DEF Range
<1>5. \A q \in 0 .. n - 1 : cmd[q] = buf[q]
  BY <1>1, <1>4
<1>6. Cleaned(cmd, M, n)
  BY <1>1, <1>4, <1>5 DEF Cleaned
<1>7. Shows(t, cmd, n)
  <2>1. \A i \in 1 .. n : i - 1 \in 0 .. n - 1
    OBVIOUS
  <2> QED
    BY <1>5, <2>1 DEF Shows
<1>8. strfnd(cmd, 0, NUL) = n
  <2>0. DOMAIN cmd = 0 .. M
    BY <1>4
  <2>1. PICK r : r = strfnd(cmd, 0, NUL)
    OBVIOUS
  <2>2. r \in 0 .. M + 1 /\ (r <= M => cmd[r] = NUL) /\ \A q \in 0 .. M : q < r => cmd[q] # NUL
    BY <1>2, <2>0, <2>1, StrfndIs
  <2>3. ~(n < r) /\ r <= n
    BY <1>2, <1>4, <2>2
  <2>4. r \in 0 .. n - 1 => cmd[r] # NUL
    BY <1>1, <1>5
  <2> QED
    BY <1>2, <2>1, <2>2, <2>3, <2>4
<1> QED
  BY <1>4, <1>5, <1>6, <1>7, <1>8

\* The loop starts at the first separator, with the line's beginning as the first word.
LEMMA LoopStarts ==
    ASSUME NEW cmd, NEW M \in Nat, NEW n \in Nat, NEW t, Cleaned(cmd, M, n), Shows(t, cmd, n)
    PROVE  LoopInv(StartLoop(cmd), cmd, t, n)
<1>1. /\ DOMAIN cmd = 0 .. M /\ cmd \in [0 .. M -> Range(cmd)] /\ cmd[n] = NUL
      /\ n < M /\ 0 \in 0 .. M
      /\ \A q \in 0 .. n - 1 : cmd[q] # NUL
  BY DEF Cleaned
<1>2. \A q \in 0 .. n - 1 : t[q + 1] = cmd[q]
  <2>1. \A i \in 1 .. n : t[i] = cmd[i - 1]
    BY DEF Shows
  <2>2. \A q \in 0 .. n - 1 : q + 1 \in 1 .. n /\ q + 1 - 1 = q
    OBVIOUS
  <2> QED
    BY <2>1, <2>2
<1>3. PICK at : at = find_next_delim(cmd, 0)
  OBVIOUS
<1>4. /\ at \in 0 .. M + 1
      /\ at <= M => cmd[at] \in {Space, Quote} \/ (cmd[at] = NUL /\ at > 0)
      /\ \A q \in 0 .. M : q < at => cmd[q] \notin {Space, Quote} /\ (q > 0 => cmd[q] # NUL)
  <2>1. NextDelim(M, cmd, 0, at)
    BY <1>1, <1>3, NextDelimIs
  <2> QED
    BY <2>1 DEF NextDelim
<1>5. PICK m : m = [buf |-> cmd, delim_addr |-> at, opens |-> cmd[at] = Quote, args |-> <<0>>]
  OBVIOUS
<1>6. m = StartLoop(cmd)
  BY <1>3, <1>5 DEF StartLoop
<1>7. /\ m.buf = cmd /\ m.delim_addr = at /\ m.args = <<0>>
      /\ (m.opens <=> cmd[at] = Quote) /\ m.opens \in BOOLEAN
  BY <1>5
<1>8. m \in Loop(cmd)
  <2>1. cmd \in [DOMAIN cmd -> Range(cmd) \cup {NUL}]
    BY <1>1 DEF Range
  <2>2. at \in Nat /\ <<0>> \in Seq(Nat)
    BY <1>4
  <2> QED
    BY <1>5, <2>1, <2>2 DEF Loop
<1>9. ASSUME NEW q \in 0 .. n - 1, q < at PROVE ~Cuts(t, q) /\ t[q + 1] # Quote
  <2>1. q \in 0 .. M
    BY <1>1
  <2> QED
    BY <1>2, <1>4, <1>9, <2>1 DEF Cuts, Separates
<1>10. ASSUME at < n PROVE Cuts(t, at) /\ (m.opens <=> Opening(t, at))
  <2>1. at \in 0 .. n - 1 /\ at <= M /\ at + 1 \in Nat
    BY <1>1, <1>4, <1>10
  <2>2. t[at + 1] = cmd[at] /\ cmd[at] \in {Space, Quote}
    BY <1>1, <1>2, <1>4, <2>1
  <2>3. QuotesBefore(t, at + 1) = 0
    <3>1. ASSUME NEW j \in 1 .. at + 1 - 1 PROVE t[j] # Quote
      <4>1. j - 1 \in 0 .. n - 1 /\ j - 1 < at /\ j - 1 + 1 = j
        BY <2>1
      <4> QED
        BY <1>9, <4>1
    <3>2. QuotesBefore(t, at + 1) = QuotesBefore(t, 1)
      BY <2>1, <3>1, QuotesSame
    <3> QED
      BY <3>2, QuotesFirst
  <2> QED
    BY <1>7, <2>2, <2>3 DEF Cuts, Separates, Opening
<1>11. WordsUpTo(<<0>>, t, n, at)
  <2>1. <<0>> \in Seq(Nat) /\ Len(<<0>>) = 1 /\ <<0>>[1] = 0
    OBVIOUS
  <2>2. ASSUME NEW p \in Nat PROVE ~(StartsBehind(t, n, p) /\ p <= at)
    <3> SUFFICES ASSUME p \in 1 .. n - 1, p <= at PROVE ~Cuts(t, p - 1)
      BY DEF StartsBehind
    <3>1. p - 1 \in 0 .. n - 1 /\ p - 1 < at
      BY <1>4
    <3> QED
      BY <1>9, <3>1
  <2> QED
    BY <2>1, <2>2 DEF WordsUpTo
<1>12. LoopInv(m, cmd, t, n)
  <2>1. \A q \in 0 .. n - 1 : /\ q > m.delim_addr => m.buf[q] = cmd[q]
                              /\ q < m.delim_addr => m.buf[q] = IF Cuts(t, q) THEN NUL ELSE cmd[q]
    BY <1>7, <1>9
  <2>2. m.delim_addr < n => Cuts(t, m.delim_addr) /\ (m.opens <=> Opening(t, m.delim_addr))
    BY <1>7, <1>10
  <2>3. m.buf[n] = NUL /\ WordsUpTo(m.args, t, n, m.delim_addr)
    BY <1>1, <1>7, <1>11
  <2> QED
    BY <1>8, <2>1, <2>2, <2>3 DEF LoopInv
<1> QED
  BY <1>6, <1>12

\* What parse_command leaves: the line cut at its separators, and where its words start.
Parsed(l, cmd, M, t, n) ==
    /\ DOMAIN l.buf = 0 .. M /\ l.buf[n] = NUL
    /\ \A q \in 0 .. n - 1 : l.buf[q] = IF Cuts(t, q) THEN NUL ELSE cmd[q]
    /\ WordsUpTo(l.args, t, n, n)

Iterated(cmd, end_pos) == [l \in Loop(cmd) |-> IF l.delim_addr < end_pos THEN Iterate(l) ELSE l]

\* The loop ends before it made more iterations than the buffer has places.
LEMMA ParseIs ==
    ASSUME NEW buf, NEW M \in Nat, NEW n \in Nat, Typed(buf, M, n), NEW t, Shows(t, buf, n)
    PROVE  Parsed(parse_command(buf), buf, M, t, n)
<1>1. PICK cmd : cmd = clean_command(buf)
  OBVIOUS
<1>2. /\ Cleaned(cmd, M, n) /\ Shows(t, cmd, n) /\ DOMAIN cmd = 0 .. M
      /\ \A q \in 0 .. n - 1 : cmd[q] = buf[q]
      /\ strfnd(cmd, 0, NUL) = n
  BY <1>1, CleanIs
<1>3. PICK places \in Nat : places = Cardinality(DOMAIN cmd) /\ places = M + 1
  BY <1>2, FS_Interval
<1>4. PICK g : g = Iterated(cmd, n)
  OBVIOUS
<1>5. PICK L : L = LoopOf(places, StartLoop(cmd), g)
  OBVIOUS
<1>6. parse_command(buf) = L[places]
  <2>1. parse_command(buf) =
            LoopOf(Cardinality(DOMAIN clean_command(buf)), StartLoop(clean_command(buf)),
                   Iterated(clean_command(buf), strfnd(clean_command(buf), 0, NUL)))
                [Cardinality(DOMAIN clean_command(buf))]
    BY DEF parse_command, LoopOf, Iterated
  <2> QED
    BY <1>1, <1>2, <1>3, <1>4, <1>5, <2>1
<1> DEFINE S == {l \in Loop(cmd) : LoopInv(l, cmd, t, n)}
<1>7. \A l \in S : g[l] = IF l.delim_addr < n THEN Iterate(l) ELSE l
  BY <1>4 DEF Iterated
<1>8. ASSUME NEW l \in S PROVE g[l] \in S /\ (l.delim_addr < n => g[l].delim_addr > l.delim_addr)
  <2>1. CASE l.delim_addr < n
    <3>1. LoopInv(Iterate(l), cmd, t, n) /\ Iterate(l).delim_addr > l.delim_addr
      BY <1>2, <2>1, IterateKeeps
    <3>2. Iterate(l) \in Loop(cmd)
      BY <3>1 DEF LoopInv
    <3> QED
      BY <1>7, <2>1, <3>1, <3>2
  <2>2. CASE ~(l.delim_addr < n)
    BY <1>7, <2>2
  <2> QED
    BY <2>1, <2>2
<1>9. StartLoop(cmd) \in S
  <2>1. LoopInv(StartLoop(cmd), cmd, t, n)
    BY <1>2, LoopStarts
  <2> QED
    BY <2>1 DEF LoopInv
<1>10. \A l \in S : l.delim_addr \in Nat /\ LoopInv(l, cmd, t, n)
  BY DEF Loop
<1> HIDE DEF S
<1>11. StaysIn(S, g)
  BY <1>8 DEF StaysIn
<1>12. /\ L[0] = StartLoop(cmd) /\ \A k \in 1 .. places : L[k] = g[L[k - 1]]
       /\ \A k \in 0 .. places : L[k] \in S
  BY <1>5, <1>9, <1>11, LoopIs
<1> DEFINE slow == {k \in 0 .. places : ~(L[k].delim_addr >= k \/ L[k].delim_addr >= n)}
<1>13. slow = {}
  <2> SUFFICES ASSUME slow # {} PROVE FALSE
    OBVIOUS
  <2>1. PICK k \in slow : \A j \in slow : ~(j < k)
    <3>1. slow \in SUBSET Nat
      OBVIOUS
    <3> HIDE DEF slow
    <3> QED
      BY <3>1, LeastElement
  <2>2. k \in 0 .. places /\ L[k].delim_addr \in Nat /\ ~(L[k].delim_addr >= k) /\ ~(L[k].delim_addr >= n)
    BY <1>10, <1>12, <2>1
  <2>3. k \in 1 .. places /\ k - 1 \in 0 .. places /\ k - 1 < k
    BY <2>2
  <2>4. PICK l : l = L[k - 1]
    OBVIOUS
  <2>5. l \in S /\ l.delim_addr \in Nat /\ L[k] = g[l]
    BY <1>10, <1>12, <2>3, <2>4
  <2>6. l.delim_addr >= k - 1 \/ l.delim_addr >= n
    BY <2>1, <2>3, <2>4
  <2>7. CASE l.delim_addr < n
    <3>1. g[l].delim_addr > l.delim_addr
      BY <1>8, <2>5, <2>7
    <3> QED
      BY <2>2, <2>3, <2>5, <2>6, <2>7, <3>1
  <2>8. CASE ~(l.delim_addr < n)
    BY <1>7, <2>2, <2>5, <2>8 DEF S
  <2> QED
    BY <2>7, <2>8
<1>14. PICK l : l = parse_command(buf)
  OBVIOUS
<1>15. places \in 0 .. places /\ places > n
  BY <1>2, <1>3 DEF Cleaned
<1>16. l \in S /\ l.delim_addr \in Nat /\ l.delim_addr >= n /\ LoopInv(l, cmd, t, n)
  BY <1>6, <1>10, <1>12, <1>13, <1>14, <1>15
<1>17. DOMAIN l.buf = 0 .. M /\ l.buf[n] = NUL
  BY <1>2, <1>16 DEF LoopInv, Loop
<1>18. ASSUME NEW q \in 0 .. n - 1 PROVE l.buf[q] = IF Cuts(t, q) THEN NUL ELSE buf[q]
  <2>1. q < l.delim_addr
    BY <1>16
  <2> QED
    BY <1>2, <1>16, <2>1 DEF LoopInv
<1>19. WordsUpTo(l.args, t, n, n)
  <2>1. WordsUpTo(l.args, t, n, l.delim_addr)
    BY <1>16 DEF LoopInv
  <2>2. \A p \in Nat : StartsBehind(t, n, p) => p <= n /\ p <= l.delim_addr
    BY <1>16 DEF StartsBehind
  <2> QED
    BY <2>1, <2>2 DEF WordsUpTo
<1> QED
  BY <1>14, <1>17, <1>18, <1>19 DEF Parsed

\* Whatever is in the buffer, the loop finds places in it and the buffer stays as long as it is.
LEMMA StrfndIsNat ==
    ASSUME NEW M \in Nat, NEW buf, DOMAIN buf = 0 .. M, NEW i \in Nat, NEW c
    PROVE  strfnd(buf, i, c) \in Nat
<1> DEFINE S == {j \in 0 .. M : j >= i /\ buf[j] = c} \cup {M + 1}
<1>1. Cardinality(0 .. M) = M + 1
  BY FS_Interval
<1>2. strfnd(buf, i, c) = Min(S)
  BY <1>1 DEF strfnd
<1>3. S \in SUBSET Nat /\ S # {}
  OBVIOUS
<1> HIDE DEF S
<1>4. Min(S) \in S
  BY <1>3, MinIs
<1> QED
  BY <1>2, <1>3, <1>4

LEMMA NextDelimIsNat ==
    ASSUME NEW M \in Nat, NEW buf, DOMAIN buf = 0 .. M, NEW i \in Nat
    PROVE  find_next_delim(buf, i) \in Nat
<1> DEFINE S == {strfnd(buf, i, Space), strfnd(buf, i, Quote), strfnd(buf, i + 1, NUL)}
<1>1. i + 1 \in Nat
  OBVIOUS
<1>2. S \in SUBSET Nat /\ S # {}
  BY <1>1, StrfndIsNat
<1>3. Min(S) \in S
  <2> HIDE DEF S
  <2> QED
    BY <1>2, MinIs
<1> QED
  BY <1>2, <1>3 DEF find_next_delim

LEMMA ParseKeepsDomain ==
    ASSUME NEW M \in Nat, NEW buf, DOMAIN buf = 0 .. M
    PROVE  DOMAIN parse_command(buf).buf = 0 .. M
<1>1. PICK cmd : cmd = clean_command(buf)
  OBVIOUS
<1>2. DOMAIN cmd = 0 .. M /\ cmd \in [0 .. M -> Range(cmd)]
  BY <1>1 DEF clean_command, Range
<1>3. PICK places \in Nat : places = Cardinality(DOMAIN cmd)
  BY <1>2, FS_Interval
<1>4. PICK end_pos : end_pos = strfnd(cmd, 0, NUL)
  OBVIOUS
<1>5. PICK g : g = Iterated(cmd, end_pos)
  OBVIOUS
<1>6. parse_command(buf) = LoopOf(places, StartLoop(cmd), g)[places]
  <2>1. parse_command(buf) =
            LoopOf(Cardinality(DOMAIN clean_command(buf)), StartLoop(clean_command(buf)),
                   Iterated(clean_command(buf), strfnd(clean_command(buf), 0, NUL)))
                [Cardinality(DOMAIN clean_command(buf))]
    BY DEF parse_command, LoopOf, Iterated
  <2> QED
    BY <1>1, <1>3, <1>4, <1>5, <2>1
<1>7. PICK S : S = Loop(cmd)
  OBVIOUS
<1>8. \A l \in S : /\ l.buf \in [0 .. M -> Range(cmd) \cup {NUL}] /\ DOMAIN l.buf = 0 .. M
                   /\ l.delim_addr \in Nat /\ l.opens \in BOOLEAN /\ l.args \in Seq(Nat)
  BY <1>2, <1>7 DEF Loop
<1>9. StartLoop(cmd) \in S
  <2>1. PICK first \in Nat : first = find_next_delim(cmd, 0)
    BY <1>2, NextDelimIsNat
  <2>2. cmd \in [DOMAIN cmd -> Range(cmd) \cup {NUL}]
    BY <1>2 DEF Range
  <2>3. StartLoop(cmd) = [buf |-> cmd, delim_addr |-> first, opens |-> cmd[first] = Quote, args |-> <<0>>]
    BY <2>1 DEF StartLoop
  <2>4. <<0>> \in Seq(Nat)
    OBVIOUS
  <2> QED
    BY <1>7, <2>1, <2>2, <2>3, <2>4 DEF Loop
<1>10. ASSUME NEW l \in S PROVE Iterate(l) \in S
  <2>1. PICK at, cut : at \in Nat /\ at = l.delim_addr /\ cut = CutOf(l) /\ cut = [l.buf EXCEPT ![at] = NUL]
    BY <1>8 DEF CutOf
  <2>2. cut \in [0 .. M -> Range(cmd) \cup {NUL}] /\ DOMAIN cut = 0 .. M
    BY <1>8, <2>1
  <2>3. PICK next : next = IF l.opens THEN strfnd(cut, at, Quote) ELSE find_next_delim(cut, at)
    OBVIOUS
  <2>4. strfnd(cut, at, Quote) \in Nat /\ find_next_delim(cut, at) \in Nat
    BY <2>1, <2>2, StrfndIsNat, NextDelimIsNat
  <2>5. next \in Nat
    BY <2>3, <2>4
  <2>6. PICK after : after = [cut EXCEPT ![next] = NUL]
    OBVIOUS
  <2>7. after \in [0 .. M -> Range(cmd) \cup {NUL}]
    BY <2>2, <2>6
  <2>8. Iterate(l) = [buf |-> after, delim_addr |-> next, opens |-> ~l.opens /\ cut[next] = Quote,
                      args |-> AddWord(l.args, at, next)]
    BY <2>1, <2>3, <2>6 DEF Iterate
  <2>9. AddWord(l.args, at, next) \in Seq(Nat)
    BY <1>8, <2>1 DEF AddWord
  <2> QED
    BY <1>2, <1>7, <2>5, <2>7, <2>8, <2>9 DEF Loop
<1>11. \A l \in S : g[l] = IF l.delim_addr < end_pos THEN Iterate(l) ELSE l
  BY <1>5, <1>7 DEF Iterated
<1>12. StaysIn(S, g)
  BY <1>10, <1>11 DEF StaysIn
<1>13. PICK L : L = LoopOf(places, StartLoop(cmd), g)
  OBVIOUS
<1>14. \A k \in 0 .. places : L[k] \in S
  BY <1>9, <1>12, <1>13, LoopIs
<1>15. places \in 0 .. places
  OBVIOUS
<1> QED
  BY <1>6, <1>8, <1>13, <1>14, <1>15

-----------------------------------------------------------------------------
(* The words of the line.                                                  *)

\* Where the word that starts at i ends, and the words that start at places in order.
Ends(t, i) == Min({j \in i .. Len(t) : Separates(t, j)} \cup {Len(t) + 1})
WordList(t, b, c) == [k \in 1 .. c |-> SubSeq(t, b[k], Ends(t, b[k]) - 1)]

Increasing(b, c) == \A i, j \in 1 .. c : i < j => b[i] < b[j]

\* The k-th word starts at the k-th of the starts.
LEMMA WordsAre ==
    ASSUME NEW t, NEW c \in Nat, NEW b \in [1 .. c -> Nat], Increasing(b, c),
           WordStarts(t) = {b[i] : i \in 1 .. c}
    PROVE  Words(t) = IF 1 \in WordStarts(t) THEN WordList(t, b, c) ELSE <<<< >>>> \o WordList(t, b, c)
<1> DEFINE S == WordStarts(t)
           rank(i) == Cardinality({j \in S : j <= i})
           Start(k) == CHOOSE i \in S : rank(i) = k
           words == [k \in 1 .. Cardinality(S) |-> SubSeq(t, Start(k), Ends(t, Start(k)) - 1)]
<1>1. Cardinality(S) = c /\ \A k \in 1 .. c : rank(b[k]) = k
  <2>1. \A i, j \in 1 .. c : i < j => b[i] < b[j]
    BY DEF Increasing
  <2>2. /\ Cardinality({b[i] : i \in 1 .. c}) = c
        /\ \A k \in 1 .. c : Cardinality({x \in {b[i] : i \in 1 .. c} : x <= b[k]}) = k
    BY <2>1, RankOfIncreasing
  <2> QED
    BY <2>2
<1>2. ASSUME NEW k \in 1 .. c PROVE Start(k) = b[k]
  <2>1. b[k] \in S /\ rank(b[k]) = k
    BY <1>1
  <2>2. ASSUME NEW i \in S, rank(i) = k PROVE i = b[k]
    <3>1. PICK m \in 1 .. c : i = b[m]
      OBVIOUS
    <3>2. rank(i) = m
      BY <1>1, <3>1
    <3> QED
      BY <2>2, <3>1, <3>2
  <2> HIDE DEF S, rank
  <2> QED
    BY <2>1, <2>2
<1>3. words = WordList(t, b, c)
  <2> HIDE DEF S, rank, Start
  <2> QED
    BY <1>1, <1>2 DEF WordList
<1>4. Words(t) = IF 1 \in S THEN words ELSE <<<< >>>> \o words
  BY DEF Words, Ends
<1> HIDE DEF words
<1> QED
  BY <1>3, <1>4

\* Behind the line there are only separators.
LEMMA SpacesSeparate ==
    ASSUME NEW cmd, NEW n \in Nat, NEW t, Shows(t, cmd, n), NEW i \in n + 1 .. Len(t)
    PROVE  Separates(t, i)
<1>1. /\ Len(t) \in Nat /\ \A j \in n + 1 .. Len(t) : t[j] = Space
      /\ QuotesBefore(t, n + 1) % 2 = 0
  BY DEF Shows
<1>2. QuotesBefore(t, i) = QuotesBefore(t, n + 1)
  <2>1. \A j \in n + 1 .. i - 1 : t[j] # Quote
    BY <1>1, DelimsDiffer
  <2>2. n + 1 \in Nat \ {0} /\ i \in Nat /\ n + 1 <= i
    BY <1>1
  <2> QED
    BY <2>1, <2>2, QuotesSame
<1> QED
  BY <1>1, <1>2 DEF Separates

\* Words start at the line's beginning, if no separator is there, and behind separators.
LEMMA StartsAre ==
    ASSUME NEW cmd, NEW n \in Nat, NEW t, Shows(t, cmd, n)
    PROVE  \A i \in Nat : i \in WordStarts(t) <=>
               (i = 1 /\ n > 0 /\ ~Cuts(t, 0)) \/ (i > 0 /\ StartsBehind(t, n, i - 1))
<1>1. DOMAIN t = 1 .. Len(t) /\ Len(t) \in Nat /\ n <= Len(t)
  BY DEF Shows
<1> TAKE i \in Nat
<1>2. CASE i \in n + 1 .. Len(t)
  <2>1. Separates(t, i)
    BY <1>2, SpacesSeparate
  <2> QED
    BY <1>2, <2>1 DEF WordStarts, StartsBehind
<1>3. CASE i \in 1 .. n
  <2>1. i \in DOMAIN t /\ i - 1 + 1 = i /\ (i # 1 => i - 1 \in 1 .. n - 1 /\ i - 1 - 1 + 1 = i - 1)
    BY <1>1, <1>3
  <2>2. i = 1 => 0 + 1 = i /\ i - 1 \notin 1 .. n - 1
    OBVIOUS
  <2> QED
    BY <1>3, <2>1, <2>2 DEF WordStarts, StartsBehind, Cuts
<1>4. CASE i = 0 \/ i > Len(t)
  BY <1>1, <1>4 DEF WordStarts, StartsBehind
<1> QED
  BY <1>1, <1>2, <1>3, <1>4

\* What the parser leaves at place a of the line is the word that starts there, and the first
\* word is empty when the line begins with a separator.
WordFrom(buf, t, n, a) ==
    /\ WordAt(buf, a) = SubSeq(t, a + 1, Ends(t, a + 1) - 1)
    /\ n = 0 \/ Cuts(t, 0) => WordAt(buf, 0) = << >>

LEMMA WordAtIs ==
    ASSUME NEW buf, NEW M \in Nat, NEW n \in Nat, Typed(buf, M, n),
           NEW t, Shows(t, buf, n),
           NEW l, Parsed(l, buf, M, t, n), NEW a \in 0 .. n
    PROVE  WordFrom(l.buf, t, n, a)
<1>1. /\ n < M /\ DOMAIN l.buf = 0 .. M /\ l.buf[n] = NUL
      /\ \A q \in 0 .. n - 1 : l.buf[q] = (IF Cuts(t, q) THEN NUL ELSE buf[q]) /\ buf[q] # NUL
  BY DEF Typed, Parsed
<1> DEFINE V == {t[i] : i \in 1 .. Len(t)}
<1>2. /\ Len(t) \in Nat /\ n <= Len(t) /\ \A i \in 1 .. Len(t) : t[i] \in V
      /\ \A i \in 1 .. n : t[i] = buf[i - 1]
  BY DEF Shows
<1> HIDE DEF V
<1>3. \A q \in 0 .. n - 1 : (l.buf[q] = NUL <=> Cuts(t, q)) /\ (~Cuts(t, q) => l.buf[q] = t[q + 1])
  <2>1. \A q \in 0 .. n - 1 : q + 1 \in 1 .. n /\ q + 1 - 1 = q
    OBVIOUS
  <2>2. \A q \in 0 .. n - 1 : t[q + 1] = buf[q]
    BY <1>2, <2>1
  <2>3. \A q \in 0 .. n - 1 : l.buf[q] = (IF Cuts(t, q) THEN NUL ELSE buf[q]) /\ buf[q] # NUL
    BY <1>1
  <2> QED
    BY <2>2, <2>3
<1>4. PICK e : e = strfnd(l.buf, a, NUL)
  OBVIOUS
<1>5. e \in a .. M + 1 /\ (e <= M => l.buf[e] = NUL) /\ \A q \in a .. M : q < e => l.buf[q] # NUL
  <2>1. a \in 0 .. M + 1
    BY <1>1
  <2> QED
    BY <1>1, <1>4, <2>1, StrfndIs
<1>6. e \in a .. n /\ e \in Nat /\ a \in Nat
  <2>1. n \in a .. M
    BY <1>1
  <2>2. ~(n < e)
    BY <1>1, <1>5, <2>1
  <2> QED
    BY <1>1, <1>5, <2>2
<1>7. /\ \A q \in a .. e - 1 : ~Cuts(t, q) /\ l.buf[q] = t[q + 1]
      /\ e < n => Cuts(t, e)
  <2>1. \A q \in a .. e - 1 : q \in a .. M /\ q < e /\ q \in 0 .. n - 1
    BY <1>1, <1>6
  <2>2. e < n => e <= M /\ e \in 0 .. n - 1
    BY <1>1, <1>6
  <2> QED
    BY <1>3, <1>5, <2>1, <2>2
<1>8. Ends(t, a + 1) = e + 1
  <2> DEFINE T == {j \in a + 1 .. Len(t) : Separates(t, j)} \cup {Len(t) + 1}
  <2>1. e + 1 \in T
    <3>1. CASE e < n
      BY <1>2, <1>6, <1>7, <3>1 DEF Cuts
    <3>2. CASE e = n /\ n < Len(t)
      <4>1. e + 1 \in n + 1 .. Len(t) /\ e + 1 \in a + 1 .. Len(t)
        BY <1>2, <1>6, <3>2
      <4> QED
        BY <4>1, SpacesSeparate
    <3>3. CASE e = n /\ n = Len(t)
      BY <3>3
    <3>4. e < n \/ (e = n /\ n < Len(t)) \/ (e = n /\ n = Len(t))
      <4>1. Len(t) \in Nat /\ n <= Len(t) /\ e \in Nat /\ e <= n
        BY <1>2, <1>6
      <4> QED
        BY <4>1
    <3> QED
      BY <3>1, <3>2, <3>3, <3>4
  <2>2. ASSUME NEW j \in T PROVE e + 1 <= j
    <3>1. CASE j \in a + 1 .. Len(t) /\ Separates(t, j)
      <4>1. j - 1 + 1 = j /\ j - 1 >= a /\ j - 1 \in Nat
        BY <1>2, <3>1
      <4>2. ~(j - 1 <= e - 1)
        <5>1. j - 1 <= e - 1 => j - 1 \in a .. e - 1
          BY <1>6, <4>1
        <5> QED
          BY <1>7, <3>1, <4>1, <5>1 DEF Cuts
      <4> QED
        BY <1>2, <1>6, <3>1, <4>2
    <3>2. CASE j = Len(t) + 1
      BY <1>2, <1>6, <3>2
    <3> QED
      BY <3>1, <3>2
  <2>3. T \in SUBSET Nat /\ T # {}
    BY <1>2
  <2>4. Ends(t, a + 1) = Min(T)
    BY DEF Ends
  <2> HIDE DEF T
  <2>5. Min(T) \in T /\ \A m \in T : Min(T) <= m
    BY <2>3, MinIs
  <2>6. Ends(t, a + 1) \in Nat /\ Ends(t, a + 1) <= e + 1 /\ e + 1 <= Ends(t, a + 1)
    BY <2>1, <2>2, <2>3, <2>4, <2>5
  <2> QED
    BY <1>6, <2>6
<1>9. WordAt(l.buf, a) = SubSeq(t, a + 1, e)
  <2>1. PICK w, s : w = WordAt(l.buf, a) /\ s = SubSeq(t, a + 1, e)
    OBVIOUS
  <2>2. a + 1 \in Int /\ e \in Int /\ \A i \in a + 1 .. e : t[i] \in V
    BY <1>2, <1>6
  <2>3. /\ SubSeq(t, a + 1, e) \in Seq(V)
        /\ Len(SubSeq(t, a + 1, e)) = (IF a + 1 <= e THEN e - (a + 1) + 1 ELSE 0)
        /\ \A i \in 1 .. e - (a + 1) + 1 : SubSeq(t, a + 1, e)[i] = t[a + 1 + i - 1]
    BY <2>2, SubSeqProperties
  <2>4. PICK m \in Nat : m = e - a
    BY <1>6
  <2>5. s \in Seq(V) /\ Len(s) = m /\ \A i \in 1 .. m : s[i] = t[a + i]
    <3>1. m = IF a + 1 <= e THEN e - (a + 1) + 1 ELSE 0
      BY <1>6, <2>4
    <3>2. \A i \in 1 .. m : i \in 1 .. e - (a + 1) + 1 /\ a + 1 + i - 1 = a + i
      BY <1>6, <2>4
    <3> QED
      BY <2>1, <2>3, <3>1, <3>2
  <2>6. w = [i \in 1 .. m |-> l.buf[a + i - 1]]
    BY <1>4, <2>1, <2>4 DEF WordAt
  <2>7. \A i \in 1 .. m : l.buf[a + i - 1] = t[a + i] /\ t[a + i] \in V
    <3> TAKE i \in 1 .. m
    <3>1. a + i - 1 \in a .. e - 1 /\ a + i - 1 + 1 = a + i /\ a + i \in 1 .. Len(t)
      BY <1>2, <1>6, <2>4
    <3> QED
      BY <1>2, <1>7, <3>1
  <2>8. w \in [1 .. m -> V] /\ \A i \in 1 .. m : w[i] = t[a + i]
    BY <2>6, <2>7
  <2>9. w \in Seq(V) /\ Len(w) = m
    BY <2>8
  <2> QED
    BY <2>1, <2>5, <2>8, <2>9, SeqEqual
<1>10. n = 0 \/ Cuts(t, 0) => WordAt(l.buf, 0) = << >>
  <2> SUFFICES ASSUME n = 0 \/ Cuts(t, 0) PROVE WordAt(l.buf, 0) = << >>
    OBVIOUS
  <2>1. l.buf[0] = NUL
    BY <1>1, <1>3
  <2>2. PICK r : r = strfnd(l.buf, 0, NUL)
    OBVIOUS
  <2>3. r \in 0 .. M + 1 /\ \A q \in 0 .. M : q < r => l.buf[q] # NUL
    <3>1. 0 \in 0 .. M + 1
      OBVIOUS
    <3> QED
      BY <1>1, <2>2, <3>1, StrfndIs
  <2>4. r = 0
    BY <2>1, <2>3
  <2>5. WordAt(l.buf, 0) = [j \in 1 .. 0 |-> l.buf[0 + j - 1]]
    BY <2>2, <2>4 DEF WordAt
  <2> QED
    BY <2>5
<1> QED
  BY <1>6, <1>8, <1>9, <1>10 DEF WordFrom

\* parse_command finds the words of the line that was typed.
LEMMA WordsFound ==
    ASSUME NEW buf, NEW M \in Nat, NEW n \in Nat, Typed(buf, M, n),
           NEW t, Shows(t, buf, n),
           NEW l, Parsed(l, buf, M, t, n)
    PROVE  [i \in DOMAIN l.args |-> WordAt(l.buf, l.args[i])] = Words(t)
<1>0. PICK found_at, after : found_at = l.args /\ after = l.buf
  OBVIOUS
<1>1. PICK c \in Nat : c = Len(found_at) /\ c > 0
  BY <1>0 DEF Parsed, WordsUpTo
<1>2. /\ found_at \in [1 .. c -> Nat] /\ DOMAIN found_at = 1 .. c /\ found_at[1] = 0
      /\ \A i, j \in 1 .. c : i < j => found_at[i] < found_at[j]
      /\ \A p \in Nat : (\E i \in 2 .. c : found_at[i] = p) <=> StartsBehind(t, n, p)
  <2>1. /\ found_at \in Seq(Nat) /\ found_at[1] = 0
        /\ \A i, j \in 1 .. c : i < j => found_at[i] < found_at[j]
        /\ \A p \in Nat : (\E i \in 2 .. c : found_at[i] = p) <=> StartsBehind(t, n, p) /\ p <= n
    BY <1>0, <1>1 DEF Parsed, WordsUpTo
  <2>2. \A p \in Nat : StartsBehind(t, n, p) => p <= n
    BY DEF StartsBehind
  <2> QED
    BY <1>1, <2>1, <2>2
<1>3. \A i \in 1 .. c : found_at[i] \in 0 .. n
  <2> TAKE i \in 1 .. c
  <2>1. i = 1 \/ i \in 2 .. c
    OBVIOUS
  <2>2. i \in 2 .. c => StartsBehind(t, n, found_at[i])
    BY <1>2
  <2> QED
    BY <1>2, <2>1, <2>2 DEF StartsBehind
<1> DEFINE found == [i \in 1 .. c |-> WordAt(after, found_at[i])]
           word(a) == SubSeq(t, a + 1, Ends(t, a + 1) - 1)
<1>4. \A i \in 1 .. c : found[i] = word(found_at[i])
  <2> TAKE i \in 1 .. c
  <2>1. WordAt(after, found_at[i]) = word(found_at[i])
    <3>1. PICK a \in 0 .. n : a = found_at[i]
      BY <1>3
    <3>2. WordFrom(l.buf, t, n, a)
      BY WordAtIs
    <3> QED
      BY <1>0, <3>1, <3>2 DEF WordFrom
  <2> QED
    BY <2>1
<1>5. \A i \in Nat : i \in WordStarts(t) <=>
          (i = 1 /\ n > 0 /\ ~Cuts(t, 0)) \/ (i > 0 /\ StartsBehind(t, n, i - 1))
  BY StartsAre
<1>6. WordStarts(t) \in SUBSET Nat /\ ~StartsBehind(t, n, 0)
  <2>1. DOMAIN t = 1 .. Len(t) /\ Len(t) \in Nat
    BY DEF Shows
  <2> QED
    BY <2>1 DEF WordStarts, StartsBehind
<1>7. CASE n > 0 /\ ~Cuts(t, 0)
  <2> DEFINE b == [i \in 1 .. c |-> found_at[i] + 1]
  <2>1. b \in [1 .. c -> Nat] /\ \A i \in 1 .. c : b[i] = found_at[i] + 1 /\ found_at[i] \in Nat
    BY <1>2
  <2>2. Increasing(b, c)
    BY <1>2, <2>1 DEF Increasing
  <2>3. ASSUME NEW i \in WordStarts(t) PROVE \E k \in 1 .. c : i = b[k]
    <3>1. i \in Nat /\ i > 0
      BY <1>5, <1>6
    <3>2. CASE i = 1
      BY <1>1, <1>2, <2>1, <3>2
    <3>3. CASE i # 1
      <4>1. i - 1 \in Nat /\ StartsBehind(t, n, i - 1)
        BY <1>5, <3>1, <3>3
      <4>2. PICK k \in 2 .. c : found_at[k] = i - 1
        BY <1>2, <4>1
      <4> QED
        BY <2>1, <3>1, <4>2
    <3> QED
      BY <3>2, <3>3
  <2>4. ASSUME NEW k \in 1 .. c PROVE b[k] \in WordStarts(t)
    <3>1. CASE k = 1
      BY <1>2, <1>5, <1>7, <2>1, <3>1
    <3>2. CASE k # 1
      <4>1. k \in 2 .. c /\ b[k] \in Nat /\ b[k] > 0 /\ b[k] - 1 = found_at[k] /\ found_at[k] \in Nat
        BY <2>1, <3>2
      <4>2. StartsBehind(t, n, found_at[k])
        BY <1>2, <4>1
      <4> QED
        BY <1>5, <4>1, <4>2
    <3> QED
      BY <3>1, <3>2
  <2>5. WordStarts(t) = {b[i] : i \in 1 .. c}
    <3> HIDE DEF b
    <3> QED
      BY <2>3, <2>4
  <2>6. 1 \in WordStarts(t)
    BY <1>5, <1>7
  <2>7. \A i \in 1 .. c : found[i] = SubSeq(t, b[i], Ends(t, b[i]) - 1)
    BY <1>4, <2>1
  <2> HIDE DEF b
  <2>8. Words(t) = WordList(t, b, c)
    BY <2>1, <2>2, <2>5, <2>6, WordsAre
  <2>9. found = WordList(t, b, c)
    <3>1. found = [i \in 1 .. c |-> found[i]]
      OBVIOUS
    <3> HIDE DEF found
    <3> QED
      BY <2>7, <3>1 DEF WordList
  <2> QED
    BY <1>0, <1>2, <2>8, <2>9
<1>8. CASE n = 0 \/ Cuts(t, 0)
  <2>1. PICK d \in Nat : d = c - 1 /\ c = d + 1
    BY <1>1
  <2> DEFINE b == [i \in 1 .. d |-> found_at[i + 1] + 1]
  <2>2. /\ b \in [1 .. d -> Nat]
        /\ \A i \in 1 .. d : b[i] = found_at[i + 1] + 1 /\ found_at[i + 1] \in Nat /\ i + 1 \in 2 .. c /\ i + 1 \in 1 .. c
    <3>1. \A i \in 1 .. d : i + 1 \in 2 .. c /\ i + 1 \in 1 .. c
      BY <2>1
    <3>2. \A i \in 1 .. d : found_at[i + 1] \in Nat /\ found_at[i + 1] + 1 \in Nat
      <4>1. \A i \in 1 .. c : found_at[i] \in Nat
        BY <1>3
      <4> QED
        BY <3>1, <4>1
    <3> QED
      BY <3>1, <3>2
  <2>3. Increasing(b, d)
    <3>1. \A i, j \in 1 .. d : i < j => i + 1 \in 1 .. c /\ j + 1 \in 1 .. c /\ i + 1 < j + 1
      BY <2>1
    <3> QED
      BY <1>2, <2>2, <3>1 DEF Increasing
  <2>4. ASSUME NEW i \in WordStarts(t) PROVE \E k \in 1 .. d : i = b[k]
    <3>1. i \in Nat /\ i > 0 /\ StartsBehind(t, n, i - 1) /\ i - 1 \in Nat
      BY <1>5, <1>6, <1>8
    <3>2. PICK k \in 2 .. c : found_at[k] = i - 1
      BY <1>2, <3>1
    <3>3. k - 1 \in 1 .. d /\ k - 1 + 1 = k
      BY <2>1
    <3>4. b[k - 1] = found_at[k - 1 + 1] + 1
      BY <2>2, <3>3
    <3>5. b[k - 1] = i
      BY <3>1, <3>2, <3>3, <3>4
    <3> HIDE DEF b
    <3> QED
      BY <3>3, <3>5
  <2>5. ASSUME NEW k \in 1 .. d PROVE b[k] \in WordStarts(t)
    <3>1. b[k] \in Nat /\ b[k] > 0 /\ b[k] - 1 = found_at[k + 1] /\ k + 1 \in 2 .. c /\ found_at[k + 1] \in Nat
      BY <2>2
    <3>2. StartsBehind(t, n, found_at[k + 1])
      BY <1>2, <3>1
    <3> QED
      BY <1>5, <3>1, <3>2
  <2>6. WordStarts(t) = {b[i] : i \in 1 .. d}
    <3> HIDE DEF b
    <3> QED
      BY <2>4, <2>5
  <2>7. 1 \notin WordStarts(t)
    BY <1>5, <1>6, <1>8
  <2>8. \A i \in 1 .. d : found[i + 1] = SubSeq(t, b[i], Ends(t, b[i]) - 1)
    BY <1>4, <2>2
  <2>9. found[1] = << >>
    <3>1. WordAt(after, 0) = << >> /\ 0 \in 0 .. n
      <4>1. 0 \in 0 .. n
        OBVIOUS
      <4>2. WordFrom(l.buf, t, n, 0)
        BY <4>1, WordAtIs
      <4> QED
        BY <1>0, <1>8, <4>1, <4>2 DEF WordFrom
    <3> QED
      BY <1>1, <1>2, <3>1
  <2> HIDE DEF b
  <2>10. Words(t) = <<<< >>>> \o WordList(t, b, d)
    BY <2>2, <2>3, <2>6, <2>7, WordsAre
  <2>11. found = <<<< >>>> \o WordList(t, b, d)
    <3>1. PICK list : list = WordList(t, b, d)
      OBVIOUS
    <3>2. PICK W : W = {found[i] : i \in 1 .. c}
      OBVIOUS
    <3>3. found \in [1 .. c -> W]
      BY <3>2
    <3> HIDE DEF found
    <3>4. \A i \in 1 .. d : list[i] = found[i + 1] /\ i + 1 \in 1 .. c
      BY <2>2, <2>8, <3>1 DEF WordList
    <3>5. list \in [1 .. d -> W]
      BY <3>1, <3>3, <3>4 DEF WordList
    <3>6. list \in Seq(W) /\ Len(list) = d /\ found \in Seq(W) /\ Len(found) = d + 1
      BY <2>1, <3>3, <3>5
    <3>7. found[1] \in W
      BY <2>1, <3>3
    <3>8. <<<< >>>> \in Seq(W) /\ Len(<<<< >>>>) = 1 /\ <<<< >>>>[1] = << >>
      BY <2>9, <3>7
    <3>9. PICK one : one = <<<< >>>>
      OBVIOUS
    <3>10. /\ one \o list \in Seq(W) /\ Len(one \o list) = 1 + d
           /\ \A i \in 1 .. 1 + d : (one \o list)[i] = IF i <= 1 THEN one[i] ELSE list[i - 1]
      <4>1. /\ one \o list \in Seq(W) /\ Len(one \o list) = Len(one) + Len(list)
            /\ \A i \in 1 .. Len(one) + Len(list) :
                   (one \o list)[i] = IF i <= Len(one) THEN one[i] ELSE list[i - Len(one)]
        BY <3>6, <3>8, <3>9, ConcatProperties
      <4> QED
        BY <3>6, <3>8, <3>9, <4>1
    <3>11. \A i \in 1 .. d + 1 : (one \o list)[i] = found[i]
      <4> TAKE i \in 1 .. d + 1
      <4>1. CASE i = 1
        BY <2>9, <3>8, <3>9, <3>10, <4>1
      <4>2. CASE i # 1
        <5>1. i - 1 \in 1 .. d /\ i - 1 + 1 = i /\ ~(i <= 1) /\ i \in 1 .. 1 + d
          BY <4>2
        <5> QED
          BY <3>4, <3>10, <5>1
      <4> QED
        BY <4>1, <4>2
    <3>12. Len(found) = Len(one \o list) /\ \A i \in 1 .. Len(found) : found[i] = (one \o list)[i]
      BY <3>6, <3>10, <3>11
    <3> QED
      BY <3>1, <3>6, <3>9, <3>10, <3>12, SeqEqual
  <2> QED
    BY <1>0, <1>2, <2>10, <2>11
<1> QED
  BY <1>7, <1>8

-----------------------------------------------------------------------------
(* The line in the buffer and on the screen.                               *)

\* The screen is a row of cells from 0 on, and a \n leads to one of them or beyond.
LEMMA CellsAre ==
    /\ COLS * ROWS - 1 \in Nat
    /\ \A x \in Nat : (x \div COLS + 1) * COLS \in Nat
<1>1. /\ COLS \in Nat /\ COLS > 0 /\ ROWS \in Nat /\ COLS * ROWS > 2
  BY TerminalAssumption DEF COLS
<1>2. COLS * ROWS \in Int
  BY <1>1
<1>3. \A x \in Nat : x \div COLS \in Nat
  BY <1>1
<1>4. \A m, n \in Nat : m * n \in Nat
  OBVIOUS
<1>5. \A x \in Nat : (x \div COLS + 1) * COLS \in Nat
  BY <1>1, <1>3, <1>4
<1> QED
  BY <1>1, <1>2, <1>5

\* The keys are told apart.
LEMMA KeysDiffer ==
    /\ NewLine \notin Char /\ NUL \notin Char
    /\ FB_BACKSPACE \notin Char /\ FB_ARROW_LEFT \notin Char /\ FB_ARROW_RIGHT \notin Char
    /\ FB_BACKSPACE # NewLine /\ FB_ARROW_LEFT # NewLine /\ FB_ARROW_RIGHT # NewLine
    /\ FB_BACKSPACE # FB_ARROW_LEFT /\ FB_BACKSPACE # FB_ARROW_RIGHT
    /\ FB_ARROW_LEFT # FB_ARROW_RIGHT
  BY LettersAssumption DEF Char, NewLine, NUL, Space, Quote, FB_BACKSPACE, FB_ARROW_LEFT, FB_ARROW_RIGHT

\* While the keyboard has the terminal, the shell waits and no unit is at a semaphore.
LEMMA KeyboardAlone ==
    ASSUME RightInv, KeyboardHas
    PROVE  /\ spc = "wait" \/ (spc = "parse" /\ ShellWaits)
           /\ value["cmd_buffer_sem"] = 0 /\ value["shell_sem"] = 0
  BY DEF RightInv, OneRight, ShellHas, QueuesOK, BothSems, ShellWaits

\* While the shell has it, the keyboard waits and no unit is at a semaphore.
LEMMA ShellAlone ==
    ASSUME RightInv, ShellHas
    PROVE  /\ kpc \in {"begin", "sleep"} \/ (kpc \in {"poll", "reset"} /\ KeyboardWaits)
           /\ value["cmd_buffer_sem"] = 0 /\ value["shell_sem"] = 0
  BY DEF RightInv, OneRight, KeyboardHas, ProgramCounters, QueuesOK, KeyboardWaits, BothSems

\* Printing moves the end of the text along, and a \n brings the cursor there.
LEMMA PrintMoves ==
    ASSUME NumbersOK, NEW c, fb_print_char(c)
    PROVE  /\ cursor' \in Nat /\ end' \in Nat /\ prompt' = prompt /\ DOMAIN screen' = Cell
           /\ c = NewLine \/ cursor = end => cursor' = end'
  BY CellsAre DEF fb_print_char, NumbersOK, MoveCharsRight

\* What a step of the keyboard, in the terminal and before it sends the line, has to keep.
LEMMA EditKeeps ==
    ASSUME ScreenInv, KeyboardHas, UNCHANGED <<shellVars, semVars>>, RightInv', FirstLine', NumbersOK', Editing',
           kpc' \in {"poll", "screen", "buffer", "send"},
           kpc' = "send" \/ (kpc' = "buffer" /\ key' = NewLine) => cursor' = end'
    PROVE  ScreenInv'
<1>1. UNCHANGED <<spc, out, value, queue>>
  BY DEF shellVars, semVars
<1>2. UNCHANGED <<KeyboardWaits, ShellWaits>>
  BY <1>1 DEF KeyboardWaits, ShellWaits
<1>3. /\ spc = "wait" \/ (spc = "parse" /\ ShellWaits)
      /\ value["cmd_buffer_sem"] = 0 /\ value["shell_sem"] = 0
  BY KeyboardAlone DEF ScreenInv
<1>4. ~KeyboardWaits
  BY DEF KeyboardHas
<1>5. PromptIsFresh'
  BY <1>1, <1>2, <1>3, <1>4 DEF PromptIsFresh
<1>6. PrintsAtEnd'
  BY <1>1, <1>2, <1>3 DEF PrintsAtEnd
<1> QED
  BY <1>5, <1>6 DEF ScreenInv

\* The cursor blinks at the character that the next key puts back.
LEMMA BlinkKeeps == ASSUME ScreenInv, RightInv', FirstLine', Blink PROVE ScreenInv'
<1>1. /\ kpc = "poll" /\ Runs("keyboard") /\ UNCHANGED <<keyboardVars, cmd_buffer, shellVars, semVars>>
      /\ UNCHANGED <<cursor, end, prompt>>
      /\ \E c \in {Highlight, Space} : screen' = [screen EXCEPT ![cursor] = c]
  BY DEF Blink, fb_print_curr_char
<1>2. UNCHANGED <<kpc, key, cmd_buffer_idx, cmd_buffer_size, cmd_buffer, queue>>
  BY <1>1 DEF keyboardVars, semVars
<1>3. ~KeyboardWaits /\ KeyboardHas /\ NumbersOK /\ AtLine /\ ShownBut(cmd_buffer_idx)
  BY <1>1, RunsMeans DEF ScreenInv, RightInv, KeyboardHas, Editing
<1>4. NumbersOK'
  BY <1>1, <1>2, <1>3 DEF NumbersOK
<1>5. \A i \in 0 .. cmd_buffer_size - 1 : i # cmd_buffer_idx => screen'[prompt + i] = screen[prompt + i]
  <2> TAKE i \in 0 .. cmd_buffer_size - 1
  <2>1. i # cmd_buffer_idx => prompt + i # cursor
    BY <1>3 DEF AtLine, NumbersOK
  <2> QED
    BY <1>1, <2>1
<1>6. Editing'
  <2>1. ShownBut(cmd_buffer_idx)'
    BY <1>1, <1>2, <1>3, <1>5 DEF ShownBut
  <2>2. AtLine'
    BY <1>1, <1>2, <1>3 DEF AtLine, BufferHoldsLine
  <2> QED
    BY <1>1, <1>2, <2>1, <2>2 DEF Editing
<1> QED
  BY <1>1, <1>2, <1>3, <1>4, <1>6, EditKeeps

\* A key is pressed: the character at the cursor is put back.
LEMMA PressKeeps == ASSUME ScreenInv, RightInv', FirstLine', NEW k \in Key, Press(k) PROVE ScreenInv'
<1>1. /\ kpc = "poll" /\ Runs("keyboard") /\ MayPress(k) /\ key' = k /\ kpc' = "screen"
      /\ UNCHANGED <<cmd_buffer_idx, cmd_buffer_size, cmd_buffer, shellVars, semVars>>
      /\ UNCHANGED <<cursor, end, prompt>>
      /\ screen' = [screen EXCEPT ![cursor] = NormalCursor]
  BY DEF Press, fb_print_curr_char
<1>2. ~KeyboardWaits /\ KeyboardHas /\ NumbersOK /\ AtLine /\ ShownBut(cmd_buffer_idx)
  BY <1>1, RunsMeans DEF ScreenInv, RightInv, KeyboardHas, Editing
<1>3. NumbersOK'
  BY <1>1, <1>2 DEF NumbersOK
<1>4. \A i \in 0 .. cmd_buffer_size - 1 : screen'[prompt + i] = cmd_buffer[i]
  <2> TAKE i \in 0 .. cmd_buffer_size - 1
  <2>1. CASE i = cmd_buffer_idx
    <3>1. NormalCursor = cmd_buffer[i]
      BY <1>2, <2>1, KeysDiffer DEF NormalCursor, AtLine, BufferHoldsLine
    <3>2. cursor \in Cell
      BY <1>2, <2>1, CellsAre DEF AtLine, BufferHoldsLine, NumbersOK, Cell
    <3> QED
      BY <1>1, <1>2, <2>1, <3>1, <3>2 DEF AtLine, NumbersOK
  <2>2. CASE i # cmd_buffer_idx
    <3>1. prompt + i # cursor
      BY <1>2, <2>2 DEF AtLine, NumbersOK
    <3> QED
      BY <1>1, <1>2, <2>2, <3>1 DEF ShownBut
  <2> QED
    BY <2>1, <2>2
<1>5. Editing'
  <2>1. AtLine'
    BY <1>1, <1>2 DEF AtLine, BufferHoldsLine
  <2>2. Doable' /\ (k \in Char => end + 1 \in Cell)
    BY <1>1, KeysDiffer DEF Doable, MayPress
  <2> QED
    BY <1>1, <1>4, <2>1, <2>2 DEF Editing
<1> QED
  BY <1>1, <1>2, <1>3, <1>5, EditKeeps

\* The key is handled on the screen, the buffer not yet.
LEMMA EditScreenKeeps == ASSUME ScreenInv, RightInv', FirstLine', EditScreen PROVE ScreenInv'
<1>1. /\ kpc = "screen" /\ Runs("keyboard") /\ kpc' = "buffer"
      /\ UNCHANGED <<key, cmd_buffer_idx, cmd_buffer_size, cmd_buffer, shellVars, semVars>>
  BY DEF EditScreen
<1>2. /\ ~KeyboardWaits /\ KeyboardHas /\ NumbersOK /\ AtLine /\ Doable
      /\ \A i \in 0 .. cmd_buffer_size - 1 : screen[prompt + i] = cmd_buffer[i]
      /\ key \in Char => end + 1 \in Cell
  BY <1>1, RunsMeans DEF ScreenInv, RightInv, KeyboardHas, Editing
<1> DEFINE idx == cmd_buffer_idx
           sz == cmd_buffer_size
<1>3. /\ idx \in Nat /\ sz \in Nat /\ idx <= sz /\ sz <= MaxLine /\ MaxLine \in Nat
      /\ prompt \in Nat /\ cursor = prompt + idx /\ end = prompt + sz
      /\ sz > 0 => end \in Cell
      /\ DOMAIN screen = Cell /\ DOMAIN cmd_buffer = Index /\ key \in Key
  BY <1>2, TerminalAssumption DEF AtLine, BufferHoldsLine, NumbersOK
<1>4. PICK top \in Nat : Cell = 0 .. top
  BY CellsAre DEF Cell
<1>5. BufferHoldsLine' /\ Doable'
  BY <1>1, <1>2 DEF AtLine, BufferHoldsLine, Doable
<1> SUFFICES NumbersOK' /\ (key = NewLine => cursor' = end') /\ (key # NewLine => HalfDone')
  BY <1>1, <1>2, EditKeeps DEF Editing
<1>6. CASE key = FB_BACKSPACE
  <2>1. /\ cursor' = cursor - 1 /\ screen' = MoveCharsLeft(cursor - 1) /\ end' = end - 1
        /\ prompt' = prompt /\ idx > 0 /\ idx = sz
    BY <1>1, <1>2, <1>3, <1>6, KeysDiffer
       DEF EditScreen, fb_backspace, is_cursor_at_prompt, Doable
  <2>2. NumbersOK'
    BY <1>1, <1>2, <1>3, <2>1 DEF NumbersOK, MoveCharsLeft
  <2>3. end' \in Cell
    BY <1>3, <1>4, <2>1
  <2>4. \A i \in 0 .. sz - 2 : screen'[prompt + i] = cmd_buffer[i]
    <3> TAKE i \in 0 .. sz - 2
    <3>1. prompt + i \in Cell /\ prompt + i < cursor - 1
      BY <1>3, <1>4, <2>1
    <3>2. screen'[prompt + i] = screen[prompt + i]
      BY <1>3, <2>1, <3>1 DEF MoveCharsLeft
    <3> QED
      BY <1>2, <1>3, <3>2
  <2> QED
    BY <1>1, <1>3, <1>5, <1>6, <2>1, <2>2, <2>3, <2>4, KeysDiffer DEF HalfDone
<1>7. CASE key = FB_ARROW_LEFT
  <2>1. cursor' = cursor - 1 /\ UNCHANGED <<screen, end, prompt>> /\ idx > 0
    BY <1>1, <1>2, <1>3, <1>7, KeysDiffer
       DEF EditScreen, fb_move_cursor_left, is_cursor_at_prompt, Doable
  <2>2. NumbersOK'
    BY <1>1, <1>2, <1>3, <2>1 DEF NumbersOK
  <2> QED
    BY <1>1, <1>2, <1>3, <1>5, <1>7, <2>1, <2>2, KeysDiffer DEF HalfDone
<1>8. CASE key = FB_ARROW_RIGHT
  <2>1. /\ cursor' = IF cursor = end THEN cursor ELSE cursor + 1
        /\ UNCHANGED <<screen, end, prompt>>
    BY <1>1, <1>8, KeysDiffer DEF EditScreen, fb_move_cursor_right
  <2>2. cursor' = prompt + (IF idx = sz THEN idx ELSE idx + 1)
    BY <1>3, <2>1
  <2>3. NumbersOK'
    BY <1>1, <1>2, <1>3, <2>1 DEF NumbersOK
  <2> QED
    BY <1>1, <1>2, <1>3, <1>5, <1>8, <2>1, <2>2, <2>3, KeysDiffer DEF HalfDone
<1>9. CASE key = NewLine
  <2>1. fb_print_char(key)
    BY <1>1, <1>9, KeysDiffer DEF EditScreen
  <2>2. NumbersOK' /\ cursor' = end'
    BY <1>1, <1>2, <1>9, <2>1, PrintMoves DEF NumbersOK
  <2> QED
    BY <1>9, <2>2
<1>10. CASE key \in Char
  <2>1. /\ screen' = [MoveCharsRight EXCEPT ![cursor] = key]
        /\ cursor' = cursor + 1 /\ end' = end + 1 /\ prompt' = prompt
    BY <1>1, <1>10, KeysDiffer DEF EditScreen, fb_print_char
  <2>2. NumbersOK'
    BY <1>1, <1>2, <1>3, <2>1 DEF NumbersOK, MoveCharsRight
  <2>3. end' \in Cell
    BY <1>2, <1>10, <2>1
  <2>4. \A i \in 0 .. sz : screen'[prompt + i] = IF i < idx THEN cmd_buffer[i]
                                                 ELSE IF i = idx THEN key ELSE cmd_buffer[i - 1]
    <3> TAKE i \in 0 .. sz
    <3>1. prompt + i \in Cell /\ DOMAIN MoveCharsRight = Cell
      BY <1>3, <1>4, <2>1, <2>3 DEF MoveCharsRight
    <3>2. CASE i = idx
      BY <1>3, <2>1, <3>1, <3>2
    <3>3. CASE i < idx
      <4>1. screen'[prompt + i] = screen[prompt + i]
        BY <1>3, <2>1, <3>1, <3>3 DEF MoveCharsRight
      <4> QED
        BY <1>2, <1>3, <3>3, <4>1
    <3>4. CASE i > idx
      <4>1. screen'[prompt + i] = screen[prompt + i - 1]
        BY <1>3, <2>1, <3>1, <3>4 DEF MoveCharsRight
      <4>2. i - 1 \in 0 .. sz - 1 /\ prompt + i - 1 = prompt + (i - 1)
        BY <1>3, <3>4
      <4> QED
        BY <1>2, <1>3, <3>4, <4>1, <4>2
    <3> QED
      BY <1>3, <3>2, <3>3, <3>4
  <2> QED
    BY <1>1, <1>3, <1>5, <1>10, <2>1, <2>2, <2>3, <2>4, KeysDiffer DEF HalfDone
<1> QED
  BY <1>3, <1>6, <1>7, <1>8, <1>9, <1>10 DEF Key

\* Within a line the unsigned numbers do not wrap.
LEMMA DecrementIsExact == \A n \in 1 .. MaxLine : Decremented(n) = n - 1
<1>1. \A u \in Nat : \A m \in 0 .. u - 1 : m % u = m
  OBVIOUS
<1>2. \A n \in 1 .. MaxLine : n - 1 \in 0 .. UINT - 1
  BY TerminalAssumption
<1> QED
  BY <1>1, <1>2, TerminalAssumption DEF Decremented

\* The smaller of two numbers.
LEMMA MinOfTwo == \A a, b \in Nat : Min({a, b}) = IF a <= b THEN a ELSE b
<1> TAKE a, b \in Nat
<1> DEFINE m == IF a <= b THEN a ELSE b
<1>1. m \in {a, b} /\ \A y \in {a, b} : m <= y
  OBVIOUS
<1>2. \A x \in {a, b} : (\A y \in {a, b} : x <= y) => x = m
  OBVIOUS
<1> QED
  BY <1>1, <1>2 DEF Min

\* The key is handled in the buffer too: the line there is again what the screen shows.
LEMMA EditBufferKeeps == ASSUME ScreenInv, RightInv', FirstLine', EditBuffer PROVE ScreenInv'
<1>1. /\ kpc = "buffer" /\ Runs("keyboard")
      /\ kpc' = IF key = NewLine THEN "send" ELSE "poll"
      /\ UNCHANGED <<key, shellVars, screenVars, semVars>>
  BY DEF EditBuffer
<1>2. UNCHANGED <<screen, cursor, end, prompt>>
  BY <1>1 DEF screenVars
<1>3. /\ ~KeyboardWaits /\ KeyboardHas /\ NumbersOK
      /\ key # NewLine => HalfDone
      /\ key = NewLine => cursor = end
  BY <1>1, RunsMeans DEF ScreenInv, RightInv, KeyboardHas, Editing, PrintsAtEnd
<1> DEFINE idx == cmd_buffer_idx
           sz == cmd_buffer_size
<1>4. /\ idx \in Nat /\ sz \in Nat /\ prompt \in Nat /\ cursor \in Nat /\ end \in Nat
      /\ DOMAIN screen = Cell /\ DOMAIN cmd_buffer = Index /\ key \in Key /\ MaxLine \in Nat
  BY <1>3, TerminalAssumption DEF NumbersOK
<1>5. PICK top \in Nat : Cell = 0 .. top
  BY CellsAre DEF Cell
<1> SUFFICES NumbersOK' /\ (key = NewLine => cursor' = end')
             /\ (key # NewLine => AtLine' /\ ShownBut(cmd_buffer_idx)')
  BY <1>1, <1>3, EditKeeps DEF Editing
<1>6. CASE key = NewLine
  <2>1. cmd_insert(key)
    BY <1>1, <1>6, KeysDiffer DEF EditBuffer
  <2>2. /\ cmd_buffer_idx' = idx + 1 /\ cmd_buffer_size' = sz + 1 /\ cmd_buffer' = Inserted(key)
    BY <2>1 DEF cmd_insert
  <2>3. DOMAIN cmd_buffer' = Index
    BY <1>4, <2>2 DEF Inserted
  <2> QED
    BY <1>1, <1>2, <1>3, <1>4, <1>6, <2>2, <2>3 DEF NumbersOK
<1>7. CASE key # NewLine
  <2>1. HalfDone /\ idx <= sz /\ sz <= MaxLine /\ cmd_buffer[sz] = NUL
        /\ \A i \in 0 .. sz - 1 : cmd_buffer[i] \in Char
    BY <1>3, <1>7 DEF HalfDone, BufferHoldsLine
  <2>2. CASE key = FB_BACKSPACE
    <3>1. /\ idx > 0 /\ idx = sz /\ cursor = prompt + sz - 1 /\ end = cursor /\ end \in Cell
          /\ \A i \in 0 .. sz - 2 : screen[prompt + i] = cmd_buffer[i]
      BY <2>1, <2>2 DEF HalfDone, Doable
    <3>2. cmd_backspace
      BY <1>1, <2>2, KeysDiffer DEF EditBuffer
    <3>3. cmd_buffer_idx' = idx - 1 /\ cmd_buffer_size' = sz - 1
      BY <1>4, <2>1, <3>1, <3>2, DecrementIsExact DEF cmd_backspace
    <3>4. /\ DOMAIN cmd_buffer' = Index
          /\ cmd_buffer'[sz - 1] = NUL
          /\ \A i \in 0 .. sz - 2 : cmd_buffer'[i] = cmd_buffer[i]
      BY <1>4, <2>1, <3>1, <3>2 DEF cmd_backspace, Index
    <3>5. NumbersOK'
      BY <1>1, <1>2, <1>3, <1>4, <3>1, <3>3, <3>4 DEF NumbersOK
    <3>6. AtLine'
      BY <1>2, <1>4, <2>1, <3>1, <3>3, <3>4 DEF AtLine, BufferHoldsLine
    <3>7. ShownBut(cmd_buffer_idx)'
      BY <1>2, <1>4, <3>1, <3>3, <3>4 DEF ShownBut
    <3> QED
      BY <1>7, <3>5, <3>6, <3>7
  <2>3. CASE key \in {FB_ARROW_LEFT, FB_ARROW_RIGHT}
    <3>1. /\ end = prompt + sz /\ (sz > 0 => end \in Cell)
          /\ \A i \in 0 .. sz - 1 : screen[prompt + i] = cmd_buffer[i]
      BY <2>1, <2>3 DEF HalfDone
    <3>2. /\ UNCHANGED <<cmd_buffer_size, cmd_buffer>>
          /\ cmd_buffer_idx' \in Nat /\ cmd_buffer_idx' <= sz /\ cursor = prompt + cmd_buffer_idx'
      <4>1. CASE key = FB_ARROW_LEFT
        <5>1. cmd_left /\ idx > 0 /\ cursor = prompt + idx - 1
          BY <1>1, <2>1, <4>1, KeysDiffer DEF EditBuffer, HalfDone, Doable
        <5>2. cmd_buffer_idx' = idx - 1
          BY <1>4, <2>1, <5>1, DecrementIsExact DEF cmd_left
        <5> QED
          BY <1>4, <2>1, <5>1, <5>2 DEF cmd_left
      <4>2. CASE key = FB_ARROW_RIGHT
        <5>1. cmd_right /\ cursor = prompt + (IF idx = sz THEN idx ELSE idx + 1)
          BY <1>1, <2>1, <4>2, KeysDiffer DEF EditBuffer, HalfDone
        <5>2. cmd_buffer_idx' = IF idx + 1 <= sz THEN idx + 1 ELSE sz
          BY <1>4, <5>1, MinOfTwo DEF cmd_right
        <5> QED
          BY <1>4, <2>1, <5>1, <5>2 DEF cmd_right
      <4> QED
        BY <2>3, <4>1, <4>2
    <3>3. NumbersOK'
      BY <1>1, <1>2, <1>3, <3>2 DEF NumbersOK
    <3>4. AtLine'
      BY <1>2, <1>4, <2>1, <3>1, <3>2 DEF AtLine, BufferHoldsLine
    <3>5. ShownBut(cmd_buffer_idx)'
      BY <1>2, <3>1, <3>2 DEF ShownBut
    <3> QED
      BY <1>7, <3>3, <3>4, <3>5
  <2>4. CASE key \in Char
    <3>1. /\ sz < MaxLine /\ (idx = sz \/ idx > 0)
          /\ cursor = prompt + idx + 1 /\ end = prompt + sz + 1 /\ end \in Cell
          /\ \A i \in 0 .. sz :
                 screen[prompt + i] = IF i < idx THEN cmd_buffer[i]
                                      ELSE IF i = idx THEN key ELSE cmd_buffer[i - 1]
      BY <2>1, <2>4 DEF HalfDone, Doable
    <3>2. /\ cmd_buffer_idx' = idx + 1 /\ cmd_buffer_size' = sz + 1 /\ cmd_buffer' = Inserted(key)
      BY <1>1, <2>4, KeysDiffer DEF EditBuffer, cmd_insert
    <3>3. /\ DOMAIN cmd_buffer' = Index
          /\ cmd_buffer'[sz + 1] = NUL
          /\ \A i \in 0 .. sz : cmd_buffer'[i] = IF i < idx THEN cmd_buffer[i]
                                                ELSE IF i = idx THEN key ELSE cmd_buffer[i - 1]
      <4>1. CASE idx = sz
        <5>1. cmd_buffer' = [cmd_buffer EXCEPT ![idx] = key, ![idx + 1] = NUL]
          BY <3>2, <4>1 DEF Inserted
        <5> QED
          BY <1>4, <3>1, <4>1, <5>1 DEF Index
      <4>2. CASE idx # sz
        <5>1. cmd_buffer' = [i \in Index |->
                  IF i = idx THEN key
                  ELSE IF idx < i /\ i <= sz + 1 THEN cmd_buffer[i - 1] ELSE cmd_buffer[i]]
          BY <3>2, <4>2 DEF Inserted
        <5>2. cmd_buffer'[sz + 1] = cmd_buffer[sz]
          BY <1>4, <2>1, <3>1, <4>2, <5>1 DEF Index
        <5> QED
          BY <1>4, <2>1, <3>1, <4>2, <5>1, <5>2 DEF Index
      <4> QED
        BY <4>1, <4>2
    <3>4. NumbersOK'
      BY <1>1, <1>2, <1>3, <1>4, <3>2, <3>3 DEF NumbersOK
    <3>5. \A i \in 0 .. sz : cmd_buffer'[i] \in Char
      <4> TAKE i \in 0 .. sz
      <4>1. i > idx => i - 1 \in 0 .. sz - 1
        BY <1>4
      <4>2. i < idx => i \in 0 .. sz - 1
        BY <1>4, <2>1
      <4> QED
        BY <1>4, <2>1, <2>4, <3>3, <4>1, <4>2
    <3>6. AtLine'
      BY <1>2, <1>4, <2>1, <3>1, <3>2, <3>3, <3>5 DEF AtLine, BufferHoldsLine
    <3>7. ShownBut(cmd_buffer_idx)'
      BY <1>2, <1>4, <3>1, <3>2, <3>3 DEF ShownBut
    <3> QED
      BY <1>7, <3>4, <3>6, <3>7
  <2> QED
    BY <1>4, <1>7, <2>2, <2>3, <2>4 DEF Key
<1> QED
  BY <1>6, <1>7

\* The heap's allocator clears the first byte of the buffer before the shell and the keyboard run.
LEMMA FirstLineInitially == Init => FirstLine
<1> SUFFICES ASSUME Init PROVE FirstLine
  OBVIOUS
<1>1. spc = "prompt" /\ value = [s \in BothSems |-> 0]
  BY DEF Init, Semaphore!Init, InitialValue, BothSems
<1>2. cmd_buffer[0] = NUL
  <2>1. PICK c : cmd_buffer = [i \in Index |-> IF i = 0 THEN NUL ELSE c]
    BY DEF Init
  <2> QED
    BY <2>1, TerminalAssumption DEF Index
<1> QED
  BY <1>1, <1>2 DEF FirstLine, BothSems

\* Before the keyboard gets the terminal for the first time nothing was sent, so that the shell
\* cannot have parsed, and the buffer is not touched.
LEMMA FirstLineNext == RightInv /\ FirstLine /\ [Next]_vars => FirstLine'
<1> SUFFICES ASSUME RightInv, FirstLine, [Next]_vars PROVE FirstLine'
  OBVIOUS
<1> DEFINE c == "cmd_buffer_sem"
           s == "shell_sem"
<1>1. /\ QueuesOK /\ value \in [BothSems -> Nat] /\ DOMAIN queue = BothSems /\ value[s] \in {0, 1}
      /\ (Runs("keyboard") <=> ~KeyboardWaits) /\ (Runs("shell") <=> ~ShellWaits)
      /\ c \in BothSems /\ s \in BothSems /\ c # s
  BY RunsMeans DEF RightInv, QueuesOK, OneRight, BothSems
<1>2. CASE Blink \/ (\E k \in Key : Press(k)) \/ EditScreen \/ EditBuffer \/ ResetLine
  <2>1. kpc' # "begin" /\ ~KeyboardWaits /\ UNCHANGED semVars
    BY <1>1, <1>2 DEF Blink, Press, EditScreen, EditBuffer, ResetLine, keyboardVars
  <2> QED
    BY <2>1 DEF FirstLine, KeyboardWaits, semVars
<1>3. CASE PrintNext \/ EndPrompt \/ RunCommand \/ ClearScreen \/ EndCommand
  <2>1. /\ UNCHANGED <<kpc, cmd_buffer, semVars>>
        /\ spc' \in {"prompt", "open"} \/ spc \notin {"prompt", "open", "wait", "parse"}
    BY <1>3 DEF PrintNext, EndPrompt, RunCommand, ClearScreen, EndCommand, keyboardVars
  <2> QED
    BY <2>1 DEF FirstLine, KeyboardWaits, semVars
<1>4. CASE ParseCommand
  <2>1. UNCHANGED <<kpc, semVars>> /\ spc = "parse" /\ ~ShellWaits
    BY <1>1, <1>4 DEF ParseCommand, keyboardVars
  <2> QED
    BY <2>1 DEF FirstLine, KeyboardWaits, semVars
<1>5. CASE BeginKeyboard
  <2>1. /\ sem_down(c, "keyboard") /\ UNCHANGED <<spc, cmd_buffer>> /\ kpc = "begin"
    BY <1>5 DEF BeginKeyboard, shellVars
  <2>2. queue[c] = << >>
    BY <1>1, <2>1 DEF QueuesOK
  <2>3. value'[s] = value[s] /\ queue'[s] = queue[s]
    BY <1>1, <2>1, <2>2, DownMeans
  <2> QED
    BY <2>1, <2>3 DEF FirstLine, ShellWaits
<1>6. CASE SendCommand \/ SleepUntilPrompt
  BY <1>6 DEF SendCommand, SleepUntilPrompt, FirstLine
<1>7. CASE WaitForCommand
  <2>1. /\ sem_down(s, "shell") /\ UNCHANGED <<kpc, cmd_buffer>> /\ spc = "wait" /\ spc' = "parse"
    BY <1>7 DEF WaitForCommand, keyboardVars
  <2>2. queue[s] = << >>
    BY <1>1, <2>1 DEF QueuesOK
  <2>3. /\ queue'[c] = queue[c]
        /\ value[s] = 0 => value' = value /\ queue'[s] = <<"shell">>
    BY <1>1, <2>1, <2>2, DownMeans
  <2>4. << >> # <<"shell">>
    OBVIOUS
  <2> QED
    BY <2>1, <2>3, <2>4 DEF FirstLine, KeyboardWaits, ShellWaits
<1>8. CASE OpenLine
  <2>1. sem_up(c) /\ UNCHANGED <<kpc, cmd_buffer>> /\ spc' = "wait" /\ spc = "open"
    BY <1>8 DEF OpenLine, keyboardVars
  <2>2. value'[s] = value[s] /\ (queue'[c] = queue[c] \/ queue'[c] = << >>)
    BY <1>1, <2>1, UpMeans
  <2> QED
    BY <2>1, <2>2 DEF FirstLine, KeyboardWaits
<1>9. CASE UNCHANGED vars
  BY <1>9 DEF vars, keyboardVars, shellVars, semVars, FirstLine, KeyboardWaits, ShellWaits
<1> QED
  BY <1>2, <1>3, <1>4, <1>5, <1>6, <1>7, <1>8, <1>9 DEF Next, KeyboardStep, ShellStep

\* Both processes start with nothing on the screen.
LEMMA ScreenInitially == Init => ScreenInv
<1> SUFFICES ASSUME Init PROVE ScreenInv
  OBVIOUS
<1>1. /\ kpc = "begin" /\ key = NewLine /\ cmd_buffer_idx = 0 /\ cmd_buffer_size = 0
      /\ spc = "prompt" /\ cursor = 0 /\ end = 0 /\ prompt = 0
      /\ DOMAIN screen = Cell /\ DOMAIN cmd_buffer = Index
      /\ value = [s \in BothSems |-> 0]
  BY DEF Init, Semaphore!Init, InitialValue, BothSems
<1>2. RightInv /\ FirstLine
  BY RightInitially, FirstLineInitially DEF ScreenInv
<1>3. NumbersOK
  BY <1>1 DEF NumbersOK, Key
<1>4. PromptIsFresh /\ PrintsAtEnd /\ Editing
  BY <1>1 DEF PromptIsFresh, PrintsAtEnd, Editing, BothSems
<1> QED
  BY <1>2, <1>3, <1>4 DEF ScreenInv

\* After a prompt the line is empty.
LEMMA EmptyLine ==
    ASSUME Fresh, NumbersOK, cmd_buffer_idx = 0, cmd_buffer_size = 0
    PROVE  cmd_buffer[0] = NUL => AtLine /\ ShownBut(cmd_buffer_idx)
  BY TerminalAssumption DEF Fresh, NumbersOK, AtLine, BufferHoldsLine, ShownBut

\* The keyboard gets the terminal with an empty line, or joins the queue.
LEMMA KeyboardDownKeeps ==
    ASSUME ScreenInv, RightInv', FirstLine', BeginKeyboard \/ SleepUntilPrompt
    PROVE  ScreenInv'
<1> DEFINE c == "cmd_buffer_sem"
           s == "shell_sem"
<1>1. /\ Runs("keyboard") /\ sem_down(c, "keyboard")
      /\ (kpc = "begin" /\ kpc' = "poll") \/ (kpc = "sleep" /\ kpc' = "reset")
      /\ UNCHANGED <<key, cmd_buffer_idx, cmd_buffer_size, cmd_buffer, spc, out>>
      /\ UNCHANGED <<screen, cursor, end, prompt>>
  BY DEF BeginKeyboard, SleepUntilPrompt, shellVars, screenVars
<1>2. /\ RightInv /\ QueuesOK /\ NumbersOK /\ PromptIsFresh /\ PrintsAtEnd
      /\ value \in [BothSems -> Nat] /\ DOMAIN queue = BothSems /\ value[c] \in {0, 1}
      /\ c \in BothSems /\ s \in BothSems /\ c # s
  BY DEF ScreenInv, RightInv, QueuesOK, OneRight, BothSems
<1>3. queue[c] = << >>
  BY <1>1, <1>2 DEF QueuesOK
<1>4. \/ value[c] = 1 /\ queue' = queue /\ value' = [value EXCEPT ![c] = 0]
      \/ value[c] = 0 /\ value' = value /\ queue' = [queue EXCEPT ![c] = <<"keyboard">>]
  BY <1>1, <1>2, <1>3, DownMeans
<1>5. /\ value'[c] = 0 /\ value'[s] = value[s] /\ UNCHANGED ShellWaits
      /\ value[c] = 1 \/ KeyboardWaits'
  <2>1. << >> # <<"keyboard">>
    OBVIOUS
  <2>2. /\ value'[c] = 0 /\ value'[s] = value[s] /\ queue'[s] = queue[s]
        /\ value[c] = 1 \/ queue'[c] = <<"keyboard">>
    BY <1>2, <1>4
  <2> QED
    BY <2>1, <2>2 DEF ShellWaits, KeyboardWaits
<1>6. NumbersOK'
  BY <1>1, <1>2 DEF NumbersOK
<1>7. value[c] = 1 => Fresh /\ Fresh' /\ spc # "open"
  <2>1. value[c] = 1 => ~ShellHas
    BY <1>2 DEF RightInv, OneRight
  <2>2. spc = "open" => ~ShellWaits
    BY <1>2 DEF QueuesOK, ShellWaits
  <2> QED
    BY <1>1, <1>2, <2>1, <2>2 DEF PromptIsFresh, Fresh, ShellHas
<1>8. PromptIsFresh'
  BY <1>1, <1>2, <1>5, <1>7 DEF PromptIsFresh, Fresh
<1>9. PrintsAtEnd'
  BY <1>1, <1>2, <1>5 DEF PrintsAtEnd
<1>10. Editing'
  <2>1. CASE value[c] = 1 /\ kpc = "begin"
    <3>1. AtLine /\ ShownBut(cmd_buffer_idx)
      BY <1>2, <1>7, <2>1, EmptyLine DEF PromptIsFresh, ScreenInv, FirstLine
    <3>2. AtLine' /\ ShownBut(cmd_buffer_idx)'
      BY <1>1, <3>1 DEF AtLine, BufferHoldsLine, ShownBut
    <3> QED
      BY <1>1, <2>1, <3>2 DEF Editing
  <2>2. CASE KeyboardWaits' \/ kpc = "sleep"
    BY <1>1, <2>2 DEF Editing
  <2> QED
    BY <1>1, <1>5, <2>1, <2>2
<1> QED
  BY <1>6, <1>8, <1>9, <1>10 DEF ScreenInv

\* The line goes to the shell, with the cursor at the end of the text.
LEMMA SendKeeps == ASSUME ScreenInv, RightInv', FirstLine', SendCommand PROVE ScreenInv'
<1> DEFINE c == "cmd_buffer_sem"
           s == "shell_sem"
<1>1. /\ kpc = "send" /\ kpc' = "sleep" /\ sem_up(s)
      /\ UNCHANGED <<key, cmd_buffer_idx, cmd_buffer_size, cmd_buffer, spc, out>>
      /\ UNCHANGED <<screen, cursor, end, prompt>>
  BY DEF SendCommand, shellVars, screenVars
<1>2. /\ QueuesOK /\ NumbersOK /\ PromptIsFresh /\ PrintsAtEnd
      /\ value \in [BothSems -> Nat] /\ DOMAIN queue = BothSems
      /\ c \in BothSems /\ s \in BothSems /\ c # s
  BY DEF ScreenInv, RightInv, QueuesOK, BothSems
<1>3. \/ queue[s] = << >> /\ queue' = queue /\ value' = [value EXCEPT ![s] = value[s] + 1]
      \/ queue[s] # << >> /\ value' = value /\ queue' = [queue EXCEPT ![s] = << >>]
  BY <1>1, <1>2, UpMeans
<1>4. cursor = end /\ value'[c] = value[c]
  BY <1>1, <1>2, <1>3 DEF PrintsAtEnd
<1>5. NumbersOK' /\ PromptIsFresh' /\ PrintsAtEnd' /\ Editing'
  BY <1>1, <1>2, <1>4 DEF NumbersOK, PromptIsFresh, PrintsAtEnd, Editing, Fresh
<1> QED
  BY <1>5 DEF ScreenInv

\* The buffer is emptied after the prompt is there.
LEMMA ResetKeeps == ASSUME ScreenInv, RightInv', FirstLine', ResetLine PROVE ScreenInv'
<1>1. /\ kpc = "reset" /\ kpc' = "poll" /\ Runs("keyboard")
      /\ cmd_buffer_idx' = 0 /\ cmd_buffer_size' = 0
      /\ cmd_buffer' = [cmd_buffer EXCEPT ![0] = NUL]
      /\ UNCHANGED <<key, shellVars, screenVars, semVars>>
      /\ UNCHANGED <<screen, cursor, end, prompt>>
  BY DEF ResetLine, screenVars
<1>2. KeyboardHas /\ NumbersOK /\ Fresh
  BY <1>1, RunsMeans DEF ScreenInv, RightInv, KeyboardHas, PromptIsFresh
<1>3. NumbersOK'
  BY <1>1, <1>2 DEF NumbersOK
<1>4. AtLine' /\ ShownBut(cmd_buffer_idx)'
  BY <1>1, <1>2, TerminalAssumption DEF Fresh, NumbersOK, AtLine, BufferHoldsLine, ShownBut, Index
<1>5. Editing'
  BY <1>1, <1>4 DEF Editing
<1> QED
  BY <1>1, <1>2, <1>3, <1>5, EditKeeps

\* What a step of the shell that calls no semaphore has to keep.
LEMMA PrintKeeps ==
    ASSUME ScreenInv, RightInv', FirstLine', ShellHas, UNCHANGED <<keyboardVars, semVars>>, NumbersOK',
           spc' \in {"prompt", "open", "run", "print", "clear", "cleared"},
           spc' = "open" => Fresh',
           spc' \in {"prompt", "run", "clear"} => cursor' = end',
           spc' = "print" => cursor' = end' \/ out' = <<NewLine>>
    PROVE  ScreenInv'
<1>1. UNCHANGED <<kpc, key, cmd_buffer_idx, cmd_buffer_size, value, queue>>
  BY DEF keyboardVars, semVars
<1>2. UNCHANGED <<KeyboardWaits, ShellWaits>>
  BY <1>1 DEF KeyboardWaits, ShellWaits
<1>3. /\ kpc \in {"begin", "sleep"} \/ (kpc \in {"poll", "reset"} /\ KeyboardWaits)
      /\ value["cmd_buffer_sem"] = 0 /\ value["shell_sem"] = 0
  BY ShellAlone DEF ScreenInv
<1>4. PromptIsFresh'
  BY <1>1, <1>2, <1>3 DEF ScreenInv, PromptIsFresh
<1>5. PrintsAtEnd'
  BY <1>1, <1>3 DEF PrintsAtEnd
<1>6. Editing'
  BY <1>1, <1>2, <1>3 DEF Editing
<1> QED
  BY <1>4, <1>5, <1>6 DEF ScreenInv

\* The shell prints, ends a prompt, parses and runs while the keyboard waits.
LEMMA ShellKeeps ==
    ASSUME ScreenInv, RightInv', FirstLine',
           PrintNext \/ EndPrompt \/ ParseCommand \/ RunCommand \/ ClearScreen \/ EndCommand
    PROVE  ScreenInv'
<1>1. NumbersOK /\ PrintsAtEnd /\ (Runs("shell") <=> ~ShellWaits)
  BY RunsMeans DEF ScreenInv, RightInv
<1>2. CASE PrintNext
  <2>1. /\ spc \in {"prompt", "print", "cleared"} /\ UNCHANGED <<keyboardVars, cmd_buffer, spc, semVars>>
        /\ fb_print_char(Head(out)) /\ ShellHas
    BY <1>1, <1>2 DEF PrintNext, ShellHas
  <2>2. out = <<NewLine>> => Head(out) = NewLine
    OBVIOUS
  <2>3. /\ cursor' \in Nat /\ end' \in Nat /\ prompt' = prompt /\ DOMAIN screen' = Cell
        /\ Head(out) = NewLine \/ cursor = end => cursor' = end'
    BY <1>1, <2>1, PrintMoves
  <2>4. NumbersOK'
    BY <1>1, <2>1, <2>3 DEF NumbersOK, keyboardVars
  <2>5. /\ spc' \in {"prompt", "run", "clear"} => cursor' = end'
        /\ spc' = "print" => cursor' = end'
    BY <1>1, <2>1, <2>2, <2>3 DEF PrintsAtEnd
  <2> QED
    BY <2>1, <2>4, <2>5, PrintKeeps
<1>3. CASE EndPrompt
  <2>1. /\ ShellHas /\ prompt' = cursor /\ UNCHANGED <<keyboardVars, cmd_buffer, screen, cursor, end, semVars>>
        /\ (spc = "prompt" /\ spc' = "open") \/ (spc' = "print" /\ out' = <<NewLine>>)
    BY <1>1, <1>3 DEF EndPrompt, ShellHas
  <2>2. NumbersOK'
    BY <1>1, <2>1 DEF NumbersOK, keyboardVars
  <2>3. spc' = "open" => Fresh'
    BY <1>1, <2>1 DEF PrintsAtEnd, Fresh
  <2> QED
    BY <2>1, <2>2, <2>3, PrintKeeps
<1>4. CASE ParseCommand
  <2>1. /\ ShellHas /\ spc = "parse" /\ spc' = "run" /\ ~ShellWaits
        /\ UNCHANGED <<keyboardVars, screenVars, semVars>>
        /\ cmd_buffer' = parse_command(cmd_buffer).buf
    BY <1>1, <1>4 DEF ParseCommand, ShellHas
  <2>2. DOMAIN parse_command(cmd_buffer).buf = DOMAIN cmd_buffer
    <3>1. DOMAIN cmd_buffer = 0 .. MaxLine + 1 /\ MaxLine + 1 \in Nat
      BY <1>1, TerminalAssumption DEF NumbersOK, Index
    <3> QED
      BY <3>1, ParseKeepsDomain
  <2>3. NumbersOK'
    BY <1>1, <2>1, <2>2 DEF NumbersOK, keyboardVars, screenVars
  <2>4. cursor' = end'
    BY <1>1, <2>1 DEF PrintsAtEnd, screenVars
  <2> QED
    BY <2>1, <2>3, <2>4, PrintKeeps
<1>5. CASE RunCommand
  <2>1. /\ ShellHas /\ spc = "run" /\ spc' \in {"print", "clear"}
        /\ UNCHANGED <<keyboardVars, cmd_buffer, screenVars, semVars>>
    BY <1>1, <1>5 DEF RunCommand, ShellHas
  <2>2. NumbersOK' /\ cursor' = end'
    BY <1>1, <2>1 DEF NumbersOK, keyboardVars, screenVars, PrintsAtEnd
  <2> QED
    BY <2>1, <2>2, PrintKeeps
<1>6. CASE ClearScreen
  <2>1. /\ ShellHas /\ spc' = "cleared" /\ UNCHANGED <<keyboardVars, cmd_buffer, end, prompt, semVars>>
        /\ DOMAIN screen' = Cell /\ cursor' = 0
    BY <1>1, <1>6 DEF ClearScreen, ShellHas
  <2>2. NumbersOK'
    BY <1>1, <2>1 DEF NumbersOK, keyboardVars
  <2> QED
    BY <2>1, <2>2, PrintKeeps
<1>7. CASE EndCommand
  <2>1. /\ ShellHas /\ spc = "print" /\ out = << >> /\ spc' = "prompt"
        /\ UNCHANGED <<keyboardVars, cmd_buffer, screenVars, semVars>>
    BY <1>1, <1>7 DEF EndCommand, ShellHas
  <2>2. << >> # <<NewLine>>
    OBVIOUS
  <2>3. NumbersOK' /\ cursor' = end'
    BY <1>1, <2>1, <2>2 DEF NumbersOK, keyboardVars, screenVars, PrintsAtEnd
  <2> QED
    BY <2>1, <2>3, PrintKeeps
<1> QED
  BY <1>2, <1>3, <1>4, <1>5, <1>6, <1>7

\* The shell opens the line: the keyboard gets it with the prompt just printed.
LEMMA OpenKeeps == ASSUME ScreenInv, RightInv', FirstLine', OpenLine PROVE ScreenInv'
<1> DEFINE c == "cmd_buffer_sem"
           s == "shell_sem"
<1>1. /\ spc = "open" /\ spc' = "wait" /\ Runs("shell") /\ sem_up(c)
      /\ UNCHANGED <<keyboardVars, cmd_buffer, out, screenVars>>
      /\ UNCHANGED <<kpc, key, cmd_buffer_idx, cmd_buffer_size>>
      /\ UNCHANGED <<screen, cursor, end, prompt>>
  BY DEF OpenLine, screenVars, keyboardVars
<1>2. /\ QueuesOK /\ NumbersOK /\ PromptIsFresh /\ PrintsAtEnd /\ Fresh /\ ShellHas
      /\ value \in [BothSems -> Nat] /\ DOMAIN queue = BothSems
      /\ c \in BothSems /\ s \in BothSems /\ c # s
  BY <1>1, RunsMeans DEF ScreenInv, RightInv, QueuesOK, BothSems, PromptIsFresh, ShellHas
<1>3. kpc \in {"begin", "sleep"} \/ (kpc \in {"poll", "reset"} /\ KeyboardWaits)
  BY <1>2, ShellAlone DEF ScreenInv
<1>4. \/ queue[c] = << >> /\ queue' = queue /\ value' = [value EXCEPT ![c] = value[c] + 1]
      \/ queue[c] # << >> /\ value' = value /\ queue' = [queue EXCEPT ![c] = << >>]
  BY <1>1, <1>2, UpMeans
<1>5. value'[s] = value[s]
  BY <1>2, <1>4
<1>6. NumbersOK'
  BY <1>1, <1>2 DEF NumbersOK
<1>7. Fresh'
  BY <1>1, <1>2 DEF Fresh
<1>8. kpc \in {"begin", "poll"} => cmd_buffer_idx = 0 /\ cmd_buffer_size = 0
  BY <1>2, <1>3 DEF PromptIsFresh
<1>9. PromptIsFresh' /\ PrintsAtEnd'
  BY <1>1, <1>2, <1>3, <1>5, <1>7, <1>8 DEF PromptIsFresh, PrintsAtEnd
<1>10. kpc = "poll" => AtLine' /\ ShownBut(cmd_buffer_idx)'
  <2>1. kpc = "poll" => AtLine /\ ShownBut(cmd_buffer_idx)
    BY <1>2, <1>3, <1>8, EmptyLine DEF ScreenInv, FirstLine
  <2> QED
    BY <1>1, <2>1 DEF AtLine, BufferHoldsLine, ShownBut
<1>11. Editing'
  BY <1>1, <1>3, <1>10 DEF Editing
<1> QED
  BY <1>6, <1>9, <1>11 DEF ScreenInv

\* The shell gets the command, or joins the queue, whatever the keyboard does.
LEMMA WaitKeeps == ASSUME ScreenInv, RightInv', FirstLine', WaitForCommand PROVE ScreenInv'
<1> DEFINE c == "cmd_buffer_sem"
           s == "shell_sem"
<1>1. /\ spc = "wait" /\ spc' = "parse" /\ sem_down(s, "shell")
      /\ UNCHANGED <<cmd_buffer, out, kpc, key, cmd_buffer_idx, cmd_buffer_size>>
      /\ UNCHANGED <<screen, cursor, end, prompt>>
  BY DEF WaitForCommand, screenVars, keyboardVars
<1>2. /\ QueuesOK /\ NumbersOK /\ PromptIsFresh /\ PrintsAtEnd /\ Editing
      /\ value \in [BothSems -> Nat] /\ DOMAIN queue = BothSems /\ value[s] \in {0, 1}
      /\ c \in BothSems /\ s \in BothSems /\ c # s
  BY DEF ScreenInv, RightInv, QueuesOK, OneRight, BothSems
<1>3. queue[s] = << >>
  BY <1>1, <1>2 DEF QueuesOK
<1>4. \/ value[s] = 1 /\ queue' = queue /\ value' = [value EXCEPT ![s] = 0]
      \/ value[s] = 0 /\ value' = value /\ queue' = [queue EXCEPT ![s] = <<"shell">>]
  BY <1>1, <1>2, <1>3, DownMeans
<1>5. /\ value'[s] = 0 /\ value'[c] = value[c] /\ UNCHANGED KeyboardWaits
      /\ value[s] = 1 \/ ShellWaits'
  <2>1. << >> # <<"shell">>
    OBVIOUS
  <2>2. /\ value'[s] = 0 /\ value'[c] = value[c] /\ queue'[c] = queue[c]
        /\ value[s] = 1 \/ queue'[s] = <<"shell">>
    BY <1>2, <1>4
  <2> QED
    BY <2>1, <2>2 DEF ShellWaits, KeyboardWaits
<1>6. NumbersOK'
  BY <1>1, <1>2 DEF NumbersOK
<1>7. PromptIsFresh'
  BY <1>1, <1>2, <1>5 DEF PromptIsFresh, Fresh
<1>8. PrintsAtEnd'
  BY <1>1, <1>2, <1>5 DEF PrintsAtEnd
<1>9. Editing'
  BY <1>1, <1>2, <1>5 DEF Editing, AtLine, BufferHoldsLine, ShownBut, Doable, HalfDone
<1> QED
  BY <1>6, <1>7, <1>8, <1>9 DEF ScreenInv

\* Every step keeps the line on the screen.
LEMMA ScreenNext == ScreenInv /\ [Next]_vars => ScreenInv'
<1> SUFFICES ASSUME ScreenInv, [Next]_vars PROVE ScreenInv'
  OBVIOUS
<1>1. RightInv' /\ FirstLine'
  BY RightNext, FirstLineNext DEF ScreenInv
<1>2. CASE Blink
  BY <1>1, <1>2, BlinkKeeps
<1>3. CASE \E k \in Key : Press(k)
  BY <1>1, <1>3, PressKeeps
<1>4. CASE BeginKeyboard \/ SleepUntilPrompt
  BY <1>1, <1>4, KeyboardDownKeeps
<1>5. CASE EditScreen
  BY <1>1, <1>5, EditScreenKeeps
<1>6. CASE EditBuffer
  BY <1>1, <1>6, EditBufferKeeps
<1>7. CASE SendCommand
  BY <1>1, <1>7, SendKeeps
<1>8. CASE ResetLine
  BY <1>1, <1>8, ResetKeeps
<1>9. CASE PrintNext \/ EndPrompt \/ ParseCommand \/ RunCommand \/ ClearScreen \/ EndCommand
  BY <1>1, <1>9, ShellKeeps
<1>10. CASE OpenLine
  BY <1>1, <1>10, OpenKeeps
<1>11. CASE WaitForCommand
  BY <1>1, <1>11, WaitKeeps
<1>12. CASE UNCHANGED vars
  BY <1>1, <1>12 DEF vars, keyboardVars, shellVars, screenVars, semVars, ScreenInv, NumbersOK, PromptIsFresh,
     Fresh, PrintsAtEnd, KeyboardWaits, ShellWaits, Editing, AtLine, BufferHoldsLine, ShownBut, Doable, HalfDone
<1> QED
  BY <1>2, <1>3, <1>4, <1>5, <1>6, <1>7, <1>8, <1>9, <1>10, <1>11, <1>12 DEF Next, KeyboardStep, ShellStep

\* Between two keys the screen shows the line in the buffer, on every screen and for every line
\* that fits on it: fb_cursor.c and keyboard.c move their two copies alike.
THEOREM ScreenShowsTheBuffer == Spec => []ScreenShowsBuffer
<1>1. ScreenInv => ScreenShowsBuffer
  BY RunsMeans DEF ScreenInv, RightInv, Editing, AtLine, BufferHoldsLine, ShownBut, ScreenShowsBuffer
<1> QED
  BY <1>1, ScreenInitially, ScreenNext, PTL DEF Spec

-----------------------------------------------------------------------------
(* The words the shell runs.                                               *)

\* Nothing is shown from cell p on.
BlankFrom(p) == \A x \in Cell : x >= p => screen[x] = Space

\* While a line is edited nothing is shown behind it but the cursor, and otherwise nothing from
\* the cursor on.
Blank ==
    /\ kpc = "poll" /\ ~KeyboardWaits => \A x \in Cell : x >= end /\ x # cursor => screen[x] = Space
    /\ kpc = "screen" =>
        /\ \A x \in Cell : x >= end /\ x # cursor => screen[x] = Space
        /\ cmd_buffer_size > 0 \/ key = NewLine => BlankFrom(end)
    /\ kpc = "buffer" /\ key # NewLine => \A x \in Cell : x >= end /\ x # cursor => screen[x] = Space
    /\ kpc \notin {"poll", "screen", "buffer"} \/ KeyboardWaits => BlankFrom(cursor)

\* A line of n characters is on the screen, and the cursor at the beginning of a later row.
ShownUpTo(n) ==
    /\ \A i \in 0 .. n - 1 : cmd_buffer[i] \in Char /\ screen[prompt + i] = cmd_buffer[i]
    /\ BlankFrom(prompt + n) /\ prompt + n <= cursor /\ cursor <= COLS * ROWS
    /\ QuotesBefore([i \in 1 .. n |-> cmd_buffer[i - 1]], n + 1) % 2 = 0

\* The \n was pressed, is on the screen, is in the buffer.
Pressed == cmd_buffer_idx = cmd_buffer_size /\ Balanced(Line) /\ RoomForCommand
OnScreen == cmd_buffer_idx = cmd_buffer_size /\ cmd_buffer_size <= MaxLine /\ ShownUpTo(cmd_buffer_size)
InBuffer == \E n \in 0 .. MaxLine : cmd_buffer[n] = NewLine /\ cmd_buffer[n + 1] = NUL /\ ShownUpTo(n)

LineInv ==
    /\ Blank
    /\ kpc = "screen" /\ key = NewLine => Pressed
    /\ kpc = "buffer" /\ key = NewLine => OnScreen
    /\ kpc = "send" \/ value["shell_sem"] = 1 \/ (spc = "parse" /\ ~ShellWaits) => InBuffer
    /\ ShellRunsWhatIsShown

\* A \n leads on, and with room for a command not beyond the screen.
LEMMA NextRow ==
    ASSUME NEW x \in Nat
    PROVE  /\ x < (x \div COLS + 1) * COLS /\ (x \div COLS + 1) * COLS \in Nat
           /\ x = end /\ RoomForCommand => (x \div COLS + 1) * COLS <= COLS * ROWS
<1>1. /\ COLS \in Nat /\ COLS > 0 /\ ROWS \in Nat /\ MaxLine \in Nat
  BY TerminalAssumption DEF COLS
<1>2. PICK q \in Nat : q = x \div COLS
  BY <1>1
<1>3. \A a, b \in Nat : b > 0 => /\ a < (a \div b + 1) * b
  BY Z3
<1>4. \A m, n, c \in Nat : m <= n => m * c <= c * n
  OBVIOUS
<1>5. MaxLine \div COLS \in Nat
  BY <1>1
<1>6. x = end /\ RoomForCommand => q + 1 <= ROWS
  BY <1>1, <1>2, <1>5 DEF RoomForCommand
<1>7. (q + 1) * COLS \in Nat
  BY <1>1
<1> QED
  BY <1>1, <1>2, <1>3, <1>4, <1>6, <1>7

\* A step of the keyboard with the terminal: what it shows, and the line when \n is pressed.
LEMMA LineKeptByKeyboard ==
    ASSUME ScreenInv, KeyboardHas, UNCHANGED <<shellVars, semVars>>, Blank',
           kpc' = "screen" /\ key' = NewLine => Pressed',
           kpc' = "buffer" /\ key' = NewLine => OnScreen',
           kpc' = "send" => InBuffer'
    PROVE  LineInv'
<1>1. UNCHANGED <<spc, value, queue>>
  BY DEF shellVars, semVars
<1>2. UNCHANGED ShellWaits
  BY <1>1 DEF ShellWaits
<1>3. (spc = "wait" \/ (spc = "parse" /\ ShellWaits)) /\ value["shell_sem"] = 0
  BY KeyboardAlone DEF ScreenInv
<1>4. ShellRunsWhatIsShown'
  BY <1>1, <1>3 DEF ShellRunsWhatIsShown
<1> QED
  BY <1>1, <1>2, <1>3, <1>4 DEF LineInv

\* A step of the shell that calls no semaphore: what it shows, and the words when it parsed.
LEMMA LineKeptByShell ==
    ASSUME ScreenInv, ShellHas, UNCHANGED <<keyboardVars, semVars>>, spc' # "parse",
           BlankFrom(cursor)', ShellRunsWhatIsShown'
    PROVE  LineInv'
<1>1. UNCHANGED <<kpc, key, value, queue>>
  BY DEF keyboardVars, semVars
<1>2. UNCHANGED KeyboardWaits
  BY <1>1 DEF KeyboardWaits
<1>3. /\ kpc \in {"begin", "sleep"} \/ (kpc \in {"poll", "reset"} /\ KeyboardWaits)
      /\ value["shell_sem"] = 0
  BY ShellAlone DEF ScreenInv
<1>4. Blank'
  BY <1>1, <1>2, <1>3 DEF Blank
<1> QED
  BY <1>1, <1>3, <1>4 DEF LineInv

\* Where no line is edited, nothing is shown from the cursor on.
LEMMA BlankAtCursor ==
    ASSUME LineInv, kpc \notin {"poll", "screen", "buffer"} \/ KeyboardWaits
    PROVE  BlankFrom(cursor)
  BY DEF LineInv, Blank

\* The cursor blinks and nothing else changes.
LEMMA BlinkKeepsLine == ASSUME ScreenInv, LineInv, Blink PROVE LineInv'
<1>1. /\ kpc = "poll" /\ Runs("keyboard") /\ UNCHANGED <<keyboardVars, cmd_buffer, shellVars, semVars>>
      /\ UNCHANGED <<cursor, end, prompt>>
      /\ \E c \in {Highlight, Space} : screen' = [screen EXCEPT ![cursor] = c]
  BY DEF Blink, fb_print_curr_char
<1>2. UNCHANGED <<kpc, queue>>
  BY <1>1 DEF keyboardVars, semVars
<1>3. ~KeyboardWaits /\ KeyboardHas /\ DOMAIN screen = Cell
  BY <1>1, RunsMeans DEF ScreenInv, RightInv, KeyboardHas, NumbersOK
<1>4. UNCHANGED KeyboardWaits
  BY <1>2 DEF KeyboardWaits
<1>5. \A x \in Cell : x >= end /\ x # cursor => screen'[x] = Space
  <2>1. \A x \in Cell : x >= end /\ x # cursor => screen[x] = Space
    BY <1>1, <1>3 DEF LineInv, Blank
  <2> QED
    BY <1>1, <1>3, <2>1
<1>6. Blank'
  BY <1>1, <1>2, <1>3, <1>4, <1>5 DEF Blank
<1> QED
  BY <1>1, <1>2, <1>3, <1>6, LineKeptByKeyboard

\* A key is pressed: the line's NUL is shown as a blank behind it.
LEMMA PressKeepsLine == ASSUME ScreenInv, LineInv, NEW k \in Key, Press(k) PROVE LineInv'
<1>1. /\ kpc = "poll" /\ Runs("keyboard") /\ MayPress(k) /\ key' = k /\ kpc' = "screen"
      /\ UNCHANGED <<cmd_buffer_idx, cmd_buffer_size, cmd_buffer, shellVars, semVars>>
      /\ UNCHANGED <<cursor, end, prompt>>
      /\ screen' = [screen EXCEPT ![cursor] = NormalCursor]
  BY DEF Press, fb_print_curr_char
<1>2. ~KeyboardWaits /\ KeyboardHas /\ NumbersOK /\ AtLine
  BY <1>1, RunsMeans DEF ScreenInv, RightInv, KeyboardHas, Editing
<1>3. /\ cmd_buffer_idx \in Nat /\ cmd_buffer_size \in Nat /\ cmd_buffer_idx <= cmd_buffer_size
      /\ prompt \in Nat /\ cursor = prompt + cmd_buffer_idx /\ end = prompt + cmd_buffer_size
      /\ cmd_buffer[cmd_buffer_size] = NUL
      /\ DOMAIN screen = Cell /\ \A x \in Cell : x \in Nat
  BY <1>2, CellsAre DEF NumbersOK, AtLine, BufferHoldsLine, Cell
<1>4. \A x \in Cell : x >= end /\ x # cursor => screen'[x] = Space
  <2>1. \A x \in Cell : x >= end /\ x # cursor => screen[x] = Space
    BY <1>1, <1>2 DEF LineInv, Blank
  <2> QED
    BY <1>1, <1>3, <2>1
<1>5. k = NewLine => Pressed'
  BY <1>1, KeysDiffer DEF MayPress, Pressed, Line, RoomForCommand
<1>6. cmd_buffer_size > 0 \/ k = NewLine => BlankFrom(end)'
  <2> SUFFICES ASSUME cmd_buffer_size > 0 \/ k = NewLine, NEW x \in Cell, x >= end
               PROVE  screen'[x] = Space
    BY <1>1 DEF BlankFrom
  <2>1. CASE x # cursor
    BY <1>4, <2>1
  <2>2. CASE x = cursor
    <3>1. cmd_buffer_idx = cmd_buffer_size
      BY <1>3, <2>2
    <3>2. cmd_buffer[cmd_buffer_idx] = NUL
      BY <1>1, <1>3, <3>1, KeysDiffer DEF MayPress
    <3> QED
      BY <1>1, <1>3, <2>2, <3>2 DEF NormalCursor
  <2> QED
    BY <2>1, <2>2
<1>7. Blank'
  <2>1. UNCHANGED KeyboardWaits
    BY <1>1 DEF KeyboardWaits, semVars
  <2> QED
    BY <1>1, <1>2, <1>4, <1>6, <2>1 DEF Blank
<1> QED
  BY <1>1, <1>2, <1>5, <1>7, LineKeptByKeyboard

\* The key is handled on the screen: a character and a deletion leave blanks behind the text, a
\* \n the line and blanks behind it.
LEMMA EditScreenKeepsLine == ASSUME ScreenInv, ScreenInv', LineInv, EditScreen PROVE LineInv'
<1>1. /\ kpc = "screen" /\ Runs("keyboard") /\ kpc' = "buffer"
      /\ UNCHANGED <<key, cmd_buffer_idx, cmd_buffer_size, cmd_buffer, shellVars, semVars>>
  BY DEF EditScreen
<1>2. /\ ~KeyboardWaits /\ KeyboardHas /\ NumbersOK /\ AtLine /\ Doable
      /\ \A i \in 0 .. cmd_buffer_size - 1 : screen[prompt + i] = cmd_buffer[i]
  BY <1>1, RunsMeans DEF ScreenInv, RightInv, KeyboardHas, Editing
<1> DEFINE idx == cmd_buffer_idx
           sz == cmd_buffer_size
<1>3. /\ idx \in Nat /\ sz \in Nat /\ idx <= sz /\ sz <= MaxLine /\ MaxLine \in Nat
      /\ prompt \in Nat /\ cursor = prompt + idx /\ end = prompt + sz
      /\ sz > 0 => end \in Cell
      /\ DOMAIN screen = Cell /\ key \in Key
  BY <1>2, TerminalAssumption DEF AtLine, BufferHoldsLine, NumbersOK
<1>4. PICK top \in Nat : Cell = 0 .. top
  BY CellsAre DEF Cell
<1>5. /\ \A x \in Cell : x >= end /\ x # cursor => screen[x] = Space
      /\ sz > 0 \/ key = NewLine => \A x \in Cell : x >= end => screen[x] = Space
      /\ key = NewLine => idx = sz /\ Balanced(Line) /\ RoomForCommand
  BY <1>1 DEF LineInv, Blank, BlankFrom, Pressed
<1>6. ~KeyboardWaits'
  BY <1>1, <1>2 DEF KeyboardWaits, semVars
<1> DEFINE Behind == \A x \in Cell : x >= end' /\ x # cursor' => screen'[x] = Space
<1> SUFFICES (key = NewLine => OnScreen') /\ (key # NewLine => Behind)
  <2>1. key # NewLine => Behind
    OBVIOUS
  <2>2. Blank'
    BY <1>1, <1>6, <2>1 DEF Blank
  <2> QED
    BY <1>1, <1>2, <2>2, LineKeptByKeyboard
<1>7. CASE key = FB_BACKSPACE
  <2>1. /\ cursor' = cursor - 1 /\ screen' = MoveCharsLeft(cursor - 1) /\ end' = end - 1
        /\ idx > 0 /\ idx = sz
    BY <1>1, <1>2, <1>3, <1>7, KeysDiffer
       DEF EditScreen, fb_backspace, is_cursor_at_prompt, Doable
  <2>2. ASSUME NEW x \in Cell, x >= end', x # cursor' PROVE screen'[x] = Space
    <3>1. x >= end /\ screen'[x] = screen[x]
      BY <1>3, <1>4, <2>1, <2>2 DEF MoveCharsLeft
    <3> QED
      BY <1>3, <1>5, <2>1, <3>1
  <2> QED
    BY <1>7, <2>2, KeysDiffer
<1>8. CASE key = FB_ARROW_LEFT
  <2>1. idx > 0 /\ UNCHANGED <<screen, end>>
    BY <1>1, <1>2, <1>8, KeysDiffer DEF EditScreen, fb_move_cursor_left, Doable
  <2> QED
    BY <1>3, <1>5, <1>8, <2>1, KeysDiffer
<1>9. CASE key = FB_ARROW_RIGHT
  <2>1. UNCHANGED <<screen, end>> /\ cursor' = IF cursor = end THEN cursor ELSE cursor + 1
    BY <1>1, <1>9, KeysDiffer DEF EditScreen, fb_move_cursor_right
  <2>2. CASE sz > 0
    BY <1>5, <1>9, <2>1, <2>2, KeysDiffer
  <2>3. CASE sz = 0
    <3>1. cursor = end
      BY <1>3, <2>3
    <3> QED
      BY <1>5, <1>9, <2>1, <3>1, KeysDiffer
  <2> QED
    BY <1>3, <2>2, <2>3
<1>10. CASE key \in Char
  <2>1. /\ screen' = [MoveCharsRight EXCEPT ![cursor] = key] /\ end' = end + 1
        /\ DOMAIN MoveCharsRight = Cell
    BY <1>1, <1>10, KeysDiffer DEF EditScreen, fb_print_char, MoveCharsRight
  <2>2. ASSUME NEW x \in Cell, x >= end' PROVE screen'[x] = Space
    <3>1. x \in Nat /\ x > end /\ x # cursor
      BY <1>3, <1>4, <2>1, <2>2
    <3>2. screen'[x] = MoveCharsRight[x] /\ MoveCharsRight[x] = screen[x]
      BY <1>3, <2>1, <3>1 DEF MoveCharsRight
    <3> QED
      BY <1>3, <1>5, <3>1, <3>2
  <2> QED
    BY <1>10, <2>2, KeysDiffer
<1>11. CASE key = NewLine
  <2>1. /\ screen' = MoveCharsRight /\ cursor' = (cursor \div COLS + 1) * COLS /\ prompt' = prompt
    BY <1>1, <1>11, KeysDiffer DEF EditScreen, fb_print_char
  <2>2. cursor = end /\ cursor \in Nat /\ idx = sz
    BY <1>3, <1>5, <1>11
  <2>3. \A x \in Cell : screen'[x] = screen[x]
    BY <1>4, <2>1, <2>2 DEF MoveCharsRight
  <2>4. \A x \in Cell : x >= prompt' + sz => screen'[x] = Space
    BY <1>3, <1>5, <1>11, <2>1, <2>3
  <2>5. cursor < cursor' /\ cursor' <= COLS * ROWS /\ cursor' \in Nat
    BY <1>5, <1>11, <2>1, <2>2, NextRow
  <2>6. \A i \in 0 .. sz - 1 : cmd_buffer[i] \in Char /\ screen'[prompt' + i] = cmd_buffer[i]
    <3> TAKE i \in 0 .. sz - 1
    <3>1. prompt + i \in Cell
      BY <1>3, <1>4
    <3>2. cmd_buffer[i] \in Char
      BY <1>2 DEF AtLine, BufferHoldsLine
    <3> QED
      BY <1>2, <2>1, <2>3, <3>1, <3>2
  <2>7. QuotesBefore([i \in 1 .. sz |-> cmd_buffer[i - 1]], sz + 1) % 2 = 0
    BY <1>3, <1>5, <1>11 DEF Balanced, Line
  <2>8. ShownUpTo(cmd_buffer_size)'
    <3>1. prompt' + sz <= cursor'
      BY <1>3, <2>1, <2>2, <2>5
    <3> QED
      BY <1>1, <2>4, <2>5, <2>6, <2>7, <3>1 DEF ShownUpTo, BlankFrom
  <2> QED
    BY <1>1, <1>3, <1>11, <2>2, <2>8 DEF OnScreen
<1> QED
  BY <1>3, <1>7, <1>8, <1>9, <1>10, <1>11 DEF Key

\* The key is handled in the buffer: with the \n the line there is complete.
LEMMA EditBufferKeepsLine == ASSUME ScreenInv, ScreenInv', LineInv, EditBuffer PROVE LineInv'
<1>1. /\ kpc = "buffer" /\ Runs("keyboard")
      /\ kpc' = IF key = NewLine THEN "send" ELSE "poll"
      /\ UNCHANGED <<key, shellVars, semVars>> /\ UNCHANGED <<screen, cursor, end, prompt>>
  BY DEF EditBuffer, screenVars
<1>2. ~KeyboardWaits /\ KeyboardHas /\ NumbersOK
  BY <1>1, RunsMeans DEF ScreenInv, RightInv, KeyboardHas
<1>3. ~KeyboardWaits'
  BY <1>1, <1>2 DEF KeyboardWaits, semVars
<1>4. CASE key # NewLine
  <2>1. \A x \in Cell : x >= end /\ x # cursor => screen[x] = Space
    BY <1>1, <1>4 DEF LineInv, Blank
  <2>2. Blank'
    BY <1>1, <1>3, <1>4, <2>1 DEF Blank
  <2> QED
    BY <1>1, <1>2, <1>4, <2>2, LineKeptByKeyboard
<1>5. CASE key = NewLine
  <2>1. PICK n \in 0 .. MaxLine : n = cmd_buffer_size /\ n = cmd_buffer_idx /\ ShownUpTo(n)
    BY <1>1, <1>2, <1>5, TerminalAssumption DEF LineInv, OnScreen, NumbersOK
  <2>2. cmd_buffer' = [cmd_buffer EXCEPT ![n] = NewLine, ![n + 1] = NUL]
    BY <1>1, <1>5, <2>1, KeysDiffer DEF EditBuffer, cmd_insert, Inserted
  <2>3. DOMAIN cmd_buffer = 0 .. MaxLine + 1 /\ MaxLine \in Nat /\ n \in Nat
    BY <1>2, TerminalAssumption DEF NumbersOK, Index
  <2>4. /\ cmd_buffer'[n] = NewLine /\ cmd_buffer'[n + 1] = NUL
        /\ \A i \in 0 .. n - 1 : cmd_buffer'[i] = cmd_buffer[i]
    BY <2>2, <2>3
  <2>5. ShownUpTo(n)'
    <3>1. [i \in 1 .. n |-> cmd_buffer'[i - 1]] = [i \in 1 .. n |-> cmd_buffer[i - 1]]
      <4>1. \A i \in 1 .. n : i - 1 \in 0 .. n - 1
        BY <2>3
      <4> QED
        BY <2>4, <4>1
    <3> QED
      BY <1>1, <2>1, <2>4, <3>1 DEF ShownUpTo, BlankFrom
  <2>6. InBuffer'
    BY <2>4, <2>5 DEF InBuffer
  <2>7. Blank'
    <3>1. BlankFrom(cursor)
      BY <1>2, <2>1, <2>3, CellsAre DEF ShownUpTo, BlankFrom, NumbersOK, Cell
    <3>2. BlankFrom(cursor)'
      BY <1>1, <3>1 DEF BlankFrom
    <3> QED
      BY <1>1, <1>5, <3>2 DEF Blank
  <2> QED
    BY <1>1, <1>2, <1>5, <2>6, <2>7, LineKeptByKeyboard
<1> QED
  BY <1>4, <1>5

\* The buffer is emptied at the prompt.
LEMMA ResetKeepsLine == ASSUME ScreenInv, LineInv, ResetLine PROVE LineInv'
<1>1. /\ kpc = "reset" /\ kpc' = "poll" /\ Runs("keyboard")
      /\ UNCHANGED <<shellVars, semVars>> /\ UNCHANGED <<screen, cursor, end, prompt>>
  BY DEF ResetLine, screenVars
<1>2. KeyboardHas /\ ~KeyboardWaits /\ cursor = end
  BY <1>1, RunsMeans DEF ScreenInv, RightInv, KeyboardHas, PromptIsFresh, Fresh
<1>3. BlankFrom(cursor)
  BY <1>1, BlankAtCursor
<1>4. Blank'
  BY <1>1, <1>2, <1>3 DEF Blank, BlankFrom, KeyboardWaits, semVars
<1> QED
  BY <1>1, <1>2, <1>4, LineKeptByKeyboard

\* What the semaphores' users leave alone.
Untouched == UNCHANGED <<cmd_buffer_idx, cmd_buffer_size, cmd_buffer, args, screen, cursor, end, prompt, key>>

LEMMA LineUntouched ==
    ASSUME Untouched
    PROVE  /\ \A n \in 0 .. MaxLine : ShownUpTo(n) => ShownUpTo(n)'
           /\ InBuffer => InBuffer'
           /\ BlankFrom(cursor) => BlankFrom(cursor)'
           /\ ShellRunsWhatIsShown /\ (spc' = "run" => spc = "run") => ShellRunsWhatIsShown'
<1>1. \A n \in 0 .. MaxLine : ShownUpTo(n) => ShownUpTo(n)'
  BY DEF Untouched, ShownUpTo, BlankFrom
<1>2. InBuffer => InBuffer'
  BY <1>1 DEF Untouched, InBuffer
<1>3. BlankFrom(cursor) => BlankFrom(cursor)'
  BY DEF Untouched, BlankFrom
<1>4. ShownLine' = ShownLine /\ cmd_buffer' = cmd_buffer /\ args' = args
  BY DEF Untouched, ShownLine
<1>5. ShellRunsWhatIsShown /\ (spc' = "run" => spc = "run") => ShellRunsWhatIsShown'
  BY <1>4 DEF ShellRunsWhatIsShown
<1> QED
  BY <1>1, <1>2, <1>3, <1>5

\* The keyboard gets the terminal with blanks behind the prompt, or joins the queue.
LEMMA KeyboardDownKeepsLine ==
    ASSUME ScreenInv, RightInv', LineInv, BeginKeyboard \/ SleepUntilPrompt
    PROVE  LineInv'
<1> DEFINE c == "cmd_buffer_sem"
           s == "shell_sem"
<1>1. /\ Runs("keyboard") /\ sem_down(c, "keyboard") /\ Untouched /\ UNCHANGED spc
      /\ (kpc = "begin" /\ kpc' = "poll") \/ (kpc = "sleep" /\ kpc' = "reset")
  BY DEF BeginKeyboard, SleepUntilPrompt, shellVars, screenVars, Untouched
<1>2. /\ QueuesOK /\ PromptIsFresh
      /\ value \in [BothSems -> Nat] /\ DOMAIN queue = BothSems /\ value[c] \in {0, 1}
      /\ c \in BothSems /\ s \in BothSems /\ c # s
  BY DEF ScreenInv, RightInv, QueuesOK, OneRight, BothSems
<1>3. queue[c] = << >>
  BY <1>1, <1>2 DEF QueuesOK
<1>4. \/ value[c] = 1 /\ queue' = queue /\ value' = [value EXCEPT ![c] = 0]
      \/ value[c] = 0 /\ value' = value /\ queue' = [queue EXCEPT ![c] = <<"keyboard">>]
  BY <1>1, <1>2, <1>3, DownMeans
<1>5. value'[s] = value[s] /\ UNCHANGED ShellWaits /\ (value[c] = 1 \/ KeyboardWaits')
  <2>1. << >> # <<"keyboard">>
    OBVIOUS
  <2>2. /\ value'[s] = value[s] /\ queue'[s] = queue[s]
        /\ value[c] = 1 \/ queue'[c] = <<"keyboard">>
    BY <1>2, <1>4
  <2> QED
    BY <2>1, <2>2 DEF ShellWaits, KeyboardWaits
<1>6. BlankFrom(cursor) /\ BlankFrom(cursor)'
  BY <1>1, BlankAtCursor, LineUntouched
<1>7. value[c] = 1 => cursor' = end'
  BY <1>1, <1>2 DEF PromptIsFresh, Fresh, Untouched
<1>8. Blank'
  BY <1>1, <1>5, <1>6, <1>7 DEF Blank, BlankFrom
<1>9. ShellRunsWhatIsShown' /\ (InBuffer => InBuffer')
  BY <1>1, LineUntouched DEF LineInv
<1> QED
  BY <1>1, <1>5, <1>8, <1>9 DEF LineInv

\* The line goes to the shell as it is.
LEMMA SendKeepsLine == ASSUME ScreenInv, LineInv, SendCommand PROVE LineInv'
<1>1. /\ kpc = "send" /\ kpc' = "sleep" /\ Untouched /\ UNCHANGED spc
  BY DEF SendCommand, shellVars, screenVars, Untouched
<1>2. InBuffer /\ ShellRunsWhatIsShown /\ BlankFrom(cursor)
  BY <1>1, BlankAtCursor DEF LineInv
<1>3. InBuffer' /\ ShellRunsWhatIsShown' /\ BlankFrom(cursor)'
  BY <1>1, <1>2, LineUntouched
<1> QED
  BY <1>1, <1>3 DEF LineInv, Blank

\* The keyboard gets the prompt with blanks behind it.
LEMMA OpenKeepsLine == ASSUME ScreenInv, LineInv, OpenLine PROVE LineInv'
<1> DEFINE c == "cmd_buffer_sem"
           s == "shell_sem"
<1>1. /\ spc = "open" /\ spc' = "wait" /\ Runs("shell") /\ sem_up(c) /\ Untouched /\ UNCHANGED kpc
  BY DEF OpenLine, screenVars, keyboardVars, Untouched
<1>2. /\ QueuesOK /\ PromptIsFresh /\ Fresh /\ ShellHas
      /\ value \in [BothSems -> Nat] /\ DOMAIN queue = BothSems
      /\ c \in BothSems /\ s \in BothSems /\ c # s
  BY <1>1, RunsMeans DEF ScreenInv, RightInv, QueuesOK, BothSems, PromptIsFresh, ShellHas
<1>3. /\ kpc \in {"begin", "sleep"} \/ (kpc \in {"poll", "reset"} /\ KeyboardWaits)
      /\ value[s] = 0
  BY <1>2, ShellAlone DEF ScreenInv
<1>4. value'[s] = value[s]
  <2>1. \/ value' = [value EXCEPT ![c] = value[c] + 1]
        \/ value' = value
    BY <1>1, <1>2, UpMeans
  <2> QED
    BY <1>2, <2>1
<1>5. BlankFrom(cursor)'
  <2>1. BlankFrom(cursor)
    BY <1>3, BlankAtCursor
  <2> QED
    BY <1>1, <2>1, LineUntouched
<1>6. Blank'
  BY <1>1, <1>2, <1>3, <1>5 DEF Blank, BlankFrom, Fresh, Untouched
<1>7. ShellRunsWhatIsShown'
  BY <1>1 DEF ShellRunsWhatIsShown
<1> QED
  BY <1>1, <1>3, <1>4, <1>6, <1>7 DEF LineInv

\* The shell gets the line, or joins the queue, whatever the keyboard does.
LEMMA WaitKeepsLine == ASSUME ScreenInv, LineInv, WaitForCommand PROVE LineInv'
<1> DEFINE c == "cmd_buffer_sem"
           s == "shell_sem"
<1>1. /\ spc = "wait" /\ spc' = "parse" /\ sem_down(s, "shell") /\ Untouched /\ UNCHANGED kpc
  BY DEF WaitForCommand, screenVars, keyboardVars, Untouched
<1>2. /\ QueuesOK /\ value \in [BothSems -> Nat] /\ DOMAIN queue = BothSems /\ value[s] \in {0, 1}
      /\ c \in BothSems /\ s \in BothSems /\ c # s
  BY DEF ScreenInv, RightInv, QueuesOK, OneRight, BothSems
<1>3. queue[s] = << >>
  BY <1>1, <1>2 DEF QueuesOK
<1>4. \/ value[s] = 1 /\ queue' = queue /\ value' = [value EXCEPT ![s] = 0]
      \/ value[s] = 0 /\ value' = value /\ queue' = [queue EXCEPT ![s] = <<"shell">>]
  BY <1>1, <1>2, <1>3, DownMeans
<1>5. UNCHANGED KeyboardWaits /\ value'[s] = 0 /\ (value[s] = 1 \/ ShellWaits')
  <2>1. << >> # <<"shell">>
    OBVIOUS
  <2>2. queue'[c] = queue[c] /\ value'[s] = 0 /\ (value[s] = 1 \/ queue'[s] = <<"shell">>)
    BY <1>2, <1>4
  <2> QED
    BY <2>1, <2>2 DEF ShellWaits, KeyboardWaits
<1>6. Blank'
  BY <1>1, <1>5 DEF LineInv, Blank, BlankFrom, Untouched
<1>7. InBuffer => InBuffer'
  BY <1>1, LineUntouched
<1>8. /\ kpc' = "screen" /\ key' = NewLine => Pressed'
      /\ kpc' = "buffer" /\ key' = NewLine => OnScreen'
  BY <1>1 DEF LineInv, Pressed, OnScreen, ShownUpTo, BlankFrom, Line, RoomForCommand, Untouched
<1>9. ShellRunsWhatIsShown'
  BY <1>1 DEF ShellRunsWhatIsShown
<1> QED
  BY <1>1, <1>5, <1>6, <1>7, <1>8, <1>9 DEF LineInv

\* What is printed leaves blanks behind the cursor, which never goes back.
LEMMA PrintLeavesBlanks ==
    ASSUME NumbersOK, BlankFrom(cursor), NEW c, fb_print_char(c)
    PROVE  BlankFrom(cursor)'
<1>1. /\ cursor \in Nat /\ end \in Nat /\ DOMAIN screen = Cell /\ DOMAIN MoveCharsRight = Cell
      /\ \A x \in Cell : x \in Nat /\ (x - 1 \in Nat => x - 1 \in Cell)
  BY CellsAre DEF NumbersOK, MoveCharsRight, Cell
<1>2. ASSUME NEW x \in Cell, x > cursor PROVE MoveCharsRight[x] = Space
  <2>1. x - 1 \in Cell /\ x - 1 >= cursor /\ x >= cursor
    BY <1>1, <1>2
  <2>2. screen[x] = Space /\ screen[x - 1] = Space
    BY <2>1 DEF BlankFrom
  <2> QED
    BY <2>2 DEF MoveCharsRight
<1>3. CASE c = NewLine
  <2>1. screen' = MoveCharsRight /\ cursor' = (cursor \div COLS + 1) * COLS
    BY <1>3 DEF fb_print_char
  <2>2. cursor' \in Nat /\ cursor < cursor'
    BY <1>1, <2>1, NextRow
  <2>3. \A x \in Cell : x >= cursor' => x > cursor
    BY <1>1, <2>2
  <2> QED
    BY <1>2, <2>1, <2>3 DEF BlankFrom
<1>4. CASE c # NewLine
  <2>1. screen' = [MoveCharsRight EXCEPT ![cursor] = c] /\ cursor' = cursor + 1
    BY <1>4 DEF fb_print_char
  <2>2. \A x \in Cell : x >= cursor' => x > cursor /\ x # cursor
    BY <1>1, <2>1
  <2> QED
    BY <1>1, <1>2, <2>1, <2>2 DEF BlankFrom
<1> QED
  BY <1>3, <1>4

\* The line on the screen is the one in the buffer, with blanks behind it.
LEMMA LineIsShown ==
    ASSUME NumbersOK, NEW n \in 0 .. MaxLine, ShownUpTo(n)
    PROVE  Shows(ShownLine, cmd_buffer, n)
<1> DEFINE f == [i \in 1 .. COLS * ROWS |-> screen[i - 1]]
           S == {screen[x] : x \in Cell}
<1>1. PICK t : t = ShownLine
  OBVIOUS
<1>2. /\ COLS * ROWS \in Int /\ \A x \in Nat : x < COLS * ROWS => x \in Cell
      /\ MaxLine \in Nat /\ n \in Nat /\ prompt \in Nat /\ cursor \in Nat
      /\ prompt + n <= cursor /\ cursor <= COLS * ROWS
  <2>1. MaxLine \in Nat /\ max_x + 1 \in Nat /\ ROWS \in Nat
    BY TerminalAssumption
  <2>2. COLS * ROWS \in Int
    BY <2>1 DEF COLS
  <2>3. PICK size \in Int : size = COLS * ROWS
    BY <2>2
  <2>4. \A x \in Nat : x < COLS * ROWS => x \in Cell
    BY <2>3 DEF Cell
  <2>5. prompt \in Nat /\ cursor \in Nat /\ prompt + n <= cursor /\ cursor <= COLS * ROWS
    BY DEF NumbersOK, ShownUpTo
  <2> QED
    BY <2>1, <2>2, <2>4, <2>5
<1>3. \A i \in prompt + 1 .. cursor : f[i] = screen[i - 1] /\ i - 1 \in Cell
  <2> TAKE i \in prompt + 1 .. cursor
  <2>1. i \in 1 .. COLS * ROWS /\ i - 1 \in Nat /\ i - 1 < COLS * ROWS
    BY <1>2
  <2> QED
    BY <1>2, <2>1
<1>4. \A i \in prompt + 1 .. cursor : f[i] \in S
  BY <1>3
<1>5. t = SubSeq(f, prompt + 1, cursor)
  BY <1>1 DEF ShownLine
<1> HIDE DEF f, S
<1>6. PICK m \in Nat : m = cursor - prompt /\ n <= m
  BY <1>2
<1>7. Len(t) = m /\ DOMAIN t = 1 .. m /\ \A i \in 1 .. m : t[i] = screen[prompt + (i - 1)] /\ prompt + (i - 1) \in Cell
  <2>1. prompt + 1 \in Int /\ cursor \in Int
    BY <1>2
  <2>2. /\ t \in Seq(S)
        /\ Len(t) = IF prompt + 1 <= cursor THEN cursor - (prompt + 1) + 1 ELSE 0
        /\ \A i \in 1 .. cursor - (prompt + 1) + 1 : t[i] = f[prompt + 1 + i - 1]
    BY <1>4, <1>5, <2>1, SubSeqProperties
  <2>3. cursor - (prompt + 1) + 1 = m /\ (prompt + 1 <= cursor <=> m > 0)
    BY <1>2, <1>6
  <2>4. Len(t) = m
    BY <1>6, <2>2, <2>3
  <2>5. DOMAIN t = 1 .. m
    BY <2>2, <2>4
  <2>6. ASSUME NEW i \in 1 .. m PROVE t[i] = screen[prompt + (i - 1)] /\ prompt + (i - 1) \in Cell
    <3>1. PICK k \in prompt + 1 .. cursor : k = prompt + 1 + i - 1 /\ k - 1 = prompt + (i - 1)
      BY <1>2, <1>6
    <3>2. t[i] = f[k]
      BY <2>2, <2>3, <3>1
    <3>3. f[k] = screen[k - 1] /\ k - 1 \in Cell
      BY <1>3
    <3> QED
      BY <3>1, <3>2, <3>3
  <2> QED
    BY <2>4, <2>5, <2>6
<1>8. \A i \in 1 .. n : t[i] = cmd_buffer[i - 1]
  <2> TAKE i \in 1 .. n
  <2>1. i \in 1 .. m /\ i - 1 \in 0 .. n - 1
    BY <1>6
  <2>2. \A j \in 0 .. n - 1 : screen[prompt + j] = cmd_buffer[j]
    BY DEF ShownUpTo
  <2> QED
    BY <1>7, <2>1, <2>2
<1>9. \A i \in n + 1 .. m : t[i] = Space
  <2> TAKE i \in n + 1 .. m
  <2>1. i \in 1 .. m /\ prompt + (i - 1) >= prompt + n
    BY <1>2, <1>6
  <2>2. \A x \in Cell : x >= prompt + n => screen[x] = Space
    BY DEF ShownUpTo, BlankFrom
  <2> QED
    BY <1>7, <2>1, <2>2
<1>10. QuotesBefore(t, n + 1) % 2 = 0
  <2> DEFINE line == [i \in 1 .. n |-> cmd_buffer[i - 1]]
  <2>1. {j \in 1 .. n + 1 - 1 : t[j] = Quote} = {j \in 1 .. n + 1 - 1 : line[j] = Quote}
    <3>1. n + 1 - 1 = n /\ \A j \in 1 .. n : line[j] = t[j]
      BY <1>2, <1>8
    <3> HIDE DEF line
    <3> QED
      BY <3>1
  <2>2. QuotesBefore(line, n + 1) % 2 = 0
    BY DEF ShownUpTo
  <2> HIDE DEF line
  <2> QED
    BY <2>1, <2>2 DEF QuotesBefore
<1>11. Shows(t, cmd_buffer, n)
  BY <1>6, <1>7, <1>8, <1>9, <1>10 DEF Shows
<1> QED
  BY <1>1, <1>11

\* The shell parses the line in the buffer into the words on the screen.
LEMMA ParseFindsShownWords ==
    ASSUME NumbersOK, InBuffer, ParseCommand
    PROVE  ShellRunsWhatIsShown'
<1>1. PICK n \in 0 .. MaxLine : cmd_buffer[n] = NewLine /\ cmd_buffer[n + 1] = NUL /\ ShownUpTo(n)
  BY DEF InBuffer
<1>2. PICK M \in Nat : M = MaxLine + 1
  BY TerminalAssumption
<1>3. n \in Nat /\ n < M /\ DOMAIN cmd_buffer = 0 .. M
  BY <1>2, TerminalAssumption DEF NumbersOK, Index
<1>4. \A q \in 0 .. n - 1 : cmd_buffer[q] # NUL /\ cmd_buffer[q] # NewLine
  BY <1>1, KeysDiffer DEF ShownUpTo
<1>5. Typed(cmd_buffer, M, n)
  BY <1>1, <1>3, <1>4 DEF Typed
<1>6. PICK t : t = ShownLine
  OBVIOUS
<1>7. Shows(t, cmd_buffer, n)
  BY <1>1, <1>6, LineIsShown
<1>8. PICK l : l = parse_command(cmd_buffer)
  OBVIOUS
<1>9. Parsed(l, cmd_buffer, M, t, n)
  BY <1>2, <1>3, <1>5, <1>7, <1>8, ParseIs
<1>10. [i \in DOMAIN l.args |-> WordAt(l.buf, l.args[i])] = Words(t)
  BY <1>2, <1>3, <1>5, <1>7, <1>9, WordsFound
<1>11. cmd_buffer' = l.buf /\ args' = l.args /\ UNCHANGED <<screen, cursor, end, prompt>>
  BY <1>8 DEF ParseCommand, screenVars
<1>12. ShownLine' = t
  BY <1>6, <1>11 DEF ShownLine
<1> QED
  BY <1>10, <1>11, <1>12 DEF ShellRunsWhatIsShown

\* The shell prints, ends a prompt, parses and runs.
LEMMA ShellKeepsLine ==
    ASSUME ScreenInv, LineInv,
           PrintNext \/ EndPrompt \/ ParseCommand \/ RunCommand \/ ClearScreen \/ EndCommand
    PROVE  LineInv'
<1>1. NumbersOK /\ (Runs("shell") <=> ~ShellWaits)
  BY RunsMeans DEF ScreenInv, RightInv
<1>2. Runs("shell") /\ spc # "wait" /\ UNCHANGED <<keyboardVars, semVars>> /\ spc' # "parse"
  <2>1. CASE RunCommand
    BY <2>1 DEF RunCommand
  <2>2. CASE PrintNext \/ EndPrompt \/ ParseCommand \/ ClearScreen \/ EndCommand
    BY <2>2 DEF PrintNext, EndPrompt, ParseCommand, ClearScreen, EndCommand
  <2> QED
    BY <2>1, <2>2
<1>3. ShellHas /\ ~ShellWaits
  BY <1>1, <1>2 DEF ShellHas
<1>4. BlankFrom(cursor)
  <2>1. kpc \in {"begin", "sleep"} \/ (kpc \in {"poll", "reset"} /\ KeyboardWaits)
    BY <1>3, ShellAlone DEF ScreenInv
  <2> QED
    BY <2>1, BlankAtCursor
<1> SUFFICES BlankFrom(cursor)' /\ ShellRunsWhatIsShown'
  BY <1>2, <1>3, LineKeptByShell
<1>5. CASE PrintNext
  <2>1. fb_print_char(Head(out)) /\ spc \in {"prompt", "print", "cleared"} /\ spc' = spc
    BY <1>5 DEF PrintNext
  <2> QED
    BY <1>1, <1>4, <2>1, PrintLeavesBlanks DEF ShellRunsWhatIsShown
<1>6. CASE EndPrompt
  <2>1. UNCHANGED <<screen, cursor>> /\ spc' # "run"
    BY <1>6 DEF EndPrompt
  <2> QED
    BY <1>4, <2>1 DEF BlankFrom, ShellRunsWhatIsShown
<1>7. CASE ParseCommand
  <2>1. InBuffer /\ UNCHANGED <<screen, cursor>>
    BY <1>3, <1>7 DEF ParseCommand, LineInv, screenVars
  <2> QED
    BY <1>1, <1>4, <1>7, <2>1, ParseFindsShownWords DEF BlankFrom
<1>8. CASE RunCommand
  <2>1. UNCHANGED <<screen, cursor>> /\ spc' # "run"
    BY <1>8 DEF RunCommand, screenVars
  <2> QED
    BY <1>4, <2>1 DEF BlankFrom, ShellRunsWhatIsShown
<1>9. CASE ClearScreen
  <2>1. screen' = [x \in Cell |-> Space] /\ spc' # "run"
    BY <1>9 DEF ClearScreen
  <2> QED
    BY <2>1 DEF BlankFrom, ShellRunsWhatIsShown
<1>10. CASE EndCommand
  <2>1. UNCHANGED <<screen, cursor>> /\ spc' # "run"
    BY <1>10 DEF EndCommand, screenVars
  <2> QED
    BY <1>4, <2>1 DEF BlankFrom, ShellRunsWhatIsShown
<1> QED
  BY <1>5, <1>6, <1>7, <1>8, <1>9, <1>10

\* Every step keeps the line that the shell will run on the screen.
LEMMA LineNext == ScreenInv /\ ScreenInv' /\ LineInv /\ [Next]_vars => LineInv'
<1> SUFFICES ASSUME ScreenInv, ScreenInv', LineInv, [Next]_vars PROVE LineInv'
  OBVIOUS
<1>1. RightInv'
  BY DEF ScreenInv
<1>2. CASE Blink
  BY <1>2, BlinkKeepsLine
<1>3. CASE \E k \in Key : Press(k)
  BY <1>3, PressKeepsLine
<1>4. CASE BeginKeyboard \/ SleepUntilPrompt
  BY <1>1, <1>4, KeyboardDownKeepsLine
<1>5. CASE EditScreen
  BY <1>5, EditScreenKeepsLine
<1>6. CASE EditBuffer
  BY <1>6, EditBufferKeepsLine
<1>7. CASE SendCommand
  BY <1>7, SendKeepsLine
<1>8. CASE ResetLine
  BY <1>8, ResetKeepsLine
<1>9. CASE PrintNext \/ EndPrompt \/ ParseCommand \/ RunCommand \/ ClearScreen \/ EndCommand
  BY <1>9, ShellKeepsLine
<1>10. CASE OpenLine
  BY <1>10, OpenKeepsLine
<1>11. CASE WaitForCommand
  BY <1>11, WaitKeepsLine
<1>12. CASE UNCHANGED vars
  <2>1. Untouched /\ UNCHANGED <<kpc, spc, KeyboardWaits, ShellWaits, value>>
    BY <1>12 DEF vars, keyboardVars, shellVars, screenVars, semVars, Untouched, KeyboardWaits, ShellWaits
  <2>2. (InBuffer => InBuffer') /\ ShellRunsWhatIsShown'
    BY <2>1, LineUntouched DEF LineInv
  <2>3. /\ kpc' = "screen" /\ key' = NewLine => Pressed'
        /\ kpc' = "buffer" /\ key' = NewLine => OnScreen'
    BY <2>1 DEF LineInv, Pressed, OnScreen, ShownUpTo, BlankFrom, Line, RoomForCommand, Untouched
  <2>4. Blank'
    BY <2>1 DEF LineInv, Blank, BlankFrom, Untouched
  <2> QED
    BY <2>1, <2>2, <2>3, <2>4 DEF LineInv
<1> QED
  BY <1>2, <1>3, <1>4, <1>5, <1>6, <1>7, <1>8, <1>9, <1>10, <1>11, <1>12 DEF Next, KeyboardStep, ShellStep

\* The screen is blank when both processes start.
LEMMA LineInitially == Init => LineInv
<1> SUFFICES ASSUME Init PROVE LineInv
  OBVIOUS
<1>1. /\ kpc = "begin" /\ spc = "prompt" /\ screen = [x \in Cell |-> Space]
      /\ value = [s \in BothSems |-> 0]
  BY DEF Init, Semaphore!Init, InitialValue, BothSems
<1>2. value["shell_sem"] = 0
  BY <1>1 DEF BothSems
<1> QED
  BY <1>1, <1>2 DEF LineInv, Blank, BlankFrom, ShellRunsWhatIsShown

\* Whatever was typed and edited, for every screen, line length and set of letters: the words the
\* shell runs are those of the line on the screen, by the definition of Words.  parse_command cuts
\* the buffer where Words says that the line's words end, and fb_cursor.c leaves nothing behind
\* the line that a reader would take for a part of it.
THEOREM ShellRunsTheShownWords == Spec => []ShellRunsWhatIsShown
<1>1. LineInv => ShellRunsWhatIsShown
  BY DEF LineInv
<1> QED
  BY <1>1, ScreenInitially, ScreenNext, LineInitially, LineNext, PTL DEF Spec
=============================================================================

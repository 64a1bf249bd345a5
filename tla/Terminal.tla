------------------------------ MODULE Terminal ------------------------------
(***************************************************************************)
(* The terminal (src/src/keyboard.c, shell.c, fb_cursor.c, and do_echo and *)
(* do_clear of shell_commands.c): the keyboard process edits a command     *)
(* line in cmd_buffer and on the screen; the shell process runs it and     *)
(* prints.  They share both without a lock and pass them to each other     *)
(* with two semaphores, here those of module AbsSem, which sem.c           *)
(* implements.  A step is a system call, the handling of a key on the      *)
(* screen, its handling in the buffer, or one printed character.           *)
(*                                                                         *)
(* The screen is one line of cells, row after row: the cell at column x of *)
(* row y is y * (max_x + 1) + x, and a cell holds the character it shows.  *)
(***************************************************************************)
EXTENDS Integers, CommandParser

CONSTANTS
    Letters,                \* what can be typed besides spaces and quotes
    EchoName, ClearName,    \* "echo" and "clear"
    max_x, ROWS,            \* the last column, and the number of rows
    MaxLine,                \* bound: characters of a command line
    UINT                    \* the number of values of an unsigned int

ASSUME TerminalAssumption ==
    /\ max_x \in Nat /\ ROWS \in Nat /\ MaxLine \in Nat
    /\ (max_x + 1) * ROWS > 2
    /\ EchoName \in Seq(Letters) /\ ClearName \in Seq(Letters) /\ EchoName # ClearName
    /\ UINT \in Nat /\ UINT > MaxLine + 2

Char == Letters \cup {Space, Quote}
FB_BACKSPACE == "FB_BACKSPACE"
FB_ARROW_LEFT == "FB_ARROW_LEFT"
FB_ARROW_RIGHT == "FB_ARROW_RIGHT"
Key == Char \cup {NewLine, FB_BACKSPACE, FB_ARROW_LEFT, FB_ARROW_RIGHT}

ASSUME LettersAssumption ==
    Letters \cap {NUL, NewLine, FB_BACKSPACE, FB_ARROW_LEFT, FB_ARROW_RIGHT} = {}

Highlight == "highlight"                    \* the glyph of character 0
PromptText == <<"$", Space>>
NotFoundText == <<"Command not found", NewLine>>
Glyph == Char \cup {Highlight, "$", "Command not found", NUL}

COLS == max_x + 1
Cell == 0 .. COLS * ROWS - 1
Index == 0 .. MaxLine + 1                   \* of cmd_buffer: a line, its \n and its NUL

VARIABLES
    kpc, key,                               \* the keyboard process, and the key it handles
    cmd_buffer_idx, cmd_buffer_size, cmd_buffer,
    spc, out, args,                         \* the shell: what it has yet to print, the words
    screen, cursor, end, prompt,            \* fb_cursor.c; end is the last position
    value, queue                            \* the semaphores

keyboardVars == <<kpc, key, cmd_buffer_idx, cmd_buffer_size>>
shellVars == <<spc, out, args>>
screenVars == <<screen, cursor, end, prompt>>
semVars == <<value, queue>>
vars == <<keyboardVars, cmd_buffer, shellVars, screenVars, semVars>>

\* Mutant: a semaphore made with a unit.
OpenAtStart == [s \in {"cmd_buffer_sem", "shell_sem"} |-> 1]

InitialValue == [s \in {"cmd_buffer_sem", "shell_sem"} |-> 0]

Semaphore == INSTANCE AbsSem WITH
    Sems <- {"cmd_buffer_sem", "shell_sem"}, Process <- {"keyboard", "shell"}, Initial <- InitialValue

sem_up(s) == Semaphore!HandOver(s) \/ Semaphore!GiveBack(s)
sem_down(s, p) == Semaphore!Take(s) \/ Semaphore!Join(s, p)
Runs(p) == ~Semaphore!Queued(p)

TerminalTypeOK ==
    /\ kpc \in {"begin", "poll", "screen", "buffer", "send", "sleep", "reset"}
    /\ key \in Key
    /\ cmd_buffer_idx \in 0 .. MaxLine + 1 /\ cmd_buffer_size \in 0 .. MaxLine + 1
    /\ cmd_buffer \in [Index -> Char \cup {NUL, NewLine}]
    /\ spc \in {"prompt", "open", "wait", "parse", "run", "print", "clear", "cleared"}
    /\ out \in Seq(Glyph \cup {NewLine}) /\ args \in Seq(Index)
    /\ screen \in [Cell -> Glyph] /\ {cursor, end, prompt} \subseteq Cell
    /\ value \in [DOMAIN InitialValue -> 0 .. 1]
    /\ queue \in [DOMAIN InitialValue -> {<< >>, <<"keyboard">>, <<"shell">>}]

\* cmd_buffer comes from kAlloc, whose loop clears only its first byte: c stands for what lies in
\* the rest.
Init ==
    /\ kpc = "begin" /\ key = NewLine
    /\ cmd_buffer_idx = 0 /\ cmd_buffer_size = 0
    /\ \E c \in Char \cup {NUL} : cmd_buffer = [i \in Index |-> IF i = 0 THEN NUL ELSE c]
    /\ spc = "prompt" /\ out = PromptText /\ args = << >>
    /\ screen = [x \in Cell |-> Space] /\ cursor = 0 /\ end = 0 /\ prompt = 0
    /\ Semaphore!Init

-----------------------------------------------------------------------------
(* The screen                                                              *)

MoveCharsRight == [x \in Cell |-> IF cursor < x /\ x <= end THEN screen[x - 1] ELSE screen[x]]

fb_print_char(c) ==
    /\ IF c = NewLine
       THEN /\ screen' = MoveCharsRight
            /\ cursor' = (cursor \div COLS + 1) * COLS
            /\ end' = cursor'
       ELSE /\ screen' = [MoveCharsRight EXCEPT ![cursor] = c]
            /\ cursor' = cursor + 1
            /\ end' = end + 1
    /\ UNCHANGED prompt

fb_print_curr_char(c) ==
    /\ screen' = [screen EXCEPT ![cursor] = c]
    /\ UNCHANGED <<cursor, end, prompt>>

\* fb_delete after the move of the cursor to cell x: the text from x + 1 to the end moves left.
MoveCharsLeft(x) == [y \in Cell |-> IF x <= y /\ y < end THEN screen[y + 1] ELSE screen[y]]

is_cursor_at_prompt == cursor = prompt

fb_backspace ==
    IF is_cursor_at_prompt THEN UNCHANGED screenVars
    ELSE /\ cursor' = cursor - 1
         /\ screen' = MoveCharsLeft(cursor - 1)
         /\ end' = end - 1
         /\ UNCHANGED prompt

fb_move_cursor_left ==
    /\ cursor' = IF is_cursor_at_prompt THEN cursor ELSE cursor - 1
    /\ UNCHANGED <<screen, end, prompt>>

fb_move_cursor_right ==
    /\ cursor' = IF cursor = end THEN cursor ELSE cursor + 1
    /\ UNCHANGED <<screen, end, prompt>>

-----------------------------------------------------------------------------
(* The keyboard process                                                    *)

Line == [i \in 1 .. cmd_buffer_size |-> cmd_buffer[i - 1]]

\* The rows a command takes: its output's, and the new prompt's.  Nothing scrolls.
RoomForCommand == end \div COLS + 2 + MaxLine \div COLS < ROWS

\* What a user may press for the line to be handled rightly; README.md says what the code does
\* with the rest.
MayPress(k) ==
    \/ /\ k \in Char
       /\ cmd_buffer_size < MaxLine /\ end + 1 \in Cell
       /\ cmd_buffer_idx = cmd_buffer_size \/ cmd_buffer_idx > 0
    \/ k = FB_BACKSPACE /\ cmd_buffer_idx > 0 /\ cmd_buffer_idx = cmd_buffer_size
    \/ k = FB_ARROW_LEFT /\ cmd_buffer_idx > 0
    \/ k = FB_ARROW_RIGHT
    \/ /\ k = NewLine
       /\ cmd_buffer_idx = cmd_buffer_size /\ Balanced(Line) /\ RoomForCommand

BeginKeyboard ==
    /\ kpc = "begin" /\ Runs("keyboard")
    /\ sem_down("cmd_buffer_sem", "keyboard")
    /\ kpc' = "poll"
    /\ UNCHANGED <<key, cmd_buffer_idx, cmd_buffer_size, cmd_buffer, shellVars, screenVars>>

\* No key is down: the cursor blinks.
Blink ==
    /\ kpc = "poll" /\ Runs("keyboard")
    /\ \E c \in {Highlight, Space} : fb_print_curr_char(c)
    /\ UNCHANGED <<keyboardVars, cmd_buffer, shellVars, semVars>>

NormalCursor == IF cmd_buffer[cmd_buffer_idx] = NUL THEN Space ELSE cmd_buffer[cmd_buffer_idx]

Press(k) ==
    /\ kpc = "poll" /\ Runs("keyboard")
    /\ MayPress(k)
    /\ fb_print_curr_char(NormalCursor)
    /\ key' = k
    /\ kpc' = "screen"
    /\ UNCHANGED <<cmd_buffer_idx, cmd_buffer_size, cmd_buffer, shellVars, semVars>>

EditScreen ==
    /\ kpc = "screen" /\ Runs("keyboard")
    /\ \/ key = FB_BACKSPACE /\ fb_backspace
       \/ key = FB_ARROW_LEFT /\ fb_move_cursor_left
       \/ key = FB_ARROW_RIGHT /\ fb_move_cursor_right
       \/ key \in Char \cup {NewLine} /\ fb_print_char(key)
    /\ kpc' = "buffer"
    /\ UNCHANGED <<key, cmd_buffer_idx, cmd_buffer_size, cmd_buffer, shellVars, semVars>>

\* Unsigned: the tests for negative values in the code are never true.
Decremented(n) == (n - 1) % UINT

\* The copying goes from the end down, so that all it reaches becomes the NUL at the end.
cmd_backspace ==
    /\ cmd_buffer' = [i \in Index |->
           IF 0 < cmd_buffer_idx /\ cmd_buffer_idx - 1 <= i /\ i < cmd_buffer_size
           THEN cmd_buffer[cmd_buffer_size] ELSE cmd_buffer[i]]
    /\ cmd_buffer_idx' = Decremented(cmd_buffer_idx)
    /\ cmd_buffer_size' = Decremented(cmd_buffer_size)

cmd_left ==
    /\ cmd_buffer_idx' = Decremented(cmd_buffer_idx)
    /\ UNCHANGED <<cmd_buffer_size, cmd_buffer>>

cmd_right ==
    /\ cmd_buffer_idx' = Min({cmd_buffer_idx + 1, cmd_buffer_size})
    /\ UNCHANGED <<cmd_buffer_size, cmd_buffer>>

\* Mutant: the rest of the line is written over, not moved.
WrittenOver(c) == [cmd_buffer EXCEPT ![cmd_buffer_idx] = c]

Inserted(c) ==
    IF cmd_buffer_idx = cmd_buffer_size
    THEN [cmd_buffer EXCEPT ![cmd_buffer_idx] = c, ![cmd_buffer_idx + 1] = NUL]
    ELSE [i \in Index |->
             IF i = cmd_buffer_idx THEN c
             ELSE IF cmd_buffer_idx < i /\ i <= cmd_buffer_size + 1 THEN cmd_buffer[i - 1]
             ELSE cmd_buffer[i]]

cmd_insert(c) ==
    /\ cmd_buffer' = Inserted(c)
    /\ cmd_buffer_idx' = cmd_buffer_idx + 1
    /\ cmd_buffer_size' = cmd_buffer_size + 1

EditBuffer ==
    /\ kpc = "buffer" /\ Runs("keyboard")
    /\ \/ key = FB_BACKSPACE /\ cmd_backspace
       \/ key = FB_ARROW_LEFT /\ cmd_left
       \/ key = FB_ARROW_RIGHT /\ cmd_right
       \/ key \in Char \cup {NewLine} /\ cmd_insert(key)
    /\ kpc' = IF key = NewLine THEN "send" ELSE "poll"
    /\ UNCHANGED <<key, shellVars, screenVars, semVars>>

SendCommand ==
    /\ kpc = "send" /\ Runs("keyboard")
    /\ sem_up("shell_sem")
    /\ kpc' = "sleep"
    /\ UNCHANGED <<key, cmd_buffer_idx, cmd_buffer_size, cmd_buffer, shellVars, screenVars>>

SleepUntilPrompt ==
    /\ kpc = "sleep" /\ Runs("keyboard")
    /\ sem_down("cmd_buffer_sem", "keyboard")
    /\ kpc' = "reset"
    /\ UNCHANGED <<key, cmd_buffer_idx, cmd_buffer_size, cmd_buffer, shellVars, screenVars>>

ResetLine ==
    /\ kpc = "reset" /\ Runs("keyboard")
    /\ cmd_buffer_idx' = 0 /\ cmd_buffer_size' = 0
    /\ cmd_buffer' = [cmd_buffer EXCEPT ![0] = NUL]
    /\ kpc' = "poll"
    /\ UNCHANGED <<key, shellVars, screenVars, semVars>>

KeyboardStep ==
    BeginKeyboard \/ EditScreen \/ EditBuffer \/ SendCommand \/ SleepUntilPrompt \/ ResetLine

-----------------------------------------------------------------------------
(* The shell process                                                       *)

PrintNext ==
    /\ spc \in {"prompt", "print", "cleared"} /\ Runs("shell")
    /\ out # << >>
    /\ fb_print_char(Head(out))
    /\ out' = Tail(out)
    /\ UNCHANGED <<keyboardVars, cmd_buffer, spc, args, semVars>>

\* The end of fb_prompt: of the shell's, or of fb_clear's, after which the shell ends the line.
EndPrompt ==
    /\ spc \in {"prompt", "cleared"} /\ Runs("shell")
    /\ out = << >>
    /\ prompt' = cursor
    /\ IF spc = "prompt" THEN spc' = "open" /\ out' = out
       ELSE spc' = "print" /\ out' = <<NewLine>>
    /\ UNCHANGED <<keyboardVars, cmd_buffer, args, screen, cursor, end, semVars>>

OpenLine ==
    /\ spc = "open" /\ Runs("shell")
    /\ sem_up("cmd_buffer_sem")
    /\ spc' = "wait"
    /\ UNCHANGED <<keyboardVars, cmd_buffer, out, args, screenVars>>

WaitForCommand ==
    /\ spc = "wait" /\ Runs("shell")
    /\ sem_down("shell_sem", "shell")
    /\ spc' = "parse"
    /\ UNCHANGED <<keyboardVars, cmd_buffer, out, args, screenVars>>

ParseCommand ==
    /\ spc = "parse" /\ Runs("shell")
    /\ LET parsed == parse_command(cmd_buffer)
       IN  /\ cmd_buffer' = parsed.buf
           /\ args' = parsed.args
    /\ spc' = "run"
    /\ UNCHANGED <<keyboardVars, out, screenVars, semVars>>

\* argv of the command: the words after its name.
Echoed == FlattenSeq([i \in 1 .. Len(args) - 1 |-> Append(WordAt(cmd_buffer, args[i + 1]), Space)])

RunCommand ==
    /\ spc = "run" /\ Runs("shell")
    /\ LET name == WordAt(cmd_buffer, args[1])
       IN  CASE name = EchoName  -> spc' = "print" /\ out' = Append(Echoed, NewLine)
             [] name = ClearName -> spc' = "clear" /\ out' = out
             [] OTHER            -> spc' = "print" /\ out' = NotFoundText
    /\ UNCHANGED <<keyboardVars, cmd_buffer, args, screenVars, semVars>>

\* end stays where it was: the text is not at an end until the next \n.
ClearScreen ==
    /\ spc = "clear" /\ Runs("shell")
    /\ screen' = [x \in Cell |-> Space]
    /\ cursor' = 0
    /\ spc' = "cleared" /\ out' = PromptText
    /\ UNCHANGED <<keyboardVars, cmd_buffer, args, end, prompt, semVars>>

\* Mutant: no new prompt, and no word to the keyboard.
WaitsAgain ==
    /\ spc = "print" /\ Runs("shell") /\ out = << >>
    /\ spc' = "wait" /\ out' = out
    /\ UNCHANGED <<keyboardVars, cmd_buffer, args, screenVars, semVars>>

EndCommand ==
    /\ spc = "print" /\ Runs("shell") /\ out = << >>
    /\ spc' = "prompt" /\ out' = PromptText
    /\ UNCHANGED <<keyboardVars, cmd_buffer, args, screenVars, semVars>>

ShellStep ==
    \/ PrintNext \/ EndPrompt \/ OpenLine \/ WaitForCommand
    \/ ParseCommand \/ RunCommand \/ ClearScreen \/ EndCommand

Next == Blink \/ (\E k \in Key : Press(k)) \/ KeyboardStep \/ ShellStep

Spec == Init /\ [][Next]_vars

\* The scheduler lets both processes run again and again (NoStarvation of module Sched), and the
\* semaphores serve them in turn.  Nobody has to press a key.
FairSpec == Spec /\ WF_vars(KeyboardStep) /\ WF_vars(ShellStep)

-----------------------------------------------------------------------------
(* Properties                                                              *)

KeyboardHasTerminal == kpc \in {"poll", "screen", "buffer", "send", "reset"} /\ Runs("keyboard")
ShellHasTerminal == spc # "wait" /\ Runs("shell")

\* The buffer, its index and the screen have no lock: only the two semaphores, each made with 0
\* units, keep the keyboard and the shell from using them at the same time.
OneAtTheTerminal == ~(KeyboardHasTerminal /\ ShellHasTerminal)

\* Between two keys of MayPress the screen shows the line that the buffer holds, from the prompt to the end
\* of the text and across the ends of rows, and the cursor is on the character at the index:
\* two pieces of code keep two copies of the line by different means.
ScreenShowsBuffer ==
    (kpc \in {"poll", "screen"} /\ Runs("keyboard")) =>
        /\ cursor = prompt + cmd_buffer_idx
        /\ end = prompt + cmd_buffer_size
        /\ cmd_buffer[cmd_buffer_size] = NUL
        /\ \A i \in 0 .. cmd_buffer_size - 1 :
               kpc = "screen" \/ i # cmd_buffer_idx => screen[prompt + i] = cmd_buffer[i]

\* The words the shell runs are those a reader of the screen sees on the line that was typed,
\* by the definition of Words, after any editing with the keys of MayPress and with what earlier
\* lines and the heap left in the buffer.
ShownLine == SubSeq([i \in 1 .. COLS * ROWS |-> screen[i - 1]], prompt + 1, cursor)
ShellRunsWhatIsShown ==
    spc = "run" => [i \in DOMAIN args |-> WordAt(cmd_buffer, args[i])] = Words(ShownLine)

\* A command that was sent is run and the keyboard gets its prompt: neither process waits for
\* the other for ever, in whatever order sem_up and sem_down meet.
PromptComesBack == (kpc = "send") ~> (kpc = "poll" /\ Runs("keyboard"))
=============================================================================

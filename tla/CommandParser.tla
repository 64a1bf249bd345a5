--------------------------- MODULE CommandParser ---------------------------
(***************************************************************************)
(* How a command line becomes words (src/src/command_parser.c and the      *)
(* searches of string.c).  The line lies in a buffer, a function on its    *)
(* indices; a word is the index it starts at, and ends at the next NUL,    *)
(* which the parser writes over the delimiters.                            *)
(***************************************************************************)
EXTENDS Integers, Sequences, SequencesExt, FiniteSetsExt

NUL == "NUL"
NewLine == "\n"
Space == " "
Quote == "\""

\* The first place of c from index i on; the code searches on past the buffer, for ever if
\* need be, which here is the index after the last.
strfnd(buf, i, c) ==
    Min({j \in DOMAIN buf : j >= i /\ buf[j] = c} \cup {Cardinality(DOMAIN buf)})

clean_command(buf) == [buf EXCEPT ![strfnd(buf, 0, NewLine)] = NUL]

find_next_delim(buf, i) ==
    Min({strfnd(buf, i, Space), strfnd(buf, i, Quote), strfnd(buf, i + 1, NUL)})

\* The parser's loop on a line: the buffer, the delimiter it is at, whether that one opens a
\* quotation, and the words so far.
Loop(cmd) ==
    [buf : [DOMAIN cmd -> Range(cmd) \cup {NUL}], delim_addr : Nat, opens : BOOLEAN, args : Seq(Nat)]

StartLoop(cmd) ==
    LET first == find_next_delim(cmd, 0)
    IN  [buf |-> cmd, delim_addr |-> first, opens |-> cmd[first] = Quote, args |-> <<0>>]

\* Mutant: two delimiters one after another have an empty word between them.
EmptyWordsToo(args, delim_addr, next) == Append(args, delim_addr + 1)

\* Two delimiters one after another have no word between them.
AddWord(args, delim_addr, next) == IF delim_addr + 1 = next THEN args ELSE Append(args, delim_addr + 1)

\* An opening quote goes with the next quote, which then counts as a space.
Iterate(l) ==
    LET cut  == [l.buf EXCEPT ![l.delim_addr] = NUL]
        next == IF l.opens THEN strfnd(cut, l.delim_addr, Quote) ELSE find_next_delim(cut, l.delim_addr)
    IN  [buf |-> [cut EXCEPT ![next] = NUL], delim_addr |-> next,
         opens |-> ~l.opens /\ cut[next] = Quote, args |-> AddWord(l.args, l.delim_addr, next)]

\* The buffer after parse_command (buf), and where the words start in it (args).  Every iteration
\* goes on by a place at least, so that there are no more of them than places.
parse_command(cmd_buffer) ==
    LET cmd     == clean_command(cmd_buffer)
        end_pos == strfnd(cmd, 0, NUL)
        places  == Cardinality(DOMAIN cmd)
        Iterated == [l \in Loop(cmd) |-> IF l.delim_addr < end_pos THEN Iterate(l) ELSE l]
        L[k \in 0 .. places] == IF k = 0 THEN StartLoop(cmd) ELSE Iterated[L[k - 1]]
    IN  L[places]

WordAt(buf, i) == [j \in 1 .. strfnd(buf, i, NUL) - i |-> buf[i + j - 1]]

-----------------------------------------------------------------------------
(* What the words of a line are, said without parsing: a quote separates,  *)
(* a space does unless an odd number of quotes come before it; words are   *)
(* the longest runs between separators.  The first is the command's name   *)
(* and is empty when the line begins with a separator.                     *)

QuotesBefore(s, i) == Cardinality({j \in 1 .. i - 1 : s[j] = Quote})
Balanced(s) == QuotesBefore(s, Len(s) + 1) % 2 = 0

Separates(s, i) == s[i] = Quote \/ (s[i] = Space /\ QuotesBefore(s, i) % 2 = 0)

WordStarts(s) == {i \in DOMAIN s : ~Separates(s, i) /\ (i = 1 \/ Separates(s, i - 1))}

Words(s) ==
    LET starts  == WordStarts(s)
        rank(i) == Cardinality({j \in starts : j <= i})
        stop(i) == Min({j \in i .. Len(s) : Separates(s, j)} \cup {Len(s) + 1})
        words   == [n \in 1 .. Cardinality(starts) |->
                       LET i == CHOOSE i \in starts : rank(i) = n IN SubSeq(s, i, stop(i) - 1)]
    IN  IF 1 \in starts THEN words ELSE <<<< >>>> \o words
=============================================================================

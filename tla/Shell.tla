------------------------------- MODULE Shell -------------------------------
(***************************************************************************)
(* The shell: a line of the editor is cut into sentences and words         *)
(* (src/cli/parse.c) and each sentence is run as a command of the board or *)
(* of the shell itself (src/cli/shell.c, src/cli/commands.c).              *)
(*                                                                         *)
(* ran is not in the code: for each sentence of the line that led to any,  *)
(* the calls of command functions so far.                                  *)
(***************************************************************************)
EXTENDS LineEdit

CONSTANTS
  Separator, SQuote, DQuote, Escape,  \* ; ' " and backslash
  UserCommands, BuiltinCommands,      \* the names of the two lists
  Lines                               \* bound: the longer lines the shell is started on

(* The six characters with a meaning differ, and Lines are C strings.      *)
ASSUME ShellAssumption ==
  /\ Separator \notin {SQuote, DQuote, Escape, Blank, NUL}
  /\ SQuote \notin {DQuote, Escape, Blank, NUL}
  /\ DQuote \notin {Escape, Blank, NUL}
  /\ Escape \notin {Blank, NUL}
  /\ \A line \in Lines :
        /\ line # <<>> /\ line \in Seq({line[i] : i \in DOMAIN line})
        /\ \A i \in DOMAIN line : line[i] # NUL

VARIABLES
  at,        \* "edit" (in msh_get_cmdline) or "sentence" (at the top of the inner loop)
  linebuf,   \* the line without its NUL
  linebufp,  \* index of what is left of it, Len(linebuf) + 1 for its NUL
  argv0,     \* the string at the start of argbuf
  ran

shellvars == <<at, linebuf, linebufp, argv0, ran>>
vars == <<linevars, shellvars>>

CharAt(i) == IF i > Len(linebuf) THEN NUL ELSE linebuf[i]

-----------------------------------------------------------------------------
(* read_token.  quote is the quote that is open, NUL for none; ret is      *)
(* readcount, which a blank or a separator does not raise, and -1 after a  *)
(* syntax error.  A round is one turn of the loop, which no line needs     *)
(* more often than it has characters, its NUL included.                    *)
Read(s, n, quote) == [s EXCEPT !.readpos = @ + n, !.ret = @ + n, !.quote = quote]
Put(s, ch) == [s EXCEPT !.tok = Append(@, ch)]

ReadRound(s) ==
  LET ch == CharAt(s.readpos)
      ahead == CharAt(s.readpos + 1)
      ended == [s EXCEPT !.over = TRUE]
      error == [s EXCEPT !.over = TRUE, !.ret = -1]
      quoted == IF ch = s.quote THEN Read(s, 1, NUL) ELSE Read(Put(s, ch), 1, s.quote)
      unquoted == CASE ch \in {SQuote, DQuote} -> Read(s, 1, ch)
                    [] ch = Escape -> IF ahead = NUL THEN error ELSE Read(Put(s, ahead), 2, NUL)
                    [] ch \in {Blank, Separator} -> ended
                    [] OTHER -> Read(Put(s, ch), 1, NUL)
  IN  IF s.over THEN s
      ELSE IF s.quote = NUL THEN IF ch = NUL THEN ended ELSE unquoted
      ELSE IF ch = NUL THEN error ELSE quoted

read_token(i) ==
  Times(ReadRound, [readpos |-> i, tok |-> <<>>, quote |-> NUL, ret |-> 0, over |-> FALSE],
        Len(linebuf) + 1)

SkipBlanks(i) == CHOOSE j \in i .. Len(linebuf) + 1 :
                   CharAt(j) # Blank /\ \A k \in i .. j - 1 : CharAt(k) = Blank

(* msh_parse_line on the rest of the line that starts at start: next is    *)
(* the index it returns, 0 for a null pointer.  argv holds argc words; the *)
(* word at argbuf is written by the first read_token and is left as it was *)
(* when there is nothing to read.                                          *)
ParseRound(s) ==
  LET t == read_token(SkipBlanks(s.readpos))
      stop == CharAt(t.readpos)
      fatal == stop \notin {NUL, Separator} /\ (t.ret = 0 \/ stop # Blank)
  IN  IF s.over THEN s
      ELSE IF CharAt(s.readpos) = NUL THEN [s EXCEPT !.over = TRUE]
      ELSE [readpos |-> t.readpos,
            argv |-> IF t.ret > 0 THEN Append(s.argv, t.tok) ELSE s.argv,
            argv0 |-> IF s.argv = <<>> THEN t.tok ELSE s.argv0,
            over |-> t.ret <= 0 \/ stop # Blank,
            next |-> IF t.ret < 0 \/ fatal THEN 0
                     ELSE IF stop = Separator THEN t.readpos + 1 ELSE s.next]

msh_parse_line(start) ==
  Times(ParseRound, [readpos |-> start, argv |-> <<>>, argv0 |-> argv0, over |-> FALSE, next |-> start],
        Len(linebuf) + 1)

-----------------------------------------------------------------------------
ShellInit ==
  /\ \/ at = "edit" /\ linebuf = <<>>
     \/ at = "sentence" /\ linebuf \in Lines
  /\ linebufp = 1 /\ argv0 = <<>> /\ ran = <<>>

Init == LineInit /\ ShellInit

Typing == at = "edit" /\ Keys /\ UNCHANGED shellvars

(* msh_get_cmdline returns; an empty line is asked for again.              *)
GetCmdline ==
  /\ at = "edit"
  /\ \/ Enter /\ linebuf' = StringAt(CmdLine.buf, 0)
     \/ Discard /\ linebuf' = <<>>
  /\ at' = IF linebuf' = <<>> THEN "edit" ELSE "sentence"
  /\ linebufp' = 1
  /\ UNCHANGED <<argv0, ran>>

(* The inner loop is left; argbuf is overwritten by the first sentence of  *)
(* the next line before it is looked at, so its content is dropped here.   *)
LineDone == at' = "edit" /\ linebuf' = <<>> /\ linebufp' = 1 /\ argv0' = <<>> /\ ran' = <<>>

(* The functions called for a sentence: the board's command of that name,  *)
(* then, when that fails or there is none, the shell's own.                *)
Calls(argv) ==
  LET user == IF argv # <<>> /\ argv[1] \in UserCommands THEN {<<"user", argv>>} ELSE {}
      builtin == IF argv # <<>> /\ argv[1] \in BuiltinCommands THEN {<<"builtin", argv>>} ELSE {}
      seq(S) == IF S = {} THEN <<>> ELSE <<CHOOSE c \in S : TRUE>>
  IN  {seq(user) \o seq(builtin)} \cup (IF user = {} THEN {} ELSE {seq(user)})

(* Mutant of Stops: goes on after an empty sentence. *)
StopsOnError(p) == p.next = 0

Stops(p) == p.next = 0 \/ p.argv0 = <<>>

(* One round of the inner loop of syterkit_shell_attach.                   *)
Sentence ==
  /\ at = "sentence"
  /\ LET p == msh_parse_line(linebufp)
         stop == Stops(p)
     IN  /\ IF stop \/ p.next = linebufp
            THEN at' = "done" /\ UNCHANGED <<linebufp, argv0>>
            ELSE at' = "sentence" /\ linebufp' = p.next /\ argv0' = p.argv0
         /\ \E calls \in Calls(p.argv) :
              ran' = IF stop \/ calls = <<>> THEN ran ELSE Append(ran, calls)
  /\ UNCHANGED <<linebuf, linevars>>

Again == at = "done" /\ LineDone /\ UNCHANGED linevars

Next == Typing \/ GetCmdline \/ Sentence \/ Again

Spec == Init /\ [][Next]_vars

-----------------------------------------------------------------------------
(* What a line means, said without the reader: every character is inside   *)
(* quotes (mode q), behind an escape, or plain; plain separators bound the *)
(* sentences, plain blanks the words, and a word is its literal characters.*)
NextMode(mode, ch) ==
  CASE mode = Escape -> NUL
    [] mode \in {SQuote, DQuote} -> IF ch = mode THEN NUL ELSE mode
    [] OTHER -> IF ch \in {SQuote, DQuote, Escape} THEN ch ELSE NUL

Mode(str) ==
  LET f[i \in 1 .. Len(str) + 1] == IF i = 1 THEN NUL ELSE NextMode(f[i - 1], str[i - 1])
  IN  f

Plain(str, ch) ==
  LET mode == Mode(str) IN {i \in 1 .. Len(str) : mode[i] = NUL /\ str[i] = ch}

Literal(str) ==
  LET mode == Mode(str)
  IN  {i \in 1 .. Len(str) : \/ mode[i] = Escape
                             \/ mode[i] \in {SQuote, DQuote} /\ str[i] # mode[i]
                             \/ mode[i] = NUL /\ str[i] \notin {SQuote, DQuote, Escape}}

(* The values of f at the indices of S, in ascending order.                *)
Only(S) == CHOOSE x \in S : TRUE
Along(f, S) ==
  [k \in 1 .. Cardinality(S) |-> f[Only({x \in S : Cardinality({y \in S : y < x}) = k - 1})]]

(* The word that starts at i, and the words of the sentence that starts    *)
(* at a.                                                                   *)
Word(str, i) ==
  LET ends == Plain(str, Blank) \cup Plain(str, Separator)
  IN  Along(str, {j \in Literal(str) : i <= j /\ \A k \in i .. j : k \notin ends})

WordStarts(str, a) ==
  LET blanks == Plain(str, Blank)
      separators == Plain(str, Separator)
  IN  {i \in a .. Len(str) : /\ i \notin blanks /\ (i = a \/ i - 1 \in blanks)
                             /\ \A k \in a .. i : k \notin separators}

Words(str, a) == Along([i \in 1 .. Len(str) |-> Word(str, i)], WordStarts(str, a))

SentenceStarts(str) == {1} \cup {i + 1 : i \in Plain(str, Separator)}

(* A separator ends the sentence, or the line does outside quotes.         *)
Ended(str, a) == (\E i \in Plain(str, Separator) : a <= i) \/ Mode(str)[Len(str) + 1] = NUL

Fine(str, a) == Ended(str, a) /\ Words(str, a) # <<>> /\ Words(str, a)[1] # <<>>

(* The sentences that lead to a call: those that name a command, up to one *)
(* that is empty, has an empty name or is not closed.                      *)
Called(str) ==
  {a \in SentenceStarts(str) :
     /\ \A b \in SentenceStarts(str) : b <= a => Fine(str, b)
     /\ Words(str, a)[1] \in UserCommands \cup BuiltinCommands}

(* Their words, as far as they start before p.                             *)
Meaning(str, p) ==
  Along([a \in SentenceStarts(str) |-> Words(str, a)], {a \in Called(str) : a < p})

(* The shell calls a command for every sentence of the line that names     *)
(* one, with the words the line gives it, in the order of the line, once,  *)
(* and none for what follows an empty sentence or a syntax error.  Before  *)
(* a line is done these are the sentences that start before linebufp.      *)
CommandsInOrder ==
  at # "edit" => [k \in DOMAIN ran |-> ran[k][1][2]]
                   = Meaning(linebuf, IF at = "done" THEN Len(linebuf) + 2 ELSE linebufp)
=============================================================================

------------------------------ MODULE LineEdit ------------------------------
(***************************************************************************)
(* The line editor of the shell (src/cli/lineedit.c) and the ring of       *)
(* earlier lines (src/cli/history.c).                                      *)
(*                                                                         *)
(* buf is the array of the code, terminated by NUL and with whatever an    *)
(* earlier edit left after it; the strings that strcpy makes of it are     *)
(* sequences.  term is the line of the terminal that the output ends up    *)
(* on: what stands right of the prompt, and the column of its cursor.      *)
(*                                                                         *)
(* entered is not in the code: the lines entered, the newest first, as     *)
(* many as the ring can hold.                                              *)
(***************************************************************************)
EXTENDS Integers, Sequences, FiniteSets

CONSTANTS
  Chars,           \* bound: the printable characters typed, Blank apart
  Blank, NUL, BS,  \* ' ', '\0' and '\b'
  CmdlineCharMax,  \* MSH_CMDLINE_CHAR_MAX
  HistoryMax,      \* MSH_CMD_HISTORY_MAX
  NULL

ASSUME LineAssumption ==
  /\ CmdlineCharMax \in Nat /\ CmdlineCharMax > 1
  /\ HistoryMax \in Nat /\ HistoryMax > 0
  /\ NULL \notin Seq(Chars \cup {Blank})
  /\ NUL \notin Chars \cup {Blank} /\ BS \notin Chars \cup {Blank}

VARIABLES CmdLine, histnum, curline, history, histlast, histfull, entered

histvars == <<history, histlast, histfull, entered>>
linevars == <<CmdLine, histnum, curline, histvars>>

Slots == 0 .. CmdlineCharMax - 1
Empty == [i \in Slots |-> NUL]
Prompt == [cells |-> [i \in Slots |-> Blank], col |-> 0]

LineInit ==
  /\ CmdLine = [buf |-> Empty, pos |-> 0, linelen |-> 0, clipboard |-> <<>>, term |-> Prompt]
  /\ histnum = 0 /\ curline = <<>>
  /\ history = [i \in 0 .. HistoryMax - 1 |-> <<>>]
  /\ histlast = 0 /\ histfull = FALSE
  /\ entered = <<>>

-----------------------------------------------------------------------------
(* The string that starts at buf[i].                                       *)
StringAt(buf, i) ==
  LET end == CHOOSE n \in i .. CmdlineCharMax :
               /\ (n = CmdlineCharMax \/ buf[n] = NUL)
               /\ \A k \in i .. n - 1 : buf[k] # NUL
  IN  [k \in 1 .. end - i |-> buf[i + k - 1]]

Repeat(c, n) == [i \in 1 .. n |-> c]
BufFrom(buf, first, last) == [k \in 1 .. last - first + 1 |-> buf[first + k - 1]]

(* The terminal after the characters of out: printing moves the cursor to  *)
(* the right, backspace to the left.                                       *)
PutChar(t, c) ==
  IF c = BS THEN [t EXCEPT !.col = @ - 1]
  ELSE [cells |-> IF t.col \in Slots THEN [t.cells EXCEPT ![t.col] = c] ELSE t.cells,
        col |-> t.col + 1]

Typed(t, out) ==
  LET f[n \in 0 .. Len(out)] == IF n = 0 THEN t ELSE PutChar(f[n - 1], out[n])
  IN  f[Len(out)]

Times(Op(_), s, n) ==
  LET f[k \in 0 .. n] == IF k = 0 THEN s ELSE Op(f[k - 1]) IN f[n]

-----------------------------------------------------------------------------
(* The functions of lineedit.c, from one state of the line to the next.    *)
cmdline_clear(s) == [s EXCEPT !.buf = Empty, !.pos = 0, !.linelen = 0]

(* Mutant of Erased: blanks only up to the cursor. *)
ErasedToCursor(s) == Repeat(BS, s.pos) \o Repeat(Blank, s.pos) \o Repeat(BS, s.pos)

Erased(s) == Repeat(BS, s.pos) \o Repeat(Blank, s.linelen) \o Repeat(BS, s.linelen)

cmdline_kill(s) == cmdline_clear([s EXCEPT !.term = Typed(@, Erased(s))])

cmdline_set(s, str) ==
  LET k == cmdline_kill(s)
  IN  [k EXCEPT !.buf = [i \in Slots |-> IF i < Len(str) THEN str[i + 1] ELSE @[i]],
                !.pos = Len(str), !.linelen = Len(str), !.term = Typed(@, str)]

(* Mutant of Full: no room left for the NUL. *)
FullLate(s) == s.linelen >= CmdlineCharMax

Full(s) == s.linelen >= CmdlineCharMax - 1

cmdline_insert_char(s, c) ==
  LET buf == [i \in Slots |->
                CASE i = s.linelen + 1 -> NUL
                  [] i = s.pos -> c
                  [] i > s.pos /\ i <= s.linelen -> s.buf[i - 1]
                  [] OTHER -> s.buf[i]]
      tail == IF s.pos = s.linelen THEN <<>> ELSE StringAt(s.buf, s.pos)
  IN  IF Full(s) THEN s
      ELSE [s EXCEPT !.buf = buf, !.pos = @ + 1, !.linelen = @ + 1,
                     !.term = Typed(@, <<c>> \o tail \o Repeat(BS, s.linelen - s.pos))]

Closed(s, first) ==  \* buf with the character at first taken out
  [i \in Slots |-> CASE i = s.linelen - 1 -> NUL
                     [] i >= first /\ i < s.linelen - 1 -> s.buf[i + 1]
                     [] OTHER -> s.buf[i]]

cmdline_backspace(s) ==
  IF s.pos <= 0 THEN s
  ELSE [s EXCEPT !.buf = Closed(s, s.pos - 1), !.pos = @ - 1, !.linelen = @ - 1,
                 !.term = Typed(@, <<BS>> \o BufFrom(s.buf, s.pos, s.linelen - 1) \o <<Blank>>
                                   \o Repeat(BS, s.linelen + 1 - s.pos))]

cmdline_delete(s) ==
  IF s.linelen <= s.pos THEN s
  ELSE [s EXCEPT !.buf = Closed(s, s.pos), !.linelen = @ - 1,
                 !.term = Typed(@, BufFrom(s.buf, s.pos + 1, s.linelen - 1) \o <<Blank>>
                                   \o Repeat(BS, s.linelen - s.pos))]

cmdline_cursor_left(s) ==
  IF s.pos > 0 THEN [s EXCEPT !.pos = @ - 1, !.term = PutChar(@, BS)] ELSE s
cmdline_cursor_right(s) ==
  IF s.pos < s.linelen THEN [s EXCEPT !.pos = @ + 1, !.term = PutChar(@, s.buf[s.pos])] ELSE s
cmdline_cursor_linehead(s) == [s EXCEPT !.pos = 0, !.term = Typed(@, Repeat(BS, s.pos))]
cmdline_cursor_linetail(s) ==
  [s EXCEPT !.pos = s.linelen, !.term = Typed(@, BufFrom(s.buf, s.pos, s.linelen - 1))]
clear_screen(s) ==  \* MSH_KEYBIND_CLEAR
  cmdline_cursor_linetail([cmdline_cursor_linehead(s) EXCEPT !.term = Prompt])

(* Once the line is full the characters left are refused as well.          *)
cmdline_yank(s) ==
  LET f[k \in 0 .. Len(s.clipboard)] ==
        IF k = 0 THEN s ELSE cmdline_insert_char(f[k - 1], s.clipboard[k])
  IN  f[Len(s.clipboard)]

cmdline_killtail(s) ==
  LET n == s.linelen - s.pos
  IN  [s EXCEPT !.clipboard = StringAt(s.buf, s.pos),
                !.term = Typed(@, Repeat(Blank, n) \o Repeat(BS, n)),
                !.buf = [@ EXCEPT ![s.pos] = NUL], !.linelen = s.pos]

(* Backward from position p over the characters that are blank, or that    *)
(* are not.                                                                *)
Before(buf, p, blank) ==
  CHOOSE k \in 0 .. p : /\ \A i \in k .. p - 1 : (buf[i] = Blank) = blank
                        /\ (k = 0 \/ (buf[k - 1] = Blank) # blank)

cmdline_killword(s) ==
  LET start == Before(s.buf, Before(s.buf, s.pos, TRUE), FALSE)
      cut == [s EXCEPT !.clipboard = BufFrom(s.buf, start, s.pos - 1)]
  IN  IF s.pos = 0 THEN s ELSE Times(cmdline_backspace, cut, s.pos - start)

-----------------------------------------------------------------------------
(* The ring of earlier lines.                                              *)
(* Mutant of Wrapped: counts from the end of the array. *)
FromTheEnd(n) == HistoryMax - n - 1

Wrapped(n) == HistoryMax - (n - histlast) - 1

history_get(n) ==
  CASE ~histfull /\ n >= histlast -> NULL
    [] histfull /\ (n > HistoryMax - 1 \/ n < 0) -> NULL
    [] OTHER -> IF histlast > n THEN history[histlast - n - 1]
                ELSE history[Wrapped(n)]

Newest(str) ==
  LET all == <<str>> \o entered
  IN  SubSeq(all, 1, IF Len(all) > HistoryMax THEN HistoryMax ELSE Len(all))

history_append(str) ==
  IF Len(str) >= CmdlineCharMax \/ Len(str) <= 0 THEN UNCHANGED histvars
  ELSE /\ history' = [history EXCEPT ![histlast] = str]
       /\ entered' = Newest(str)
       /\ IF histlast >= HistoryMax - 1
          THEN histfull' = TRUE /\ histlast' = 0
          ELSE histlast' = histlast + 1 /\ UNCHANGED histfull

-----------------------------------------------------------------------------
(* The keys of cursor_inputchar.                                           *)
Key(s) == CmdLine' = s /\ UNCHANGED <<histnum, curline, histvars>>

Printable == \E c \in Chars \cup {Blank} :
               CmdLine.pos < CmdlineCharMax - 1 /\ Key(cmdline_insert_char(CmdLine, c))
Tab == Key(cmdline_insert_char(CmdLine, Blank))
Backspace == Key(cmdline_backspace(CmdLine))
Delete == Key(cmdline_delete(CmdLine))
KillLine == Key(cmdline_kill(CmdLine))
Clear == Key(clear_screen(CmdLine))
CurLeft == Key(cmdline_cursor_left(CmdLine))
CurRight == Key(cmdline_cursor_right(CmdLine))
LineHead == Key(cmdline_cursor_linehead(CmdLine))
LineTail == Key(cmdline_cursor_linetail(CmdLine))
Yank == Key(cmdline_yank(CmdLine))
KillTail == Key(cmdline_killtail(CmdLine))
KillWord == Key(cmdline_killword(CmdLine))

(* Mutant of SetAside: also sets an older line aside. *)
ShownLine == StringAt(CmdLine.buf, 0)

SetAside == IF histnum = 0 THEN StringAt(CmdLine.buf, 0) ELSE curline

HistPrev ==
  /\ curline' = SetAside
  /\ LET str == history_get(histnum)
     IN  IF str = NULL THEN UNCHANGED <<CmdLine, histnum>>
         ELSE CmdLine' = cmdline_set(CmdLine, str) /\ histnum' = histnum + 1
  /\ UNCHANGED histvars

HistNext ==
  /\ LET str == IF histnum = 1 THEN curline
                ELSE IF histnum > 1 THEN history_get(histnum - 2) ELSE NULL
     IN  IF str = NULL THEN UNCHANGED <<CmdLine, histnum>>
         ELSE CmdLine' = cmdline_set(CmdLine, str) /\ histnum' = histnum - 1
  /\ UNCHANGED <<curline, histvars>>

(* The end of msh_get_cmdline: the line goes to the history and to the     *)
(* caller, and the next call starts with a clear line after the prompt.    *)
NewLine(str) ==
  /\ history_append(str)
  /\ histnum' = 0
  /\ CmdLine' = [cmdline_clear(CmdLine) EXCEPT !.term = Prompt]
  /\ UNCHANGED curline

Keys == Printable \/ Tab \/ Backspace \/ Delete \/ KillLine \/ Clear \/ CurLeft \/ CurRight
        \/ LineHead \/ LineTail \/ Yank \/ KillTail \/ KillWord \/ HistPrev \/ HistNext
Enter == NewLine(StringAt(CmdLine.buf, 0))
Discard == NewLine(StringAt(cmdline_clear(CmdLine).buf, 0))

LineNext == Keys \/ Enter \/ Discard
LineSpec == LineInit /\ [][LineNext]_linevars

-----------------------------------------------------------------------------
(* The buffer is a string of linelen characters that fits with its NUL,    *)
(* with the cursor in it, and what the clipboard and curline hold fits     *)
(* the arrays they are copied to: no edit writes past the end of an array. *)
BufferSound ==
  /\ CmdLine.pos \in 0 .. CmdLine.linelen
  /\ CmdLine.linelen \in Slots
  /\ CmdLine.buf[CmdLine.linelen] = NUL
  /\ \A i \in 0 .. CmdLine.linelen - 1 : CmdLine.buf[i] \in Chars \cup {Blank}
  /\ Len(CmdLine.clipboard) < CmdlineCharMax /\ Len(curline) < CmdlineCharMax

(* The terminal shows the line, nothing of what was there before, and its  *)
(* cursor where the next character goes.                                   *)
ScreenShowsLine ==
  /\ CmdLine.term.col = CmdLine.pos
  /\ \A i \in Slots :
        CmdLine.term.cells[i] = IF i < CmdLine.linelen THEN CmdLine.buf[i] ELSE Blank

(* However often the ring has gone round, history_get(k) is the line       *)
(* entered k lines before the last one, and NULL when there is none.       *)
HistoryIsRecent ==
  \A k \in 0 .. HistoryMax :
     history_get(k) = IF k < Len(entered) THEN entered[k + 1] ELSE NULL

Contract == INSTANCE EditorContract WITH
  MaxLen <- CmdlineCharMax - 1, MaxPast <- HistoryMax,
  left <- BufFrom(CmdLine.buf, 0, CmdLine.pos - 1),
  right <- BufFrom(CmdLine.buf, CmdLine.pos, CmdLine.linelen - 1),
  clip <- CmdLine.clipboard, past <- entered, level <- histnum,
  draft <- IF histnum = 0 THEN <<>> ELSE curline

(* Editing, going back to earlier lines and entering lines do what the     *)
(* contract of the command line says.                                      *)
ImplementsEditor == Contract!Spec
=============================================================================

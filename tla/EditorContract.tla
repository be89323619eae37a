--------------------------- MODULE EditorContract ---------------------------
(***************************************************************************)
(* What the command line promises to the person typing: a line with a      *)
(* cursor in it, a clipboard, and the most recent lines to go back to and  *)
(* return from.  Going back sets the line being edited aside and coming    *)
(* forward again restores it.                                              *)
(***************************************************************************)
EXTENDS Integers, Sequences

CONSTANTS Chars, Blank, MaxLen, MaxPast

VARIABLES
  left, right,  \* the line, before and after the cursor
  clip,         \* what was cut last
  past,         \* the lines entered, the newest first
  level,        \* how many lines back the one shown is, 0: the new line
  draft         \* the new line, while an older one is shown

vars == <<left, right, clip, past, level, draft>>

line == left \o right
browsing == <<past, level, draft>>

Init == left = <<>> /\ right = <<>> /\ clip = <<>> /\ past = <<>> /\ level = 0 /\ draft = <<>>

Without(s, n) == SubSeq(s, 1, Len(s) - n)
Beyond(s, n) == SubSeq(s, n + 1, Len(s))
Upto(s, n) == SubSeq(s, 1, IF n < Len(s) THEN n ELSE Len(s))
Edit(l, r, c) == left' = l /\ right' = r /\ clip' = c /\ UNCHANGED browsing

(* What fits of s is inserted before the cursor.                           *)
Insert(s) == Edit(left \o Upto(s, MaxLen - Len(line)), right, clip)
Type == \E c \in Chars \cup {Blank} : Insert(<<c>>)
Yank == Insert(clip)

Backspace == left # <<>> /\ Edit(Without(left, 1), right, clip)
Delete == right # <<>> /\ Edit(left, Beyond(right, 1), clip)
KillLine == Edit(<<>>, <<>>, clip)
KillTail == Edit(left, <<>>, right)

(* The word before the cursor and the blanks between them are cut.         *)
KillWord ==
  \E n \in 1 .. Len(left) :
     LET cut == Beyond(left, Len(left) - n)
     IN  /\ \E k \in 0 .. n : /\ \A i \in 1 .. k : cut[i] # Blank
                             /\ \A i \in k + 1 .. n : cut[i] = Blank
                             /\ (n = Len(left) \/ (k > 0 /\ left[Len(left) - n] = Blank))
         /\ Edit(Without(left, n), right, cut)

Move == \E n \in {0, Len(left) - 1, Len(left) + 1, Len(line)} \cap (0 .. Len(line)) :
          Edit(Upto(line, n), Beyond(line, n), clip)

Show(s) == left' = s /\ right' = <<>> /\ UNCHANGED <<clip, past>>
HistPrev == /\ level < Len(past)
            /\ Show(past[level + 1])
            /\ draft' = IF level = 0 THEN line ELSE draft
            /\ level' = level + 1
HistNext == /\ level > 0
            /\ Show(IF level = 1 THEN draft ELSE past[level - 1])
            /\ draft' = IF level = 1 THEN <<>> ELSE draft
            /\ level' = level - 1

(* Entering a line starts an empty one; an empty line is not remembered.   *)
Enter == /\ past' = IF line = <<>> THEN past ELSE Upto(<<line>> \o past, MaxPast)
         /\ left' = <<>> /\ right' = <<>> /\ level' = 0 /\ draft' = <<>>
         /\ UNCHANGED clip
Discard == left' = <<>> /\ right' = <<>> /\ level' = 0 /\ draft' = <<>> /\ UNCHANGED <<clip, past>>

Next == Type \/ Yank \/ Backspace \/ Delete \/ KillLine \/ KillTail \/ KillWord \/ Move
        \/ HistPrev \/ HistNext \/ Enter \/ Discard

Spec == Init /\ [][Next]_vars
=============================================================================

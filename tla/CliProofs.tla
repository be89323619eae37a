----------------------------- MODULE CliProofs -----------------------------
(* The ring of earlier lines and the line itself are what they should be,  *)
(* for every length of the ring and of the lines, the editor does what its *)
(* contract says, and the shell runs of a line what the line means.        *)
(* First the ring; then what the terminal makes of a text and of           *)
(* backspaces, the line as the two texts around the cursor, each function  *)
(* of lineedit.c on these two, and the keys; then the reader of parse.c on *)
(* the modes of the characters, msh_parse_line on the words, and the loop  *)
(* of shell.c on the sentences.                                            *)
EXTENDS Shell, TLAPS, SequenceTheorems, FiniteSetTheorems, WellFoundedInduction

(* What the ring holds, with the indices of the array: until it is full    *)
(* the lines lie below histlast, afterwards everywhere, and going back     *)
(* from histlast meets them from the newest to the oldest.                 *)
Held == IF histfull THEN HistoryMax ELSE histlast
Slot(k) == IF histlast > k THEN histlast - k - 1 ELSE HistoryMax - (k - histlast) - 1
IsSequence(s) == \E S : s \in Seq(S)

RingType ==
  /\ histfull \in BOOLEAN
  /\ histlast \in 0 .. HistoryMax - 1
  /\ \E S : history \in [0 .. HistoryMax - 1 -> S]
  /\ IsSequence(entered)

RingHolds ==
  /\ Len(entered) = Held
  /\ \A k \in 0 .. Held - 1 : entered[k + 1] = history[Slot(k)]

RingInv == RingType /\ RingHolds

(* Newest puts the line in front of the others and keeps at most           *)
(* HistoryMax of them.                                                     *)
LEMMA NewestLines ==
  ASSUME IsSequence(entered), Len(entered) <= HistoryMax, NEW str
  PROVE  /\ IsSequence(Newest(str))
         /\ Len(Newest(str)) = IF Len(entered) = HistoryMax THEN HistoryMax ELSE Len(entered) + 1
         /\ Newest(str)[1] = str
         /\ \A k \in 1 .. Len(entered) : k < HistoryMax => Newest(str)[k + 1] = entered[k]
PROOF
  <1>0. HistoryMax \in Nat /\ HistoryMax > 0
    BY LineAssumption
  <1>1. PICK S : entered \in Seq(S)
    BY DEF IsSequence
  <1> DEFINE T == S \cup {str}
             all == <<str>> \o entered
             n == IF Len(all) > HistoryMax THEN HistoryMax ELSE Len(all)
  <1>2. /\ entered \in Seq(T) /\ <<str>> \in Seq(T)
        /\ Len(entered) \in Nat
    <2>1. \A i \in 1 .. Len(entered) : entered[i] \in T
      BY <1>1
    <2>2. Len(entered) \in Nat /\ DOMAIN entered = 1 .. Len(entered)
      BY <1>1
    <2>3. entered \in Seq(T)
      BY <1>1, <2>1, <2>2, IsASeq
    <2>. QED
      BY <2>2, <2>3
  <1>3. /\ all \in Seq(T)
        /\ Len(all) = Len(entered) + 1
        /\ all[1] = str
        /\ \A k \in 1 .. Len(entered) : all[k + 1] = entered[k]
    BY <1>2
  <1>4. n \in 1 .. Len(all)
    BY <1>0, <1>2, <1>3
  <1>5. Newest(str) = SubSeq(all, 1, n)
    BY DEF Newest
  <1>. HIDE DEF all, n, T
  <1>6. /\ SubSeq(all, 1, n) \in Seq(T)
        /\ Len(SubSeq(all, 1, n)) = n
        /\ \A i \in 1 .. n : SubSeq(all, 1, n)[i] = all[i]
    BY <1>3, <1>4, <1>2
  <1>7. n = IF Len(entered) = HistoryMax THEN HistoryMax ELSE Len(entered) + 1
    BY <1>0, <1>2, <1>3 DEF n
  <1>8. ASSUME NEW k \in 1 .. Len(entered), k < HistoryMax
        PROVE  Newest(str)[k + 1] = entered[k]
    <2>1. k + 1 \in 1 .. n
      BY <1>0, <1>2, <1>7, <1>8
    <2>. QED
      BY <2>1, <1>3, <1>5, <1>6
  <1>9. IsSequence(Newest(str))
    BY <1>5, <1>6 DEF IsSequence
  <1>. QED
    BY <1>3, <1>4, <1>5, <1>6, <1>7, <1>8, <1>9

(* Appending to the ring overwrites the oldest line, when it is full, and  *)
(* the slots of the others stay in the order of their age.                 *)
LEMMA AppendKeepsRing ==
  ASSUME RingInv, NEW str, history_append(str)
  PROVE  RingInv'
PROOF
  <1>0. HistoryMax \in Nat /\ HistoryMax > 0
    BY LineAssumption
  <1>1. CASE Len(str) >= CmdlineCharMax \/ Len(str) <= 0
    <2>1. UNCHANGED histvars
      BY <1>1 DEF history_append
    <2>. QED
      BY <2>1 DEF RingInv, RingType, RingHolds, Held, Slot, histvars
  <1>2. CASE ~(Len(str) >= CmdlineCharMax \/ Len(str) <= 0)
    <2>1. /\ history' = [history EXCEPT ![histlast] = str]
          /\ entered' = Newest(str)
          /\ IF histlast >= HistoryMax - 1
             THEN histfull' = TRUE /\ histlast' = 0
             ELSE histlast' = histlast + 1 /\ histfull' = histfull
      BY <1>2 DEF history_append
    <2>2. /\ histfull \in BOOLEAN /\ histlast \in 0 .. HistoryMax - 1
          /\ IsSequence(entered)
          /\ Len(entered) = Held /\ Held \in 0 .. HistoryMax
          /\ \A k \in 0 .. Held - 1 : entered[k + 1] = history[Slot(k)]
      BY <1>0 DEF RingInv, RingType, RingHolds, Held
    <2>3. /\ IsSequence(entered')
          /\ Len(entered') = IF Held = HistoryMax THEN HistoryMax ELSE Held + 1
          /\ entered'[1] = str
          /\ \A k \in 1 .. Held : k < HistoryMax => entered'[k + 1] = entered[k]
      BY <2>1, <2>2, <1>0, NewestLines
    <2>4. /\ Held' = IF Held = HistoryMax THEN HistoryMax ELSE Held + 1
          /\ histfull' \in BOOLEAN /\ histlast' \in 0 .. HistoryMax - 1
      <3>1. CASE histlast >= HistoryMax - 1
        <4>1. histfull' = TRUE /\ histlast' = 0
          BY <2>1, <3>1
        <4>2. Held' = HistoryMax
          BY <4>1 DEF Held
        <4>3. Held = HistoryMax \/ Held + 1 = HistoryMax
          BY <2>2, <3>1, <1>0 DEF Held
        <4>. QED
          BY <4>1, <4>2, <4>3, <1>0, <2>2
      <3>2. CASE ~(histlast >= HistoryMax - 1)
        <4>1. histfull' = histfull /\ histlast' = histlast + 1
          BY <2>1, <3>2
        <4>2. CASE histfull
          <5>1. Held = HistoryMax /\ Held' = HistoryMax
            BY <4>1, <4>2 DEF Held
          <5>. QED
            BY <4>1, <5>1, <2>2, <3>2, <1>0
        <4>3. CASE ~histfull
          <5>1. Held = histlast /\ Held' = histlast'
            BY <4>1, <4>3 DEF Held
          <5>. QED
            BY <4>1, <5>1, <2>2, <3>2, <1>0
        <4>. QED
          BY <4>2, <4>3
      <3>. QED
        BY <3>1, <3>2
    <2>5. PICK S : history \in [0 .. HistoryMax - 1 -> S]
      BY DEF RingInv, RingType
    <2>6. /\ history' \in [0 .. HistoryMax - 1 -> S \cup {str}]
          /\ history'[histlast] = str
          /\ \A i \in 0 .. HistoryMax - 1 : i # histlast => history'[i] = history[i]
      BY <2>1, <2>2, <2>5
    <2>7. RingType'
      BY <2>3, <2>4, <2>6 DEF RingType
    <2>8. ASSUME NEW k \in 0 .. Held' - 1
          PROVE  entered'[k + 1] = history'[Slot(k)']
      <3>1. CASE k = 0
        <4>1. Slot(0)' = histlast
          <5>1. \/ histlast' = 0 /\ histlast = HistoryMax - 1
                \/ histlast' = histlast + 1 /\ histlast < HistoryMax - 1
            BY <2>1, <2>2, <1>0
          <5>. QED
            BY <5>1, <2>2, <1>0 DEF Slot
        <4>. QED
          BY <3>1, <4>1, <2>3, <2>6
      <3>2. CASE k # 0
        <4>1. k \in 1 .. Held /\ k < HistoryMax /\ k - 1 \in 0 .. Held - 1 /\ k = (k - 1) + 1
          BY <3>2, <2>8, <2>4, <2>2, <1>0
        <4>2. entered'[k + 1] = entered[k]
          BY <4>1, <2>3
        <4>3. entered[k] = history[Slot(k - 1)]
          BY <4>1, <2>2
        <4>4. /\ Slot(k)' = Slot(k - 1) /\ Slot(k - 1) # histlast
              /\ Slot(k - 1) \in 0 .. HistoryMax - 1
          <5>1. \/ histlast' = 0 /\ histlast = HistoryMax - 1
                \/ histlast' = histlast + 1 /\ histlast < HistoryMax - 1
            BY <2>1, <2>2, <1>0
          <5>2. Held = HistoryMax \/ Held = histlast
            BY DEF Held
          <5>. QED
            BY <5>1, <5>2, <4>1, <2>2, <1>0 DEF Slot
        <4>. QED
          BY <4>2, <4>3, <4>4, <2>6
      <3>. QED
        BY <3>1, <3>2
    <2>9. RingHolds'
      BY <2>3, <2>4, <2>8 DEF RingHolds
    <2>. QED
      BY <2>7, <2>9 DEF RingInv
  <1>. QED
    BY <1>1, <1>2

(* Only the end of a line touches the ring.                                *)
LEMMA KeysKeepRing ==
  ASSUME Keys
  PROVE  UNCHANGED histvars
PROOF
  BY DEF Keys, Key, Printable, Tab, Backspace, Delete, KillLine, Clear, CurLeft, CurRight,
         LineHead, LineTail, Yank, KillTail, KillWord, HistPrev, HistNext, histvars

(* The ring is sound in every state the editor reaches.                    *)
THEOREM RingSound == LineSpec => []RingInv
PROOF
  <1>1. LineInit => RingInv
    <2> SUFFICES ASSUME LineInit PROVE RingInv
      OBVIOUS
    <2>1. entered = <<>> /\ histlast = 0 /\ histfull = FALSE
      BY DEF LineInit
    <2>2. <<>> \in Seq({}) /\ Len(<<>>) = 0
      OBVIOUS
    <2>3. history \in [0 .. HistoryMax - 1 -> {<<>>}]
      BY DEF LineInit
    <2>4. RingType
      <3>1. histfull \in BOOLEAN
        BY <2>1
      <3>2. histlast \in 0 .. HistoryMax - 1
        BY <2>1, LineAssumption
      <3>3. IsSequence(entered)
        BY <2>1, <2>2 DEF IsSequence
      <3>. QED
        BY <3>1, <3>2, <3>3, <2>3, Zenon DEF RingType
    <2>5. RingHolds
      BY <2>1, <2>2 DEF RingHolds, Held
    <2>. QED
      BY <2>4, <2>5 DEF RingInv
  <1>2. RingInv /\ [LineNext]_linevars => RingInv'
    <2> SUFFICES ASSUME RingInv, [LineNext]_linevars PROVE RingInv'
      OBVIOUS
    <2>1. CASE UNCHANGED histvars
      BY <2>1 DEF RingInv, RingType, RingHolds, Held, Slot, histvars
    <2>2. CASE Keys
      BY <2>1, <2>2, KeysKeepRing
    <2>3. CASE Enter
      BY <2>3, AppendKeepsRing DEF Enter, NewLine
    <2>4. CASE Discard
      BY <2>4, AppendKeepsRing DEF Discard, NewLine
    <2>5. CASE UNCHANGED linevars
      BY <2>1, <2>5 DEF linevars
    <2>. QED
      BY <2>2, <2>3, <2>4, <2>5 DEF LineNext
  <1>. QED
    BY <1>1, <1>2, PTL DEF LineSpec

(* A sound ring gives what HistoryIsRecent says.                           *)
LEMMA RingGives ==
  ASSUME RingInv
  PROVE  HistoryIsRecent
PROOF
  <1> SUFFICES ASSUME NEW k \in 0 .. HistoryMax
               PROVE  history_get(k) = IF k < Len(entered) THEN entered[k + 1] ELSE NULL
    BY DEF HistoryIsRecent
  <1>0. HistoryMax \in Nat /\ HistoryMax > 0
    BY LineAssumption
  <1>1. /\ histfull \in BOOLEAN /\ histlast \in 0 .. HistoryMax - 1
        /\ Len(entered) = Held
        /\ \A i \in 0 .. Held - 1 : entered[i + 1] = history[Slot(i)]
    BY DEF RingInv, RingType, RingHolds
  <1>2. CASE k < Held
    <2>1. k \in 0 .. Held - 1
      BY <1>0, <1>1, <1>2 DEF Held
    <2>2. ~(~histfull /\ k >= histlast) /\ ~(histfull /\ (k > HistoryMax - 1 \/ k < 0))
      BY <1>0, <1>1, <1>2 DEF Held
    <2>3. history_get(k) = history[Slot(k)]
      BY <2>2 DEF history_get, Slot, Wrapped
    <2>. QED
      BY <2>1, <2>3, <1>1, <1>2
  <1>3. CASE ~(k < Held)
    <2>1. CASE histfull
      <3>1. k > HistoryMax - 1
        BY <2>1, <1>0, <1>3 DEF Held
      <3>. QED
        BY <2>1, <3>1, <1>1, <1>3 DEF history_get
    <2>2. CASE ~histfull
      <3>1. k >= histlast
        BY <2>2, <1>0, <1>1, <1>3 DEF Held
      <3>. QED
        BY <2>2, <3>1, <1>1, <1>3 DEF history_get
    <2>. QED
      BY <2>1, <2>2
  <1>. QED
    BY <1>2, <1>3

(* HistoryIsRecent for every length of the ring: history_get(k) is the     *)
(* line entered k lines before the last one, and NULL when there is none.  *)
THEOREM LineHistoryIsRecent == LineSpec => []HistoryIsRecent
PROOF
  <1>1. RingInv => HistoryIsRecent
    BY RingGives
  <1>. QED
    BY <1>1, RingSound, PTL

-----------------------------------------------------------------------------
(* A set of naturals has a smallest element: induction, as the provers can *)
(* use it.                                                                 *)
LEMMA Smallest ==
  ASSUME NEW S \in SUBSET Nat, S # {}
  PROVE  \E m \in S : \A k \in S : m <= k
<1> DEFINE R == {ss \in Nat \X Nat : ss[1] < ss[2]}
<1>1. R = OpToRel(<, Nat)  BY DEF OpToRel
<1>2. IsWellFoundedOn(R, Nat)  BY <1>1, NatLessThanWellFounded
<1>3. PICK m \in S : \A k \in S : <<k, m>> \notin R
  <2> HIDE DEF R
  <2> QED  BY <1>2, WFMin
<1>4. \A k \in S : ~(k < m)  BY <1>3
<1> QED  BY <1>4

(* A set with 0 and with the successor of each of its elements below N has *)
(* all of 0 .. N.                                                          *)
LEMMA Climb ==
  ASSUME NEW N \in Nat, NEW S, 0 \in S, \A k \in 0 .. N - 1 : k \in S => k + 1 \in S
  PROVE  0 .. N \subseteq S
<1> DEFINE Missing == {k \in 0 .. N : k \notin S}
<1>1. CASE Missing = {}  BY <1>1
<1>2. CASE Missing # {}
  <2>1. PICK m \in Missing : \A k \in Missing : m <= k
    <3>1. Missing \in SUBSET Nat  OBVIOUS
    <3> HIDE DEF Missing
    <3> QED  BY <1>2, <3>1, Smallest
  <2>2. m \in 1 .. N  BY <2>1
  <2>3. m - 1 \in 0 .. N - 1 /\ m - 1 \notin Missing  BY <2>1, <2>2
  <2>4. m - 1 \in S  BY <2>3
  <2> QED  BY <2>1, <2>2, <2>3, <2>4
<1> QED  BY <1>1, <1>2

-----------------------------------------------------------------------------
(* What an output does to the terminal.                                    *)
Text == Chars \cup {Blank}
Output == Seq(Text \cup {BS})
Terminals == [cells : [Slots -> Text], col : Int]

(* The terminals after each of the first m characters, and after all.      *)
IsTypedTo(t, out, m, f) ==
  f = [n \in 0 .. m |-> IF n = 0 THEN t ELSE PutChar(f[n - 1], out[n])]
IsTyped(t, out, f) == IsTypedTo(t, out, Len(out), f)

(* There is one such function...                                           *)
LEMMA TypedUnique ==
  ASSUME NEW t, NEW out \in Output, NEW f, NEW g, IsTyped(t, out, f), IsTyped(t, out, g)
  PROVE  f = g
<1> DEFINE S == {n \in 0 .. Len(out) : f[n] = g[n]}
<1>1. Len(out) \in Nat  BY DEF Output
<1>2. /\ DOMAIN f = 0 .. Len(out) /\ DOMAIN g = 0 .. Len(out)
      /\ f = [n \in 0 .. Len(out) |-> f[n]] /\ g = [n \in 0 .. Len(out) |-> g[n]]
      /\ f[0] = t /\ g[0] = t
      /\ \A n \in 1 .. Len(out) : /\ f[n] = PutChar(f[n - 1], out[n])
                                  /\ g[n] = PutChar(g[n - 1], out[n])
  BY <1>1 DEF IsTyped, IsTypedTo
<1>3. 0 \in S  BY <1>1, <1>2
<1>4. \A n \in 0 .. Len(out) - 1 : n \in S => n + 1 \in S
  <2> SUFFICES ASSUME NEW n \in 0 .. Len(out) - 1, f[n] = g[n]  PROVE f[n + 1] = g[n + 1]
    BY <1>1
  <2>1. n + 1 \in 1 .. Len(out) /\ (n + 1) - 1 = n  BY <1>1
  <2> QED  BY <1>2, <2>1
<1>5. 0 .. Len(out) \subseteq S
  <2> HIDE DEF S
  <2> QED  BY <1>1, <1>3, <1>4, Climb
<1> QED  BY <1>2, <1>5

(* ... so that Typed is the last value of any of them.                     *)
LEMMA TypedIs ==
  ASSUME NEW t, NEW out \in Output, NEW f, IsTyped(t, out, f)
  PROVE  Typed(t, out) = f[Len(out)]
<1>1. PICK g : g = CHOOSE h : IsTyped(t, out, h)  OBVIOUS
<1>2. IsTyped(t, out, g)  BY <1>1
<1>3. g = f  BY <1>2, TypedUnique
<1>4. Typed(t, out) = g[Len(out)]  BY <1>1 DEF Typed, IsTyped, IsTypedTo
<1> QED  BY <1>3, <1>4

(* Every output has its terminals.                                         *)
LEMMA TypedExists ==
  ASSUME NEW t, NEW out \in Output
  PROVE  \E f : IsTyped(t, out, f)
<1> DEFINE S == {m \in 0 .. Len(out) : \E f : IsTypedTo(t, out, m, f)}
<1>1. Len(out) \in Nat  BY DEF Output
<1>2. 0 \in S
  <2>1. IsTypedTo(t, out, 0, [n \in 0 .. 0 |-> t])  BY DEF IsTypedTo
  <2> QED  BY <1>1, <2>1
<1>3. \A m \in 0 .. Len(out) - 1 : m \in S => m + 1 \in S
  <2> SUFFICES ASSUME NEW m \in 0 .. Len(out) - 1, NEW f, IsTypedTo(t, out, m, f)
               PROVE  \E g : IsTypedTo(t, out, m + 1, g)
    BY <1>1
  <2> DEFINE g == [n \in 0 .. m + 1 |-> IF n <= m THEN f[n] ELSE PutChar(f[m], out[m + 1])]
  <2>1. m \in Nat /\ m + 1 \in 0 .. Len(out)  BY <1>1
  <2>2. \A n \in 0 .. m : f[n] = IF n = 0 THEN t ELSE PutChar(f[n - 1], out[n])
    BY DEF IsTypedTo
  <2>3. \A n \in 0 .. m + 1 : g[n] = IF n = 0 THEN t ELSE PutChar(g[n - 1], out[n])
    <3> SUFFICES ASSUME NEW n \in 0 .. m + 1
                 PROVE  g[n] = IF n = 0 THEN t ELSE PutChar(g[n - 1], out[n])
      OBVIOUS
    <3>1. CASE n <= m
      <4>1. n # 0 => n - 1 \in 0 .. m + 1 /\ n - 1 <= m  BY <2>1, <3>1
      <4>2. n \in 0 .. m  BY <2>1, <3>1
      <4> QED  BY <2>2, <3>1, <4>1, <4>2
    <3>2. CASE ~(n <= m)
      <4>1. n = m + 1 /\ n # 0 /\ n - 1 = m /\ m \in 0 .. m + 1 /\ m <= m  BY <2>1, <3>2
      <4> QED  BY <3>2, <4>1
    <3> QED  BY <3>1, <3>2
  <2>4. IsTypedTo(t, out, m + 1, g)
    <3>1. g = [n \in 0 .. m + 1 |-> g[n]]  OBVIOUS
    <3> HIDE DEF g
    <3> QED  BY <2>3, <3>1 DEF IsTypedTo
  <2> QED  BY <2>4
<1>4. 0 .. Len(out) \subseteq S
  <2> HIDE DEF S
  <2> QED  BY <1>1, <1>2, <1>3, Climb
<1>5. Len(out) \in S  BY <1>1, <1>4
<1> QED  BY <1>5 DEF IsTyped
(* Outputs follow one another.                                             *)
LEMMA TypedConcat ==
  ASSUME NEW t, NEW a \in Output, NEW b \in Output
  PROVE  a \o b \in Output /\ Typed(t, a \o b) = Typed(Typed(t, a), b)
<1>1. /\ Len(a) \in Nat /\ Len(b) \in Nat /\ a \o b \in Output
      /\ Len(a \o b) = Len(a) + Len(b)
      /\ \A n \in 1 .. Len(a) : (a \o b)[n] = a[n]
      /\ \A n \in 1 .. Len(b) : (a \o b)[Len(a) + n] = b[n]
  BY DEF Output
<1>2. PICK c : c = a \o b  OBVIOUS
<1>3. PICK f : IsTyped(t, c, f)  BY <1>1, <1>2, TypedExists
<1>4. /\ \A n \in 0 .. Len(a) + Len(b) : f[n] = IF n = 0 THEN t ELSE PutChar(f[n - 1], c[n])
  BY <1>1, <1>2, <1>3 DEF IsTyped, IsTypedTo
<1> DEFINE g == [n \in 0 .. Len(a) |-> f[n]]
           h == [n \in 0 .. Len(b) |-> f[Len(a) + n]]
<1>5. IsTyped(t, a, g)
  <2>1. ASSUME NEW n \in 0 .. Len(a)
        PROVE  g[n] = IF n = 0 THEN t ELSE PutChar(g[n - 1], a[n])
    <3>1. n \in 0 .. Len(a) + Len(b) /\ (n # 0 => n \in 1 .. Len(a) /\ n - 1 \in 0 .. Len(a))
      BY <1>1
    <3> QED  BY <1>1, <1>2, <1>4, <3>1
  <2>2. g = [n \in 0 .. Len(a) |-> g[n]]  OBVIOUS
  <2> HIDE DEF g
  <2> QED  BY <2>1, <2>2 DEF IsTyped, IsTypedTo
<1>6. IsTyped(f[Len(a)], b, h)
  <2>1. ASSUME NEW n \in 0 .. Len(b)
        PROVE  h[n] = IF n = 0 THEN f[Len(a)] ELSE PutChar(h[n - 1], b[n])
    <3>1. CASE n = 0  BY <1>1, <3>1
    <3>2. CASE n # 0
      <4>1. /\ Len(a) + n \in 0 .. Len(a) + Len(b) /\ Len(a) + n # 0
            /\ n \in 1 .. Len(b) /\ n - 1 \in 0 .. Len(b)
            /\ (Len(a) + n) - 1 = Len(a) + (n - 1)
        BY <1>1, <3>2
      <4>2. f[Len(a) + n] = PutChar(f[(Len(a) + n) - 1], c[Len(a) + n])  BY <1>4, <4>1
      <4>3. c[Len(a) + n] = b[n]  BY <1>1, <1>2, <4>1
      <4> QED  BY <3>2, <4>1, <4>2, <4>3
    <3> QED  BY <3>1, <3>2
  <2>2. h = [n \in 0 .. Len(b) |-> h[n]]  OBVIOUS
  <2> HIDE DEF h
  <2> QED  BY <2>1, <2>2 DEF IsTyped, IsTypedTo
<1>7. g[Len(a)] = f[Len(a)] /\ h[Len(b)] = f[Len(a) + Len(b)]  BY <1>1
<1> HIDE DEF g, h
<1>8. Typed(t, a) = f[Len(a)]  BY <1>5, <1>7, TypedIs
<1>9. Typed(f[Len(a)], b) = f[Len(a) + Len(b)]  BY <1>6, <1>7, TypedIs
<1>10. Typed(t, c) = f[Len(a) + Len(b)]  BY <1>1, <1>2, <1>3, TypedIs
<1> QED  BY <1>1, <1>2, <1>8, <1>9, <1>10

-----------------------------------------------------------------------------
(* u written over the cells from column c on.                              *)
Over(cells, c, u) ==
  [i \in Slots |-> IF c <= i /\ i < c + Len(u) THEN u[i - c + 1] ELSE cells[i]]

(* Text and backspaces are output, and neither is the other.               *)
LEMMA Outputs ==
  /\ \A u \in Seq(Text) : u \in Output
  /\ \A n \in Nat : Repeat(BS, n) \in Output /\ Len(Repeat(BS, n)) = n
  /\ BS \notin Text
<1>1. \A u \in Seq(Text) : u \in Output
  BY DEF Output
<1>2. ASSUME NEW n \in Nat  PROVE Repeat(BS, n) \in Output /\ Len(Repeat(BS, n)) = n
  BY <1>2 DEF Repeat, Output
<1> QED  BY <1>1, <1>2, LineAssumption DEF Text

(* The end of an interval, one less.                                       *)
LEMMA OneMore ==
  ASSUME NEW i \in Int, NEW c \in Int, NEW n \in Int, i # c + (n - 1)
  PROVE  i < c + n <=> i < c + (n - 1)
OBVIOUS

(* What printing text does.                                                *)
LEMMA TypedText ==
  ASSUME NEW t \in Terminals, NEW u \in Seq(Text)
  PROVE  /\ Typed(t, u) \in Terminals
         /\ Typed(t, u) = [cells |-> Over(t.cells, t.col, u), col |-> t.col + Len(u)]
<1>0. u \in Output /\ BS \notin Text  BY Outputs
<1>1. /\ Len(u) \in Nat /\ \A n \in 1 .. Len(u) : u[n] \in Text
      /\ t.col \in Int /\ t.cells \in [Slots -> Text] /\ t = [cells |-> t.cells, col |-> t.col]
      /\ Slots \subseteq Int
  BY DEF Terminals, Slots
<1> DEFINE cells(n) == [i \in Slots |-> IF t.col <= i /\ i < t.col + n THEN u[i - t.col + 1]
                                        ELSE t.cells[i]]
           f == [n \in 0 .. Len(u) |-> [cells |-> cells(n), col |-> t.col + n]]
<1>2. ASSUME NEW n \in 0 .. Len(u)
      PROVE  f[n] = IF n = 0 THEN t ELSE PutChar(f[n - 1], u[n])
  <2>1. CASE n = 0
    <3>1. cells(0) = t.cells  BY <1>1
    <3> QED  BY <1>1, <2>1, <3>1
  <2>2. CASE n # 0
    <3>1. n - 1 \in 0 .. Len(u) /\ n \in 1 .. Len(u) /\ n - 1 \in Nat /\ n \in Nat
      BY <1>1, <2>2
    <3>2. u[n] # BS  BY <1>0, <1>1, <3>1
    <3>3. /\ f[n - 1] = [cells |-> cells(n - 1), col |-> t.col + (n - 1)]
          /\ f[n] = [cells |-> cells(n), col |-> t.col + n]
      BY <3>1
    <3>4. /\ f[n - 1].cells = cells(n - 1)
          /\ f[n - 1].col = t.col + (n - 1)
      BY <3>3
    <3>5. cells(n) = IF t.col + (n - 1) \in Slots
                     THEN [cells(n - 1) EXCEPT ![t.col + (n - 1)] = u[n]] ELSE cells(n - 1)
      <4>1. CASE t.col + (n - 1) \in Slots
        <5>1. ASSUME NEW i \in Slots
              PROVE  cells(n)[i] = [cells(n - 1) EXCEPT ![t.col + (n - 1)] = u[n]][i]
          <6>1. CASE i = t.col + (n - 1)
            <7>1. t.col <= i /\ i < t.col + n /\ i - t.col + 1 = n  BY <1>1, <3>1, <6>1
            <7> QED  BY <6>1, <7>1
          <6>2. CASE i # t.col + (n - 1)
            <7>1. i \in Int  BY <1>1
            <7>2. i < t.col + n <=> i < t.col + (n - 1)  BY <1>1, <3>1, <6>2, <7>1, OneMore
            <7> QED  BY <6>2, <7>2
          <6> QED  BY <6>1, <6>2
        <5> QED  BY <4>1, <5>1
      <4>2. CASE t.col + (n - 1) \notin Slots
        <5>1. ASSUME NEW i \in Slots  PROVE cells(n)[i] = cells(n - 1)[i]
          <6>1. i # t.col + (n - 1)  BY <4>2
          <6>2. i \in Int  BY <1>1
          <6>3. i < t.col + n <=> i < t.col + (n - 1)  BY <1>1, <3>1, <6>1, <6>2, OneMore
          <6> QED  BY <6>3
        <5> QED  BY <4>2, <5>1
      <4> QED  BY <4>1, <4>2
    <3>6. (t.col + (n - 1)) + 1 = t.col + n  BY <1>1, <3>1
    <3> HIDE DEF f, cells
    <3> QED  BY <2>2, <3>2, <3>3, <3>4, <3>5, <3>6 DEF PutChar
  <2> QED  BY <2>1, <2>2
<1>3. IsTyped(t, u, f)
  <2>1. f = [n \in 0 .. Len(u) |-> f[n]]  OBVIOUS
  <2> HIDE DEF f
  <2> QED  BY <1>2, <2>1 DEF IsTyped, IsTypedTo
<1>4. f[Len(u)] = [cells |-> cells(Len(u)), col |-> t.col + Len(u)]  BY <1>1
<1>5. cells(Len(u)) = Over(t.cells, t.col, u)  BY DEF Over
<1>6. Typed(t, u) = f[Len(u)]
  <2> HIDE DEF f
  <2> QED  BY <1>0, <1>3, TypedIs
<1>7. Over(t.cells, t.col, u) \in [Slots -> Text]
  <2>1. ASSUME NEW i \in Slots, t.col <= i, i < t.col + Len(u)
        PROVE  u[i - t.col + 1] \in Text
    <3>1. i - t.col + 1 \in 1 .. Len(u)  BY <1>1, <2>1
    <3> QED  BY <1>1, <3>1
  <2>2. \A i \in Slots : t.cells[i] \in Text  BY <1>1
  <2> QED  BY <2>1, <2>2 DEF Over
<1> HIDE DEF cells, f
<1> QED  BY <1>1, <1>4, <1>5, <1>6, <1>7 DEF Terminals

(* What backspaces do.                                                     *)
LEMMA TypedBack ==
  ASSUME NEW t \in Terminals, NEW n \in Nat
  PROVE  /\ Typed(t, Repeat(BS, n)) \in Terminals
         /\ Typed(t, Repeat(BS, n)) = [cells |-> t.cells, col |-> t.col - n]
<1>1. Repeat(BS, n) \in Output /\ Len(Repeat(BS, n)) = n  BY Outputs
<1>2. \A k \in 1 .. n : Repeat(BS, n)[k] = BS  BY DEF Repeat
<1>3. t.col \in Int /\ t.cells \in [Slots -> Text] /\ t = [cells |-> t.cells, col |-> t.col]
  BY DEF Terminals
<1> DEFINE f == [k \in 0 .. n |-> [cells |-> t.cells, col |-> t.col - k]]
<1>4. ASSUME NEW k \in 0 .. n
      PROVE  f[k] = IF k = 0 THEN t ELSE PutChar(f[k - 1], Repeat(BS, n)[k])
  <2>1. CASE k = 0  BY <1>3, <2>1
  <2>2. CASE k # 0
    <3>1. k - 1 \in 0 .. n /\ k \in 1 .. n  BY <2>2
    <3>2. PutChar(f[k - 1], BS) = [f[k - 1] EXCEPT !.col = @ - 1]  BY DEF PutChar
    <3>3. f[k - 1] = [cells |-> t.cells, col |-> t.col - (k - 1)]  BY <3>1
    <3>4. (t.col - (k - 1)) - 1 = t.col - k  BY <1>3, <3>1
    <3>5. f[k] = [cells |-> t.cells, col |-> t.col - k]  OBVIOUS
    <3> HIDE DEF f
    <3>6. [f[k - 1] EXCEPT !.col = @ - 1] = [cells |-> t.cells, col |-> (t.col - (k - 1)) - 1]
      BY <3>3
    <3> QED  BY <1>2, <2>2, <3>1, <3>2, <3>4, <3>5, <3>6
  <2> QED  BY <2>1, <2>2
<1>5. IsTyped(t, Repeat(BS, n), f)
  <2>1. f = [k \in 0 .. n |-> f[k]]  OBVIOUS
  <2> HIDE DEF f
  <2> QED  BY <1>1, <1>4, <2>1 DEF IsTyped, IsTypedTo
<1>6. f[n] = [cells |-> t.cells, col |-> t.col - n]  OBVIOUS
<1> HIDE DEF f
<1>7. Typed(t, Repeat(BS, n)) = f[n]  BY <1>1, <1>5, TypedIs
<1> QED  BY <1>3, <1>6, <1>7 DEF Terminals

-----------------------------------------------------------------------------
(* The line as two texts, l before the cursor and r behind it: what the    *)
(* buffer holds, what the cursor is and what the terminal shows.           *)
LineType == [buf : [Slots -> Text \cup {NUL}], pos : Nat, linelen : Slots,
             clipboard : Seq(Text), term : Terminals]

Shown(s) == /\ s.term.col = s.pos
            /\ \A i \in Slots : s.term.cells[i] = IF i < s.linelen THEN s.buf[i] ELSE Blank

Holds(s, l, r) ==
  /\ s \in LineType /\ l \in Seq(Text) /\ r \in Seq(Text)
  /\ s.pos = Len(l) /\ s.linelen = Len(l) + Len(r) /\ s.buf[s.linelen] = NUL
  /\ \A i \in 1 .. Len(l) : s.buf[i - 1] = l[i]
  /\ \A i \in 1 .. Len(r) : s.buf[Len(l) + i - 1] = r[i]
  /\ Shown(s)

(* The types of the parts.                                                 *)
LEMMA Parts ==
  ASSUME NEW s, NEW l, NEW r, Holds(s, l, r)
  PROVE  /\ s \in LineType /\ l \in Seq(Text) /\ r \in Seq(Text)
         /\ Len(l) \in Nat /\ Len(r) \in Nat
         /\ \A i \in 1 .. Len(l) : l[i] \in Text
         /\ \A i \in 1 .. Len(r) : r[i] \in Text
         /\ s.pos = Len(l) /\ s.linelen = Len(l) + Len(r) /\ s.linelen \in Slots
         /\ s.term \in Terminals /\ s.term.col = Len(l) /\ s.clipboard \in Seq(Text)
         /\ s.buf \in [Slots -> Text \cup {NUL}] /\ s.buf[s.linelen] = NUL
         /\ s.pos \in Slots
         /\ Slots = 0 .. CmdlineCharMax - 1 /\ CmdlineCharMax \in Nat
BY LineAssumption DEF Holds, LineType, Shown, Slots

(* The characters of the line, one by one.                                 *)
LEMMA Characters ==
  ASSUME NEW s, NEW l, NEW r, Holds(s, l, r)
  PROVE  \A i \in Slots : /\ i < Len(l) => s.buf[i] = l[i + 1]
                          /\ Len(l) <= i /\ i < Len(l) + Len(r) => s.buf[i] = r[i - Len(l) + 1]
                          /\ i < s.linelen => s.buf[i] \in Text
<1>1. PICK n \in Nat, m \in Nat : n = Len(l) /\ m = Len(r)  BY Parts
<1>2. s.linelen = n + m /\ Slots = 0 .. CmdlineCharMax - 1 /\ CmdlineCharMax \in Nat
  BY <1>1, Parts
<1>3. /\ \A i \in 1 .. n : s.buf[i - 1] = l[i] /\ l[i] \in Text
      /\ \A i \in 1 .. m : s.buf[n + i - 1] = r[i] /\ r[i] \in Text
  BY <1>1, Parts DEF Holds
<1> SUFFICES ASSUME NEW i \in Slots
             PROVE  /\ i < n => s.buf[i] = l[i + 1]
                    /\ n <= i /\ i < n + m => s.buf[i] = r[i - n + 1]
                    /\ i < s.linelen => s.buf[i] \in Text
  BY <1>1
<1>4. i \in Int /\ 0 <= i  BY <1>2
<1>5. ASSUME i < n  PROVE s.buf[i] = l[i + 1] /\ s.buf[i] \in Text
  <2>1. i + 1 \in 1 .. n /\ (i + 1) - 1 = i  BY <1>4, <1>5
  <2> QED  BY <1>3, <2>1
<1>6. ASSUME n <= i, i < n + m  PROVE s.buf[i] = r[i - n + 1] /\ s.buf[i] \in Text
  <2>1. i - n + 1 \in 1 .. m /\ n + (i - n + 1) - 1 = i  BY <1>4, <1>6
  <2> QED  BY <1>3, <2>1
<1> QED  BY <1>2, <1>4, <1>5, <1>6

(* u lies in the buffer from index a on: that is what BufFrom copies.      *)
Lies(buf, a, u) == \A i \in 1 .. Len(u) : buf[a + i - 1] = u[i]

(* A text that lies in the buffer is what BufFrom copies from there.       *)
LEMMA Copied ==
  ASSUME NEW buf, NEW a \in Nat, NEW u \in Seq(Text), Lies(buf, a, u)
  PROVE  BufFrom(buf, a, a + Len(u) - 1) = u
<1>0. Len(u) \in Nat  OBVIOUS
<1>1. (a + Len(u) - 1) - a + 1 = Len(u)  BY <1>0
<1>2. u = [i \in 1 .. Len(u) |-> u[i]]  OBVIOUS
<1>3. BufFrom(buf, a, a + Len(u) - 1) = [i \in 1 .. Len(u) |-> buf[a + i - 1]]
  BY <1>1 DEF BufFrom
<1> QED  BY <1>2, <1>3 DEF Lies

(* A string ends at the first NUL.                                         *)
LEMMA StringIs ==
  ASSUME NEW buf, NEW l \in Slots, NEW a \in 0 .. l, buf[l] = NUL,
         \A i \in a .. l - 1 : buf[i] \in Text
  PROVE  StringAt(buf, a) = BufFrom(buf, a, l - 1)
<1>0. CmdlineCharMax \in Nat /\ NUL \notin Text  BY LineAssumption DEF Text
<1>1. l \in a .. CmdlineCharMax /\ a \in Nat /\ l \in Nat  BY <1>0 DEF Slots
<1> DEFINE End(n) == /\ (n = CmdlineCharMax \/ buf[n] = NUL)
                     /\ \A k \in a .. n - 1 : buf[k] # NUL
<1>2. End(l)  BY <1>0
<1>3. ASSUME NEW n \in a .. CmdlineCharMax, End(n)  PROVE n = l
  <2>1. CASE n < l
    <3>1. n # CmdlineCharMax /\ n \in a .. l - 1  BY <1>0, <1>1, <1>3, <2>1 DEF Slots
    <3> QED  BY <1>0, <1>3, <3>1
  <2>2. CASE n > l
    <3>1. l \in a .. n - 1  BY <1>0, <1>1, <1>3, <2>2
    <3> QED  BY <1>3, <3>1
  <2> QED  BY <1>0, <1>1, <1>3, <2>1, <2>2
<1>4. (CHOOSE n \in a .. CmdlineCharMax : End(n)) = l
  <2> HIDE DEF End
  <2> QED  BY <1>1, <1>2, <1>3
<1>5. StringAt(buf, a) = [k \in 1 .. l - a |-> buf[a + k - 1]]  BY <1>4 DEF StringAt
<1>6. (l - 1) - a + 1 = l - a  BY <1>1
<1> QED  BY <1>5, <1>6 DEF BufFrom

(* The two texts are those of the contract's mapping, and the string at    *)
(* the cursor is the text behind it.                                       *)
LEMMA TextsRead ==
  ASSUME NEW s, NEW l, NEW r, Holds(s, l, r)
  PROVE  /\ BufFrom(s.buf, 0, s.pos - 1) = l
         /\ BufFrom(s.buf, s.pos, s.linelen - 1) = r
         /\ StringAt(s.buf, s.pos) = r
         /\ BufFrom(s.buf, 0, s.linelen - 1) = l \o r
         /\ StringAt(s.buf, 0) = l \o r
<1>1. /\ l \in Seq(Text) /\ r \in Seq(Text) /\ Len(l) \in Nat /\ Len(r) \in Nat
      /\ s.pos = Len(l) /\ s.linelen = Len(l) + Len(r) /\ s.linelen \in Slots
      /\ s.buf[s.linelen] = NUL
      /\ Slots = 0 .. CmdlineCharMax - 1 /\ CmdlineCharMax \in Nat
  BY Parts
<1>2. /\ \A i \in 1 .. Len(l) : s.buf[i - 1] = l[i]
      /\ \A i \in 1 .. Len(r) : s.buf[Len(l) + i - 1] = r[i]
  BY DEF Holds
<1>3. \A i \in 0 .. s.linelen - 1 : s.buf[i] \in Text
  <2>1. ASSUME NEW i \in 0 .. s.linelen - 1  PROVE s.buf[i] \in Text
    <3>1. i \in Slots /\ i < s.linelen  BY <1>1
    <3> QED  BY <3>1, Characters
  <2> QED  BY <2>1
<1>4. BufFrom(s.buf, 0, s.pos - 1) = l
  <2>1. Lies(s.buf, 0, l)
    <3>1. \A i \in 1 .. Len(l) : 0 + i - 1 = i - 1  BY <1>1
    <3> QED  BY <1>2, <3>1 DEF Lies
  <2>2. BufFrom(s.buf, 0, 0 + Len(l) - 1) = l  BY <1>1, <2>1, Copied
  <2> QED  BY <1>1, <2>2
<1>5. BufFrom(s.buf, s.pos, s.linelen - 1) = r
  <2>0. Lies(s.buf, Len(l), r)  BY <1>2 DEF Lies
  <2>1. BufFrom(s.buf, Len(l), Len(l) + Len(r) - 1) = r  BY <1>1, <2>0, Copied
  <2> QED  BY <1>1, <2>1
<1>6. StringAt(s.buf, s.pos) = BufFrom(s.buf, s.pos, s.linelen - 1)
  <2>1. s.pos \in 0 .. s.linelen  BY <1>1
  <2>2. \A i \in s.pos .. s.linelen - 1 : s.buf[i] \in Text  BY <1>1, <1>3
  <2> QED  BY <1>1, <2>1, <2>2, StringIs
<1>7. BufFrom(s.buf, 0, s.linelen - 1) = l \o r
  <2>1. /\ l \o r \in Seq(Text) /\ Len(l \o r) = Len(l) + Len(r)
        /\ \A i \in 1 .. Len(l) : (l \o r)[i] = l[i]
        /\ \A i \in 1 .. Len(r) : (l \o r)[Len(l) + i] = r[i]
    BY <1>1
  <2>2. ASSUME NEW i \in 1 .. Len(l) + Len(r)  PROVE s.buf[0 + i - 1] = (l \o r)[i]
    <3>1. CASE i <= Len(l)
      <4>1. i \in 1 .. Len(l) /\ 0 + i - 1 = i - 1  BY <1>1, <3>1
      <4> QED  BY <1>2, <2>1, <4>1
    <3>2. CASE i > Len(l)
      <4>1. /\ i - Len(l) \in 1 .. Len(r) /\ Len(l) + (i - Len(l)) = i
            /\ Len(l) + (i - Len(l)) - 1 = 0 + i - 1
        BY <1>1, <3>2
      <4> QED  BY <1>2, <2>1, <4>1
    <3> QED  BY <1>1, <3>1, <3>2
  <2>3. 0 + (Len(l) + Len(r)) - 1 = s.linelen - 1  BY <1>1
  <2>4. Lies(s.buf, 0, l \o r)  BY <2>1, <2>2 DEF Lies
  <2>5. BufFrom(s.buf, 0, 0 + Len(l \o r) - 1) = l \o r  BY <2>1, <2>4, Copied
  <2> QED  BY <2>1, <2>3, <2>5
<1>8. StringAt(s.buf, 0) = BufFrom(s.buf, 0, s.linelen - 1)
  <2>1. 0 \in 0 .. s.linelen  BY <1>1
  <2> QED  BY <1>1, <1>3, <2>1, StringIs
<1> QED  BY <1>4, <1>5, <1>6, <1>7, <1>8

-----------------------------------------------------------------------------
(* What the editor's outputs do to a terminal: go back, print u from       *)
(* column c on, over what is there, and go back again by n.                *)
Redraws(t, t2, c, u, n) ==
  t2 \in Terminals /\ t2.cells = Over(t.cells, c, u) /\ t2.col = c + Len(u) - n

(* Text and then backspaces.                                               *)
LEMMA Redrawn ==
  ASSUME NEW t \in Terminals, NEW u \in Seq(Text), NEW n \in Nat
  PROVE  Redraws(t, Typed(t, u \o Repeat(BS, n)), t.col, u, n)
<1>1. PICK v : v = Repeat(BS, n)  OBVIOUS
<1>2. u \in Output /\ v \in Output  BY <1>1, Outputs
<1>3. Typed(t, u \o v) = Typed(Typed(t, u), v)  BY <1>2, TypedConcat
<1>4. PICK t2 \in Terminals :
        t2 = Typed(t, u) /\ t2 = [cells |-> Over(t.cells, t.col, u), col |-> t.col + Len(u)]
  BY TypedText
<1>5. /\ Typed(t2, v) \in Terminals
      /\ Typed(t2, v) = [cells |-> t2.cells, col |-> t2.col - n]
  BY <1>1, TypedBack
<1>6. t2.cells = Over(t.cells, t.col, u) /\ t2.col = t.col + Len(u)  BY <1>4
<1>7. PICK t3 : t3 = Typed(t2, v)  OBVIOUS
<1>8. t3 \in Terminals /\ t3.cells = t2.cells /\ t3.col = t2.col - n  BY <1>5, <1>7
<1>9. t3 = Typed(t, u \o Repeat(BS, n))  BY <1>1, <1>3, <1>4, <1>7
<1>10. t3 \in Terminals /\ t3.cells = Over(t.cells, t.col, u)  BY <1>6, <1>8
<1>11. t3.col = t.col + Len(u) - n
  <2>1. t.col \in Int /\ Len(u) \in Int  BY DEF Terminals
  <2> QED  BY <1>6, <1>8, <2>1
<1>12. Redraws(t, t3, t.col, u, n)  BY <1>10, <1>11 DEF Redraws
<1> QED  BY <1>9, <1>12

(* The same with backspaces in front.                                      *)
LEMMA BackRedrawn ==
  ASSUME NEW t \in Terminals, NEW a \in Nat, NEW u \in Seq(Text), NEW n \in Nat
  PROVE  Redraws(t, Typed(t, Repeat(BS, a) \o u \o Repeat(BS, n)), t.col - a, u, n)
<1>1. PICK v, w : v = Repeat(BS, n) /\ w = Repeat(BS, a)  OBVIOUS
<1>2. u \in Output /\ v \in Output /\ w \in Output  BY <1>1, Outputs
<1>3. PICK t1 \in Terminals : t1 = Typed(t, w) /\ t1 = [cells |-> t.cells, col |-> t.col - a]
  BY <1>1, TypedBack
<1>4. t1.cells = t.cells /\ t1.col = t.col - a  BY <1>3
<1>5. w \o u \in Output /\ Typed(t, w \o u) = Typed(Typed(t, w), u)  BY <1>2, TypedConcat
<1>6. Typed(t, (w \o u) \o v) = Typed(Typed(t, w \o u), v)  BY <1>2, <1>5, TypedConcat
<1>7. Typed(t1, u \o v) = Typed(Typed(t1, u), v)  BY <1>2, TypedConcat
<1>8. Redraws(t1, Typed(t1, u \o Repeat(BS, n)), t1.col, u, n)  BY Redrawn
<1>9. Typed(t1, u \o Repeat(BS, n)) = Typed(t, Repeat(BS, a) \o u \o Repeat(BS, n))
  BY <1>1, <1>3, <1>5, <1>6, <1>7
<1> QED  BY <1>4, <1>8, <1>9 DEF Redraws

(* A line that is put together again.                                      *)
Filled(buf, l, r) ==
  \A i \in Slots : /\ i < Len(l) => buf[i] = l[i + 1]
                   /\ Len(l) <= i /\ i < Len(l) + Len(r) => buf[i] = r[i - Len(l) + 1]

(* A line that is filled with two texts holds them.                        *)
LEMMA Made ==
  ASSUME NEW s, NEW l \in Seq(Text), NEW r \in Seq(Text), s \in LineType,
         s.pos = Len(l), s.linelen = Len(l) + Len(r), s.buf[s.linelen] = NUL,
         Filled(s.buf, l, r), Shown(s)
  PROVE  Holds(s, l, r)
<1>1. PICK n \in Nat, m \in Nat : n = Len(l) /\ m = Len(r)  OBVIOUS
<1>2. n + m < CmdlineCharMax /\ Slots = 0 .. CmdlineCharMax - 1 /\ CmdlineCharMax \in Nat
  BY <1>1, LineAssumption DEF LineType, Slots
<1>3. ASSUME NEW i \in 1 .. n  PROVE s.buf[i - 1] = l[i]
  <2>1. i - 1 \in Slots /\ i - 1 < n /\ (i - 1) + 1 = i  BY <1>2, <1>3
  <2> QED  BY <1>1, <2>1 DEF Filled
<1>4. ASSUME NEW i \in 1 .. m  PROVE s.buf[n + i - 1] = r[i]
  <2>1. /\ n + i - 1 \in Slots /\ n <= n + i - 1 /\ n + i - 1 < n + m
        /\ (n + i - 1) - n + 1 = i
    BY <1>2, <1>4
  <2> QED  BY <1>1, <2>1 DEF Filled
<1> QED  BY <1>1, <1>3, <1>4 DEF Holds

(* A blank, or any character that is typed, is text.                       *)
LEMMA Texts ==
  /\ \A c \in Text : <<c>> \in Seq(Text) /\ Len(<<c>>) = 1 /\ <<c>>[1] = c
  /\ \A n \in Nat : /\ Repeat(Blank, n) \in Seq(Text) /\ Len(Repeat(Blank, n)) = n
                    /\ \A i \in 1 .. n : Repeat(Blank, n)[i] = Blank
  /\ <<>> \in Seq(Text) /\ Len(<<>>) = 0
<1>1. ASSUME NEW n \in Nat
      PROVE  /\ Repeat(Blank, n) \in Seq(Text) /\ Len(Repeat(Blank, n)) = n
             /\ \A i \in 1 .. n : Repeat(Blank, n)[i] = Blank
  <2>1. Repeat(Blank, n) = [i \in 1 .. n |-> Blank] /\ Blank \in Text  BY DEF Repeat, Text
  <2> QED  BY <2>1
<1> QED  BY <1>1

(* Two texts one after the other.                                          *)
LEMMA Joined ==
  ASSUME NEW u \in Seq(Text), NEW v \in Seq(Text)
  PROVE  /\ u \o v \in Seq(Text) /\ Len(u \o v) = Len(u) + Len(v)
         /\ Len(u) \in Nat /\ Len(v) \in Nat
         /\ \A i \in 1 .. Len(u) : (u \o v)[i] = u[i]
         /\ \A i \in 1 .. Len(v) : (u \o v)[Len(u) + i] = v[i]
OBVIOUS

-----------------------------------------------------------------------------
(* A character typed: it goes to the end of the text before the cursor.    *)
LEMMA Inserted ==
  ASSUME NEW s, NEW l, NEW r, Holds(s, l, r), NEW c \in Text, ~Full(s)
  PROVE  /\ Holds(cmdline_insert_char(s, c), l \o <<c>>, r)
         /\ cmdline_insert_char(s, c).clipboard = s.clipboard
<1>1. PICK n \in Nat, m \in Nat : n = Len(l) /\ m = Len(r)  BY Parts
<1>2. /\ s \in LineType /\ s.pos = n /\ s.linelen = n + m /\ s.term.col = n
      /\ l \in Seq(Text) /\ r \in Seq(Text) /\ s.term \in Terminals
      /\ s.buf \in [Slots -> Text \cup {NUL}]
      /\ Slots = 0 .. CmdlineCharMax - 1 /\ CmdlineCharMax \in Nat
  BY <1>1, Parts
<1>3. n + m + 1 \in Slots  BY <1>2 DEF Full
<1> DEFINE tail == IF s.pos = s.linelen THEN <<>> ELSE StringAt(s.buf, s.pos)
           buf == [i \in Slots |-> CASE i = s.linelen + 1 -> NUL
                                     [] i = s.pos -> c
                                     [] i > s.pos /\ i <= s.linelen -> s.buf[i - 1]
                                     [] OTHER -> s.buf[i]]
           out == <<c>> \o tail \o Repeat(BS, s.linelen - s.pos)
           t2 == Typed(s.term, out)
           s2 == [s EXCEPT !.buf = buf, !.pos = @ + 1, !.linelen = @ + 1, !.term = t2]
<1>4. cmdline_insert_char(s, c) = s2  BY DEF cmdline_insert_char
<1>5. tail = r
  <2>1. CASE m = 0
    <3>1. r = <<>>  BY <1>1, <1>2, <2>1, EmptySeq
    <3> QED  BY <1>2, <2>1, <3>1
  <2>2. CASE m # 0
    <3>1. s.pos # s.linelen  BY <1>2, <2>2
    <3> QED  BY <3>1, TextsRead
  <2> QED  BY <2>1, <2>2
<1>6. /\ \A i \in Slots : i < n => buf[i] = s.buf[i]
      /\ \A i \in Slots : i = n => buf[i] = c
      /\ \A i \in Slots : n < i /\ i <= n + m => buf[i] = s.buf[i - 1]
      /\ \A i \in Slots : i = n + m + 1 => buf[i] = NUL
      /\ buf \in [Slots -> Text \cup {NUL}]
  <2> SUFFICES ASSUME NEW i \in Slots
               PROVE  /\ i < n => buf[i] = s.buf[i]
                      /\ i = n => buf[i] = c
                      /\ n < i /\ i <= n + m => buf[i] = s.buf[i - 1]
                      /\ i = n + m + 1 => buf[i] = NUL
                      /\ (CASE i = s.linelen + 1 -> NUL
                            [] i = s.pos -> c
                            [] i > s.pos /\ i <= s.linelen -> s.buf[i - 1]
                            [] OTHER -> s.buf[i]) \in Text \cup {NUL}
    OBVIOUS
  <2>1. i \in Int /\ (n < i => i - 1 \in Slots)  BY <1>2
  <2> QED  BY <1>2, <2>1
<1>7. PICK u \in Seq(Text) : u = <<c>> \o r  BY <1>2, Texts, Joined
<1>8. Len(u) = m + 1 /\ u[1] = c /\ \A i \in 1 .. m : u[i + 1] = r[i]
  <2>1. <<c>> \in Seq(Text) /\ Len(<<c>>) = 1 /\ <<c>>[1] = c  BY Texts
  <2> QED  BY <1>1, <1>2, <1>7, <2>1
<1>9. t2 \in Terminals /\ t2.cells = Over(s.term.cells, n, u) /\ t2.col = n + 1
  <2>1. s.linelen - s.pos = m /\ n + (m + 1) - m = n + 1  BY <1>2
  <2>2. out = u \o Repeat(BS, m)  BY <1>5, <1>7, <2>1
  <2>3. PICK t3 : t3 = Typed(s.term, u \o Repeat(BS, m))  OBVIOUS
  <2>4. Redraws(s.term, t3, s.term.col, u, m)  BY <1>2, <2>3, Redrawn
  <2>5. t2 = t3  BY <2>2, <2>3
  <2> HIDE DEF t2
  <2> QED  BY <1>2, <1>8, <2>1, <2>4, <2>5 DEF Redraws
<1> HIDE DEF buf, t2
<1>10. /\ s2 \in LineType /\ s2.buf = buf /\ s2.pos = n + 1 /\ s2.linelen = n + m + 1
       /\ s2.term = t2 /\ s2.clipboard = s.clipboard
  <2>1. /\ s2.buf = buf /\ s2.pos = s.pos + 1 /\ s2.linelen = s.linelen + 1
        /\ s2.term = t2 /\ s2.clipboard = s.clipboard
    BY <1>2 DEF LineType
  <2>2. s.pos + 1 \in Nat /\ s.linelen + 1 \in Slots  BY <1>2, <1>3
  <2>3. s2 \in LineType  BY <1>2, <1>6, <1>9, <2>2 DEF LineType
  <2> HIDE DEF s2
  <2> QED  BY <1>2, <2>1, <2>3
<1> HIDE DEF s2
<1>11. PICK l2 \in Seq(Text) : l2 = l \o <<c>>  BY <1>2, Texts, Joined
<1>12. Len(l2) = n + 1 /\ l2[n + 1] = c /\ \A i \in 1 .. n : l2[i] = l[i]
  <2>1. <<c>> \in Seq(Text) /\ Len(<<c>>) = 1 /\ <<c>>[1] = c  BY Texts
  <2> QED  BY <1>1, <1>2, <1>11, <2>1
<1>13. ASSUME NEW i \in Slots
       PROVE  /\ i < n + 1 => buf[i] = l2[i + 1]
              /\ n + 1 <= i /\ i < (n + 1) + m => buf[i] = r[i - (n + 1) + 1]
              /\ n <= i /\ i <= n + m => t2.cells[i] = buf[i]
              /\ i < n \/ i > n + m => t2.cells[i] = s.term.cells[i]
  <2>1. i \in Int /\ 0 <= i  BY <1>2
  <2>2. ASSUME i < n  PROVE buf[i] = l2[i + 1] /\ buf[i] = s.buf[i]
    <3>1. i + 1 \in 1 .. n  BY <2>1, <2>2
    <3>2. s.buf[i] = l[i + 1]  BY <1>1, <2>2, Characters
    <3> QED  BY <1>6, <1>12, <2>2, <3>1, <3>2
  <2>3. ASSUME i = n  PROVE buf[i] = l2[i + 1] /\ u[i - n + 1] = buf[i]
    BY <1>6, <1>8, <1>12, <2>3
  <2>4. ASSUME n + 1 <= i, i < (n + 1) + m
        PROVE  buf[i] = r[i - (n + 1) + 1] /\ u[i - n + 1] = buf[i]
    <3>1. i - 1 \in Slots /\ n <= i - 1 /\ i - 1 < n + m /\ n < i /\ i <= n + m
      BY <1>2, <2>1, <2>4
    <3>2. s.buf[i - 1] = r[(i - 1) - n + 1]  BY <1>1, <3>1, Characters
    <3>3. i - n \in 1 .. m /\ (i - 1) - n + 1 = i - n /\ i - (n + 1) + 1 = i - n
      BY <2>1, <2>4
    <3> QED  BY <1>6, <1>8, <3>1, <3>2, <3>3
  <2>5. t2.cells[i] = IF n <= i /\ i < n + (m + 1) THEN u[i - n + 1] ELSE s.term.cells[i]
    BY <1>8, <1>9 DEF Over
  <2>6. i < n + 1 <=> (i < n \/ i = n)  BY <2>1
  <2>7. n <= i /\ i <= n + m => (i = n \/ (n + 1 <= i /\ i < (n + 1) + m)) /\ i < n + (m + 1)
    BY <2>1
  <2>8. i < n \/ i > n + m => ~(n <= i /\ i < n + (m + 1))  BY <2>1
  <2> QED  BY <2>2, <2>3, <2>4, <2>5, <2>6, <2>7, <2>8
<1>14. Filled(s2.buf, l2, r)  BY <1>1, <1>10, <1>12, <1>13 DEF Filled
<1>15. Shown(s2)
  <2>1. ASSUME NEW i \in Slots
        PROVE  t2.cells[i] = IF i < n + m + 1 THEN buf[i] ELSE Blank
    <3>1. i \in Int  BY <1>2
    <3>2. s.term.cells[i] = IF i < n + m THEN s.buf[i] ELSE Blank  BY <1>2 DEF Holds, Shown
    <3>3. CASE i < n  BY <1>6, <1>13, <3>1, <3>2, <3>3
    <3>4. CASE n <= i /\ i <= n + m  BY <1>13, <3>1, <3>4
    <3>5. CASE i > n + m  BY <1>13, <3>1, <3>2, <3>5
    <3> QED  BY <3>1, <3>3, <3>4, <3>5
  <2> QED  BY <1>9, <1>10, <2>1 DEF Shown
<1>16. s2.buf[s2.linelen] = NUL  BY <1>3, <1>6, <1>10
<1>17. s2.linelen = (n + 1) + m  BY <1>10
<1> QED  BY <1>1, <1>2, <1>4, <1>10, <1>11, <1>12, <1>14, <1>15, <1>16, <1>17, Made

-----------------------------------------------------------------------------
(* The line s without its character at f, as l2 up to there and r2 from    *)
(* there on.                                                               *)
LessOne(s, f, l2, r2) ==
  /\ f \in 0 .. s.linelen - 1 /\ l2 \in Seq(Text) /\ r2 \in Seq(Text)
  /\ Len(l2) = f /\ Len(l2) + Len(r2) = s.linelen - 1
  /\ \A i \in 1 .. f : l2[i] = s.buf[i - 1]
  /\ \A i \in 1 .. Len(r2) : r2[i] = s.buf[f + i]

ClosedAt(s, f, r2, s2) ==
  /\ s2 \in LineType /\ s2.buf = Closed(s, f) /\ s2.pos = f /\ s2.linelen = s.linelen - 1
  /\ s2.term.col = f /\ s2.term.cells = Over(s.term.cells, f, r2 \o <<Blank>>)

(* The buffer is closed over the character, and what is behind it printed  *)
(* one place to the left, with a blank over the last one.                  *)
LEMMA ClosedUp ==
  ASSUME NEW s, NEW l, NEW r, Holds(s, l, r), NEW f, NEW l2, NEW r2, LessOne(s, f, l2, r2),
         NEW s2, ClosedAt(s, f, r2, s2)
  PROVE  Holds(s2, l2, r2)
<1>1. PICK k \in Nat, m \in Nat : k = s.linelen /\ m = Len(r2)  BY Parts DEF LessOne
<1>2. /\ f \in Nat /\ k = f + m + 1 /\ k \in Slots
      /\ Slots = 0 .. CmdlineCharMax - 1 /\ CmdlineCharMax \in Nat
      /\ Len(l2) = f /\ l2 \in Seq(Text) /\ r2 \in Seq(Text)
      /\ s2 \in LineType /\ s2.pos = f /\ s2.linelen = f + m /\ s2.term.col = f
  BY <1>1, Parts DEF LessOne, ClosedAt
<1>3. ASSUME NEW i \in Slots
      PROVE  /\ i < f => s2.buf[i] = s.buf[i]
             /\ f <= i /\ i < f + m => s2.buf[i] = s.buf[i + 1]
             /\ i = f + m => s2.buf[i] = NUL
  <2>1. s2.buf[i] = CASE i = k - 1 -> NUL
                      [] i >= f /\ i < k - 1 -> s.buf[i + 1]
                      [] OTHER -> s.buf[i]
    BY <1>1 DEF ClosedAt, Closed
  <2>2. i \in Int /\ k - 1 = f + m  BY <1>2
  <2> QED  BY <1>2, <2>1, <2>2
<1>4. PICK u \in Seq(Text) : u = r2 \o <<Blank>>  BY <1>2, Texts, Joined DEF Text
<1>5. Len(u) = m + 1 /\ u[m + 1] = Blank /\ \A i \in 1 .. m : u[i] = r2[i]
  <2>1. <<Blank>> \in Seq(Text) /\ Len(<<Blank>>) = 1 /\ <<Blank>>[1] = Blank
    BY Texts DEF Text
  <2> QED  BY <1>1, <1>2, <1>4, <2>1
<1>6. ASSUME NEW i \in Slots
      PROVE  /\ i < f => s2.buf[i] = l2[i + 1]
             /\ f <= i /\ i < f + m => s2.buf[i] = r2[i - f + 1]
             /\ s2.term.cells[i] = IF i < f + m THEN s2.buf[i] ELSE Blank
  <2>1. i \in Int /\ 0 <= i  BY <1>2
  <2>2. s2.term.cells[i] = IF f <= i /\ i < f + (m + 1) THEN u[i - f + 1] ELSE s.term.cells[i]
    BY <1>4, <1>5 DEF ClosedAt, Over
  <2>3. s.term.cells[i] = IF i < k THEN s.buf[i] ELSE Blank  BY <1>1 DEF Holds, Shown
  <2>4. CASE i < f
    <3>1. i + 1 \in 1 .. f /\ (i + 1) - 1 = i /\ i < k /\ i < f + m /\ ~(f <= i)
      BY <1>2, <2>1, <2>4
    <3> QED  BY <1>3, <2>2, <2>3, <2>4, <3>1 DEF LessOne
  <2>5. CASE f <= i /\ i < f + m
    <3>1. /\ i - f + 1 \in 1 .. m /\ f + (i - f + 1) = i + 1 /\ ~(i < f)
          /\ i < f + (m + 1)
      BY <1>2, <2>1, <2>5
    <3>2. r2[i - f + 1] = s.buf[i + 1]  BY <1>1, <3>1 DEF LessOne
    <3> QED  BY <1>3, <1>5, <2>2, <2>5, <3>1, <3>2
  <2>6. CASE i = f + m
    <3>1. i - f + 1 = m + 1 /\ f <= i /\ i < f + (m + 1) /\ ~(i < f + m) /\ ~(i < f)
      BY <1>2, <2>1, <2>6
    <3> QED  BY <1>5, <2>2, <3>1
  <2>7. CASE i > f + m
    <3>1. ~(i < f + (m + 1)) /\ ~(i < k) /\ ~(i < f + m) /\ ~(i < f)  BY <1>2, <2>1, <2>7
    <3> QED  BY <2>2, <2>3, <3>1
  <2>8. i < f \/ (f <= i /\ i < f + m) \/ i = f + m \/ i > f + m  BY <1>2, <2>1
  <2> QED  BY <2>4, <2>5, <2>6, <2>7, <2>8
<1>7. Filled(s2.buf, l2, r2)  BY <1>1, <1>2, <1>6 DEF Filled
<1>8. Shown(s2)  BY <1>2, <1>6 DEF Shown
<1>9. f + m \in Slots  BY <1>2
<1>10. s2.buf[s2.linelen] = NUL  BY <1>2, <1>3, <1>9
<1> QED  BY <1>1, <1>2, <1>7, <1>8, <1>10, Made

(* The beginning and the end of a text.                                    *)
LEMMA Front ==
  ASSUME NEW u \in Seq(Text), NEW b \in Nat, b <= Len(u)
  PROVE  /\ SubSeq(u, 1, b) \in Seq(Text) /\ Len(SubSeq(u, 1, b)) = b
         /\ \A i \in 1 .. b : SubSeq(u, 1, b)[i] = u[i]
<1>1. \A i \in 1 .. b : u[i] \in Text  OBVIOUS
<1>2. /\ SubSeq(u, 1, b) \in Seq(Text) /\ Len(SubSeq(u, 1, b)) = b - 1 + 1
      /\ \A i \in 1 .. b - 1 + 1 : SubSeq(u, 1, b)[i] = u[1 + i - 1]
  BY <1>1, SubSeqProperties
<1>3. b - 1 + 1 = b /\ \A i \in 1 .. b : 1 + i - 1 = i  OBVIOUS
<1> QED  BY <1>2, <1>3

(* The end of a text.                                                      *)
LEMMA Back ==
  ASSUME NEW u \in Seq(Text), NEW a \in Nat, a <= Len(u)
  PROVE  /\ SubSeq(u, a + 1, Len(u)) \in Seq(Text)
         /\ Len(SubSeq(u, a + 1, Len(u))) = Len(u) - a
         /\ \A i \in 1 .. Len(u) - a : SubSeq(u, a + 1, Len(u))[i] = u[a + i]
<1>1. PICK n \in Nat : n = Len(u)  OBVIOUS
<1>2. \A i \in a + 1 .. n : u[i] \in Text  BY <1>1
<1>3. /\ SubSeq(u, a + 1, n) \in Seq(Text) /\ Len(SubSeq(u, a + 1, n)) = n - (a + 1) + 1
      /\ \A i \in 1 .. n - (a + 1) + 1 : SubSeq(u, a + 1, n)[i] = u[(a + 1) + i - 1]
  BY <1>1, <1>2, SubSeqProperties
<1>4. n - (a + 1) + 1 = n - a /\ \A i \in 1 .. n - a : (a + 1) + i - 1 = a + i  BY <1>1
<1> QED  BY <1>1, <1>3, <1>4

(* The buffer closed up is one.                                            *)
LEMMA ClosedType ==
  ASSUME NEW s, NEW l, NEW r, Holds(s, l, r), NEW f \in Nat
  PROVE  Closed(s, f) \in [Slots -> Text \cup {NUL}]
<1>1. /\ s.buf \in [Slots -> Text \cup {NUL}] /\ s.linelen \in Slots
      /\ Slots = 0 .. CmdlineCharMax - 1 /\ CmdlineCharMax \in Nat
  BY Parts
<1>2. ASSUME NEW i \in Slots
      PROVE  (CASE i = s.linelen - 1 -> NUL
                [] i >= f /\ i < s.linelen - 1 -> s.buf[i + 1]
                [] OTHER -> s.buf[i]) \in Text \cup {NUL}
  <2>1. i \in Int /\ (i < s.linelen - 1 => i + 1 \in Slots)  BY <1>1
  <2> QED  BY <1>1, <2>1
<1> QED  BY <1>2 DEF Closed

(* Backspace takes the last character before the cursor.                   *)
LEMMA Backspaced ==
  ASSUME NEW s, NEW l, NEW r, Holds(s, l, r), Len(l) > 0
  PROVE  /\ Holds(cmdline_backspace(s), SubSeq(l, 1, Len(l) - 1), r)
         /\ cmdline_backspace(s).clipboard = s.clipboard
<1>1. PICK n \in Nat, m \in Nat : n = Len(l) /\ m = Len(r)  BY Parts
<1>2. /\ s \in LineType /\ s.pos = n /\ s.linelen = n + m /\ s.term.col = n
      /\ l \in Seq(Text) /\ r \in Seq(Text) /\ s.term \in Terminals /\ n > 0 /\ n + m \in Slots
      /\ Slots = 0 .. CmdlineCharMax - 1 /\ CmdlineCharMax \in Nat
  BY <1>1, Parts
<1>3. PICK f \in Nat : f = n - 1  BY <1>2
<1>4. PICK l2 \in Seq(Text) : /\ l2 = SubSeq(l, 1, n - 1) /\ Len(l2) = f
                              /\ \A i \in 1 .. f : l2[i] = l[i]
  <2>1. f <= Len(l) /\ n - 1 = f  BY <1>1, <1>2, <1>3
  <2> QED  BY <1>2, <2>1, Front
<1>5. LessOne(s, f, l2, r)
  <2>1. \A i \in 1 .. f : l2[i] = s.buf[i - 1]
    <3>1. \A i \in 1 .. f : i \in 1 .. n  BY <1>3
    <3> QED  BY <1>1, <1>4, <3>1 DEF Holds
  <2>2. \A i \in 1 .. m : r[i] = s.buf[f + i]
    <3>1. \A i \in 1 .. m : n + i - 1 = f + i  BY <1>3
    <3> QED  BY <1>1, <3>1 DEF Holds
  <2>3. f \in 0 .. s.linelen - 1 /\ f + m = s.linelen - 1  BY <1>2, <1>3
  <2> QED  BY <1>1, <1>2, <1>4, <2>1, <2>2, <2>3 DEF LessOne
<1> DEFINE out == <<BS>> \o BufFrom(s.buf, s.pos, s.linelen - 1) \o <<Blank>>
                  \o Repeat(BS, s.linelen + 1 - s.pos)
           t2 == Typed(s.term, out)
           s2 == [s EXCEPT !.buf = Closed(s, s.pos - 1), !.pos = @ - 1, !.linelen = @ - 1,
                           !.term = t2]
<1>6. cmdline_backspace(s) = s2  BY <1>2 DEF cmdline_backspace
<1>7. PICK u \in Seq(Text) : u = r \o <<Blank>> /\ Len(u) = m + 1
  <2>1. <<Blank>> \in Seq(Text) /\ Len(<<Blank>>) = 1  BY Texts DEF Text
  <2> QED  BY <1>1, <1>2, <2>1, Joined
<1>8. t2 \in Terminals /\ t2.cells = Over(s.term.cells, f, u) /\ t2.col = f
  <2>1. s.linelen + 1 - s.pos = m + 1 /\ n - 1 = f /\ f + (m + 1) - (m + 1) = f
    BY <1>2, <1>3
  <2>2. Repeat(BS, 1) = <<BS>>  BY DEF Repeat
  <2>3. PICK v, w : v = Repeat(BS, m + 1) /\ w = Repeat(BS, 1)  OBVIOUS
  <2>4. v \in Output /\ w \in Output /\ r \in Output /\ <<Blank>> \in Output
    <3>1. m + 1 \in Nat /\ 1 \in Nat /\ <<Blank>> \in Seq(Text)  BY Texts DEF Text
    <3>2. v \in Output /\ w \in Output  BY <2>3, <3>1, Outputs
    <3> QED  BY <1>2, <3>1, <3>2, Outputs
  <2>5. (w \o r) \o <<Blank>> = w \o u  BY <1>7, <2>4, ConcatAssociative DEF Output
  <2>6. out = w \o u \o v  BY <2>1, <2>2, <2>3, <2>5, TextsRead
  <2>7. PICK t3 : t3 = Typed(s.term, Repeat(BS, 1) \o u \o Repeat(BS, m + 1))  OBVIOUS
  <2>8. Redraws(s.term, t3, s.term.col - 1, u, m + 1)
    <3>1. 1 \in Nat /\ m + 1 \in Nat  OBVIOUS
    <3> QED  BY <1>2, <2>7, <3>1, BackRedrawn
  <2>9. t2 = t3  BY <2>3, <2>6, <2>7
  <2> HIDE DEF t2
  <2> QED  BY <1>2, <1>7, <2>1, <2>8, <2>9 DEF Redraws
<1> HIDE DEF t2
<1>9. ClosedAt(s, f, r, s2) /\ s2.clipboard = s.clipboard
  <2>1. /\ s2.buf = Closed(s, f) /\ s2.pos = f /\ s2.linelen = s.linelen - 1
        /\ s2.term = t2 /\ s2.clipboard = s.clipboard
    BY <1>2, <1>3 DEF LineType
  <2>2. Closed(s, f) \in [Slots -> Text \cup {NUL}]  BY ClosedType
  <2>3. f \in Nat /\ s.pos - 1 = f /\ s.linelen - 1 \in Slots  BY <1>2, <1>3
  <2>4. s2 \in LineType  BY <1>2, <1>8, <2>2, <2>3 DEF LineType
  <2> HIDE DEF s2
  <2> QED  BY <1>7, <1>8, <2>1, <2>4 DEF ClosedAt
<1> HIDE DEF s2
<1>10. Holds(s2, l2, r)  BY <1>5, <1>9, ClosedUp
<1> QED  BY <1>1, <1>4, <1>6, <1>9, <1>10

-----------------------------------------------------------------------------
(* Delete takes the first character behind the cursor.                     *)
LEMMA Deleted ==
  ASSUME NEW s, NEW l, NEW r, Holds(s, l, r), Len(r) > 0
  PROVE  /\ Holds(cmdline_delete(s), l, SubSeq(r, 2, Len(r)))
         /\ cmdline_delete(s).clipboard = s.clipboard
<1>1. PICK n \in Nat, m \in Nat : n = Len(l) /\ m = Len(r)  BY Parts
<1>2. /\ s \in LineType /\ s.pos = n /\ s.linelen = n + m /\ s.term.col = n
      /\ l \in Seq(Text) /\ r \in Seq(Text) /\ s.term \in Terminals /\ m > 0 /\ n + m \in Slots
      /\ Slots = 0 .. CmdlineCharMax - 1 /\ CmdlineCharMax \in Nat
  BY <1>1, Parts
<1>3. PICK k \in Nat : k = m - 1  BY <1>2
<1>4. PICK r2 \in Seq(Text) : /\ r2 = SubSeq(r, 2, m) /\ Len(r2) = k
                              /\ \A i \in 1 .. k : r2[i] = r[1 + i]
  <2>1. 1 \in Nat /\ 1 <= Len(r) /\ 1 + 1 = 2 /\ m - 1 = k  BY <1>1, <1>2, <1>3
  <2> QED  BY <1>1, <1>2, <2>1, Back
<1>5. \A i \in 1 .. k : r2[i] = s.buf[n + i]
  <2>1. ASSUME NEW i \in 1 .. k  PROVE r2[i] = s.buf[n + i]
    <3>1. 1 + i \in 1 .. m /\ n + (1 + i) - 1 = n + i  BY <1>3
    <3>2. s.buf[n + (1 + i) - 1] = r[1 + i]  BY <1>1, <3>1 DEF Holds
    <3> QED  BY <1>4, <3>1, <3>2
  <2> QED  BY <2>1
<1>6. LessOne(s, n, l, r2)
  <2>1. n \in 0 .. s.linelen - 1 /\ n + k = s.linelen - 1  BY <1>2, <1>3
  <2>2. \A i \in 1 .. n : l[i] = s.buf[i - 1]  BY <1>1 DEF Holds
  <2> QED  BY <1>1, <1>2, <1>4, <1>5, <2>1, <2>2 DEF LessOne
<1> DEFINE out == BufFrom(s.buf, s.pos + 1, s.linelen - 1) \o <<Blank>>
                  \o Repeat(BS, s.linelen - s.pos)
           t2 == Typed(s.term, out)
           s2 == [s EXCEPT !.buf = Closed(s, s.pos), !.linelen = @ - 1, !.term = t2]
<1>7. cmdline_delete(s) = s2
  <2>1. ~(s.linelen <= s.pos)  BY <1>2
  <2> QED  BY <2>1 DEF cmdline_delete
<1>8. PICK u \in Seq(Text) : u = r2 \o <<Blank>> /\ Len(u) = k + 1
  <2>1. <<Blank>> \in Seq(Text) /\ Len(<<Blank>>) = 1  BY Texts DEF Text
  <2> QED  BY <1>4, <2>1, Joined
<1>9. t2 \in Terminals /\ t2.cells = Over(s.term.cells, n, u) /\ t2.col = n
  <2>0. /\ s.pos + 1 = n + 1 /\ s.linelen - 1 = (n + 1) + k - 1
        /\ s.linelen - s.pos = k + 1 /\ n + (k + 1) - (k + 1) = n /\ n + 1 \in Nat
    <3>1. s.pos = n /\ s.linelen = n + (k + 1)
      <4>1. s.pos = n /\ s.linelen = n + m  BY <1>2
      <4>2. m = k + 1  BY <1>2, <1>3
      <4> QED  BY <4>1, <4>2
    <3>2. /\ n + (k + 1) - 1 = (n + 1) + k - 1 /\ n + (k + 1) - n = k + 1
          /\ n + (k + 1) - (k + 1) = n /\ n + 1 \in Nat
      OBVIOUS
    <3> HIDE DEF out, t2, s2
    <3> QED  BY <3>1, <3>2
  <2>1. /\ s.pos + 1 = n + 1 /\ s.linelen - 1 = (n + 1) + Len(r2) - 1
        /\ s.linelen - s.pos = k + 1 /\ n + (k + 1) - (k + 1) = n /\ n + 1 \in Nat
    BY <1>4, <2>0
  <2>2. Lies(s.buf, n + 1, r2)
    <3>1. \A i \in 1 .. k : (n + 1) + i - 1 = n + i  OBVIOUS
    <3> QED  BY <1>4, <1>5, <3>1 DEF Lies
  <2>3. BufFrom(s.buf, s.pos + 1, s.linelen - 1) = r2  BY <2>1, <2>2, Copied
  <2>4. PICK t3 : t3 = Typed(s.term, u \o Repeat(BS, k + 1))  OBVIOUS
  <2>5. Redraws(s.term, t3, s.term.col, u, k + 1)
    <3>1. k + 1 \in Nat  OBVIOUS
    <3> QED  BY <1>2, <2>4, <3>1, Redrawn
  <2>6. out = u \o Repeat(BS, k + 1)  BY <1>8, <2>1, <2>3
  <2>7. t2 = t3  BY <2>4, <2>6
  <2> HIDE DEF t2
  <2> QED  BY <1>2, <1>8, <2>1, <2>5, <2>7 DEF Redraws
<1> HIDE DEF t2
<1>10. ClosedAt(s, n, r2, s2) /\ s2.clipboard = s.clipboard
  <2>1. /\ s2.buf = Closed(s, n) /\ s2.pos = n /\ s2.linelen = s.linelen - 1
        /\ s2.term = t2 /\ s2.clipboard = s.clipboard
    BY <1>2 DEF LineType
  <2>2. Closed(s, n) \in [Slots -> Text \cup {NUL}]  BY ClosedType
  <2>3. s.pos = n /\ s.linelen - 1 \in Slots  BY <1>2
  <2>4. s2 \in LineType  BY <1>2, <1>9, <2>2, <2>3 DEF LineType
  <2> HIDE DEF s2
  <2> QED  BY <1>8, <1>9, <2>1, <2>4 DEF ClosedAt
<1> HIDE DEF s2
<1>11. Holds(s2, l, r2)  BY <1>6, <1>10, ClosedUp
<1> QED  BY <1>1, <1>4, <1>7, <1>10, <1>11

(* The whole line killed: nothing is left, neither on the terminal.        *)
LEMMA Killed ==
  ASSUME NEW s, NEW l, NEW r, Holds(s, l, r)
  PROVE  /\ Holds(cmdline_kill(s), <<>>, <<>>) /\ cmdline_kill(s).clipboard = s.clipboard
<1>1. PICK n \in Nat, k \in Nat : n = s.pos /\ k = s.linelen  BY Parts
<1>2. /\ s \in LineType /\ s.term.col = n /\ s.term \in Terminals /\ k \in Slots
      /\ Slots = 0 .. CmdlineCharMax - 1 /\ CmdlineCharMax \in Nat
      /\ s.clipboard \in Seq(Text)
  BY <1>1, Parts
<1>3. PICK u \in Seq(Text) : /\ u = Repeat(Blank, k) /\ Len(u) = k
                             /\ \A i \in 1 .. k : u[i] = Blank
  BY Texts
<1>4. PICK t2 : t2 = Typed(s.term, Repeat(BS, n) \o u \o Repeat(BS, k))  OBVIOUS
<1>5. Redraws(s.term, t2, s.term.col - n, u, k)  BY <1>2, <1>4, BackRedrawn
<1>6. t2 \in Terminals /\ t2.cells = Over(s.term.cells, 0, u) /\ t2.col = 0
  <2>1. s.term.col - n = 0 /\ 0 + k - k = 0  BY <1>2
  <2> QED  BY <1>3, <1>5, <2>1 DEF Redraws
<1>7. Typed(s.term, Erased(s)) = t2  BY <1>1, <1>3, <1>4 DEF Erased
<1> DEFINE s1 == [s EXCEPT !.term = Typed(@, Erased(s))]
           s2 == [s1 EXCEPT !.buf = Empty, !.pos = 0, !.linelen = 0]
<1>8. cmdline_kill(s) = s2  BY DEF cmdline_kill, cmdline_clear
<1>9. /\ s2 \in LineType /\ s2.buf = Empty /\ s2.pos = 0 /\ s2.linelen = 0 /\ s2.term = t2
      /\ s2.clipboard = s.clipboard
  <2>1. s1 = [s EXCEPT !.term = t2]  BY <1>7
  <2>2. /\ s1.buf = s.buf /\ s1.pos = s.pos /\ s1.linelen = s.linelen /\ s1.term = t2
        /\ s1.clipboard = s.clipboard /\ s1 \in LineType
    BY <1>2, <1>6, <2>1 DEF LineType
  <2> HIDE DEF s1
  <2>3. Empty \in [Slots -> Text \cup {NUL}] /\ 0 \in Slots /\ 0 \in Nat
    BY LineAssumption, <1>2 DEF Empty, Slots
  <2>4. /\ s2.buf = Empty /\ s2.pos = 0 /\ s2.linelen = 0 /\ s2.term = t2
        /\ s2.clipboard = s.clipboard
    BY <2>2 DEF LineType
  <2>5. s2 \in LineType  BY <2>2, <2>3 DEF LineType
  <2> HIDE DEF s2
  <2> QED  BY <2>4, <2>5
<1> HIDE DEF s2
<1>10. ASSUME NEW i \in Slots  PROVE t2.cells[i] = Blank
  <2>1. i \in Int /\ 0 <= i  BY <1>2
  <2>2. t2.cells[i] = IF 0 <= i /\ i < 0 + Len(u) THEN u[i - 0 + 1] ELSE s.term.cells[i]
    BY <1>6 DEF Over
  <2>3. s.term.cells[i] = IF i < k THEN s.buf[i] ELSE Blank  BY <1>1 DEF Holds, Shown
  <2>4. CASE i < k
    <3>1. i - 0 + 1 \in 1 .. k /\ i < 0 + k  BY <2>1, <2>4
    <3> QED  BY <1>3, <2>1, <2>2, <3>1
  <2>5. CASE ~(i < k)
    <3>1. ~(i < 0 + k)  BY <2>1, <2>5
    <3> QED  BY <1>3, <2>2, <2>3, <2>5, <3>1
  <2> QED  BY <2>4, <2>5
<1>11. Shown(s2)
  <2>1. \A i \in Slots : ~(i < 0)  BY <1>2
  <2> QED  BY <1>6, <1>9, <1>10, <2>1 DEF Shown
<1>12. <<>> \in Seq(Text) /\ Len(<<>>) = 0  BY Texts
<1>13. Filled(s2.buf, <<>>, <<>>)
  <2>1. \A i \in Slots : ~(i < 0) /\ ~(i < 0 + 0)  BY <1>2
  <2> QED  BY <1>12, <2>1 DEF Filled
<1>14. s2.buf[s2.linelen] = NUL  BY <1>2, <1>9 DEF Empty
<1>15. s2.pos = Len(<<>>) /\ s2.linelen = Len(<<>>) + Len(<<>>)  BY <1>9
<1>16. Holds(s2, <<>>, <<>>)
  BY <1>9, <1>11, <1>12, <1>13, <1>14, <1>15, Made
<1> QED  BY <1>8, <1>9, <1>16

(* The line replaced by another one.                                       *)
LEMMA WasSet ==
  ASSUME NEW s, NEW l, NEW r, Holds(s, l, r), NEW str \in Seq(Text), Len(str) < CmdlineCharMax
  PROVE  /\ Holds(cmdline_set(s, str), str, <<>>)
         /\ cmdline_set(s, str).clipboard = s.clipboard
<1>1. PICK k : k = cmdline_kill(s)  OBVIOUS
<1>2. Holds(k, <<>>, <<>>) /\ k.clipboard = s.clipboard  BY <1>1, Killed
<1>3. PICK n \in Nat : n = Len(str)  OBVIOUS
<1>4. /\ n \in Slots /\ 0 \in Slots
      /\ Slots = 0 .. CmdlineCharMax - 1 /\ CmdlineCharMax \in Nat
  BY <1>3, LineAssumption DEF Slots
<1>5. k \in LineType /\ k.term \in Terminals /\ k.term.col = 0 /\ k.linelen = 0 /\ k.pos = 0
  <2>1. Len(<<>>) = 0 /\ 0 + 0 = 0  OBVIOUS
  <2> QED  BY <1>2, <2>1, Parts
<1>6. \A i \in Slots : k.term.cells[i] = Blank
  <2>1. \A i \in Slots : ~(i < 0)  BY <1>4
  <2> QED  BY <1>2, <1>5, <2>1 DEF Holds, Shown
<1>7. k.buf = Empty
  BY <1>1, <1>2, <1>5 DEF cmdline_kill, cmdline_clear, LineType
<1> DEFINE buf == [i \in Slots |-> IF i < Len(str) THEN str[i + 1] ELSE k.buf[i]]
           t2 == Typed(k.term, str)
           s2 == [k EXCEPT !.buf = [i \in Slots |-> IF i < Len(str) THEN str[i + 1] ELSE @[i]],
                           !.pos = Len(str), !.linelen = Len(str), !.term = Typed(@, str)]
<1>8. cmdline_set(s, str) = s2  BY <1>1 DEF cmdline_set
<1>9. t2 \in Terminals /\ t2.cells = Over(k.term.cells, 0, str) /\ t2.col = n
  <2>1. PICK t3 : /\ t3 = t2 /\ t3 \in Terminals
                  /\ t3 = [cells |-> Over(k.term.cells, k.term.col, str),
                           col |-> k.term.col + Len(str)]
    BY <1>5, TypedText
  <2> HIDE DEF t2
  <2>2. k.term.col + Len(str) = n  BY <1>3, <1>5
  <2> QED  BY <1>5, <2>1, <2>2
<1>10. buf \in [Slots -> Text \cup {NUL}] /\ \A i \in Slots : i = n => buf[i] = NUL
  <2>1. ASSUME NEW i \in Slots
        PROVE  /\ (IF i < n THEN str[i + 1] ELSE k.buf[i]) \in Text \cup {NUL}
               /\ i = n => (IF i < n THEN str[i + 1] ELSE k.buf[i]) = NUL
    <3>1. k.buf[i] = NUL  BY <1>7 DEF Empty
    <3>2. CASE i < n
      <4>1. i + 1 \in 1 .. n /\ i # n  BY <1>4, <3>2
      <4> QED  BY <1>3, <3>2, <4>1
    <3> QED  BY <3>1, <3>2
  <2> QED  BY <1>3, <2>1
<1>11. /\ s2 \in LineType /\ s2.buf = buf /\ s2.pos = n /\ s2.linelen = n /\ s2.term = t2
       /\ s2.clipboard = s.clipboard
  <2>1. s2 = [k EXCEPT !.buf = buf, !.pos = n, !.linelen = n, !.term = t2]  BY <1>3
  <2> HIDE DEF s2, buf, t2
  <2>2. /\ s2.buf = buf /\ s2.pos = n /\ s2.linelen = n /\ s2.term = t2
        /\ s2.clipboard = s.clipboard
    BY <1>2, <1>5, <2>1 DEF LineType
  <2>3. s2 \in LineType  BY <1>4, <1>5, <1>9, <1>10, <2>1 DEF LineType
  <2> QED  BY <2>2, <2>3
<1> HIDE DEF s2, t2
<1>12. ASSUME NEW i \in Slots
       PROVE  /\ i < n => buf[i] = str[i + 1]
              /\ t2.cells[i] = IF i < n THEN buf[i] ELSE Blank
  <2>1. i \in Int /\ 0 <= i /\ i - 0 + 1 = i + 1 /\ (i < 0 + n <=> i < n)  BY <1>4
  <2>2. t2.cells[i] = IF 0 <= i /\ i < 0 + n THEN str[i - 0 + 1] ELSE k.term.cells[i]
    BY <1>3, <1>9 DEF Over
  <2> QED  BY <1>3, <1>6, <2>1, <2>2
<1> HIDE DEF buf
<1>13. Shown(s2)  BY <1>9, <1>11, <1>12 DEF Shown
<1>14. <<>> \in Seq(Text) /\ Len(<<>>) = 0  BY Texts
<1>15. Filled(s2.buf, str, <<>>)
  <2>1. \A i \in Slots : ~(n <= i /\ i < n + 0)  BY <1>4
  <2> QED  BY <1>3, <1>11, <1>12, <1>14, <2>1 DEF Filled
<1>16. s2.buf[s2.linelen] = NUL  BY <1>4, <1>10, <1>11
<1>17. s2.linelen = n + 0  BY <1>11
<1> QED  BY <1>3, <1>8, <1>11, <1>13, <1>14, <1>15, <1>16, <1>17, Made

-----------------------------------------------------------------------------
(* The cursor moved to n: the same text, on either side of it.             *)
MovedTo(s, n, s2) ==
  /\ s2 \in LineType /\ s2.buf = s.buf /\ s2.linelen = s.linelen /\ s2.pos = n
  /\ Shown(s2)

(* A line whose cursor alone has moved.                                    *)
LEMMA Moved ==
  ASSUME NEW s, NEW l, NEW r, Holds(s, l, r), NEW n \in 0 .. s.linelen,
         NEW s2, MovedTo(s, n, s2)
  PROVE  Holds(s2, SubSeq(l \o r, 1, n), SubSeq(l \o r, n + 1, Len(l \o r)))
<1>1. PICK k \in Nat, p \in Nat : k = s.linelen /\ p = Len(l)  BY Parts
<1>2. PICK u \in Seq(Text) : u = l \o r  BY Parts, Joined
<1>3. Len(u) = k /\ k = p + Len(r) /\ k \in Slots /\ p <= k /\ Len(r) \in Nat
  BY <1>1, <1>2, Parts, Joined
<1>3a. /\ \A i \in 1 .. p : u[i] = l[i]
       /\ \A i \in 1 .. Len(r) : u[p + i] = r[i]
  <2>1. l \in Seq(Text) /\ r \in Seq(Text)  BY Parts
  <2>2. /\ \A i \in 1 .. Len(l) : (l \o r)[i] = l[i]
        /\ \A i \in 1 .. Len(r) : (l \o r)[Len(l) + i] = r[i]
    BY <2>1, Joined
  <2> QED  BY <1>1, <1>2, <2>2
<1>4. Slots = 0 .. CmdlineCharMax - 1 /\ CmdlineCharMax \in Nat  BY Parts
<1>5. ASSUME NEW i \in Slots, i < k  PROVE s.buf[i] = u[i + 1]
  <2>1. i \in Int /\ 0 <= i  BY <1>4
  <2>2. CASE i < p
    <3>1. i + 1 \in 1 .. p  BY <2>1, <2>2
    <3>2. u[i + 1] = l[i + 1]  BY <1>3a, <3>1
    <3> QED  BY <1>1, <2>2, <3>2, Characters
  <2>3. CASE ~(i < p)
    <3>1. i - p + 1 \in 1 .. Len(r) /\ p + (i - p + 1) = i + 1 /\ p <= i /\ i < p + Len(r)
      BY <1>3, <1>5, <2>1, <2>3
    <3>2. u[p + (i - p + 1)] = r[i - p + 1]  BY <1>3a, <3>1
    <3> QED  BY <1>1, <3>1, <3>2, Characters
  <2> QED  BY <2>2, <2>3
<1>6. n \in Nat /\ n <= Len(u)  BY <1>1, <1>3
<1>7. PICK l2 \in Seq(Text) : /\ l2 = SubSeq(u, 1, n) /\ Len(l2) = n
                              /\ \A i \in 1 .. n : l2[i] = u[i]
  BY <1>6, Front
<1>8. PICK r2 \in Seq(Text) : /\ r2 = SubSeq(u, n + 1, Len(u)) /\ Len(r2) = k - n
                              /\ \A i \in 1 .. k - n : r2[i] = u[n + i]
  <2>1. /\ SubSeq(u, n + 1, Len(u)) \in Seq(Text) /\ Len(SubSeq(u, n + 1, Len(u))) = Len(u) - n
        /\ \A i \in 1 .. Len(u) - n : SubSeq(u, n + 1, Len(u))[i] = u[n + i]
    BY <1>6, Back
  <2> QED  BY <1>3, <2>1
<1>9. ASSUME NEW i \in Slots
      PROVE  /\ i < n => s.buf[i] = l2[i + 1]
             /\ n <= i /\ i < n + (k - n) => s.buf[i] = r2[i - n + 1]
  <2>1. i \in Int /\ 0 <= i  BY <1>4
  <2>2. ASSUME i < n  PROVE s.buf[i] = l2[i + 1]
    <3>1. i + 1 \in 1 .. n /\ i < k  BY <1>3, <1>6, <2>1, <2>2
    <3> QED  BY <1>5, <1>7, <3>1
  <2>3. ASSUME n <= i, i < n + (k - n)  PROVE s.buf[i] = r2[i - n + 1]
    <3>1. i - n + 1 \in 1 .. k - n /\ n + (i - n + 1) = i + 1 /\ i < k
      BY <1>6, <2>1, <2>3
    <3> QED  BY <1>5, <1>8, <3>1
  <2> QED  BY <2>2, <2>3
<1>10. s2.linelen = n + (k - n)  BY <1>1, <1>6 DEF MovedTo
<1>11. Filled(s2.buf, l2, r2)  BY <1>7, <1>8, <1>9 DEF Filled, MovedTo
<1>12. s2.buf[s2.linelen] = NUL  BY Parts DEF MovedTo
<1>13. s2 \in LineType /\ Shown(s2) /\ s2.pos = n  BY DEF MovedTo
<1>14. Holds(s2, l2, r2)  BY <1>7, <1>8, <1>10, <1>11, <1>12, <1>13, Made
<1> QED  BY <1>2, <1>7, <1>8, <1>14

(* The cells show the line outside the places from a to b.                 *)
ShownBut(s, cells, a, b) ==
  \A i \in Slots : i < a \/ b <= i =>
                     cells[i] = IF i < s.linelen THEN s.buf[i] ELSE Blank

(* What is printed over itself stays as it is.                             *)
LEMMA Reprinted ==
  ASSUME NEW s, NEW l, NEW r, Holds(s, l, r), NEW p \in Nat, NEW u \in Seq(Text),
         Lies(s.buf, p, u), p + Len(u) <= s.linelen, NEW cells,
         ShownBut(s, cells, p, p + Len(u))
  PROVE  \A i \in Slots : Over(cells, p, u)[i] = IF i < s.linelen THEN s.buf[i] ELSE Blank
<1>1. PICK k \in Nat, n \in Nat : k = s.linelen /\ n = Len(u)  BY Parts
<1> SUFFICES ASSUME NEW i \in Slots
             PROVE  Over(cells, p, u)[i] = IF i < k THEN s.buf[i] ELSE Blank
  BY <1>1
<1>2. i \in Int /\ 0 <= i /\ CmdlineCharMax \in Nat  BY Parts
<1>3. Over(cells, p, u)[i] = IF p <= i /\ i < p + n THEN u[i - p + 1] ELSE cells[i]
  BY <1>1 DEF Over
<1>4. CASE p <= i /\ i < p + n
  <2>1. i - p + 1 \in 1 .. n /\ p + (i - p + 1) - 1 = i /\ i < k  BY <1>1, <1>2, <1>4
  <2> QED  BY <1>1, <1>3, <1>4, <2>1 DEF Lies
<1>5. CASE ~(p <= i /\ i < p + n)
  <2>1. i < p \/ p + n <= i  BY <1>2, <1>5
  <2> QED  BY <1>1, <1>3, <1>5, <2>1 DEF ShownBut
<1> QED  BY <1>4, <1>5

(* The moves of the cursor by one.                                         *)
LEMMA MovedLeft ==
  ASSUME NEW s, NEW l, NEW r, Holds(s, l, r), s.pos > 0
  PROVE  /\ MovedTo(s, s.pos - 1, cmdline_cursor_left(s))
         /\ cmdline_cursor_left(s).clipboard = s.clipboard
<1>1. /\ s \in LineType /\ s.pos \in Nat /\ s.term \in Terminals /\ s.term.col = s.pos
  BY Parts
<1>2. PICK t2 : t2 = PutChar(s.term, BS)  OBVIOUS
<1>3. t2 \in Terminals /\ t2.cells = s.term.cells /\ t2.col = s.pos - 1
  BY <1>1, <1>2 DEF PutChar, Terminals
<1> DEFINE s2 == [s EXCEPT !.pos = @ - 1, !.term = PutChar(@, BS)]
<1>4. cmdline_cursor_left(s) = s2  BY DEF cmdline_cursor_left
<1>5. s2 = [s EXCEPT !.pos = @ - 1, !.term = t2]  BY <1>2
<1> HIDE DEF s2
<1>6. /\ s2.buf = s.buf /\ s2.linelen = s.linelen /\ s2.pos = s.pos - 1
      /\ s2.term = t2 /\ s2.clipboard = s.clipboard
  BY <1>1, <1>5 DEF LineType
<1>7. s.pos - 1 \in Nat  BY <1>1
<1>8. s2 \in LineType  BY <1>1, <1>3, <1>5, <1>7 DEF LineType
<1>9. Shown(s2)  BY <1>3, <1>6 DEF Holds, Shown
<1> QED  BY <1>4, <1>6, <1>8, <1>9 DEF MovedTo

(* One to the right: the character under the cursor is printed again.      *)
LEMMA MovedRight ==
  ASSUME NEW s, NEW l, NEW r, Holds(s, l, r), s.pos < s.linelen
  PROVE  /\ MovedTo(s, s.pos + 1, cmdline_cursor_right(s))
         /\ cmdline_cursor_right(s).clipboard = s.clipboard
<1>1. /\ s \in LineType /\ s.pos \in Nat /\ s.term \in Terminals /\ s.term.col = s.pos
      /\ s.pos \in Slots
  BY Parts
<1>2. s.buf[s.pos] \in Text /\ s.buf[s.pos] # BS  BY <1>1, Characters, Outputs
<1>3. PICK t2 : t2 = PutChar(s.term, s.buf[s.pos])  OBVIOUS
<1>4. s.term.cells[s.pos] = s.buf[s.pos]  BY <1>1 DEF Holds, Shown
<1>5. t2 \in Terminals /\ t2.cells = s.term.cells /\ t2.col = s.pos + 1
  <2>1. s.term.cells \in [Slots -> Text] /\ s.term.col \in Int  BY <1>1 DEF Terminals
  <2>2. [s.term.cells EXCEPT ![s.pos] = s.buf[s.pos]] = s.term.cells  BY <1>1, <1>4, <2>1
  <2>3. [s.term EXCEPT !.cells[s.term.col] = s.buf[s.pos]].cells
          = [s.term.cells EXCEPT ![s.pos] = s.buf[s.pos]]
    BY <1>1 DEF Terminals
  <2>4. t2 = [cells |-> s.term.cells, col |-> s.pos + 1]
    BY <1>1, <1>2, <1>3, <2>2 DEF PutChar
  <2> QED  BY <1>1, <2>1, <2>4 DEF Terminals
<1> DEFINE s2 == [s EXCEPT !.pos = @ + 1, !.term = PutChar(@, s.buf[s.pos])]
<1>6. cmdline_cursor_right(s) = s2  BY DEF cmdline_cursor_right
<1>7. s2 = [s EXCEPT !.pos = @ + 1, !.term = t2]  BY <1>3
<1> HIDE DEF s2
<1>8. /\ s2.buf = s.buf /\ s2.linelen = s.linelen /\ s2.pos = s.pos + 1
      /\ s2.term = t2 /\ s2.clipboard = s.clipboard
  BY <1>1, <1>7 DEF LineType
<1>9. s2 \in LineType
  <2>1. s.pos + 1 \in Nat  BY <1>1
  <2> QED  BY <1>1, <1>5, <1>7, <2>1 DEF LineType
<1>10. Shown(s2)  BY <1>5, <1>8 DEF Holds, Shown
<1> QED  BY <1>6, <1>8, <1>9, <1>10 DEF MovedTo

(* To the beginning of the line.                                           *)
LEMMA MovedToHead ==
  ASSUME NEW s, NEW l, NEW r, Holds(s, l, r)
  PROVE  /\ MovedTo(s, 0, cmdline_cursor_linehead(s))
         /\ cmdline_cursor_linehead(s).clipboard = s.clipboard
<1>1. s \in LineType /\ s.pos \in Nat /\ s.term \in Terminals /\ s.term.col = s.pos
  BY Parts
<1>2. PICK t2 : t2 = Typed(s.term, Repeat(BS, s.pos))  OBVIOUS
<1>3. t2 \in Terminals /\ t2 = [cells |-> s.term.cells, col |-> s.term.col - s.pos]
  BY <1>1, <1>2, TypedBack
<1>4. t2.cells = s.term.cells /\ t2.col = 0  BY <1>1, <1>3
<1> DEFINE s2 == [s EXCEPT !.pos = 0, !.term = Typed(@, Repeat(BS, s.pos))]
<1>5. cmdline_cursor_linehead(s) = s2  BY DEF cmdline_cursor_linehead
<1>6. s2 = [s EXCEPT !.pos = 0, !.term = t2]  BY <1>2
<1> HIDE DEF s2
<1>7. /\ s2.buf = s.buf /\ s2.linelen = s.linelen /\ s2.pos = 0
      /\ s2.term = t2 /\ s2.clipboard = s.clipboard
  BY <1>1, <1>6 DEF LineType
<1>8. s2 \in LineType  BY <1>1, <1>3, <1>6 DEF LineType
<1>9. Shown(s2)  BY <1>4, <1>7 DEF Holds, Shown
<1> QED  BY <1>5, <1>7, <1>8, <1>9 DEF MovedTo

(* To the end of the line, from a place up to which the terminal shows it. *)
LEMMA MovedToTail ==
  ASSUME NEW s, NEW l, NEW r, Holds(s, l, r), NEW s1 \in LineType, s1.buf = s.buf,
         s1.linelen = s.linelen, s1.clipboard = s.clipboard, NEW u \in Seq(Text),
         u = BufFrom(s.buf, s1.pos, s.linelen - 1), Lies(s.buf, s1.pos, u),
         s1.pos + Len(u) = s.linelen, s1.term.col = s1.pos,
         ShownBut(s, s1.term.cells, s1.pos, s.linelen)
  PROVE  /\ MovedTo(s, s.linelen, cmdline_cursor_linetail(s1))
         /\ cmdline_cursor_linetail(s1).clipboard = s.clipboard
<1>1. s1.pos \in Nat /\ s1.term \in Terminals /\ s.linelen \in Nat  BY Parts DEF LineType
<1>2. PICK t2 : t2 = Typed(s1.term, u)  OBVIOUS
<1>3. /\ t2 \in Terminals
      /\ t2 = [cells |-> Over(s1.term.cells, s1.term.col, u), col |-> s1.term.col + Len(u)]
  BY <1>1, <1>2, TypedText
<1>4. t2.cells = Over(s1.term.cells, s1.pos, u) /\ t2.col = s.linelen  BY <1>3
<1>5. \A i \in Slots : t2.cells[i] = IF i < s.linelen THEN s.buf[i] ELSE Blank
  <2>0. PICK p \in Nat : p = s1.pos  BY <1>1
  <2>1. PICK cells : cells = s1.term.cells  OBVIOUS
  <2>2. ShownBut(s, cells, p, p + Len(u))  BY <2>0, <2>1
  <2>3. p + Len(u) <= s.linelen /\ Lies(s.buf, p, u)  BY <1>1, <2>0
  <2>4. \A i \in Slots : Over(cells, p, u)[i] = IF i < s.linelen THEN s.buf[i] ELSE Blank
    BY <2>2, <2>3, Reprinted
  <2> QED  BY <1>4, <2>0, <2>1, <2>4
<1> DEFINE s2 == [s1 EXCEPT !.pos = s1.linelen,
                            !.term = Typed(@, BufFrom(s1.buf, s1.pos, s1.linelen - 1))]
<1>6. cmdline_cursor_linetail(s1) = s2  BY DEF cmdline_cursor_linetail
<1>7. s2 = [s1 EXCEPT !.pos = s.linelen, !.term = t2]  BY <1>2
<1> HIDE DEF s2
<1>8. /\ s2.buf = s.buf /\ s2.linelen = s.linelen /\ s2.pos = s.linelen
      /\ s2.term = t2 /\ s2.clipboard = s.clipboard
  BY <1>7 DEF LineType
<1>9. s2 \in LineType  BY <1>1, <1>3, <1>7 DEF LineType
<1>10. Shown(s2)  BY <1>4, <1>5, <1>8 DEF Shown
<1> QED  BY <1>6, <1>8, <1>9, <1>10 DEF MovedTo

-----------------------------------------------------------------------------
(* To the end of the line from the cursor: what is behind it is printed.   *)
LEMMA MovedToEnd ==
  ASSUME NEW s, NEW l, NEW r, Holds(s, l, r)
  PROVE  /\ MovedTo(s, s.linelen, cmdline_cursor_linetail(s))
         /\ cmdline_cursor_linetail(s).clipboard = s.clipboard
<1>1. /\ s \in LineType /\ r \in Seq(Text) /\ s.pos = Len(l) /\ s.pos + Len(r) = s.linelen
      /\ s.term.col = s.pos
  BY Parts
<1>2. r = BufFrom(s.buf, s.pos, s.linelen - 1)  BY TextsRead
<1>3. Lies(s.buf, s.pos, r)  BY <1>1 DEF Holds, Lies
<1>4. ShownBut(s, s.term.cells, s.pos, s.linelen)  BY DEF Holds, Shown, ShownBut
<1> QED  BY <1>1, <1>2, <1>3, <1>4, MovedToTail

(* The screen cleared: the line is printed again after the prompt.         *)
LEMMA ScreenCleared ==
  ASSUME NEW s, NEW l, NEW r, Holds(s, l, r)
  PROVE  /\ MovedTo(s, s.linelen, clear_screen(s))
         /\ clear_screen(s).clipboard = s.clipboard
<1>1. PICK h : h = cmdline_cursor_linehead(s)  OBVIOUS
<1>2. /\ h \in LineType /\ h.buf = s.buf /\ h.linelen = s.linelen /\ h.pos = 0
      /\ h.clipboard = s.clipboard
  BY <1>1, MovedToHead DEF MovedTo
<1>3. PICK s1 : s1 = [h EXCEPT !.term = Prompt]  OBVIOUS
<1>4. clear_screen(s) = cmdline_cursor_linetail(s1)  BY <1>1, <1>3 DEF clear_screen
<1>5. Prompt \in Terminals /\ Prompt.col = 0 /\ \A i \in Slots : Prompt.cells[i] = Blank
  BY DEF Prompt, Terminals, Text
<1>6. /\ s1 \in LineType /\ s1.buf = s.buf /\ s1.linelen = s.linelen /\ s1.pos = 0
      /\ s1.clipboard = s.clipboard /\ s1.term = Prompt
  <2>1. /\ s1.buf = s.buf /\ s1.linelen = s.linelen /\ s1.pos = 0
        /\ s1.clipboard = s.clipboard /\ s1.term = Prompt
    BY <1>2, <1>3 DEF LineType
  <2>2. s1 \in LineType  BY <1>2, <1>3, <1>5 DEF LineType
  <2> QED  BY <2>1, <2>2
<1>7. PICK u \in Seq(Text) : u = l \o r /\ Len(u) = s.linelen
  <2>1. l \in Seq(Text) /\ r \in Seq(Text) /\ s.linelen = Len(l) + Len(r)  BY Parts
  <2>2. l \o r \in Seq(Text) /\ Len(l \o r) = Len(l) + Len(r)  BY <2>1, Joined
  <2> QED  BY <2>1, <2>2
<1>8. u = BufFrom(s.buf, 0, s.linelen - 1)  BY <1>7, TextsRead
<1>9. Lies(s.buf, 0, u)
  <2>1. PICK n \in Nat, m \in Nat : n = Len(l) /\ m = Len(r) /\ Len(u) = n + m
    BY <1>7, Parts
  <2>2. /\ \A i \in 1 .. n : u[i] = l[i] /\ s.buf[i - 1] = l[i]
        /\ \A i \in 1 .. m : u[n + i] = r[i] /\ s.buf[n + i - 1] = r[i]
    <3>1. l \in Seq(Text) /\ r \in Seq(Text)  BY Parts
    <3>2. /\ \A i \in 1 .. Len(l) : (l \o r)[i] = l[i]
          /\ \A i \in 1 .. Len(r) : (l \o r)[Len(l) + i] = r[i]
      BY <3>1, Joined
    <3> QED  BY <1>7, <2>1, <3>2 DEF Holds
  <2>3. ASSUME NEW i \in 1 .. n + m  PROVE s.buf[0 + i - 1] = u[i]
    <3>1. CASE i <= n
      <4>1. i \in 1 .. n /\ 0 + i - 1 = i - 1  BY <3>1
      <4> QED  BY <2>2, <4>1
    <3>2. CASE i > n
      <4>1. i - n \in 1 .. m /\ n + (i - n) = i /\ n + (i - n) - 1 = 0 + i - 1  BY <3>2
      <4> QED  BY <2>2, <4>1
    <3> QED  BY <3>1, <3>2
  <2> QED  BY <2>1, <2>3 DEF Lies
<1>10. ShownBut(s, s1.term.cells, 0, s.linelen)
  <2>1. ASSUME NEW i \in Slots  PROVE ~(i < 0) /\ (s.linelen <= i => ~(i < s.linelen))
    <3>1. i \in Int /\ 0 <= i /\ s.linelen \in Int  BY Parts
    <3> QED  BY <3>1
  <2> QED  BY <1>5, <1>6, <2>1 DEF ShownBut
<1>11. 0 + Len(u) = s.linelen  BY <1>7
<1>12. /\ MovedTo(s, s.linelen, cmdline_cursor_linetail(s1))
       /\ cmdline_cursor_linetail(s1).clipboard = s.clipboard
  <2>1. s1.term.col = s1.pos  BY <1>5, <1>6
  <2>2. /\ u = BufFrom(s.buf, s1.pos, s.linelen - 1) /\ Lies(s.buf, s1.pos, u)
        /\ s1.pos + Len(u) = s.linelen /\ ShownBut(s, s1.term.cells, s1.pos, s.linelen)
    BY <1>6, <1>8, <1>9, <1>10, <1>11
  <2> QED  BY <1>6, <2>1, <2>2, MovedToTail
<1> QED  BY <1>4, <1>12

-----------------------------------------------------------------------------
(* The text behind the cursor cut: the clipboard has it.                   *)
LEMMA TailKilled ==
  ASSUME NEW s, NEW l, NEW r, Holds(s, l, r)
  PROVE  Holds(cmdline_killtail(s), l, <<>>) /\ cmdline_killtail(s).clipboard = r
<1>1. PICK p \in Nat, m \in Nat : p = Len(l) /\ m = Len(r)  BY Parts
<1>2. /\ s \in LineType /\ s.pos = p /\ s.linelen = p + m /\ s.term.col = p /\ p \in Slots
      /\ l \in Seq(Text) /\ r \in Seq(Text) /\ s.term \in Terminals
      /\ s.buf \in [Slots -> Text \cup {NUL}]
      /\ Slots = 0 .. CmdlineCharMax - 1 /\ CmdlineCharMax \in Nat
  BY <1>1, Parts
<1>3. s.linelen - s.pos = m /\ p + m - m = p  BY <1>2
<1>4. PICK u \in Seq(Text) : /\ u = Repeat(Blank, m) /\ Len(u) = m
                             /\ \A i \in 1 .. m : u[i] = Blank
  BY Texts
<1>5. PICK t2 : t2 = Typed(s.term, u \o Repeat(BS, m))  OBVIOUS
<1>6. Redraws(s.term, t2, s.term.col, u, m)  BY <1>2, <1>5, Redrawn
<1>7. t2 \in Terminals /\ t2.cells = Over(s.term.cells, p, u) /\ t2.col = p
  BY <1>2, <1>3, <1>4, <1>6 DEF Redraws
<1>8. PICK b : b = [s.buf EXCEPT ![p] = NUL]  OBVIOUS
<1>9. /\ b \in [Slots -> Text \cup {NUL}] /\ b[p] = NUL
      /\ \A i \in Slots : i # p => b[i] = s.buf[i]
  BY <1>2, <1>8
<1> DEFINE s2 == [s EXCEPT !.clipboard = StringAt(s.buf, s.pos),
                  !.term = Typed(@, Repeat(Blank, s.linelen - s.pos)
                                    \o Repeat(BS, s.linelen - s.pos)),
                  !.buf = [@ EXCEPT ![s.pos] = NUL], !.linelen = s.pos]
<1>10. cmdline_killtail(s) = s2  BY DEF cmdline_killtail
<1>11. s2 = [s EXCEPT !.clipboard = r, !.term = t2, !.buf = b, !.linelen = p]
  <2>1. StringAt(s.buf, s.pos) = r  BY TextsRead
  <2>2. Typed(s.term, Repeat(Blank, s.linelen - s.pos) \o Repeat(BS, s.linelen - s.pos)) = t2
    BY <1>3, <1>4, <1>5
  <2> QED  BY <1>2, <1>8, <2>1, <2>2
<1> HIDE DEF s2
<1>12. /\ s2.buf = b /\ s2.pos = p /\ s2.linelen = p /\ s2.term = t2 /\ s2.clipboard = r
  BY <1>2, <1>11 DEF LineType
<1>13. s2 \in LineType  BY <1>2, <1>7, <1>9, <1>11 DEF LineType
<1>14. ASSUME NEW i \in Slots
       PROVE  /\ i < p => b[i] = l[i + 1]
              /\ t2.cells[i] = IF i < p THEN b[i] ELSE Blank
  <2>1. i \in Int /\ 0 <= i  BY <1>2
  <2>2. t2.cells[i] = IF p <= i /\ i < p + m THEN u[i - p + 1] ELSE s.term.cells[i]
    BY <1>4, <1>7 DEF Over
  <2>3. s.term.cells[i] = IF i < p + m THEN s.buf[i] ELSE Blank  BY <1>2 DEF Holds, Shown
  <2>4. CASE i < p
    <3>1. i # p /\ i < p + m /\ ~(p <= i)  BY <2>1, <2>4
    <3>2. s.buf[i] = l[i + 1]  BY <1>1, <2>4, Characters
    <3> QED  BY <1>9, <2>2, <2>3, <2>4, <3>1, <3>2
  <2>5. CASE p <= i /\ i < p + m
    <3>1. i - p + 1 \in 1 .. m /\ ~(i < p)  BY <2>1, <2>5
    <3> QED  BY <1>4, <2>2, <2>5, <3>1
  <2>6. CASE p + m <= i
    <3>1. ~(i < p + m) /\ ~(i < p)  BY <2>1, <2>6
    <3> QED  BY <2>2, <2>3, <3>1
  <2> QED  BY <2>1, <2>4, <2>5, <2>6
<1>15. <<>> \in Seq(Text) /\ Len(<<>>) = 0  BY Texts
<1>16. Filled(s2.buf, l, <<>>)
  <2>1. \A i \in Slots : ~(p <= i /\ i < p + 0)  BY <1>2
  <2> QED  BY <1>1, <1>12, <1>14, <1>15, <2>1 DEF Filled
<1>17. Shown(s2)  BY <1>7, <1>12, <1>14 DEF Shown
<1>18. s2.pos = Len(l) /\ s2.linelen = Len(l) + Len(<<>>)  BY <1>1, <1>12, <1>15
<1>19. s2.buf[s2.linelen] = NUL  BY <1>9, <1>12
<1>20. Holds(s2, l, <<>>)  BY <1>2, <1>13, <1>15, <1>16, <1>17, <1>18, <1>19, Made
<1> QED  BY <1>10, <1>12, <1>20

(* A function applied again and again has its values.                      *)
IsIterated(f, X, N, x, G) ==
  f \in [0 .. N -> X] /\ f[0] = x /\ \A k \in 1 .. N : f[k] = G[k][f[k - 1]]

(* Steps that stay in X can be taken one after the other.                  *)
LEMMA Iterates ==
  ASSUME NEW X, NEW N \in Nat, NEW x \in X, NEW G \in [1 .. N -> [X -> X]]
  PROVE  \E f : IsIterated(f, X, N, x, G)
<1> DEFINE Upto(m) == \E f \in [0 .. m -> X] :
                        f[0] = x /\ \A k \in 1 .. m : f[k] = G[k][f[k - 1]]
           S == {m \in 0 .. N : Upto(m)}
<1>1. 0 \in S
  <2> DEFINE f == [k \in 0 .. 0 |-> x]
  <2>1. f \in [0 .. 0 -> X] /\ f[0] = x  OBVIOUS
  <2>2. \A k \in 1 .. 0 : f[k] = G[k][f[k - 1]]  OBVIOUS
  <2> HIDE DEF f
  <2>3. Upto(0)  BY <2>1, <2>2
  <2> HIDE DEF Upto
  <2> QED  BY <2>3
<1>2. \A m \in 0 .. N - 1 : m \in S => m + 1 \in S
  <2> SUFFICES ASSUME NEW m \in 0 .. N - 1, NEW f \in [0 .. m -> X], f[0] = x,
                      \A k \in 1 .. m : f[k] = G[k][f[k - 1]]
               PROVE  Upto(m + 1)
    BY DEF S
  <2> DEFINE g == [k \in 0 .. m + 1 |-> IF k <= m THEN f[k] ELSE G[m + 1][f[m]]]
  <2>1. m \in Nat /\ m + 1 \in 1 .. N  OBVIOUS
  <2>2. g \in [0 .. m + 1 -> X]
    <3>1. f[m] \in X /\ G[m + 1] \in [X -> X]  BY <2>1
    <3>2. G[m + 1][f[m]] \in X  BY <3>1
    <3>3. ASSUME NEW k \in 0 .. m + 1, k <= m  PROVE f[k] \in X  BY <2>1, <3>3
    <3> QED  BY <3>2, <3>3
  <2>3. g[0] = x  BY <2>1
  <2>4. ASSUME NEW k \in 1 .. m + 1  PROVE g[k] = G[k][g[k - 1]]
    <3>1. CASE k <= m
      <4>1. k \in 1 .. m /\ k \in 0 .. m + 1 /\ k - 1 \in 0 .. m + 1 /\ k - 1 <= m
        BY <2>1, <3>1
      <4> QED  BY <4>1, <3>1
    <3>2. CASE k = m + 1
      <4>1. k - 1 = m /\ m \in 0 .. m + 1 /\ m + 1 \in 0 .. m + 1 /\ ~(m + 1 <= m) /\ m <= m
        BY <2>1, <3>2
      <4>2. g[m + 1] = G[m + 1][f[m]] /\ g[m] = f[m]  BY <4>1
      <4> QED  BY <3>2, <4>1, <4>2
    <3> QED  BY <2>1, <3>1, <3>2
  <2> HIDE DEF g
  <2> QED  BY <2>2, <2>3, <2>4
<1>3. 0 .. N \subseteq S
  <2> HIDE DEF S
  <2> QED  BY <1>1, <1>2, Climb
<1>4. N \in S  BY <1>3
<1> QED  BY <1>4 DEF IsIterated

-----------------------------------------------------------------------------
(* The first k characters of u, as far as there is room for them.          *)
Fitting(k, room) == IF k < room THEN k ELSE room

GoodLines == {s \in LineType : \E l, r : Holds(s, l, r)}

(* A good line stays one whatever is typed.                                *)
LEMMA StillGood ==
  ASSUME NEW s \in GoodLines, NEW c \in Text
  PROVE  cmdline_insert_char(s, c) \in GoodLines
<1>1. PICK l, r : Holds(s, l, r)  BY DEF GoodLines
<1>2. CASE Full(s)  BY <1>2 DEF cmdline_insert_char
<1>3. CASE ~Full(s)
  <2>1. Holds(cmdline_insert_char(s, c), l \o <<c>>, r)  BY <1>1, <1>3, Inserted
  <2>2. cmdline_insert_char(s, c) \in LineType  BY <2>1 DEF Holds
  <2> QED  BY <2>1, <2>2 DEF GoodLines
<1> QED  BY <1>2, <1>3

(* One character more.                                                     *)
LEMMA OneMoreOf ==
  ASSUME NEW l \in Seq(Text), NEW u \in Seq(Text), NEW k \in Nat, k < Len(u)
  PROVE  /\ (l \o SubSeq(u, 1, k)) \o <<u[k + 1]>> = l \o SubSeq(u, 1, k + 1)
         /\ u[k + 1] \in Text
<1>1. k + 1 \in 1 .. Len(u) /\ u[k + 1] \in Text  OBVIOUS
<1>2. PICK v \in Seq(Text) : v = SubSeq(u, 1, k) /\ Len(v) = k /\ \A i \in 1 .. k : v[i] = u[i]
  <2>1. k <= Len(u)  OBVIOUS
  <2> QED  BY <2>1, Front
<1>3. PICK w \in Seq(Text) : /\ w = SubSeq(u, 1, k + 1) /\ Len(w) = k + 1
                             /\ \A i \in 1 .. k + 1 : w[i] = u[i]
  <2>1. k + 1 <= Len(u) /\ k + 1 \in Nat  BY <1>1
  <2> QED  BY <2>1, Front
<1>4. <<u[k + 1]>> \in Seq(Text)  BY <1>1
<1>5. v \o <<u[k + 1]>> = w
  <2>1. PICK x \in Seq(Text) : x = v \o <<u[k + 1]>>  BY <1>4, Joined
  <2>2. Len(x) = k + 1 /\ x[k + 1] = u[k + 1] /\ \A i \in 1 .. k : x[i] = v[i]
    BY <1>2, <1>4, <2>1
  <2>3. ASSUME NEW i \in 1 .. k + 1  PROVE x[i] = w[i]
    <3>1. CASE i = k + 1  BY <1>3, <2>2, <3>1
    <3>2. CASE i # k + 1
      <4>1. i \in 1 .. k  BY <3>2
      <4> QED  BY <1>2, <1>3, <2>2, <4>1
    <3> QED  BY <3>1, <3>2
  <2>4. x = w  BY <1>3, <2>2, <2>3, SeqEqual
  <2> QED  BY <2>1, <2>4
<1>6. (l \o v) \o <<u[k + 1]>> = l \o (v \o <<u[k + 1]>>)
  BY <1>4, ConcatAssociative
<1> QED  BY <1>1, <1>2, <1>3, <1>5, <1>6

(* The clipboard inserted, until the line is full.                         *)
LEMMA Yanked ==
  ASSUME NEW s, NEW l, NEW r, Holds(s, l, r)
  PROVE  /\ Holds(cmdline_yank(s),
                  l \o SubSeq(s.clipboard, 1, Fitting(Len(s.clipboard),
                                                      CmdlineCharMax - 1 - s.linelen)), r)
         /\ cmdline_yank(s).clipboard = s.clipboard
<1>1. PICK c \in Seq(Text), N \in Nat : c = s.clipboard /\ N = Len(c)  BY Parts
<1>2. PICK room \in Nat : room = CmdlineCharMax - 1 - s.linelen
  <2>1. CmdlineCharMax - 1 - s.linelen \in Nat  BY Parts
  <2> QED  BY <2>1
<1>3. l \in Seq(Text) /\ r \in Seq(Text) /\ s.linelen = Len(l) + Len(r) /\ s \in LineType
      /\ CmdlineCharMax \in Nat /\ Len(l) \in Nat /\ Len(r) \in Nat
  BY Parts
<1> DEFINE Is(f) == f = [k \in 0 .. N |-> IF k = 0 THEN s
                                          ELSE cmdline_insert_char(f[k - 1], c[k])]
<1>4. \E f : Is(f)
  <2> DEFINE G == [k \in 1 .. N |-> [x \in GoodLines |-> cmdline_insert_char(x, c[k])]]
  <2>1. G \in [1 .. N -> [GoodLines -> GoodLines]]
    <3>1. ASSUME NEW k \in 1 .. N, NEW x \in GoodLines
          PROVE  cmdline_insert_char(x, c[k]) \in GoodLines
      <4>1. c[k] \in Text  BY <1>1
      <4> QED  BY <4>1, StillGood
    <3> QED  BY <3>1
  <2>2. s \in GoodLines  BY <1>3 DEF GoodLines
  <2>3. \A k \in 1 .. N : \A x \in GoodLines : G[k][x] = cmdline_insert_char(x, c[k])
    OBVIOUS
  <2> HIDE DEF G
  <2>4. PICK f \in [0 .. N -> GoodLines] : f[0] = s /\ \A k \in 1 .. N : f[k] = G[k][f[k - 1]]
    <3>1. \E f : IsIterated(f, GoodLines, N, s, G)  BY <2>1, <2>2, Iterates
    <3> QED  BY <3>1 DEF IsIterated
  <2>5. ASSUME NEW k \in 0 .. N
        PROVE  f[k] = IF k = 0 THEN s ELSE cmdline_insert_char(f[k - 1], c[k])
    <3>1. CASE k = 0  BY <2>4, <3>1
    <3>2. CASE k # 0
      <4>1. k \in 1 .. N /\ k - 1 \in 0 .. N  BY <3>2
      <4>2. f[k - 1] \in GoodLines  BY <2>4, <4>1
      <4>3. G[k][f[k - 1]] = cmdline_insert_char(f[k - 1], c[k])  BY <2>3, <4>1, <4>2
      <4> QED  BY <2>4, <3>2, <4>1, <4>3
    <3> QED  BY <3>1, <3>2
  <2>6. f = [k \in 0 .. N |-> f[k]]  BY <2>4
  <2>7. Is(f)  BY <2>5, <2>6
  <2> QED  BY <2>7
<1>5. PICK f : f = CHOOSE h : Is(h)  OBVIOUS
<1>6. Is(f)  BY <1>4, <1>5
<1>7. cmdline_yank(s) = f[N]  BY <1>1, <1>5 DEF cmdline_yank
<1>8. f[0] = s /\ \A k \in 1 .. N : f[k] = cmdline_insert_char(f[k - 1], c[k])
  BY <1>6
<1> HIDE DEF Is
<1> DEFINE Done(k) == /\ Holds(f[k], l \o SubSeq(c, 1, Fitting(k, room)), r)
                      /\ f[k].clipboard = c
           S == {k \in 0 .. N : Done(k)}
<1>9. 0 \in S
  <2>1. Fitting(0, room) = 0  BY DEF Fitting
  <2>2. SubSeq(c, 1, 0) = <<>>  OBVIOUS
  <2>3. l \o <<>> = l  BY <1>3, ConcatEmptySeq
  <2>4. Done(0)  BY <1>1, <1>8, <2>1, <2>2, <2>3
  <2> HIDE DEF Done
  <2> QED  BY <2>4
<1>10. ASSUME NEW k \in 0 .. N - 1, Done(k)  PROVE Done(k + 1)
  <2>1. /\ k \in Nat /\ k < Len(c) /\ k + 1 \in 1 .. N /\ (k + 1) - 1 = k
        /\ c[k + 1] \in Text
    BY <1>1
  <2>2. f[k + 1] = cmdline_insert_char(f[k], c[k + 1])  BY <1>8, <2>1
  <2>3. CASE k < room
    <3>1. Fitting(k, room) = k /\ Fitting(k + 1, room) = k + 1  BY <2>1, <2>3 DEF Fitting
    <3>2. PICK v \in Seq(Text) : v = SubSeq(c, 1, k) /\ Len(v) = k
      <4>1. k <= Len(c)  BY <1>1, <2>1
      <4>2. SubSeq(c, 1, k) \in Seq(Text) /\ Len(SubSeq(c, 1, k)) = k  BY <2>1, <4>1, Front
      <4> QED  BY <4>2
    <3>3. PICK l2 \in Seq(Text) : l2 = l \o v /\ Len(l2) = Len(l) + k
      <4>1. l \o v \in Seq(Text) /\ Len(l \o v) = Len(l) + Len(v)  BY <1>3, Joined
      <4> QED  BY <3>2, <4>1
    <3>4. Holds(f[k], l2, r)  BY <1>10, <3>1, <3>2, <3>3
    <3>5. f[k].linelen = Len(l) + k + Len(r)
      <4>1. f[k].linelen = Len(l2) + Len(r)  BY <3>4, Parts
      <4> QED  BY <3>3, <4>1
    <3>6. ~Full(f[k])
      <4>1. PICK a \in Nat, b \in Nat : a = Len(l) /\ b = Len(r)  BY <1>3
      <4>2. f[k].linelen = a + k + b /\ room = CmdlineCharMax - 1 - (a + b)
        BY <1>2, <1>3, <3>5, <4>1
      <4>3. a + k + b < CmdlineCharMax - 1  BY <1>3, <2>1, <2>3, <4>2
      <4>4. ~(a + k + b >= CmdlineCharMax - 1)  BY <1>3, <2>1, <4>3
      <4> QED  BY <4>2, <4>4 DEF Full
    <3>7. /\ Holds(f[k + 1], l2 \o <<c[k + 1]>>, r)
          /\ f[k + 1].clipboard = f[k].clipboard
      BY <2>1, <2>2, <3>4, <3>6, Inserted
    <3>8. l2 \o <<c[k + 1]>> = l \o SubSeq(c, 1, k + 1)
      <4>1. (l \o SubSeq(c, 1, k)) \o <<c[k + 1]>> = l \o SubSeq(c, 1, k + 1)
        BY <1>3, <2>1, OneMoreOf
      <4> QED  BY <3>2, <3>3, <4>1
    <3> QED  BY <1>10, <3>1, <3>7, <3>8
  <2>4. CASE ~(k < room)
    <3>1. Fitting(k, room) = room /\ Fitting(k + 1, room) = room  BY <2>1, <2>4 DEF Fitting
    <3>2. PICK v \in Seq(Text) : v = SubSeq(c, 1, room) /\ Len(v) = room
      <4>1. room <= Len(c)  BY <1>1, <2>1, <2>4
      <4>2. SubSeq(c, 1, room) \in Seq(Text) /\ Len(SubSeq(c, 1, room)) = room  BY <4>1, Front
      <4> QED  BY <4>2
    <3>3. PICK l2 \in Seq(Text) : l2 = l \o v /\ Len(l2) = Len(l) + room
      <4>1. l \o v \in Seq(Text) /\ Len(l \o v) = Len(l) + Len(v)  BY <1>3, Joined
      <4> QED  BY <3>2, <4>1
    <3>4. Holds(f[k], l2, r)  BY <1>10, <3>1, <3>2, <3>3
    <3>5. f[k].linelen = Len(l) + room + Len(r)
      <4>1. f[k].linelen = Len(l2) + Len(r)  BY <3>4, Parts
      <4> QED  BY <3>3, <4>1
    <3>6. Full(f[k])  BY <1>2, <1>3, <3>5 DEF Full
    <3>7. f[k + 1] = f[k]  BY <2>2, <3>6 DEF cmdline_insert_char
    <3> QED  BY <1>10, <3>1, <3>7
  <2> QED  BY <2>3, <2>4
<1>11. \A k \in 0 .. N - 1 : k \in S => k + 1 \in S
  <2> HIDE DEF Done
  <2> QED  BY <1>10
<1>12. 0 .. N \subseteq S
  <2> HIDE DEF S
  <2> QED  BY <1>9, <1>11, Climb
<1>13. Done(N)
  <2> HIDE DEF Done
  <2> QED  BY <1>12
<1> QED  BY <1>1, <1>2, <1>7, <1>13

-----------------------------------------------------------------------------
(* Before finds the place behind the last character of the other kind.     *)
IsBefore(buf, p, blank, k) ==
  /\ k \in 0 .. p
  /\ \A i \in k .. p - 1 : (buf[i] = Blank) = blank
  /\ k = 0 \/ (buf[k - 1] = Blank) # blank

(* Before finds such a position.                                           *)
LEMMA BeforeIs ==
  ASSUME NEW buf, NEW p \in Nat, NEW blank \in BOOLEAN
  PROVE  IsBefore(buf, p, blank, Before(buf, p, blank))
<1> DEFINE Run(k) == \A i \in k .. p - 1 : (buf[i] = Blank) = blank
           Ends(k) == k = 0 \/ (buf[k - 1] = Blank) # blank
           S == {k \in 0 .. p : Run(k)}
<1>1. PICK m \in S : \A k \in S : m <= k
  <2>1. S \in SUBSET Nat /\ p \in S  OBVIOUS
  <2> HIDE DEF S
  <2> QED  BY <2>1, Smallest
<1>2. m \in 0 .. p /\ Run(m)  BY <1>1
<1>3. Ends(m)
  <2> SUFFICES ASSUME m # 0, (buf[m - 1] = Blank) = blank  PROVE FALSE
    OBVIOUS
  <2>1. m - 1 \in 0 .. p /\ ~(m <= m - 1)  BY <1>2
  <2>2. ASSUME NEW i \in m - 1 .. p - 1  PROVE (buf[i] = Blank) = blank
    <3>1. i = m - 1 \/ i \in m .. p - 1  BY <1>2
    <3>2. CASE i = m - 1  BY <3>2
    <3>3. CASE i \in m .. p - 1  BY <1>2, <3>3
    <3> QED  BY <3>1, <3>2, <3>3
  <2>3. Run(m - 1)  BY <2>2
  <2>4. m - 1 \in S
    <3> HIDE DEF Run
    <3> QED  BY <2>1, <2>3
  <2> QED  BY <1>1, <2>1, <2>4
<1> HIDE DEF Run, Ends
<1>4. PICK k : k = CHOOSE j \in 0 .. p : Run(j) /\ Ends(j)  OBVIOUS
<1>5. k \in 0 .. p /\ Run(k) /\ Ends(k)  BY <1>2, <1>3, <1>4
<1>6. Before(buf, p, blank) = k  BY <1>4 DEF Before, Run, Ends
<1> QED  BY <1>5, <1>6 DEF Run, Ends, IsBefore

(* n times backspace, n not above the characters before the cursor.        *)
LEMMA BackspacedTimes ==
  ASSUME NEW s, NEW l, NEW r, Holds(s, l, r), NEW N \in Nat, N <= Len(l)
  PROVE  /\ Holds(Times(cmdline_backspace, s, N), SubSeq(l, 1, Len(l) - N), r)
         /\ Times(cmdline_backspace, s, N).clipboard = s.clipboard
<1>1. l \in Seq(Text) /\ s \in LineType /\ Len(l) \in Nat  BY Parts
<1> DEFINE Is(f) == f = [k \in 0 .. N |-> IF k = 0 THEN s ELSE cmdline_backspace(f[k - 1])]
<1>2. \E f : Is(f)
  <2> DEFINE G == [k \in 1 .. N |-> [x \in GoodLines |-> cmdline_backspace(x)]]
  <2>1. G \in [1 .. N -> [GoodLines -> GoodLines]]
    <3>1. ASSUME NEW x \in GoodLines  PROVE cmdline_backspace(x) \in GoodLines
      <4>1. PICK l1, r1 : Holds(x, l1, r1)  BY DEF GoodLines
      <4>2. CASE Len(l1) > 0
        <5>1. Holds(cmdline_backspace(x), SubSeq(l1, 1, Len(l1) - 1), r1)
          BY <4>1, <4>2, Backspaced
        <5>2. cmdline_backspace(x) \in LineType  BY <5>1 DEF Holds
        <5> QED  BY <5>1, <5>2 DEF GoodLines
      <4>3. CASE ~(Len(l1) > 0)
        <5>1. x.pos <= 0  BY <4>1, <4>3, Parts
        <5> QED  BY <5>1 DEF cmdline_backspace
      <4> QED  BY <4>2, <4>3
    <3> QED  BY <3>1
  <2>2. s \in GoodLines  BY <1>1 DEF GoodLines
  <2>3. \A k \in 1 .. N : \A x \in GoodLines : G[k][x] = cmdline_backspace(x)
    OBVIOUS
  <2> HIDE DEF G
  <2>4. PICK f \in [0 .. N -> GoodLines] : f[0] = s /\ \A k \in 1 .. N : f[k] = G[k][f[k - 1]]
    <3>1. \E f : IsIterated(f, GoodLines, N, s, G)  BY <2>1, <2>2, Iterates
    <3> QED  BY <3>1 DEF IsIterated
  <2>5. ASSUME NEW k \in 0 .. N
        PROVE  f[k] = IF k = 0 THEN s ELSE cmdline_backspace(f[k - 1])
    <3>1. CASE k = 0  BY <2>4, <3>1
    <3>2. CASE k # 0
      <4>1. k \in 1 .. N /\ k - 1 \in 0 .. N  BY <3>2
      <4>2. f[k - 1] \in GoodLines  BY <2>4, <4>1
      <4>3. G[k][f[k - 1]] = cmdline_backspace(f[k - 1])  BY <2>3, <4>1, <4>2
      <4> QED  BY <2>4, <3>2, <4>1, <4>3
    <3> QED  BY <3>1, <3>2
  <2>6. f = [k \in 0 .. N |-> f[k]]  BY <2>4
  <2>7. Is(f)  BY <2>5, <2>6
  <2> QED  BY <2>7
<1>3. PICK f : f = CHOOSE h : Is(h)  OBVIOUS
<1>4. Is(f)  BY <1>2, <1>3
<1>5. Times(cmdline_backspace, s, N) = f[N]  BY <1>3 DEF Times
<1>6. f[0] = s /\ \A k \in 1 .. N : f[k] = cmdline_backspace(f[k - 1])  BY <1>4
<1> HIDE DEF Is
<1> DEFINE Done(k) == /\ Holds(f[k], SubSeq(l, 1, Len(l) - k), r)
                      /\ f[k].clipboard = s.clipboard
           S == {k \in 0 .. N : Done(k)}
<1>7. 0 \in S
  <2>1. Len(l) - 0 = Len(l)  BY <1>1
  <2>2. SubSeq(l, 1, Len(l)) = l
    <3>1. Len(l) <= Len(l)  BY <1>1
    <3>2. /\ SubSeq(l, 1, Len(l)) \in Seq(Text) /\ Len(SubSeq(l, 1, Len(l))) = Len(l)
          /\ \A i \in 1 .. Len(l) : SubSeq(l, 1, Len(l))[i] = l[i]
      BY <1>1, <3>1, Front
    <3> QED  BY <1>1, <3>2, SeqEqual
  <2>3. Done(0)  BY <1>6, <2>1, <2>2
  <2> HIDE DEF Done
  <2> QED  BY <2>3
<1>8. ASSUME NEW k \in 0 .. N - 1, Done(k)  PROVE Done(k + 1)
  <2>1. PICK n \in Nat : n = Len(l) - k /\ n > 0 /\ n <= Len(l) /\ n - 1 = Len(l) - (k + 1)
    <3>1. /\ Len(l) - k \in Nat /\ Len(l) - k > 0 /\ Len(l) - k <= Len(l)
          /\ (Len(l) - k) - 1 = Len(l) - (k + 1)
      BY <1>1
    <3> QED  BY <3>1
  <2>2. PICK v \in Seq(Text) : /\ v = SubSeq(l, 1, n) /\ Len(v) = n
                               /\ \A i \in 1 .. n : v[i] = l[i]
    <3>1. /\ SubSeq(l, 1, n) \in Seq(Text) /\ Len(SubSeq(l, 1, n)) = n
          /\ \A i \in 1 .. n : SubSeq(l, 1, n)[i] = l[i]
      BY <1>1, <2>1, Front
    <3> QED  BY <3>1
  <2>3. Holds(f[k], v, r)  BY <1>8, <2>1, <2>2
  <2>4. f[k + 1] = cmdline_backspace(f[k])
    <3>1. k + 1 \in 1 .. N /\ (k + 1) - 1 = k  OBVIOUS
    <3> QED  BY <1>6, <3>1
  <2>5. /\ Holds(f[k + 1], SubSeq(v, 1, n - 1), r)
        /\ f[k + 1].clipboard = f[k].clipboard
    <3>1. Len(v) > 0  BY <2>1, <2>2
    <3>2. /\ Holds(cmdline_backspace(f[k]), SubSeq(v, 1, Len(v) - 1), r)
          /\ cmdline_backspace(f[k]).clipboard = f[k].clipboard
      BY <2>3, <3>1, Backspaced
    <3> QED  BY <2>2, <2>4, <3>2
  <2>6. SubSeq(v, 1, n - 1) = SubSeq(l, 1, n - 1)
    <3>1. PICK b \in Nat : b = n - 1 /\ b <= Len(v) /\ b <= Len(l)
      <4>1. n - 1 \in Nat /\ n - 1 <= Len(v) /\ n - 1 <= Len(l)  BY <1>1, <2>1, <2>2
      <4> QED  BY <4>1
    <3>2. PICK x \in Seq(Text) : /\ x = SubSeq(v, 1, b) /\ Len(x) = b
                                 /\ \A i \in 1 .. b : x[i] = v[i]
      <4>1. /\ SubSeq(v, 1, b) \in Seq(Text) /\ Len(SubSeq(v, 1, b)) = b
            /\ \A i \in 1 .. b : SubSeq(v, 1, b)[i] = v[i]
        BY <3>1, Front
      <4> QED  BY <4>1
    <3>3. PICK y \in Seq(Text) : /\ y = SubSeq(l, 1, b) /\ Len(y) = b
                                 /\ \A i \in 1 .. b : y[i] = l[i]
      <4>1. /\ SubSeq(l, 1, b) \in Seq(Text) /\ Len(SubSeq(l, 1, b)) = b
            /\ \A i \in 1 .. b : SubSeq(l, 1, b)[i] = l[i]
        BY <1>1, <3>1, Front
      <4> QED  BY <4>1
    <3>4. \A i \in 1 .. b : x[i] = y[i]
      <4>1. \A i \in 1 .. b : i \in 1 .. n  BY <3>1
      <4> QED  BY <2>2, <3>2, <3>3, <4>1
    <3>5. x = y  BY <3>2, <3>3, <3>4, SeqEqual
    <3> QED  BY <3>1, <3>2, <3>3, <3>5
  <2> QED  BY <1>8, <2>1, <2>5, <2>6
<1>9. \A k \in 0 .. N - 1 : k \in S => k + 1 \in S
  <2> HIDE DEF Done
  <2> QED  BY <1>8
<1>10. 0 .. N \subseteq S
  <2> HIDE DEF S
  <2> QED  BY <1>7, <1>9, Climb
<1>11. Done(N)
  <2> HIDE DEF Done
  <2> QED  BY <1>10
<1> QED  BY <1>5, <1>11

(* The word before the cursor, and the blanks behind it, cut.              *)
IsWord(l, n, cut) ==
  \E k \in 0 .. n : /\ \A i \in 1 .. k : cut[i] # Blank
                    /\ \A i \in k + 1 .. n : cut[i] = Blank
                    /\ (n = Len(l) \/ (k > 0 /\ l[Len(l) - n] = Blank))

(* cmdline_killword: a word and the blanks behind it go to the clipboard.  *)
LEMMA WordKilled ==
  ASSUME NEW s, NEW l, NEW r, Holds(s, l, r), Len(l) > 0
  PROVE  \E n \in 1 .. Len(l) :
            LET cut == SubSeq(l, Len(l) - n + 1, Len(l))
            IN  /\ IsWord(l, n, cut)
                /\ Holds(cmdline_killword(s), SubSeq(l, 1, Len(l) - n), r)
                /\ cmdline_killword(s).clipboard = cut
<1>1. PICK p \in Nat : p = Len(l) /\ p = s.pos /\ p > 0  BY Parts
<1>2. /\ s \in LineType /\ l \in Seq(Text) /\ s.buf \in [Slots -> Text \cup {NUL}]
      /\ \A i \in 1 .. p : s.buf[i - 1] = l[i]
  BY <1>1, Parts DEF Holds
<1>3. PICK q : q = Before(s.buf, p, TRUE) /\ IsBefore(s.buf, p, TRUE, q)
  BY BeforeIs
<1>4. q \in Nat /\ q <= p
  <2>1. q \in 0 .. p  BY <1>3, Zenon DEF IsBefore
  <2> QED  BY <2>1
<1>5. PICK a : a = Before(s.buf, q, FALSE) /\ IsBefore(s.buf, q, FALSE, a)
  BY <1>4, BeforeIs
<1>6. /\ \A i \in q .. p - 1 : s.buf[i] = Blank
      /\ \A i \in a .. q - 1 : s.buf[i] # Blank
      /\ q # 0 => s.buf[q - 1] # Blank
      /\ a # 0 => s.buf[a - 1] = Blank
  <2>1. \A i \in q .. p - 1 : s.buf[i] = Blank  BY <1>3, Zenon DEF IsBefore
  <2>2. \A i \in a .. q - 1 : s.buf[i] # Blank  BY <1>5, Zenon DEF IsBefore
  <2>3. q # 0 => s.buf[q - 1] # Blank  BY <1>3, Zenon DEF IsBefore
  <2>4. a # 0 => s.buf[a - 1] = Blank  BY <1>5, Zenon DEF IsBefore
  <2> QED  BY <2>1, <2>2, <2>3, <2>4
<1>7. a \in Nat /\ q \in Nat /\ p \in Nat /\ a <= q /\ q <= p
  <2>1. a \in 0 .. q  BY <1>5, Zenon DEF IsBefore
  <2> QED  BY <1>4, <2>1
<1>8. q # 0 => a < q
  <2> SUFFICES ASSUME q # 0, a = q  PROVE FALSE
    BY <1>7
  <2> QED  BY <1>6
<1>9. PICK n : n = p - a /\ n \in 1 .. p /\ p - n = a
  <2>1. a < p
    <3>1. CASE q = 0  BY <1>1, <1>7, <3>1
    <3>2. CASE q # 0  BY <1>7, <1>8, <3>2
    <3> QED  BY <3>1, <3>2
  <2>2. p - a \in 1 .. p /\ p - (p - a) = a  BY <1>7, <2>1
  <2> QED  BY <2>2
<1>10. PICK cut \in Seq(Text) : /\ cut = SubSeq(l, a + 1, p) /\ Len(cut) = n
                                /\ \A i \in 1 .. n : cut[i] = l[a + i]
  <2>1. /\ SubSeq(l, a + 1, Len(l)) \in Seq(Text) /\ Len(SubSeq(l, a + 1, Len(l))) = Len(l) - a
        /\ \A i \in 1 .. Len(l) - a : SubSeq(l, a + 1, Len(l))[i] = l[a + i]
    <3>1. a <= Len(l)  BY <1>1, <1>7
    <3> QED  BY <1>2, <1>7, <3>1, Back
  <2> QED  BY <1>1, <1>9, <2>1
<1>11. \A i \in 1 .. n : cut[i] = s.buf[a + i - 1]
  <2>1. ASSUME NEW i \in 1 .. n  PROVE cut[i] = s.buf[a + i - 1]
    <3>1. a + i \in 1 .. p /\ (a + i) - 1 = a + i - 1  BY <1>7, <1>9
    <3> QED  BY <1>2, <1>10, <3>1
  <2> QED  BY <2>1
<1>12. IsWord(l, n, cut)
  <2>1. PICK k \in 0 .. n : k = q - a
    <3>1. q - a \in 0 .. n  BY <1>4, <1>7, <1>9
    <3> QED  BY <3>1
  <2>2. ASSUME NEW i \in 1 .. k  PROVE cut[i] # Blank
    <3>1. a + i - 1 \in a .. q - 1 /\ i \in 1 .. n  BY <1>4, <1>7, <1>9, <2>1
    <3> QED  BY <1>6, <1>11, <3>1
  <2>3. ASSUME NEW i \in k + 1 .. n  PROVE cut[i] = Blank
    <3>1. a + i - 1 \in q .. p - 1 /\ i \in 1 .. n  BY <1>4, <1>7, <1>9, <2>1
    <3> QED  BY <1>6, <1>11, <3>1
  <2>4. n = Len(l) \/ (k > 0 /\ l[Len(l) - n] = Blank)
    <3>1. CASE a = 0  BY <1>1, <1>9, <3>1
    <3>2. CASE a # 0
      <4>1. q # 0 /\ k > 0  BY <1>4, <1>7, <1>8, <2>1, <3>2
      <4>2. a \in 1 .. p  BY <1>7, <1>4, <3>2
      <4>3. l[a] = Blank  BY <1>2, <1>6, <3>2, <4>2
      <4> QED  BY <1>1, <1>9, <4>1, <4>3
    <3> QED  BY <3>1, <3>2
  <2> QED  BY <2>1, <2>2, <2>3, <2>4 DEF IsWord
<1>13. BufFrom(s.buf, a, s.pos - 1) = cut
  <2>1. Lies(s.buf, a, cut)  BY <1>10, <1>11 DEF Lies
  <2>2. a + Len(cut) - 1 = s.pos - 1
    <3>1. a + n = p /\ n \in Nat  BY <1>7, <1>9
    <3>2. Len(cut) = n /\ s.pos = p  BY <1>1, <1>10
    <3> QED  BY <1>7, <3>1, <3>2
  <2> QED  BY <1>7, <2>1, <2>2, Copied
<1> DEFINE s1 == [s EXCEPT !.clipboard = cut]
<1>14. cmdline_killword(s) = Times(cmdline_backspace, s1, n)
  <2>1. s.pos # 0 /\ s.pos - a = n  BY <1>1, <1>9
  <2>2. Before(s.buf, Before(s.buf, s.pos, TRUE), FALSE) = a  BY <1>1, <1>3, <1>5
  <2> QED  BY <1>13, <2>1, <2>2 DEF cmdline_killword
<1>15. Holds(s1, l, r) /\ s1.clipboard = cut
  <2>1. /\ s1 \in LineType /\ s1.buf = s.buf /\ s1.pos = s.pos /\ s1.linelen = s.linelen
        /\ s1.term = s.term /\ s1.clipboard = cut
    BY <1>2 DEF LineType
  <2> HIDE DEF s1
  <2> QED  BY <2>1 DEF Holds, Shown
<1> HIDE DEF s1
<1>16. /\ Holds(Times(cmdline_backspace, s1, n), SubSeq(l, 1, Len(l) - n), r)
       /\ Times(cmdline_backspace, s1, n).clipboard = s1.clipboard
  <2>1. n \in Nat /\ n <= Len(l)  BY <1>1, <1>9
  <2> QED  BY <1>15, <2>1, BackspacedTimes
<1>17. SubSeq(l, Len(l) - n + 1, Len(l)) = cut  BY <1>1, <1>9, <1>10
<1>18. n \in 1 .. Len(l)  BY <1>1, <1>9
<1> QED  BY <1>12, <1>14, <1>15, <1>16, <1>17, <1>18

-----------------------------------------------------------------------------
(* What always holds of the editor, besides RingInv: the line is two texts *)
(* and everything that is copied to it is a text that fits.                *)
LineTexts == {u \in Seq(Text) : Len(u) < CmdlineCharMax}

LineHolds == \E l, r : Holds(CmdLine, l, r)
LineInv ==
  /\ LineHolds
  /\ CmdLine.clipboard \in LineTexts /\ curline \in LineTexts
  /\ entered \in Seq(LineTexts) /\ histnum \in 0 .. Len(entered)

(* A step keeps the invariant and is one of the contract's, or none.       *)
LineStep == LineInv' /\ [Contract!Next]_(Contract!vars)

(* The two texts are the contract's left and right.                        *)
LEMMA Now ==
  ASSUME LineInv
  PROVE  \E l, r : /\ Holds(CmdLine, l, r)
                   /\ l = BufFrom(CmdLine.buf, 0, CmdLine.pos - 1)
                   /\ r = BufFrom(CmdLine.buf, CmdLine.pos, CmdLine.linelen - 1)
<1>1. PICK l, r : Holds(CmdLine, l, r)  BY DEF LineInv, LineHolds
<1>2. /\ BufFrom(CmdLine.buf, 0, CmdLine.pos - 1) = l
      /\ BufFrom(CmdLine.buf, CmdLine.pos, CmdLine.linelen - 1) = r
  BY <1>1, TextsRead
<1> QED  BY <1>1, <1>2

(* The two texts together fit.                                             *)
LEMMA Fits ==
  ASSUME NEW s, NEW l, NEW r, Holds(s, l, r)
  PROVE  l \o r \in LineTexts /\ r \in LineTexts /\ Len(l \o r) = s.linelen
<1>1. /\ l \in Seq(Text) /\ r \in Seq(Text) /\ Len(l) \in Nat /\ Len(r) \in Nat
      /\ s.linelen = Len(l) + Len(r) /\ s.linelen \in Slots
      /\ Slots = 0 .. CmdlineCharMax - 1 /\ CmdlineCharMax \in Nat
  BY Parts
<1>2. l \o r \in Seq(Text) /\ Len(l \o r) = Len(l) + Len(r)  BY <1>1, Joined
<1>3. Len(l) + Len(r) < CmdlineCharMax /\ Len(r) < CmdlineCharMax
  <2>1. Len(l) + Len(r) \in 0 .. CmdlineCharMax - 1  BY <1>1
  <2> QED  BY <1>1, <2>1
<1> QED  BY <1>1, <1>2, <1>3 DEF LineTexts

(* A key that makes the line s, seen by the contract.                      *)
LEMMA KeyStep ==
  ASSUME LineInv, NEW s, Key(s), NEW l, NEW r, Holds(s, l, r), s.clipboard \in LineTexts
  PROVE  LineInv' /\ Contract!Edit(l, r, s.clipboard)
<1>1. /\ CmdLine' = s /\ histnum' = histnum /\ curline' = curline /\ entered' = entered
  BY DEF Key, histvars
<1>2. LineHolds'  BY <1>1 DEF LineHolds
<1>3. LineInv'  BY <1>1, <1>2 DEF LineInv
<1>4. /\ BufFrom(s.buf, 0, s.pos - 1) = l
      /\ BufFrom(s.buf, s.pos, s.linelen - 1) = r
  BY TextsRead
<1> QED  BY <1>1, <1>3, <1>4 DEF Contract!Edit, Contract!browsing

(* A key that changes nothing.                                             *)
LEMMA NoStep ==
  ASSUME LineInv, Key(CmdLine)
  PROVE  LineStep
<1>1. UNCHANGED <<CmdLine, histnum, curline, entered>>  BY DEF Key, histvars
<1>2. LineInv'  BY <1>1 DEF LineInv, LineHolds
<1>3. UNCHANGED Contract!vars  BY <1>1 DEF Contract!vars
<1> QED  BY <1>2, <1>3 DEF LineStep

-----------------------------------------------------------------------------
(* Every key, one lemma each.  A character typed.                          *)
LEMMA TypeStep ==
  ASSUME LineInv, NEW c \in Text, Key(cmdline_insert_char(CmdLine, c))
  PROVE  LineStep
<1>1. CASE Full(CmdLine)
  <2>1. cmdline_insert_char(CmdLine, c) = CmdLine  BY <1>1 DEF cmdline_insert_char
  <2> QED  BY <2>1, NoStep
<1>2. CASE ~Full(CmdLine)
  <2>1. PICK l, r : /\ Holds(CmdLine, l, r)
                    /\ l = BufFrom(CmdLine.buf, 0, CmdLine.pos - 1)
                    /\ r = BufFrom(CmdLine.buf, CmdLine.pos, CmdLine.linelen - 1)
    BY Now
  <2>2. /\ Holds(cmdline_insert_char(CmdLine, c), l \o <<c>>, r)
        /\ cmdline_insert_char(CmdLine, c).clipboard = CmdLine.clipboard
    BY <1>2, <2>1, Inserted
  <2>3. LineInv' /\ Contract!Edit(l \o <<c>>, r, CmdLine.clipboard)
    <3>1. CmdLine.clipboard \in LineTexts  BY DEF LineInv
    <3> HIDE DEF LineInv
    <3>2. LineInv' /\ Contract!Edit(l \o <<c>>, r, cmdline_insert_char(CmdLine, c).clipboard)
      BY <2>2, <3>1, KeyStep
    <3> QED  BY <2>2, <3>2
  <2>4. Contract!Upto(<<c>>, CmdlineCharMax - 1 - Len(l \o r)) = <<c>>
    <3>1. Len(l \o r) = CmdLine.linelen /\ CmdLine.linelen \in Nat  BY <2>1, Fits, Parts
    <3>2. ~(CmdlineCharMax - 1 - Len(l \o r) < 1)  BY <1>2, <3>1, LineAssumption DEF Full
    <3>3. Len(<<c>>) = 1 /\ SubSeq(<<c>>, 1, 1) = <<c>>
      <4>1. <<c>> \in Seq(Text) /\ Len(<<c>>) = 1 /\ <<c>>[1] = c  BY Texts
      <4>2. /\ SubSeq(<<c>>, 1, 1) \in Seq(Text) /\ Len(SubSeq(<<c>>, 1, 1)) = 1
            /\ SubSeq(<<c>>, 1, 1)[1] = <<c>>[1]
        BY <4>1, Front
      <4>3. \A i \in 1 .. 1 : SubSeq(<<c>>, 1, 1)[i] = <<c>>[i]  BY <4>2
      <4> QED  BY <4>1, <4>2, <4>3, SeqEqual
    <3> QED  BY <3>2, <3>3 DEF Contract!Upto
  <2>5. Contract!Insert(<<c>>)
    BY <2>1, <2>3, <2>4 DEF Contract!Insert, Contract!line
  <2>6. Contract!Type  BY <2>5 DEF Contract!Type, Text
  <2> QED  BY <2>3, <2>6 DEF LineStep, Contract!Next
<1> QED  BY <1>1, <1>2

(* The clipboard inserted, or what fits of it.                             *)
LEMMA YankStep ==
  ASSUME LineInv, Yank
  PROVE  LineStep
<1>1. PICK l, r : /\ Holds(CmdLine, l, r)
                  /\ l = BufFrom(CmdLine.buf, 0, CmdLine.pos - 1)
                  /\ r = BufFrom(CmdLine.buf, CmdLine.pos, CmdLine.linelen - 1)
  BY Now
<1> DEFINE clip == CmdLine.clipboard
           n == Fitting(Len(clip), CmdlineCharMax - 1 - CmdLine.linelen)
<1>2. /\ Holds(cmdline_yank(CmdLine), l \o SubSeq(clip, 1, n), r)
      /\ cmdline_yank(CmdLine).clipboard = clip
  BY <1>1, Yanked
<1>3. clip \in LineTexts  BY DEF LineInv
<1>4. LineInv' /\ Contract!Edit(l \o SubSeq(clip, 1, n), r, clip)
  <2>1. Key(cmdline_yank(CmdLine))  BY DEF Yank
  <2> HIDE DEF n
  <2>2. LineInv' /\ Contract!Edit(l \o SubSeq(clip, 1, n), r, cmdline_yank(CmdLine).clipboard)
    BY <1>2, <1>3, <2>1, KeyStep
  <2> QED  BY <1>2, <2>2
<1>5. Contract!Upto(clip, CmdlineCharMax - 1 - Len(l \o r)) = SubSeq(clip, 1, n)
  <2>1. Len(l \o r) = CmdLine.linelen /\ CmdLine.linelen \in Nat  BY <1>1, Fits, Parts
  <2>2. Len(clip) \in Nat /\ CmdlineCharMax \in Nat  BY <1>3, LineAssumption DEF LineTexts
  <2>3. n = IF CmdlineCharMax - 1 - Len(l \o r) < Len(clip)
            THEN CmdlineCharMax - 1 - Len(l \o r) ELSE Len(clip)
    BY <2>1, <2>2 DEF Fitting
  <2> HIDE DEF n
  <2> QED  BY <2>3 DEF Contract!Upto
<1>6. Contract!Insert(clip)
  <2> HIDE DEF n
  <2> QED  BY <1>1, <1>4, <1>5 DEF Contract!Insert, Contract!line
<1>7. Contract!Yank  BY <1>6 DEF Contract!Yank
<1> QED  BY <1>4, <1>7 DEF LineStep, Contract!Next

(* The character before the cursor deleted.                                *)
LEMMA BackspaceStep ==
  ASSUME LineInv, Backspace
  PROVE  LineStep
<1>1. PICK l, r : /\ Holds(CmdLine, l, r)
                  /\ l = BufFrom(CmdLine.buf, 0, CmdLine.pos - 1)
                  /\ r = BufFrom(CmdLine.buf, CmdLine.pos, CmdLine.linelen - 1)
  BY Now
<1>2. l \in Seq(Text) /\ CmdLine.pos = Len(l) /\ Len(l) \in Nat  BY <1>1, Parts
<1>3. CASE Len(l) = 0
  <2>1. cmdline_backspace(CmdLine) = CmdLine  BY <1>2, <1>3 DEF cmdline_backspace
  <2> QED  BY <2>1, NoStep DEF Backspace
<1>4. CASE Len(l) # 0
  <2>1. /\ Holds(cmdline_backspace(CmdLine), SubSeq(l, 1, Len(l) - 1), r)
        /\ cmdline_backspace(CmdLine).clipboard = CmdLine.clipboard
    <3>1. Len(l) > 0  BY <1>2, <1>4
    <3> QED  BY <1>1, <3>1, Backspaced
  <2>2. LineInv' /\ Contract!Edit(SubSeq(l, 1, Len(l) - 1), r, CmdLine.clipboard)
    <3>1. CmdLine.clipboard \in LineTexts  BY DEF LineInv
    <3>2. Key(cmdline_backspace(CmdLine))  BY DEF Backspace
    <3>3. LineInv' /\ Contract!Edit(SubSeq(l, 1, Len(l) - 1), r, cmdline_backspace(CmdLine).clipboard)
      BY <2>1, <3>1, <3>2, KeyStep
    <3> QED  BY <2>1, <3>3
  <2>3. l # <<>>  BY <1>4
  <2>4. Contract!Backspace
    BY <1>1, <2>2, <2>3 DEF Contract!Backspace, Contract!Without
  <2> QED  BY <2>2, <2>4 DEF LineStep, Contract!Next
<1> QED  BY <1>3, <1>4

(* The character behind the cursor deleted.                                *)
LEMMA DeleteStep ==
  ASSUME LineInv, Delete
  PROVE  LineStep
<1>1. PICK l, r : /\ Holds(CmdLine, l, r)
                  /\ l = BufFrom(CmdLine.buf, 0, CmdLine.pos - 1)
                  /\ r = BufFrom(CmdLine.buf, CmdLine.pos, CmdLine.linelen - 1)
  BY Now
<1>2. /\ r \in Seq(Text) /\ CmdLine.pos = Len(l) /\ Len(l) \in Nat /\ Len(r) \in Nat
      /\ CmdLine.linelen = Len(l) + Len(r)
  BY <1>1, Parts
<1>3. CASE Len(r) = 0
  <2>1. CmdLine.linelen <= CmdLine.pos  BY <1>2, <1>3
  <2>2. cmdline_delete(CmdLine) = CmdLine  BY <2>1 DEF cmdline_delete
  <2> QED  BY <2>2, NoStep DEF Delete
<1>4. CASE Len(r) # 0
  <2>1. /\ Holds(cmdline_delete(CmdLine), l, SubSeq(r, 2, Len(r)))
        /\ cmdline_delete(CmdLine).clipboard = CmdLine.clipboard
    <3>1. Len(r) > 0  BY <1>2, <1>4
    <3> QED  BY <1>1, <3>1, Deleted
  <2>2. LineInv' /\ Contract!Edit(l, SubSeq(r, 2, Len(r)), CmdLine.clipboard)
    <3>1. CmdLine.clipboard \in LineTexts  BY DEF LineInv
    <3>2. Key(cmdline_delete(CmdLine))  BY DEF Delete
    <3>3. LineInv' /\ Contract!Edit(l, SubSeq(r, 2, Len(r)), cmdline_delete(CmdLine).clipboard)
      BY <2>1, <3>1, <3>2, KeyStep
    <3> QED  BY <2>1, <3>3
  <2>3. r # <<>> /\ 1 + 1 = 2  BY <1>4
  <2>4. Contract!Delete
    BY <1>1, <2>2, <2>3 DEF Contract!Delete, Contract!Beyond
  <2> QED  BY <2>2, <2>4 DEF LineStep, Contract!Next
<1> QED  BY <1>3, <1>4

(* The line deleted.                                                       *)
LEMMA KillLineStep ==
  ASSUME LineInv, KillLine
  PROVE  LineStep
<1>1. PICK l, r : Holds(CmdLine, l, r)  BY Now
<1>2. /\ Holds(cmdline_kill(CmdLine), <<>>, <<>>)
      /\ cmdline_kill(CmdLine).clipboard = CmdLine.clipboard
  BY <1>1, Killed
<1>3. LineInv' /\ Contract!Edit(<<>>, <<>>, CmdLine.clipboard)
  <2>1. CmdLine.clipboard \in LineTexts  BY DEF LineInv
  <2>2. Key(cmdline_kill(CmdLine))  BY DEF KillLine
  <2>3. LineInv' /\ Contract!Edit(<<>>, <<>>, cmdline_kill(CmdLine).clipboard)
    BY <1>2, <2>1, <2>2, KeyStep
  <2> QED  BY <1>2, <2>3
<1>4. Contract!KillLine  BY <1>3 DEF Contract!KillLine
<1> QED  BY <1>3, <1>4 DEF LineStep, Contract!Next

(* What is behind the cursor cut.                                          *)
LEMMA KillTailStep ==
  ASSUME LineInv, KillTail
  PROVE  LineStep
<1>1. PICK l, r : /\ Holds(CmdLine, l, r)
                  /\ l = BufFrom(CmdLine.buf, 0, CmdLine.pos - 1)
                  /\ r = BufFrom(CmdLine.buf, CmdLine.pos, CmdLine.linelen - 1)
  BY Now
<1>2. Holds(cmdline_killtail(CmdLine), l, <<>>) /\ cmdline_killtail(CmdLine).clipboard = r
  BY <1>1, TailKilled
<1>3. LineInv' /\ Contract!Edit(l, <<>>, r)
  <2>1. r \in LineTexts  BY <1>1, Fits
  <2>2. Key(cmdline_killtail(CmdLine))  BY DEF KillTail
  <2>3. LineInv' /\ Contract!Edit(l, <<>>, cmdline_killtail(CmdLine).clipboard)
    BY <1>2, <2>1, <2>2, KeyStep
  <2> QED  BY <1>2, <2>3
<1>4. Contract!KillTail  BY <1>1, <1>3 DEF Contract!KillTail
<1> QED  BY <1>3, <1>4 DEF LineStep, Contract!Next

-----------------------------------------------------------------------------
(* The word before the cursor cut.                                         *)
LEMMA KillWordStep ==
  ASSUME LineInv, KillWord
  PROVE  LineStep
<1>1. PICK l, r : /\ Holds(CmdLine, l, r)
                  /\ l = BufFrom(CmdLine.buf, 0, CmdLine.pos - 1)
                  /\ r = BufFrom(CmdLine.buf, CmdLine.pos, CmdLine.linelen - 1)
  BY Now
<1>2. /\ l \in Seq(Text) /\ CmdLine.pos = Len(l) /\ Len(l) \in Nat /\ Len(r) \in Nat
      /\ CmdLine.linelen = Len(l) + Len(r) /\ CmdLine.linelen \in Slots
      /\ Slots = 0 .. CmdlineCharMax - 1 /\ CmdlineCharMax \in Nat
  BY <1>1, Parts
<1>3. CASE Len(l) = 0
  <2>1. cmdline_killword(CmdLine) = CmdLine  BY <1>2, <1>3 DEF cmdline_killword
  <2> QED  BY <2>1, NoStep DEF KillWord
<1>4. CASE Len(l) # 0
  <2>1. \E n \in 1 .. Len(l) :
            LET cut == SubSeq(l, Len(l) - n + 1, Len(l))
            IN  /\ IsWord(l, n, cut)
                /\ Holds(cmdline_killword(CmdLine), SubSeq(l, 1, Len(l) - n), r)
                /\ cmdline_killword(CmdLine).clipboard = cut
    <3>1. Len(l) > 0  BY <1>2, <1>4
    <3> QED  BY <1>1, <3>1, WordKilled
  <2>2. PICK n \in 1 .. Len(l) :
            LET cut == SubSeq(l, Len(l) - n + 1, Len(l))
            IN  /\ IsWord(l, n, cut)
                /\ Holds(cmdline_killword(CmdLine), SubSeq(l, 1, Len(l) - n), r)
                /\ cmdline_killword(CmdLine).clipboard = cut
    BY <2>1
  <2> DEFINE cut == SubSeq(l, Len(l) - n + 1, Len(l))
  <2>3. cut \in LineTexts
    <3>1. Len(l) - n \in Nat /\ Len(l) - n <= Len(l)  BY <1>2
    <3>2. cut \in Seq(Text) /\ Len(cut) = Len(l) - (Len(l) - n)
      BY <1>2, <2>2, <3>1, Back
    <3>3. Len(l) + Len(r) < CmdlineCharMax
      <4>1. Len(l) + Len(r) \in 0 .. CmdlineCharMax - 1  BY <1>2
      <4> QED  BY <1>2, <4>1
    <3>4. Len(cut) < CmdlineCharMax  BY <1>2, <3>2, <3>3
    <3> QED  BY <3>2, <3>4 DEF LineTexts
  <2>4. LineInv' /\ Contract!Edit(SubSeq(l, 1, Len(l) - n), r, cut)
    <3>1. Key(cmdline_killword(CmdLine))  BY DEF KillWord
    <3>2. LineInv' /\ Contract!Edit(SubSeq(l, 1, Len(l) - n), r, cmdline_killword(CmdLine).clipboard)
      BY <2>2, <2>3, <3>1, KeyStep
    <3> QED  BY <2>2, <3>2
  <2>5. Contract!Beyond(l, Len(l) - n) = cut  BY <2>2 DEF Contract!Beyond
  <2>6. Contract!Without(l, n) = SubSeq(l, 1, Len(l) - n)  BY DEF Contract!Without
  <2>7. Contract!KillWord
    BY <1>1, <2>2, <2>4, <2>5, <2>6 DEF Contract!KillWord, IsWord
  <2> QED  BY <2>4, <2>7 DEF LineStep, Contract!Next
<1> QED  BY <1>3, <1>4

(* A key that only moves the cursor.                                       *)
LEMMA MoveStep ==
  ASSUME LineInv, NEW s, Key(s), NEW n \in 0 .. CmdLine.linelen, MovedTo(CmdLine, n, s),
         s.clipboard = CmdLine.clipboard,
         n \in {0, CmdLine.pos - 1, CmdLine.pos + 1, CmdLine.linelen}
  PROVE  LineStep
<1>1. PICK l, r : /\ Holds(CmdLine, l, r)
                  /\ l = BufFrom(CmdLine.buf, 0, CmdLine.pos - 1)
                  /\ r = BufFrom(CmdLine.buf, CmdLine.pos, CmdLine.linelen - 1)
  BY Now
<1>2. PICK u : u = l \o r /\ Len(u) = CmdLine.linelen /\ Len(u) \in Nat
  <2>1. Len(l \o r) = CmdLine.linelen  BY <1>1, Fits
  <2>2. CmdLine.linelen \in Nat  BY <1>1, Parts
  <2> QED  BY <2>1, <2>2
<1>3. Holds(s, SubSeq(u, 1, n), SubSeq(u, n + 1, Len(u)))  BY <1>1, <1>2, Moved
<1>4. LineInv' /\ Contract!Edit(SubSeq(u, 1, n), SubSeq(u, n + 1, Len(u)), CmdLine.clipboard)
  <2>1. CmdLine.clipboard \in LineTexts  BY DEF LineInv
  <2>2. LineInv' /\ Contract!Edit(SubSeq(u, 1, n), SubSeq(u, n + 1, Len(u)), s.clipboard)
    BY <1>3, <2>1, KeyStep
  <2> QED  BY <2>2
<1>5. Contract!Upto(u, n) = SubSeq(u, 1, n)
  <2>1. n < Len(u) \/ n = Len(u)  BY <1>2
  <2> QED  BY <2>1 DEF Contract!Upto
<1>6. Contract!Beyond(u, n) = SubSeq(u, n + 1, Len(u))  BY DEF Contract!Beyond
<1>7. n \in {0, Len(l) - 1, Len(l) + 1, Len(u)} \cap (0 .. Len(u))
  <2>1. CmdLine.pos = Len(l)  BY <1>1, Parts
  <2> QED  BY <1>2, <2>1
<1>8. Contract!Move
  BY <1>1, <1>2, <1>4, <1>5, <1>6, <1>7 DEF Contract!Move, Contract!line
<1> QED  BY <1>4, <1>8 DEF LineStep, Contract!Next

(* The keys that move the cursor, clearing the screen included.            *)
LEMMA MovesStep ==
  ASSUME LineInv, CurLeft \/ CurRight \/ LineHead \/ LineTail \/ Clear
  PROVE  LineStep
<1>1. PICK l, r : Holds(CmdLine, l, r)  BY Now
<1>2. /\ CmdLine.pos \in Nat /\ CmdLine.linelen \in Nat /\ CmdLine.pos <= CmdLine.linelen
  BY <1>1, Parts
<1>3. ASSUME CurLeft  PROVE LineStep
  <2>1. CASE CmdLine.pos > 0
    <3>1. /\ MovedTo(CmdLine, CmdLine.pos - 1, cmdline_cursor_left(CmdLine))
          /\ cmdline_cursor_left(CmdLine).clipboard = CmdLine.clipboard
      BY <1>1, <2>1, MovedLeft
    <3>2. CmdLine.pos - 1 \in 0 .. CmdLine.linelen  BY <1>2, <2>1
    <3> QED  BY <1>3, <3>1, <3>2, MoveStep DEF CurLeft
  <2>2. CASE ~(CmdLine.pos > 0)
    <3>1. cmdline_cursor_left(CmdLine) = CmdLine  BY <2>2 DEF cmdline_cursor_left
    <3> QED  BY <1>3, <3>1, NoStep DEF CurLeft
  <2> QED  BY <2>1, <2>2
<1>4. ASSUME CurRight  PROVE LineStep
  <2>1. CASE CmdLine.pos < CmdLine.linelen
    <3>1. /\ MovedTo(CmdLine, CmdLine.pos + 1, cmdline_cursor_right(CmdLine))
          /\ cmdline_cursor_right(CmdLine).clipboard = CmdLine.clipboard
      BY <1>1, <2>1, MovedRight
    <3>2. CmdLine.pos + 1 \in 0 .. CmdLine.linelen  BY <1>2, <2>1
    <3> QED  BY <1>4, <3>1, <3>2, MoveStep DEF CurRight
  <2>2. CASE ~(CmdLine.pos < CmdLine.linelen)
    <3>1. cmdline_cursor_right(CmdLine) = CmdLine  BY <2>2 DEF cmdline_cursor_right
    <3> QED  BY <1>4, <3>1, NoStep DEF CurRight
  <2> QED  BY <2>1, <2>2
<1>5. 0 \in 0 .. CmdLine.linelen /\ CmdLine.linelen \in 0 .. CmdLine.linelen  BY <1>2
<1>6. ASSUME LineHead  PROVE LineStep
  <2>1. /\ MovedTo(CmdLine, 0, cmdline_cursor_linehead(CmdLine))
        /\ cmdline_cursor_linehead(CmdLine).clipboard = CmdLine.clipboard
    BY <1>1, MovedToHead
  <2> QED  BY <1>5, <1>6, <2>1, MoveStep DEF LineHead
<1>7. ASSUME LineTail  PROVE LineStep
  <2>1. /\ MovedTo(CmdLine, CmdLine.linelen, cmdline_cursor_linetail(CmdLine))
        /\ cmdline_cursor_linetail(CmdLine).clipboard = CmdLine.clipboard
    BY <1>1, MovedToEnd
  <2> QED  BY <1>5, <1>7, <2>1, MoveStep DEF LineTail
<1>8. ASSUME Clear  PROVE LineStep
  <2>1. /\ MovedTo(CmdLine, CmdLine.linelen, clear_screen(CmdLine))
        /\ clear_screen(CmdLine).clipboard = CmdLine.clipboard
    BY <1>1, ScreenCleared
  <2> QED  BY <1>5, <1>8, <2>1, MoveStep DEF Clear
<1> QED  BY <1>3, <1>4, <1>6, <1>7, <1>8

-----------------------------------------------------------------------------
(* A clear line after the prompt.                                          *)
IsClear(s) == /\ s \in LineType /\ s.buf = Empty /\ s.pos = 0 /\ s.linelen = 0
              /\ s.term = Prompt

(* A clear line is two empty texts.                                        *)
LEMMA ClearHolds ==
  ASSUME NEW s, IsClear(s)
  PROVE  Holds(s, <<>>, <<>>)
<1>1. s \in LineType /\ s.buf = Empty /\ s.pos = 0 /\ s.linelen = 0 /\ s.term = Prompt
  BY DEF IsClear
<1>2. <<>> \in Seq(Text) /\ Len(<<>>) = 0  BY Texts
<1>3. \A i \in Slots : Empty[i] = NUL  BY DEF Empty
<1>4. 0 \in Slots  BY LineAssumption DEF Slots
<1>5. s.buf[s.linelen] = NUL  BY <1>1, <1>3, <1>4
<1>6. Shown(s)
  <2>1. \A i \in Slots : ~(i < 0)  BY DEF Slots
  <2>2. Prompt.col = 0 /\ \A i \in Slots : Prompt.cells[i] = Blank  BY DEF Prompt
  <2> QED  BY <1>1, <2>1, <2>2 DEF Shown
<1>7. s.linelen = Len(<<>>) + Len(<<>>)  BY <1>1, <1>2
<1>8. \A i \in 1 .. Len(<<>>) : FALSE  BY <1>2
<1> QED  BY <1>1, <1>2, <1>5, <1>6, <1>7, <1>8 DEF Holds

(* The types of the empty buffer and of the prompt.                        *)
LEMMA PromptType == Prompt \in Terminals /\ Empty \in [Slots -> Text \cup {NUL}]
BY DEF Prompt, Terminals, Text, Empty

(* The lines of the ring are texts that fit, and none of them is NULL.     *)
LEMMA RingTexts ==
  ASSUME LineInv, RingInv
  PROVE  /\ Len(entered) \in Nat /\ histnum \in Nat
         /\ \A k \in 0 .. Len(entered) :
               history_get(k) = IF k < Len(entered) THEN entered[k + 1] ELSE NULL
         /\ \A k \in 1 .. Len(entered) : entered[k] \in LineTexts
         /\ NULL \notin LineTexts
<1>1. entered \in Seq(LineTexts) /\ histnum \in 0 .. Len(entered)  BY DEF LineInv
<1>2. Len(entered) \in Nat /\ \A k \in 1 .. Len(entered) : entered[k] \in LineTexts  BY <1>1
<1>3. Len(entered) <= HistoryMax
  <2>1. Len(entered) = Held /\ histlast \in 0 .. HistoryMax - 1
    BY DEF RingInv, RingType, RingHolds
  <2> QED  BY <2>1, LineAssumption DEF Held
<1>4. HistoryMax \in Nat  BY LineAssumption
<1>5. \A k \in 0 .. Len(entered) : k \in 0 .. HistoryMax  BY <1>2, <1>3, <1>4
<1>6. NULL \notin LineTexts  BY LineAssumption DEF LineTexts, Text
<1>7. HistoryIsRecent  BY RingGives
<1>8. \A k \in 0 .. Len(entered) :
         history_get(k) = IF k < Len(entered) THEN entered[k + 1] ELSE NULL
  BY <1>5, <1>7 DEF HistoryIsRecent
<1> QED  BY <1>1, <1>2, <1>6, <1>8

(* An older line, or the new one again, is shown.                          *)
LEMMA ShowStep ==
  ASSUME LineInv, NEW str \in LineTexts, CmdLine' = cmdline_set(CmdLine, str),
         curline' \in LineTexts, entered' = entered, histnum' \in 0 .. Len(entered)
  PROVE  LineInv' /\ Contract!Show(str)
<1>1. PICK l, r : Holds(CmdLine, l, r)  BY Now
<1>2. /\ Holds(cmdline_set(CmdLine, str), str, <<>>)
      /\ cmdline_set(CmdLine, str).clipboard = CmdLine.clipboard
  <2>1. str \in Seq(Text) /\ Len(str) < CmdlineCharMax  BY DEF LineTexts
  <2> QED  BY <1>1, <2>1, WasSet
<1>3. Holds(CmdLine', str, <<>>) /\ CmdLine'.clipboard = CmdLine.clipboard  BY <1>2
<1>4. LineInv'
  <2>1. LineHolds'  BY <1>3 DEF LineHolds
  <2>2. CmdLine.clipboard \in LineTexts /\ entered \in Seq(LineTexts)  BY DEF LineInv
  <2> QED  BY <1>3, <2>1, <2>2 DEF LineInv
<1>5. /\ BufFrom(CmdLine'.buf, 0, CmdLine'.pos - 1) = str
      /\ BufFrom(CmdLine'.buf, CmdLine'.pos, CmdLine'.linelen - 1) = <<>>
  BY <1>3, TextsRead
<1> QED  BY <1>3, <1>4, <1>5 DEF Contract!Show

(* One line back in the history.                                           *)
LEMMA HistPrevStep ==
  ASSUME LineInv, RingInv, HistPrev
  PROVE  LineStep
<1>1. PICK l, r : /\ Holds(CmdLine, l, r)
                  /\ l = BufFrom(CmdLine.buf, 0, CmdLine.pos - 1)
                  /\ r = BufFrom(CmdLine.buf, CmdLine.pos, CmdLine.linelen - 1)
  BY Now
<1>2. StringAt(CmdLine.buf, 0) = l \o r /\ l \o r \in LineTexts
  <2>1. StringAt(CmdLine.buf, 0) = l \o r  BY <1>1, TextsRead
  <2>2. l \o r \in LineTexts  BY <1>1, Fits
  <2> QED  BY <2>1, <2>2
<1>3. /\ curline' = IF histnum = 0 THEN l \o r ELSE curline
      /\ curline' \in LineTexts /\ entered' = entered
  BY <1>2 DEF HistPrev, SetAside, LineInv, histvars
<1>4. histnum \in 0 .. Len(entered) /\ histnum \in Nat /\ Len(entered) \in Nat
  BY RingTexts DEF LineInv
<1>5. history_get(histnum) = IF histnum < Len(entered) THEN entered[histnum + 1] ELSE NULL
  BY <1>4, RingTexts
<1>6. CASE histnum < Len(entered)
  <2>1. PICK str : str = entered[histnum + 1]  OBVIOUS
  <2>2. histnum + 1 \in 1 .. Len(entered)  BY <1>4, <1>6
  <2>3. str \in LineTexts /\ str # NULL  BY <2>1, <2>2, RingTexts
  <2>4. CmdLine' = cmdline_set(CmdLine, str) /\ histnum' = histnum + 1
    BY <1>5, <1>6, <2>1, <2>3 DEF HistPrev
  <2>5. histnum' \in 0 .. Len(entered) /\ histnum' # 0  BY <1>4, <2>2, <2>4
  <2>6. LineInv' /\ Contract!Show(str)  BY <1>3, <2>3, <2>4, <2>5, ShowStep
  <2>7. Contract!HistPrev
    BY <1>1, <1>3, <1>6, <2>1, <2>4, <2>5, <2>6 DEF Contract!HistPrev, Contract!line
  <2> QED  BY <2>6, <2>7 DEF LineStep, Contract!Next
<1>7. CASE ~(histnum < Len(entered))
  <2>1. CmdLine' = CmdLine /\ histnum' = histnum  BY <1>5, <1>7 DEF HistPrev
  <2>2. LineInv'  BY <1>3, <2>1 DEF LineInv, LineHolds
  <2>3. UNCHANGED Contract!vars  BY <1>3, <2>1 DEF Contract!vars
  <2> QED  BY <2>2, <2>3 DEF LineStep
<1> QED  BY <1>6, <1>7

(* One line forward again.                                                 *)
LEMMA HistNextStep ==
  ASSUME LineInv, RingInv, HistNext
  PROVE  LineStep
<1>1. /\ curline' = curline /\ entered' = entered
      /\ curline \in LineTexts
  BY DEF HistNext, histvars, LineInv
<1>2. histnum \in 0 .. Len(entered) /\ histnum \in Nat /\ Len(entered) \in Nat
  BY RingTexts DEF LineInv
<1>3. CASE histnum = 0
  <2>1. CmdLine' = CmdLine /\ histnum' = histnum  BY <1>3 DEF HistNext
  <2>2. LineInv'  BY <1>1, <2>1 DEF LineInv, LineHolds
  <2>3. UNCHANGED Contract!vars  BY <1>1, <2>1 DEF Contract!vars
  <2> QED  BY <2>2, <2>3 DEF LineStep
<1>4. CASE histnum # 0
  <2>1. PICK str : str = IF histnum = 1 THEN curline ELSE history_get(histnum - 2)  OBVIOUS
  <2>2. histnum # 1 => /\ histnum - 2 \in 0 .. Len(entered) /\ histnum - 2 < Len(entered)
                       /\ (histnum - 2) + 1 = histnum - 1 /\ histnum - 1 \in 1 .. Len(entered)
                       /\ histnum > 1
    BY <1>2, <1>4
  <2>3. str = (IF histnum = 1 THEN curline ELSE entered[histnum - 1]) /\ str \in LineTexts
    BY <1>1, <2>1, <2>2, RingTexts
  <2>4. str # NULL  BY <2>3, RingTexts
  <2>5. CmdLine' = cmdline_set(CmdLine, str) /\ histnum' = histnum - 1
    BY <1>4, <2>1, <2>2, <2>4 DEF HistNext
  <2>6. /\ histnum' \in 0 .. Len(entered) /\ histnum > 0
        /\ (histnum' = 0) = (histnum = 1)
    BY <1>2, <1>4, <2>5
  <2>7. LineInv' /\ Contract!Show(str)  BY <1>1, <2>3, <2>5, <2>6, ShowStep
  <2>8. Contract!HistNext
    BY <1>1, <1>4, <2>3, <2>5, <2>6, <2>7 DEF Contract!HistNext
  <2> QED  BY <2>7, <2>8 DEF LineStep, Contract!Next
<1> QED  BY <1>3, <1>4

-----------------------------------------------------------------------------
(* The line u is entered, or nothing is.                                   *)
LEMMA NewLineStep ==
  ASSUME LineInv, RingInv, NEW u \in LineTexts, NewLine(u)
  PROVE  /\ LineInv'
         /\ entered' = IF u = <<>> THEN entered ELSE Contract!Upto(<<u>> \o entered, HistoryMax)
         /\ BufFrom(CmdLine.buf, 0, CmdLine.pos - 1)' = <<>>
         /\ BufFrom(CmdLine.buf, CmdLine.pos, CmdLine.linelen - 1)' = <<>>
         /\ CmdLine'.clipboard = CmdLine.clipboard /\ histnum' = 0
<1>1. PICK l, r : Holds(CmdLine, l, r)  BY Now
<1>2. /\ histnum' = 0 /\ curline' = curline /\ history_append(u)
      /\ CmdLine' = [cmdline_clear(CmdLine) EXCEPT !.term = Prompt]
  BY DEF NewLine
<1>3. u \in Seq(Text) /\ Len(u) < CmdlineCharMax /\ Len(u) \in Nat  BY DEF LineTexts
<1>4. entered \in Seq(LineTexts) /\ Len(entered) \in Nat /\ HistoryMax \in Nat /\ HistoryMax > 0
  BY LineAssumption DEF LineInv
<1>5. PICK all : all = <<u>> \o entered  OBVIOUS
<1>6. all \in Seq(LineTexts) /\ Len(all) = Len(entered) + 1  BY <1>4, <1>5
<1>7. PICK n : n = IF Len(all) > HistoryMax THEN HistoryMax ELSE Len(all)  OBVIOUS
<1>8. n \in 1 .. Len(all)  BY <1>4, <1>6, <1>7
<1>9. Newest(u) = SubSeq(all, 1, n)  BY <1>5, <1>7 DEF Newest
<1>10. SubSeq(all, 1, n) \in Seq(LineTexts)  BY <1>6, <1>8
<1>11. Contract!Upto(<<u>> \o entered, HistoryMax) = SubSeq(all, 1, n)
  <2>1. n = IF HistoryMax < Len(all) THEN HistoryMax ELSE Len(all)  BY <1>4, <1>6, <1>7
  <2> QED  BY <1>5, <2>1 DEF Contract!Upto
<1>12. entered' = IF u = <<>> THEN entered ELSE SubSeq(all, 1, n)
  <2>1. CASE u = <<>>
    <3>1. Len(u) <= 0  BY <2>1
    <3>2. UNCHANGED histvars  BY <1>2, <3>1 DEF history_append
    <3> QED  BY <2>1, <3>2 DEF histvars
  <2>2. CASE u # <<>>
    <3>1. Len(u) # 0  BY <1>3, <2>2
    <3>2. ~(Len(u) >= CmdlineCharMax \/ Len(u) <= 0)  BY <1>3, <3>1, LineAssumption
    <3> QED  BY <1>2, <1>9, <2>2, <3>2 DEF history_append
  <2> QED  BY <2>1, <2>2
<1>13. entered' \in Seq(LineTexts)  BY <1>4, <1>10, <1>12
<1>14. IsClear(CmdLine') /\ CmdLine'.clipboard = CmdLine.clipboard
  <2>1. CmdLine \in LineType  BY <1>1, Parts
  <2>2. 0 \in Slots  BY LineAssumption DEF Slots
  <2> QED  BY <1>2, <2>1, <2>2, PromptType DEF IsClear, LineType, cmdline_clear
<1>15. Holds(CmdLine', <<>>, <<>>)  BY <1>14, ClearHolds
<1>16. LineInv'
  <2>1. LineHolds'  BY <1>15 DEF LineHolds
  <2>2. CmdLine'.clipboard \in LineTexts /\ curline' \in LineTexts  BY <1>2, <1>14 DEF LineInv
  <2>3. histnum' \in 0 .. Len(entered')  BY <1>2, <1>13
  <2> QED  BY <1>13, <2>1, <2>2, <2>3 DEF LineInv
<1>17. /\ BufFrom(CmdLine'.buf, 0, CmdLine'.pos - 1) = <<>>
       /\ BufFrom(CmdLine'.buf, CmdLine'.pos, CmdLine'.linelen - 1) = <<>>
  BY <1>15, TextsRead
<1> QED  BY <1>2, <1>11, <1>12, <1>14, <1>16, <1>17

(* The line entered.                                                       *)
LEMMA EnterStep ==
  ASSUME LineInv, RingInv, Enter
  PROVE  LineStep
<1>1. PICK l, r : /\ Holds(CmdLine, l, r)
                  /\ l = BufFrom(CmdLine.buf, 0, CmdLine.pos - 1)
                  /\ r = BufFrom(CmdLine.buf, CmdLine.pos, CmdLine.linelen - 1)
  BY Now
<1>2. PICK u \in LineTexts : u = l \o r /\ StringAt(CmdLine.buf, 0) = u
  <2>1. StringAt(CmdLine.buf, 0) = l \o r  BY <1>1, TextsRead
  <2>2. l \o r \in LineTexts  BY <1>1, Fits
  <2> QED  BY <2>1, <2>2
<1>3. NewLine(u)  BY <1>2 DEF Enter
<1>4. /\ LineInv'
      /\ entered' = IF u = <<>> THEN entered ELSE Contract!Upto(<<u>> \o entered, HistoryMax)
      /\ BufFrom(CmdLine.buf, 0, CmdLine.pos - 1)' = <<>>
      /\ BufFrom(CmdLine.buf, CmdLine.pos, CmdLine.linelen - 1)' = <<>>
      /\ CmdLine'.clipboard = CmdLine.clipboard /\ histnum' = 0
  BY <1>3, NewLineStep
<1>5. Contract!Enter  BY <1>1, <1>2, <1>4 DEF Contract!Enter, Contract!line
<1> QED  BY <1>4, <1>5 DEF LineStep, Contract!Next

(* The line given up.                                                      *)
LEMMA DiscardStep ==
  ASSUME LineInv, RingInv, Discard
  PROVE  LineStep
<1>1. PICK l, r : Holds(CmdLine, l, r)  BY Now
<1>2. StringAt(cmdline_clear(CmdLine).buf, 0) = <<>>
  <2>1. PICK s : s = [cmdline_clear(CmdLine) EXCEPT !.term = Prompt]  OBVIOUS
  <2>2. CmdLine \in LineType /\ 0 \in Slots  BY <1>1, Parts, LineAssumption DEF Slots
  <2>3. IsClear(s) /\ s.buf = cmdline_clear(CmdLine).buf
    BY <2>1, <2>2, PromptType DEF IsClear, LineType, cmdline_clear
  <2>4. Holds(s, <<>>, <<>>) /\ s.pos = 0  BY <2>3, ClearHolds DEF IsClear
  <2>5. StringAt(s.buf, s.pos) = <<>>  BY <2>4, TextsRead
  <2> QED  BY <2>3, <2>4, <2>5
<1>3. <<>> \in LineTexts  BY Texts, LineAssumption DEF LineTexts
<1>4. NewLine(<<>>)  BY <1>2 DEF Discard
<1>5. /\ LineInv'
      /\ entered' = entered
      /\ BufFrom(CmdLine.buf, 0, CmdLine.pos - 1)' = <<>>
      /\ BufFrom(CmdLine.buf, CmdLine.pos, CmdLine.linelen - 1)' = <<>>
      /\ CmdLine'.clipboard = CmdLine.clipboard /\ histnum' = 0
  BY <1>3, <1>4, NewLineStep
<1>6. Contract!Discard  BY <1>5 DEF Contract!Discard
<1> QED  BY <1>5, <1>6 DEF LineStep, Contract!Next

(* The editor starts as the contract does.                                 *)
LEMMA LineStart ==
  ASSUME LineInit
  PROVE  LineInv /\ Contract!Init
<1>1. /\ CmdLine = [buf |-> Empty, pos |-> 0, linelen |-> 0, clipboard |-> <<>>, term |-> Prompt]
      /\ histnum = 0 /\ curline = <<>> /\ entered = <<>>
  BY DEF LineInit
<1>2. <<>> \in Seq(Text) /\ Len(<<>>) = 0 /\ 0 \in Slots  BY Texts, LineAssumption DEF Slots
<1>3. IsClear(CmdLine)  BY <1>1, <1>2, PromptType DEF IsClear, LineType
<1>4. Holds(CmdLine, <<>>, <<>>)  BY <1>3, ClearHolds
<1>5. LineInv
  <2>1. <<>> \in LineTexts  BY <1>2, LineAssumption DEF LineTexts
  <2>2. LineHolds  BY <1>4 DEF LineHolds
  <2>3. entered \in Seq(LineTexts) /\ histnum \in 0 .. Len(entered)
    <3>1. <<>> \in Seq(LineTexts) /\ 0 \in 0 .. Len(<<>>)  OBVIOUS
    <3> QED  BY <1>1, <3>1
  <2>4. CmdLine.clipboard = <<>>  BY <1>1
  <2> QED  BY <1>1, <2>1, <2>2, <2>3, <2>4 DEF LineInv
<1>6. /\ BufFrom(CmdLine.buf, 0, CmdLine.pos - 1) = <<>>
      /\ BufFrom(CmdLine.buf, CmdLine.pos, CmdLine.linelen - 1) = <<>>
  BY <1>4, TextsRead
<1>7. CmdLine.clipboard = <<>>  BY <1>1
<1> QED  BY <1>1, <1>5, <1>6, <1>7 DEF Contract!Init

(* Every step of the editor.                                               *)
LEMMA EveryStep ==
  ASSUME LineInv, RingInv, [LineNext]_linevars
  PROVE  LineStep
<1>1. CASE Printable  BY <1>1, TypeStep DEF Printable, Text
<1>2. CASE Tab
  <2>1. Blank \in Text  BY DEF Text
  <2> QED  BY <1>2, <2>1, TypeStep DEF Tab
<1>3. CASE Backspace  BY <1>3, BackspaceStep
<1>4. CASE Delete  BY <1>4, DeleteStep
<1>5. CASE KillLine  BY <1>5, KillLineStep
<1>6. CASE CurLeft \/ CurRight \/ LineHead \/ LineTail \/ Clear  BY <1>6, MovesStep
<1>7. CASE Yank  BY <1>7, YankStep
<1>8. CASE KillTail  BY <1>8, KillTailStep
<1>9. CASE KillWord  BY <1>9, KillWordStep
<1>10. CASE HistPrev  BY <1>10, HistPrevStep
<1>11. CASE HistNext  BY <1>11, HistNextStep
<1>12. CASE Enter  BY <1>12, EnterStep
<1>13. CASE Discard  BY <1>13, DiscardStep
<1>14. CASE UNCHANGED linevars
  <2>1. Key(CmdLine)  BY <1>14 DEF linevars, Key
  <2> QED  BY <2>1, NoStep
<1> QED
  BY <1>1, <1>2, <1>3, <1>4, <1>5, <1>6, <1>7, <1>8, <1>9, <1>10, <1>11, <1>12, <1>13, <1>14
  DEF LineNext, Keys

(* What always holds, and the two properties it gives.                     *)
THEOREM LineSound == LineSpec => []LineInv
<1>1. LineInit => LineInv  BY LineStart
<1>2. LineInv /\ RingInv /\ [LineNext]_linevars => LineInv'  BY EveryStep DEF LineStep
<1> QED  BY <1>1, <1>2, RingSound, PTL DEF LineSpec

(* BufferSound for every length of line: no edit writes past the end of an *)
(* array of lineedit.c, whatever is typed, cut, pasted and gone back to.   *)
THEOREM LineBufferSound == LineSpec => []BufferSound
<1>1. ASSUME LineInv  PROVE BufferSound
  <2>1. PICK l, r : Holds(CmdLine, l, r)  BY <1>1, Now
  <2>2. /\ CmdLine.linelen \in Slots /\ CmdLine.buf[CmdLine.linelen] = NUL
        /\ CmdLine.pos \in 0 .. CmdLine.linelen
    <3>1. /\ CmdLine.linelen \in Slots /\ CmdLine.buf[CmdLine.linelen] = NUL
          /\ CmdLine.pos = Len(l) /\ CmdLine.linelen = Len(l) + Len(r)
          /\ Len(l) \in Nat /\ Len(r) \in Nat
      BY <2>1, Parts
    <3> QED  BY <3>1
  <2>3. \A i \in 0 .. CmdLine.linelen - 1 : CmdLine.buf[i] \in Text
    <3>1. Slots = 0 .. CmdlineCharMax - 1 /\ CmdlineCharMax \in Nat  BY <2>1, Parts
    <3>2. \A i \in 0 .. CmdLine.linelen - 1 : i \in Slots /\ i < CmdLine.linelen
      BY <2>2, <3>1
    <3> QED  BY <2>1, <3>2, Characters
  <2>4. Len(CmdLine.clipboard) < CmdlineCharMax /\ Len(curline) < CmdlineCharMax
    BY <1>1 DEF LineInv, LineTexts
  <2> QED  BY <2>2, <2>3, <2>4 DEF BufferSound, Text
<1> QED  BY <1>1, LineSound, PTL

(* ScreenShowsLine for every length of line: after every key the terminal  *)
(* shows the line, nothing that was there before, and the cursor in place. *)
THEOREM LineOnScreen == LineSpec => []ScreenShowsLine
<1>1. ASSUME LineInv  PROVE ScreenShowsLine
  <2>1. PICK l, r : Holds(CmdLine, l, r)  BY <1>1, Now
  <2> QED  BY <2>1 DEF Holds, Shown, ScreenShowsLine
<1> QED  BY <1>1, LineSound, PTL

(* ImplementsEditor for every length of line and of the ring: the editor   *)
(* over the buffer, the strings and the ring does what the contract says.  *)
THEOREM LineImplementsEditor == LineSpec => ImplementsEditor
<1>1. LineInit => Contract!Init  BY LineStart
<1>2. LineInv /\ RingInv /\ [LineNext]_linevars => [Contract!Next]_(Contract!vars)
  BY EveryStep DEF LineStep
<1> QED  BY <1>1, <1>2, LineSound, RingSound, PTL DEF LineSpec, ImplementsEditor, Contract!Spec

-----------------------------------------------------------------------------
(* Nothing to go along, and one index more above the others.               *)
LEMMA AlongNone == \A f : Along(f, {}) = <<>>
<1> SUFFICES ASSUME NEW f  PROVE Along(f, {}) = <<>>
  OBVIOUS
<1>1. Cardinality({}) = 0  BY FS_EmptySet
<1>2. 1 .. 0 = {}  OBVIOUS
<1>3. PICK g : g = Along(f, {})  OBVIOUS
<1>4. g = [k \in 1 .. 0 |-> f[Only({x \in {} : Cardinality({y \in {} : y < x}) = k - 1})]]
  BY <1>1, <1>3 DEF Along
<1>5. DOMAIN g = {}  BY <1>2, <1>4
<1>6. g \in [1 .. 0 -> {}]  BY <1>2, <1>4
<1>7. g \in Seq({}) /\ Len(g) = 0  BY <1>6
<1>. QED  BY <1>3, <1>7

Lower(S, x) == {y \in S : y < x}
Ranked(S, k) == {x \in S : Cardinality(Lower(S, x)) = k - 1}

LEMMA AlongIs ==
  \A f, S : Along(f, S) = [k \in 1 .. Cardinality(S) |-> f[Only(Ranked(S, k))]]
BY DEF Along, Ranked, Lower

LEMMA AlongMore ==
  ASSUME NEW f, NEW S \in SUBSET Nat, IsFiniteSet(S), NEW x \in Nat, \A y \in S : y < x
  PROVE  Along(f, S \cup {x}) = Append(Along(f, S), f[x])
<1>1. PICK T : T = S \cup {x}  OBVIOUS
<1>2. PICK n \in Nat : n = Cardinality(S)  BY FS_CardinalityType
<1>3. x \notin S  OBVIOUS
<1>4. Cardinality(T) = n + 1 /\ IsFiniteSet(T)  BY <1>1, <1>2, <1>3, FS_AddElement
<1>5. Lower(T, x) = S
  <2>1. ~(x < x)  OBVIOUS
  <2>2. \A y : y \in T /\ y < x <=> y \in S  BY <1>1, <2>1
  <2>. QED  BY <2>2 DEF Lower
<1>6. ASSUME NEW z \in S  PROVE Lower(T, z) = Lower(S, z)
  <2>1. ~(x < z)  OBVIOUS
  <2>2. \A y : y \in T /\ y < z <=> y \in S /\ y < z  BY <1>1, <2>1
  <2>. QED  BY <2>2 DEF Lower
<1>7. ASSUME NEW z \in S  PROVE Cardinality(Lower(S, z)) < n
  <2>1. Lower(S, z) \in SUBSET S /\ z \notin Lower(S, z)  BY DEF Lower
  <2>2. /\ Cardinality(Lower(S, z)) \in Nat /\ Cardinality(Lower(S, z)) <= n
        /\ Cardinality(Lower(S, z)) = n => Lower(S, z) = S
    BY <1>2, <2>1, FS_Subset, FS_CardinalityType
  <2>. QED  BY <2>1, <2>2
<1>8. Only(Ranked(T, n + 1)) = x
  <2>1. Ranked(T, n + 1) = {x}
    <3>1. x \in Ranked(T, n + 1)  BY <1>1, <1>2, <1>5 DEF Ranked
    <3>2. ASSUME NEW z \in Ranked(T, n + 1)  PROVE z = x
      <4>1. CASE z \in S
        <5>1. Cardinality(Lower(S, z)) = (n + 1) - 1  BY <1>6, <3>2, <4>1 DEF Ranked
        <5>2. Cardinality(Lower(S, z)) < n  BY <1>7, <4>1
        <5>. QED  BY <5>1, <5>2
      <4>2. z \in T  BY DEF Ranked
      <4>. QED  BY <1>1, <4>1, <4>2
    <3>. QED  BY <3>1, <3>2
  <2>2. Only({x}) = x  BY DEF Only
  <2>. QED  BY <2>1, <2>2
<1>9. ASSUME NEW k \in 1 .. n  PROVE Ranked(T, k) = Ranked(S, k)
  <2>1. ~(Cardinality(Lower(T, x)) = k - 1)  BY <1>2, <1>5
  <2>. QED  BY <1>1, <1>6, <2>1 DEF Ranked
<1>10. PICK a : a = Along(f, S)  OBVIOUS
<1>11. PICK b : b = Along(f, T)  OBVIOUS
<1>12. a = [k \in 1 .. n |-> f[Only(Ranked(S, k))]]  BY <1>2, <1>10, AlongIs
<1>13. b = [k \in 1 .. n + 1 |-> f[Only(Ranked(T, k))]]  BY <1>4, <1>11, AlongIs
<1>14. \A k \in 1 .. n : b[k] = a[k]  BY <1>9, <1>12, <1>13
<1>15. b[n + 1] = f[x]  BY <1>8, <1>13
<1> DEFINE V == {a[k] : k \in 1 .. n} \cup {f[x]}
<1>16. a \in Seq(V) /\ Len(a) = n  BY <1>12
<1>17. \A k \in 1 .. n + 1 : b[k] \in V
  <2>1. \A k \in 1 .. n + 1 : k \in 1 .. n \/ k = n + 1  OBVIOUS
  <2>. QED  BY <1>14, <1>15, <2>1
<1>18. b \in Seq(V) /\ Len(b) = n + 1  BY <1>13, <1>17
<1>19. f[x] \in V  OBVIOUS
<1>. HIDE DEF V
<1>20. PICK c \in Seq(V) : c = Append(a, f[x]) /\ Len(c) = n + 1
                           /\ c[n + 1] = f[x] /\ \A k \in 1 .. n : c[k] = a[k]
  <2>1. /\ Append(a, f[x]) \in Seq(V) /\ Len(Append(a, f[x])) = Len(a) + 1
        /\ Append(a, f[x])[Len(a) + 1] = f[x]
        /\ \A k \in 1 .. Len(a) : Append(a, f[x])[k] = a[k]
    BY <1>16, <1>19, AppendProperties
  <2>. QED  BY <1>16, <2>1
<1>21. b = c
  <2>1. ASSUME NEW k \in 1 .. n + 1  PROVE b[k] = c[k]
    <3>1. k \in 1 .. n \/ k = n + 1  OBVIOUS
    <3>. QED  BY <3>1, <1>14, <1>15, <1>20
  <2>. QED  BY <1>18, <1>20, <2>1, SeqEqual
<1>. QED  BY <1>1, <1>10, <1>11, <1>20, <1>21

(* It gives a sequence.                                                    *)
LEMMA AlongSeq ==
  ASSUME NEW f, NEW S, IsFiniteSet(S)
  PROVE  /\ Along(f, S) \in Seq({Along(f, S)[k] : k \in 1 .. Cardinality(S)})
         /\ Len(Along(f, S)) = Cardinality(S)
<1>1. PICK n \in Nat : n = Cardinality(S)  BY FS_CardinalityType
<1>2. PICK a : a = Along(f, S)  OBVIOUS
<1>3. a = [k \in 1 .. n |-> f[Only(Ranked(S, k))]]  BY <1>1, <1>2, AlongIs
<1>. QED  BY <1>1, <1>2, <1>3
-----------------------------------------------------------------------------
(* The line, its characters and the mode before each of them.              *)
IsString(str) == str \in Seq({str[i] : i \in DOMAIN str}) /\ \A i \in DOMAIN str : str[i] # NUL

LEMMA StringFacts ==
  ASSUME NEW str, IsString(str)
  PROVE  Len(str) \in Nat /\ DOMAIN str = 1 .. Len(str) /\ \A i \in 1 .. Len(str) : str[i] # NUL
BY DEF IsString

Modes == {NUL, SQuote, DQuote, Escape}

LEMMA NextModeType ==
  ASSUME NEW m, NEW ch
  PROVE  NextMode(m, ch) \in Modes
BY DEF NextMode, Modes

(* The modes as the definition computes them.                              *)
IsMode(str, f) ==
  f = [i \in 1 .. Len(str) + 1 |-> IF i = 1 THEN NUL ELSE NextMode(f[i - 1], str[i - 1])]

LEMMA ModeExists ==
  ASSUME NEW str, Len(str) \in Nat
  PROVE  \E f : IsMode(str, f)
<1> DEFINE G == [k \in 1 .. Len(str) |-> [x \in Modes |-> NextMode(x, str[k])]]
<1>1. PICK n \in Nat : n = Len(str)  OBVIOUS
<1>2. G \in [1 .. n -> [Modes -> Modes]]  BY <1>1, NextModeType
<1>3. \A k \in 1 .. n : \A x \in Modes : G[k][x] = NextMode(x, str[k])  BY <1>1
<1> HIDE DEF G
<1>4. NUL \in Modes  BY DEF Modes
<1>5. PICK g : IsIterated(g, Modes, n, NUL, G)  BY <1>2, <1>4, Iterates
<1>6. /\ g \in [0 .. n -> Modes] /\ g[0] = NUL
      /\ \A k \in 1 .. n : g[k] = G[k][g[k - 1]]
  BY <1>5 DEF IsIterated
<1>7. PICK f : f = [i \in 1 .. n + 1 |-> g[i - 1]]  OBVIOUS
<1>8. ASSUME NEW i \in 1 .. n + 1
      PROVE  f[i] = IF i = 1 THEN NUL ELSE NextMode(f[i - 1], str[i - 1])
  <2>1. CASE i = 1  BY <1>6, <1>7, <2>1
  <2>2. CASE i # 1
    <3>1. PICK k \in 1 .. n : k = i - 1 /\ k - 1 \in 0 .. n  BY <2>2
    <3>2. f[i] = g[k]  BY <1>7, <3>1
    <3>3. f[k] = g[k - 1]  BY <1>7, <3>1
    <3>4. g[k - 1] \in Modes /\ g[k] = G[k][g[k - 1]]  BY <1>6, <3>1
    <3>5. g[k] = NextMode(g[k - 1], str[k])  BY <1>3, <3>1, <3>4
    <3>. QED  BY <2>2, <3>1, <3>2, <3>3, <3>5
  <2>. QED  BY <2>1, <2>2
<1>9. f = [i \in 1 .. n + 1 |-> f[i]]  BY <1>7
<1>10. IsMode(str, f)  BY <1>1, <1>8, <1>9 DEF IsMode
<1>. QED  BY <1>10

LEMMA ModeIs ==
  ASSUME NEW str, IsString(str)
  PROVE  /\ Mode(str)[1] = NUL
         /\ \A i \in 1 .. Len(str) : Mode(str)[i + 1] = NextMode(Mode(str)[i], str[i])
         /\ \A i \in 1 .. Len(str) + 1 : Mode(str)[i] \in Modes
<1>1. PICK n \in Nat : n = Len(str)  BY StringFacts
<1>2. \E f : IsMode(str, f)  BY <1>1, ModeExists
<1>3. PICK f : f = CHOOSE h : IsMode(str, h)  OBVIOUS
<1>4. IsMode(str, f)  BY <1>2, <1>3
<1>5. Mode(str) = f  BY <1>3 DEF Mode, IsMode
<1>6. \A i \in 1 .. n + 1 : f[i] = IF i = 1 THEN NUL ELSE NextMode(f[i - 1], str[i - 1])
  BY <1>1, <1>4 DEF IsMode
<1>7. f[1] = NUL  BY <1>6
<1>8. ASSUME NEW i \in 1 .. n  PROVE f[i + 1] = NextMode(f[i], str[i])
  <2>1. i + 1 \in 1 .. n + 1 /\ i + 1 # 1 /\ (i + 1) - 1 = i  OBVIOUS
  <2>. QED  BY <1>6, <2>1
<1>9. ASSUME NEW i \in 1 .. n + 1  PROVE f[i] \in Modes
  <2>1. CASE i = 1  BY <1>7, <2>1 DEF Modes
  <2>2. CASE i # 1  BY <1>6, <2>2, NextModeType
  <2>. QED  BY <2>1, <2>2
<1>. QED  BY <1>1, <1>5, <1>7, <1>8, <1>9
-----------------------------------------------------------------------------
(* What each character of the line is, by the mode before it.              *)
Ends(str) == Plain(str, Blank) \cup Plain(str, Separator)

IsKind(str, i, after, literal, end) ==
  /\ Mode(str)[i + 1] = after
  /\ (i \in Literal(str)) = literal
  /\ (i \in Ends(str)) = end

LEMMA Sets ==
  ASSUME NEW str
  PROVE  /\ \A ch, i : i \in Plain(str, ch) <=> i \in 1 .. Len(str) /\ Mode(str)[i] = NUL /\ str[i] = ch
         /\ \A i : i \in Ends(str) <=> /\ i \in 1 .. Len(str) /\ Mode(str)[i] = NUL
                                       /\ str[i] = Blank \/ str[i] = Separator
         /\ \A i : i \in Literal(str) <=>
              /\ i \in 1 .. Len(str)
              /\ \/ Mode(str)[i] = Escape
                 \/ Mode(str)[i] \in {SQuote, DQuote} /\ str[i] # Mode(str)[i]
                 \/ Mode(str)[i] = NUL /\ str[i] \notin {SQuote, DQuote, Escape}
BY DEF Plain, Literal, Ends

LEMMA Distinct ==
  /\ Separator # SQuote /\ Separator # DQuote /\ Separator # Escape /\ Separator # Blank
  /\ Separator # NUL /\ SQuote # DQuote /\ SQuote # Escape /\ SQuote # Blank /\ SQuote # NUL
  /\ DQuote # Escape /\ DQuote # Blank /\ DQuote # NUL /\ Escape # Blank /\ Escape # NUL
  /\ Blank # NUL
BY ShellAssumption, LineAssumption

LEMMA Kinds ==
  ASSUME NEW str, IsString(str), NEW i \in 1 .. Len(str)
  PROVE  LET m == Mode(str)[i]
             ch == str[i]
         IN  /\ m = NUL /\ ch \in {SQuote, DQuote, Escape} => IsKind(str, i, ch, FALSE, FALSE)
             /\ m = NUL /\ ch \in {Blank, Separator} => IsKind(str, i, NUL, TRUE, TRUE)
             /\ m = NUL /\ ch \notin {SQuote, DQuote, Escape, Blank, Separator}
                  => IsKind(str, i, NUL, TRUE, FALSE)
             /\ m \in {SQuote, DQuote} /\ ch = m => IsKind(str, i, NUL, FALSE, FALSE)
             /\ m \in {SQuote, DQuote} /\ ch # m => IsKind(str, i, m, TRUE, FALSE)
             /\ m = Escape => IsKind(str, i, NUL, TRUE, FALSE)
<1>1. PICK m, ch : m = Mode(str)[i] /\ ch = str[i]  OBVIOUS
<1>2. m \in Modes /\ Mode(str)[i + 1] = NextMode(m, ch)
  <2>1. i \in 1 .. Len(str) + 1  BY StringFacts
  <2>. QED  BY <1>1, <2>1, ModeIs
<1>3. i \in Ends(str) <=> m = NUL /\ (ch = Blank \/ ch = Separator)  BY <1>1, Sets
<1>4. i \in Literal(str) <=> \/ m = Escape
                             \/ m \in {SQuote, DQuote} /\ ch # m
                             \/ m = NUL /\ ch \notin {SQuote, DQuote, Escape}
  BY <1>1, Sets
<1>5. CASE m = NUL /\ ch \in {SQuote, DQuote, Escape}
  <2>1. NextMode(m, ch) = ch  BY <1>5, Distinct DEF NextMode
  <2>2. (i \in Literal(str)) = FALSE /\ (i \in Ends(str)) = FALSE  BY <1>3, <1>4, <1>5, Distinct
  <2>. QED  BY <1>1, <1>2, <1>5, <2>1, <2>2, Distinct DEF IsKind
<1>6. CASE m = NUL /\ ch \in {Blank, Separator}
  <2>1. NextMode(m, ch) = NUL  BY <1>6, Distinct DEF NextMode
  <2>2. (i \in Literal(str)) = TRUE /\ (i \in Ends(str)) = TRUE  BY <1>3, <1>4, <1>6, Distinct
  <2>. QED  BY <1>1, <1>2, <1>6, <2>1, <2>2, Distinct DEF IsKind
<1>7. CASE m = NUL /\ ch \notin {SQuote, DQuote, Escape, Blank, Separator}
  <2>1. NextMode(m, ch) = NUL  BY <1>7, Distinct DEF NextMode
  <2>2. (i \in Literal(str)) = TRUE /\ (i \in Ends(str)) = FALSE  BY <1>3, <1>4, <1>7, Distinct
  <2>. QED  BY <1>1, <1>2, <1>7, <2>1, <2>2, Distinct DEF IsKind
<1>8. CASE m \in {SQuote, DQuote} /\ ch = m
  <2>1. NextMode(m, ch) = NUL  BY <1>8, Distinct DEF NextMode
  <2>2. (i \in Literal(str)) = FALSE /\ (i \in Ends(str)) = FALSE  BY <1>3, <1>4, <1>8, Distinct
  <2>. QED  BY <1>1, <1>2, <1>8, <2>1, <2>2, Distinct DEF IsKind
<1>9. CASE m \in {SQuote, DQuote} /\ ch # m
  <2>1. NextMode(m, ch) = m  BY <1>9, Distinct DEF NextMode
  <2>2. (i \in Literal(str)) = TRUE /\ (i \in Ends(str)) = FALSE  BY <1>3, <1>4, <1>9, Distinct
  <2>. QED  BY <1>1, <1>2, <1>9, <2>1, <2>2, Distinct DEF IsKind
<1>10. CASE m = Escape
  <2>1. NextMode(m, ch) = NUL  BY <1>10, Distinct DEF NextMode
  <2>2. (i \in Literal(str)) = TRUE /\ (i \in Ends(str)) = FALSE  BY <1>3, <1>4, <1>10, Distinct
  <2>. QED  BY <1>1, <1>2, <1>10, <2>1, <2>2, Distinct DEF IsKind
<1>. QED  BY <1>1, <1>2, <1>5, <1>6, <1>7, <1>8, <1>9, <1>10 DEF Modes

-----------------------------------------------------------------------------
(* The literal characters from i up to before p, and that no blank and no  *)
(* separator ends a word among these characters.                           *)
Among(i, p) == {j \in Literal(linebuf) : i <= j /\ j < p}
Spelt(i, p) == Along(linebuf, Among(i, p))
Within(i, p) == \A k \in i .. p - 1 : k \notin Ends(linebuf)

LEMMA SpeltNone ==
  ASSUME NEW i \in Nat
  PROVE  Spelt(i, i) = <<>> /\ Within(i, i)
<1>1. \A j \in Literal(linebuf) : ~(i <= j /\ j < i)
  <2>1. \A j \in Literal(linebuf) : j \in Int  BY Sets
  <2>. QED  BY <2>1
<1>2. Among(i, i) = {}  BY <1>1 DEF Among
<1>3. i .. i - 1 = {}  OBVIOUS
<1>. QED  BY <1>2, <1>3, AlongNone DEF Spelt, Within

LEMMA SpeltMore ==
  ASSUME IsString(linebuf), NEW i \in Nat, NEW p \in 1 .. Len(linebuf), i <= p
  PROVE  /\ (p \in Literal(linebuf)) = TRUE => Spelt(i, p + 1) = Append(Spelt(i, p), linebuf[p])
         /\ (p \in Literal(linebuf)) = FALSE => Spelt(i, p + 1) = Spelt(i, p)
<1>1. \A j \in Literal(linebuf) : j \in 1 .. Len(linebuf)  BY Sets
<1>2. Len(linebuf) \in Nat  BY StringFacts
<1>3. \A j \in Literal(linebuf) : j < p + 1 <=> j < p \/ j = p  BY <1>1, <1>2
<1>4. CASE p \in Literal(linebuf)
  <2>1. Among(i, p + 1) = Among(i, p) \cup {p}  BY <1>3, <1>4 DEF Among
  <2>2. Among(i, p) \in SUBSET (1 .. Len(linebuf))  BY <1>1 DEF Among
  <2>3. IsFiniteSet(Among(i, p))
    <3>1. IsFiniteSet(1 .. Len(linebuf))  BY <1>2, FS_Interval
    <3>. QED  BY <2>2, <3>1, FS_Subset
  <2>4. Among(i, p) \in SUBSET Nat /\ p \in Nat  BY <1>2, <2>2
  <2>5. \A y \in Among(i, p) : y < p  BY DEF Among
  <2>6. Along(linebuf, Among(i, p) \cup {p}) = Append(Along(linebuf, Among(i, p)), linebuf[p])
    BY <2>3, <2>4, <2>5, AlongMore
  <2>. QED  BY <1>4, <2>1, <2>6 DEF Spelt
<1>5. CASE p \notin Literal(linebuf)
  <2>1. Among(i, p + 1) = Among(i, p)
    <3>1. \A j \in Literal(linebuf) : j < p + 1 <=> j < p  BY <1>3, <1>5
    <3>. QED  BY <3>1 DEF Among
  <2>. QED  BY <1>5, <2>1 DEF Spelt
<1>. QED  BY <1>4, <1>5

LEMMA WithinMore ==
  ASSUME NEW i \in Nat, NEW p \in Nat, Within(i, p), (p \in Ends(linebuf)) = FALSE
  PROVE  Within(i, p + 1)
<1>1. \A k \in i .. (p + 1) - 1 : k = p \/ k \in i .. p - 1  OBVIOUS
<1>. QED  BY <1>1 DEF Within
-----------------------------------------------------------------------------
(* The reader, round by round: where it stands the mode is the quote that  *)
(* is open, and it has spelt what lies behind it.                          *)
IsReader(s) ==
  s \in [readpos : {s.readpos}, tok : {s.tok}, quote : {s.quote}, ret : {s.ret}, over : {s.over}]

Going(s, i) ==
  /\ s.readpos \in i .. Len(linebuf) + 1 /\ s.ret = s.readpos - i
  /\ Mode(linebuf)[s.readpos] = s.quote /\ s.quote # Escape
  /\ s.tok = Spelt(i, s.readpos) /\ Within(i, s.readpos)

Stopped(s, i) == Going(s, i) /\ s.quote = NUL /\ CharAt(s.readpos) \in {NUL, Blank, Separator}

Failed(s, i) ==
  s.ret = -1 /\ Within(i, Len(linebuf) + 1) /\ Mode(linebuf)[Len(linebuf) + 1] # NUL

Reader(s, i, k) ==
  /\ IsReader(s) /\ s.over \in BOOLEAN
  /\ s.over = FALSE => Going(s, i) /\ i + k <= s.readpos
  /\ s.over = TRUE => Stopped(s, i) \/ Failed(s, i)

LEMMA CharFacts ==
  ASSUME IsString(linebuf), NEW i \in Nat, i > 0
  PROVE  /\ CharAt(i) = NUL <=> i > Len(linebuf)
         /\ i <= Len(linebuf) => CharAt(i) = linebuf[i]
<1>1. Len(linebuf) \in Nat /\ \A k \in 1 .. Len(linebuf) : linebuf[k] # NUL  BY StringFacts
<1>. QED  BY <1>1 DEF CharAt

(* What Read and Put make of a record.                                     *)
LEMMA ReadFields ==
  ASSUME NEW s, IsReader(s), NEW n, NEW q
  PROVE  /\ IsReader(Read(s, n, q)) /\ Read(s, n, q).readpos = s.readpos + n
         /\ Read(s, n, q).ret = s.ret + n /\ Read(s, n, q).quote = q
         /\ Read(s, n, q).tok = s.tok /\ Read(s, n, q).over = s.over
BY DEF IsReader, Read

LEMMA PutFields ==
  ASSUME NEW s, IsReader(s), NEW n, NEW q, NEW ch
  PROVE  LET t == Read(Put(s, ch), n, q)
         IN  /\ IsReader(t) /\ t.readpos = s.readpos + n /\ t.ret = s.ret + n
             /\ t.quote = q /\ t.tok = Append(s.tok, ch) /\ t.over = s.over
BY DEF IsReader, Read, Put

LEMMA OverFields ==
  ASSUME NEW s, IsReader(s), NEW e \in Int
  PROVE  LET a == [s EXCEPT !.over = TRUE]
             b == [s EXCEPT !.over = TRUE, !.ret = e]
         IN  /\ IsReader(a) /\ IsReader(b) /\ a.over = TRUE /\ b.over = TRUE
             /\ a.readpos = s.readpos /\ a.tok = s.tok /\ a.quote = s.quote /\ a.ret = s.ret
             /\ b.ret = e
BY DEF IsReader

(* One character is read: a quote or an escape.                            *)
LEMMA SilentRound ==
  ASSUME IsString(linebuf), NEW s, NEW i \in Nat, i > 0, NEW k \in Nat,
         IsReader(s), s.over = FALSE, Going(s, i), i + k <= s.readpos,
         s.readpos <= Len(linebuf), NEW q, q # Escape,
         IsKind(linebuf, s.readpos, q, FALSE, FALSE)
  PROVE  Reader(Read(s, 1, q), i, k + 1)
<1>1. PICK p \in 1 .. Len(linebuf) : p = s.readpos /\ i <= p /\ p \in Nat
  BY StringFacts DEF Going
<1>2. PICK t : t = Read(s, 1, q)  OBVIOUS
<1>3. /\ IsReader(t) /\ t.readpos = p + 1 /\ t.ret = s.ret + 1 /\ t.quote = q /\ t.tok = s.tok
      /\ t.over = FALSE
  BY <1>1, <1>2, ReadFields
<1>4. Len(linebuf) \in Nat /\ s.ret = p - i /\ s.tok = Spelt(i, p) /\ Within(i, p)
  BY <1>1, StringFacts DEF Going
<1>5. Spelt(i, p + 1) = Spelt(i, p)  BY <1>1, SpeltMore DEF IsKind
<1>6. Within(i, p + 1)  BY <1>1, <1>4, WithinMore DEF IsKind
<1>7. Mode(linebuf)[p + 1] = q  BY <1>1 DEF IsKind
<1>8. Going(t, i) /\ i + (k + 1) <= t.readpos
  <2>1. t.readpos \in i .. Len(linebuf) + 1 /\ t.ret = t.readpos - i /\ i + (k + 1) <= t.readpos
    BY <1>1, <1>3, <1>4
  <2>. QED  BY <1>3, <1>4, <1>5, <1>6, <1>7, <2>1 DEF Going
<1>. QED  BY <1>2, <1>3, <1>8 DEF Reader

(* One character is read and put at the end of the word.                   *)
LEMMA PutRound ==
  ASSUME IsString(linebuf), NEW s, NEW i \in Nat, i > 0, NEW k \in Nat,
         IsReader(s), s.over = FALSE, Going(s, i), i + k <= s.readpos,
         s.readpos <= Len(linebuf), NEW q, q # Escape,
         IsKind(linebuf, s.readpos, q, TRUE, FALSE)
  PROVE  Reader(Read(Put(s, linebuf[s.readpos]), 1, q), i, k + 1)
<1>1. PICK p \in 1 .. Len(linebuf) : p = s.readpos /\ i <= p /\ p \in Nat
  BY StringFacts DEF Going
<1>2. PICK t : t = Read(Put(s, linebuf[p]), 1, q)  OBVIOUS
<1>3. /\ IsReader(t) /\ t.readpos = p + 1 /\ t.ret = s.ret + 1 /\ t.quote = q
      /\ t.tok = Append(s.tok, linebuf[p]) /\ t.over = FALSE
  BY <1>1, <1>2, PutFields
<1>4. Len(linebuf) \in Nat /\ s.ret = p - i /\ s.tok = Spelt(i, p) /\ Within(i, p)
  BY <1>1, StringFacts DEF Going
<1>5. Spelt(i, p + 1) = Append(Spelt(i, p), linebuf[p])  BY <1>1, SpeltMore DEF IsKind
<1>6. Within(i, p + 1)  BY <1>1, <1>4, WithinMore DEF IsKind
<1>7. Mode(linebuf)[p + 1] = q  BY <1>1 DEF IsKind
<1>8. Going(t, i) /\ i + (k + 1) <= t.readpos
  <2>1. t.readpos \in i .. Len(linebuf) + 1 /\ t.ret = t.readpos - i /\ i + (k + 1) <= t.readpos
    BY <1>1, <1>3, <1>4
  <2>. QED  BY <1>3, <1>4, <1>5, <1>6, <1>7, <2>1 DEF Going
<1>. QED  BY <1>1, <1>2, <1>3, <1>8 DEF Reader

(* An escape and the character behind it are read.                         *)
LEMMA EscapeRound ==
  ASSUME IsString(linebuf), NEW s, NEW i \in Nat, i > 0, NEW k \in Nat,
         IsReader(s), s.over = FALSE, Going(s, i), i + k <= s.readpos,
         s.readpos < Len(linebuf),
         IsKind(linebuf, s.readpos, Escape, FALSE, FALSE)
  PROVE  Reader(Read(Put(s, linebuf[s.readpos + 1]), 2, NUL), i, k + 1)
<1>1. PICK p \in 1 .. Len(linebuf) : p = s.readpos /\ i <= p /\ p \in Nat /\ p + 1 \in 1 .. Len(linebuf)
  BY StringFacts DEF Going
<1>2. PICK t : t = Read(Put(s, linebuf[p + 1]), 2, NUL)  OBVIOUS
<1>3. /\ IsReader(t) /\ t.readpos = p + 2 /\ t.ret = s.ret + 2 /\ t.quote = NUL
      /\ t.tok = Append(s.tok, linebuf[p + 1]) /\ t.over = FALSE
  BY <1>1, <1>2, PutFields
<1>4. Len(linebuf) \in Nat /\ s.ret = p - i /\ s.tok = Spelt(i, p) /\ Within(i, p)
  BY <1>1, StringFacts DEF Going
<1>5. IsKind(linebuf, p + 1, NUL, TRUE, FALSE)
  <2>1. Mode(linebuf)[p + 1] = Escape  BY <1>1 DEF IsKind
  <2>. QED  BY <1>1, <2>1, Kinds
<1>6. Spelt(i, p + 1) = Spelt(i, p) /\ Within(i, p + 1)
  <2>1. (p \in Literal(linebuf)) = FALSE /\ (p \in Ends(linebuf)) = FALSE  BY <1>1 DEF IsKind
  <2>2. Spelt(i, p + 1) = Spelt(i, p)  BY <1>1, <2>1, SpeltMore
  <2>3. Within(i, p + 1)  BY <1>1, <1>4, <2>1, WithinMore
  <2>. QED  BY <2>2, <2>3
<1>7. PICK r \in Nat : r = p + 1 /\ r \in 1 .. Len(linebuf) /\ i <= r /\ r + 1 = p + 2  BY <1>1
<1>8. Spelt(i, r + 1) = Append(Spelt(i, r), linebuf[r]) /\ Within(i, r + 1)
      /\ Mode(linebuf)[r + 1] = NUL
  <2>1. (r \in Literal(linebuf)) = TRUE /\ (r \in Ends(linebuf)) = FALSE
        /\ Mode(linebuf)[r + 1] = NUL
    BY <1>5, <1>7 DEF IsKind
  <2>2. Spelt(i, r + 1) = Append(Spelt(i, r), linebuf[r])  BY <1>7, <2>1, SpeltMore
  <2>3. Within(i, r + 1)  BY <1>6, <1>7, <2>1, WithinMore
  <2>. QED  BY <2>1, <2>2, <2>3
<1>9. Going(t, i) /\ i + (k + 1) <= t.readpos
  <2>1. t.readpos \in i .. Len(linebuf) + 1 /\ t.ret = t.readpos - i /\ i + (k + 1) <= t.readpos
    BY <1>1, <1>3, <1>4
  <2>2. t.tok = Spelt(i, t.readpos)  BY <1>3, <1>4, <1>6, <1>7, <1>8
  <2>. QED  BY <1>3, <1>7, <1>8, <2>1, <2>2, Distinct DEF Going
<1>. QED  BY <1>1, <1>2, <1>3, <1>9 DEF Reader
(* The token ends here.                                                    *)
LEMMA EndRound ==
  ASSUME NEW s, NEW i, NEW k, IsReader(s), Going(s, i), s.quote = NUL,
         CharAt(s.readpos) \in {NUL, Blank, Separator}
  PROVE  Reader([s EXCEPT !.over = TRUE], i, k)
<1>1. PICK t : t = [s EXCEPT !.over = TRUE]  OBVIOUS
<1>2. /\ IsReader(t) /\ t.over = TRUE /\ t.readpos = s.readpos /\ t.tok = s.tok
      /\ t.quote = s.quote /\ t.ret = s.ret
  <2>1. 0 \in Int  OBVIOUS
  <2>. QED  BY <1>1, <2>1, OverFields
<1>3. Going(t, i)  BY <1>2 DEF Going
<1>4. Stopped(t, i)  BY <1>2, <1>3 DEF Stopped
<1>. QED  BY <1>1, <1>2, <1>4 DEF Reader

(* A syntax error.                                                         *)
LEMMA ErrorRound ==
  ASSUME NEW s, NEW i, NEW k, IsReader(s), Within(i, Len(linebuf) + 1),
         Mode(linebuf)[Len(linebuf) + 1] # NUL
  PROVE  Reader([s EXCEPT !.over = TRUE, !.ret = -1], i, k)
<1>1. PICK t : t = [s EXCEPT !.over = TRUE, !.ret = -1]  OBVIOUS
<1>2. IsReader(t) /\ t.over = TRUE /\ t.ret = -1
  <2>1. -1 \in Int  OBVIOUS
  <2>. QED  BY <1>1, <2>1, OverFields
<1>3. Failed(t, i)  BY <1>2 DEF Failed
<1>. QED  BY <1>1, <1>2, <1>3 DEF Reader

(* One round of the reader.                                                *)
LEMMA ReaderRound ==
  ASSUME IsString(linebuf), NEW s, NEW i \in Nat, i > 0, NEW k \in Nat, Reader(s, i, k)
  PROVE  Reader(ReadRound(s), i, k + 1)
<1>1. CASE s.over = TRUE
  <2>1. ReadRound(s) = s  BY <1>1 DEF ReadRound
  <2>2. s.over # FALSE  BY <1>1
  <2>. QED  BY <1>1, <2>1, <2>2 DEF Reader
<1>2. CASE s.over = FALSE
  <2>1. IsReader(s) /\ Going(s, i) /\ i + k <= s.readpos  BY <1>2 DEF Reader
  <2>2. PICK p \in Nat : p = s.readpos /\ i <= p /\ p > 0 /\ p \in 1 .. Len(linebuf) + 1
    BY <2>1, StringFacts DEF Going
  <2>3. PICK ch : ch = CharAt(p)  OBVIOUS
  <2>4. PICK n \in Nat : n = Len(linebuf)  BY StringFacts
  <2>5. Mode(linebuf)[p] = s.quote /\ s.quote # Escape /\ s.quote \in Modes /\ Within(i, p)
    <3>1. Mode(linebuf)[p] = s.quote /\ s.quote # Escape /\ Within(i, p)  BY <2>1, <2>2 DEF Going
    <3>2. Mode(linebuf)[p] \in Modes  BY <2>2, ModeIs
    <3>. QED  BY <3>1, <3>2
  <2>6. CASE ch = NUL
    <3>1. p = n + 1
      <4>1. p > Len(linebuf)  BY <2>2, <2>3, <2>6, CharFacts
      <4>. QED  BY <2>2, <2>4, <4>1
    <3>2. CASE s.quote = NUL
      <4>1. ReadRound(s) = [s EXCEPT !.over = TRUE]  BY <1>2, <2>2, <2>3, <2>6, <3>2 DEF ReadRound
      <4>2. CharAt(s.readpos) \in {NUL, Blank, Separator}  BY <2>2, <2>3, <2>6
      <4>3. Reader([s EXCEPT !.over = TRUE], i, k + 1)  BY <2>1, <3>2, <4>2, EndRound
      <4>. QED  BY <4>1, <4>3
    <3>3. CASE s.quote # NUL
      <4>1. ReadRound(s) = [s EXCEPT !.over = TRUE, !.ret = -1]
        BY <1>2, <2>2, <2>3, <2>6, <3>3 DEF ReadRound
      <4>2. Within(i, Len(linebuf) + 1) /\ Mode(linebuf)[Len(linebuf) + 1] # NUL
        BY <2>4, <2>5, <3>1, <3>3
      <4>3. Reader([s EXCEPT !.over = TRUE, !.ret = -1], i, k + 1)  BY <2>1, <4>2, ErrorRound
      <4>. QED  BY <4>1, <4>3
    <3>. QED  BY <3>2, <3>3
  <2>7. CASE ch # NUL
    <3>1. p \in 1 .. n /\ p <= Len(linebuf) /\ ch = linebuf[p]  BY <2>2, <2>3, <2>4, <2>7, CharFacts
    <3>2. CASE s.quote \in {SQuote, DQuote}
      <4>1. s.quote # NUL  BY <3>2, Distinct
      <4>2. CASE ch = s.quote
        <5>1. ReadRound(s) = Read(s, 1, NUL)
          BY <1>2, <2>2, <2>3, <2>7, <4>1, <4>2 DEF ReadRound
        <5>2. IsKind(linebuf, p, NUL, FALSE, FALSE)  BY <2>4, <2>5, <3>1, <3>2, <4>2, Kinds
        <5>. QED  BY <1>2, <2>1, <2>2, <3>1, <5>1, <5>2, Distinct, SilentRound
      <4>3. CASE ch # s.quote
        <5>1. ReadRound(s) = Read(Put(s, linebuf[p]), 1, s.quote)
          BY <1>2, <2>2, <2>3, <2>7, <3>1, <4>1, <4>3 DEF ReadRound
        <5>2. IsKind(linebuf, p, s.quote, TRUE, FALSE)  BY <2>4, <2>5, <3>1, <3>2, <4>3, Kinds
        <5>. QED  BY <1>2, <2>1, <2>2, <2>5, <3>1, <5>1, <5>2, PutRound
      <4>. QED  BY <4>2, <4>3
    <3>3. CASE s.quote = NUL
      <4>1. CASE ch \in {SQuote, DQuote}
        <5>0. ch # Escape /\ ch \notin {Blank, Separator}  BY <4>1, Distinct
        <5>1. ReadRound(s) = Read(s, 1, ch)
          BY <1>2, <2>2, <2>3, <2>7, <3>3, <4>1, <5>0 DEF ReadRound
        <5>2. IsKind(linebuf, p, ch, FALSE, FALSE) /\ ch # Escape
          BY <2>4, <2>5, <3>1, <3>3, <4>1, Kinds, Distinct
        <5>. QED  BY <1>2, <2>1, <2>2, <3>1, <5>1, <5>2, SilentRound
      <4>2. CASE ch = Escape
        <5>1. IsKind(linebuf, p, Escape, FALSE, FALSE)  BY <2>4, <2>5, <3>1, <3>3, <4>2, Kinds
        <5>2. ch \notin {SQuote, DQuote} /\ ch \notin {Blank, Separator}  BY <4>2, Distinct
        <5>3. CASE CharAt(p + 1) = NUL
          <6>1. ReadRound(s) = [s EXCEPT !.over = TRUE, !.ret = -1]
            BY <1>2, <2>2, <2>3, <2>7, <3>3, <4>2, <5>2, <5>3 DEF ReadRound
          <6>2. p = n
            <7>1. p + 1 \in Nat /\ p + 1 > 0  OBVIOUS
            <7>2. p + 1 > n  BY <2>4, <5>3, <7>1, CharFacts
            <7>. QED  BY <2>4, <3>1, <7>2
          <6>3. Within(i, p + 1)  BY <2>2, <2>5, <5>1, WithinMore DEF IsKind
          <6>4. Mode(linebuf)[p + 1] # NUL  BY <5>1, Distinct DEF IsKind
          <6>5. Within(i, Len(linebuf) + 1) /\ Mode(linebuf)[Len(linebuf) + 1] # NUL
            BY <2>4, <6>2, <6>3, <6>4
          <6>6. Reader([s EXCEPT !.over = TRUE, !.ret = -1], i, k + 1)  BY <2>1, <6>5, ErrorRound
          <6>. QED  BY <6>1, <6>6
        <5>4. CASE CharAt(p + 1) # NUL
          <6>1. p + 1 \in Nat /\ p + 1 > 0  OBVIOUS
          <6>2. ~(p + 1 > Len(linebuf))  BY <5>4, <6>1, CharFacts
          <6>3. s.readpos < Len(linebuf) /\ CharAt(p + 1) = linebuf[p + 1]
            BY <2>2, <2>4, <6>1, <6>2, CharFacts
          <6>4. ReadRound(s) = Read(Put(s, linebuf[s.readpos + 1]), 2, NUL)
            BY <1>2, <2>2, <2>3, <2>7, <3>3, <4>2, <5>2, <5>4, <6>3 DEF ReadRound
          <6>. QED  BY <1>2, <2>1, <2>2, <5>1, <6>3, <6>4, EscapeRound
        <5>. QED  BY <5>3, <5>4
      <4>3. CASE ch \in {Blank, Separator}
        <5>1. ch \notin {SQuote, DQuote} /\ ch # Escape  BY <4>3, Distinct
        <5>2. ReadRound(s) = [s EXCEPT !.over = TRUE]
          BY <1>2, <2>2, <2>3, <2>7, <3>3, <4>3, <5>1 DEF ReadRound
        <5>3. CharAt(s.readpos) \in {NUL, Blank, Separator}  BY <2>2, <2>3, <4>3
        <5>4. Reader([s EXCEPT !.over = TRUE], i, k + 1)  BY <2>1, <3>3, <5>3, EndRound
        <5>. QED  BY <5>2, <5>4
      <4>4. CASE ch \notin {SQuote, DQuote, Escape, Blank, Separator}
        <5>1. ch \notin {SQuote, DQuote} /\ ch # Escape /\ ch \notin {Blank, Separator}  BY <4>4
        <5>2. ReadRound(s) = Read(Put(s, linebuf[p]), 1, NUL)
          BY <1>2, <2>2, <2>3, <2>7, <3>1, <3>3, <5>1 DEF ReadRound
        <5>3. IsKind(linebuf, p, NUL, TRUE, FALSE)  BY <2>4, <2>5, <3>1, <3>3, <4>4, Kinds
        <5>. QED  BY <1>2, <2>1, <2>2, <3>1, <5>2, <5>3, Distinct, PutRound
      <4>. QED  BY <4>1, <4>2, <4>3, <4>4
    <3>. QED  BY <2>5, <3>2, <3>3 DEF Modes
  <2>. QED  BY <2>6, <2>7
<1>. QED  BY <1>1, <1>2 DEF Reader
(* The rounds of the reader can be taken one after the other...            *)
ReadRounds(f, s, n) == f = [k \in 0 .. n |-> IF k = 0 THEN s ELSE ReadRound(f[k - 1])]

LEMMA ReadRoundsExist ==
  ASSUME NEW s, NEW n \in Nat
  PROVE  \E f : ReadRounds(f, s, n)
<1> DEFINE S == {m \in 0 .. n : \E f : ReadRounds(f, s, m)}
<1>1. 0 \in S
  <2>1. PICK f : f = [k \in 0 .. 0 |-> s]  OBVIOUS
  <2>2. \A k \in 0 .. 0 : f[k] = IF k = 0 THEN s ELSE ReadRound(f[k - 1])  BY <2>1
  <2>3. f = [k \in 0 .. 0 |-> f[k]]  BY <2>1
  <2>4. ReadRounds(f, s, 0)  BY <2>2, <2>3 DEF ReadRounds
  <2>. QED  BY <2>4
<1>2. ASSUME NEW m \in 0 .. n - 1, NEW f, ReadRounds(f, s, m)
      PROVE  \E g : ReadRounds(g, s, m + 1)
  <2>1. PICK g : g = [k \in 0 .. m + 1 |-> IF k <= m THEN f[k] ELSE ReadRound(f[m])]  OBVIOUS
  <2>2. \A k \in 0 .. m : f[k] = IF k = 0 THEN s ELSE ReadRound(f[k - 1])
    BY <1>2 DEF ReadRounds
  <2>3. \A k \in 0 .. m : g[k] = f[k]  BY <2>1
  <2>4. g[m + 1] = ReadRound(f[m])  BY <2>1
  <2>5. ASSUME NEW k \in 0 .. m + 1
        PROVE  g[k] = IF k = 0 THEN s ELSE ReadRound(g[k - 1])
    <3>1. CASE k = m + 1
      <4>1. k # 0 /\ k - 1 = m /\ m \in 0 .. m  BY <3>1
      <4>2. g[k - 1] = f[m]  BY <2>3, <4>1
      <4>. QED  BY <2>4, <3>1, <4>1, <4>2
    <3>2. CASE k = 0  BY <2>2, <2>3, <3>2
    <3>3. CASE k # 0 /\ k # m + 1
      <4>1. k \in 0 .. m /\ k - 1 \in 0 .. m  BY <3>3
      <4>. QED  BY <2>2, <2>3, <3>3, <4>1
    <3>. QED  BY <3>1, <3>2, <3>3
  <2>6. g = [k \in 0 .. m + 1 |-> g[k]]  BY <2>1
  <2>7. ReadRounds(g, s, m + 1)  BY <2>5, <2>6 DEF ReadRounds
  <2>. QED  BY <2>7
<1>3. \A m \in 0 .. n - 1 : m \in S => m + 1 \in S  BY <1>2
<1>. HIDE DEF S
<1>4. 0 .. n \subseteq S  BY <1>1, <1>3, Climb
<1>5. n \in S  BY <1>4
<1>. QED  BY <1>5 DEF S

(* ... and as many as the line has characters are enough for a token.      *)
IsToken(t, i) == IsReader(t) /\ (Stopped(t, i) \/ Failed(t, i))

LEMMA TokenRead ==
  ASSUME IsString(linebuf), NEW i \in 1 .. Len(linebuf) + 1, Mode(linebuf)[i] = NUL
  PROVE  IsToken(read_token(i), i)
<1>1. PICK n \in Nat : n = Len(linebuf)  BY StringFacts
<1>2. i \in Nat /\ i > 0 /\ i <= n + 1  BY <1>1
<1>3. PICK s : s = [readpos |-> i, tok |-> <<>>, quote |-> NUL, ret |-> 0, over |-> FALSE]
  OBVIOUS
<1>4. PICK f : f = CHOOSE g : ReadRounds(g, s, n + 1)  OBVIOUS
<1>5. ReadRounds(f, s, n + 1)
  <2>1. n + 1 \in Nat  OBVIOUS
  <2>. QED  BY <1>4, <2>1, ReadRoundsExist
<1>6. read_token(i) = f[n + 1]  BY <1>1, <1>3, <1>4 DEF read_token, Times, ReadRounds
<1>7. f[0] = s /\ \A k \in 1 .. n + 1 : f[k] = ReadRound(f[k - 1])  BY <1>5 DEF ReadRounds
<1>8. Reader(s, i, 0)
  <2>1. IsReader(s) /\ s.over = FALSE  BY <1>3 DEF IsReader
  <2>2. /\ s.readpos = i /\ s.ret = 0 /\ s.quote = NUL /\ s.tok = <<>>  BY <1>3
  <2>3. Spelt(i, i) = <<>> /\ Within(i, i)  BY <1>2, SpeltNone
  <2>4. i \in i .. Len(linebuf) + 1 /\ 0 = i - i /\ i + 0 <= i  BY <1>1, <1>2
  <2>5. Going(s, i)  BY <2>2, <2>3, <2>4, Distinct DEF Going
  <2>. QED  BY <2>1, <2>2, <2>4, <2>5 DEF Reader
<1> DEFINE S == {k \in 0 .. n + 1 : Reader(f[k], i, k)}
<1>9. 0 \in S  BY <1>7, <1>8
<1>10. ASSUME NEW k \in 0 .. (n + 1) - 1, k \in S  PROVE k + 1 \in S
  <2>1. k \in Nat /\ k + 1 \in 1 .. n + 1 /\ (k + 1) - 1 = k  OBVIOUS
  <2>2. f[k + 1] = ReadRound(f[k])  BY <1>7, <2>1
  <2>3. Reader(ReadRound(f[k]), i, k + 1)  BY <1>2, <1>10, <2>1, ReaderRound
  <2>. QED  BY <2>1, <2>2, <2>3
<1>. HIDE DEF S
<1>11. n + 1 \in S
  <2>1. n + 1 \in Nat  OBVIOUS
  <2>2. 0 .. n + 1 \subseteq S  BY <1>9, <1>10, <2>1, Climb
  <2>. QED  BY <2>2
<1>12. Reader(f[n + 1], i, n + 1)  BY <1>11 DEF S
<1>13. f[n + 1].over # FALSE
  <2> SUFFICES ASSUME f[n + 1].over = FALSE  PROVE FALSE
    OBVIOUS
  <2>1. f[n + 1].readpos \in i .. n + 1 /\ i + (n + 1) <= f[n + 1].readpos
    BY <1>1, <1>12 DEF Reader, Going
  <2>. QED  BY <1>2, <2>1
<1>14. IsReader(f[n + 1]) /\ f[n + 1].over = TRUE  BY <1>12, <1>13 DEF Reader
<1>. QED  BY <1>6, <1>12, <1>14 DEF IsToken, Reader
-----------------------------------------------------------------------------
(* A word ends at the first plain blank or separator, or with the line.    *)
LEMMA WordIs ==
  ASSUME IsString(linebuf), NEW i \in Nat, NEW e \in Nat, i <= e, Within(i, e),
         e = Len(linebuf) + 1 \/ e \in Ends(linebuf)
  PROVE  Word(linebuf, i) = Spelt(i, e)
<1>1. PICK n \in Nat : n = Len(linebuf)  BY StringFacts
<1>2. \A j \in Literal(linebuf) : j \in 1 .. n  BY <1>1, Sets
<1>3. ASSUME NEW j \in Literal(linebuf), i <= j
      PROVE  (\A k \in i .. j : k \notin Ends(linebuf)) <=> j < e
  <2>1. CASE j < e
    <3>1. \A k \in i .. j : k \in i .. e - 1  BY <1>2, <2>1
    <3>. QED  BY <2>1, <3>1 DEF Within
  <2>2. CASE ~(j < e)
    <3>1. e # n + 1  BY <1>2, <2>2
    <3>2. e \in Ends(linebuf)  BY <1>1, <3>1
    <3>3. e \in i .. j  BY <1>2, <2>2
    <3>. QED  BY <2>2, <3>2, <3>3
  <2>. QED  BY <2>1, <2>2
<1>4. {j \in Literal(linebuf) : i <= j /\ \A k \in i .. j : k \notin Ends(linebuf)} = Among(i, e)
  BY <1>3 DEF Among
<1>5. Word(linebuf, i)
        = Along(linebuf, {j \in Literal(linebuf) : i <= j /\ \A k \in i .. j : k \notin Ends(linebuf)})
  BY DEF Word, Ends
<1>. QED  BY <1>4, <1>5 DEF Spelt

(* The words of the sentence at a that start before p, and that no         *)
(* separator ends the sentence before p.                                   *)
Blanks == Plain(linebuf, Blank)
Separators == Plain(linebuf, Separator)
WordAt == [i \in 1 .. Len(linebuf) |-> Word(linebuf, i)]
Starts(a, p) == {i \in WordStarts(linebuf, a) : i < p}
Spoken(a, p) == Along(WordAt, Starts(a, p))
SameSentence(a, p) == \A k \in a .. p - 1 : k \notin Separators

LEMMA StartIs ==
  ASSUME NEW a, NEW i
  PROVE  i \in WordStarts(linebuf, a) <=> /\ i \in a .. Len(linebuf) /\ i \notin Blanks
                                          /\ i = a \/ i - 1 \in Blanks
                                          /\ \A k \in a .. i : k \notin Separators
BY DEF WordStarts, Blanks, Separators

LEMMA MarkFacts ==
  ASSUME IsString(linebuf), NEW i
  PROVE  /\ i \in Blanks <=> i \in 1 .. Len(linebuf) /\ Mode(linebuf)[i] = NUL /\ linebuf[i] = Blank
         /\ i \in Separators <=> /\ i \in 1 .. Len(linebuf) /\ Mode(linebuf)[i] = NUL
                                 /\ linebuf[i] = Separator
         /\ i \in Ends(linebuf) <=> i \in Blanks \/ i \in Separators
BY Sets DEF Blanks, Separators, Ends

(* The words of a sentence are those before its end.                       *)
LEMMA WordsAre ==
  ASSUME IsString(linebuf), NEW a \in Nat, NEW e \in Nat, a <= e,
         e = Len(linebuf) + 1 \/ e \in Separators
  PROVE  Words(linebuf, a) = Spoken(a, e)
<1>1. PICK n \in Nat : n = Len(linebuf)  BY StringFacts
<1>2. ASSUME NEW i \in WordStarts(linebuf, a)  PROVE i < e
  <2>1. i \in a .. n /\ \A k \in a .. i : k \notin Separators  BY <1>1, StartIs
  <2>2. CASE e = n + 1  BY <2>1, <2>2
  <2>3. CASE e \in Separators
    <3>1. e \notin a .. i  BY <2>1, <2>3
    <3>. QED  BY <2>1, <3>1
  <2>. QED  BY <1>1, <2>2, <2>3
<1>3. Starts(a, e) = WordStarts(linebuf, a)  BY <1>2 DEF Starts
<1>. QED  BY <1>3 DEF Words, Spoken, WordAt

LEMMA SpokenNone ==
  ASSUME NEW a \in Nat
  PROVE  Spoken(a, a) = <<>>
<1>1. \A i \in WordStarts(linebuf, a) : ~(i < a)
  <2>1. \A i \in WordStarts(linebuf, a) : i \in a .. Len(linebuf)  BY StartIs
  <2>. QED  BY <2>1
<1>2. Starts(a, a) = {}  BY <1>1 DEF Starts
<1>. QED  BY <1>2, AlongNone DEF Spoken

(* Blanks start no word...                                                 *)
LEMMA SpokenBlanks ==
  ASSUME NEW a \in Nat, NEW p \in Nat, NEW j \in Nat, p <= j, \A k \in p .. j - 1 : k \in Blanks
  PROVE  Spoken(a, j) = Spoken(a, p)
<1>1. ASSUME NEW i \in WordStarts(linebuf, a)  PROVE i < j <=> i < p
  <2>1. i \in Int /\ i \notin Blanks  BY StartIs
  <2>2. i \notin p .. j - 1  BY <2>1
  <2>. QED  BY <2>1, <2>2
<1>2. Starts(a, j) = Starts(a, p)  BY <1>1 DEF Starts
<1>. QED  BY <1>2 DEF Spoken

(* ... and what comes up to the next blank or separator is one word.       *)
LEMMA SpokenWord ==
  ASSUME IsString(linebuf), NEW a \in Nat, a > 0, NEW j \in Nat, NEW e \in Nat, a <= j, j < e,
         e <= Len(linebuf) + 1, SameSentence(a, j), Within(j, e), j = a \/ j - 1 \in Blanks,
         e = Len(linebuf) + 1 \/ e \in Ends(linebuf)
  PROVE  Spoken(a, e) = Append(Spoken(a, j), Spelt(j, e))
<1>1. PICK n \in Nat : n = Len(linebuf)  BY StringFacts
<1>2. \A k \in j .. e - 1 : k \notin Blanks /\ k \notin Separators  BY MarkFacts DEF Within
<1>3. j \in WordStarts(linebuf, a)
  <2>1. j \in a .. n /\ j \in j .. e - 1  BY <1>1
  <2>2. \A k \in a .. j : k \notin Separators
    <3>1. \A k \in a .. j : k \in a .. j - 1 \/ k = j  OBVIOUS
    <3>. QED  BY <1>2, <2>1, <3>1 DEF SameSentence
  <2>. QED  BY <1>1, <1>2, <2>1, <2>2, StartIs
<1>4. ASSUME NEW i \in WordStarts(linebuf, a)  PROVE i < e <=> i < j \/ i = j
  <2>1. i \in Int /\ a <= i /\ (i = a \/ i - 1 \in Blanks)  BY StartIs
  <2>2. i - 1 \notin j .. e - 1 \/ i = a  BY <1>2, <2>1
  <2>. QED  BY <2>1, <2>2
<1>5. Starts(a, e) = Starts(a, j) \cup {j}  BY <1>3, <1>4 DEF Starts
<1>6. Starts(a, j) \in SUBSET (1 .. n)
  <2>1. \A i \in WordStarts(linebuf, a) : i \in 1 .. n
    <3>1. \A i \in WordStarts(linebuf, a) : i \in a .. n  BY <1>1, StartIs
    <3>. QED  BY <3>1
  <2>. QED  BY <2>1 DEF Starts
<1>7. IsFiniteSet(Starts(a, j))
  <2>1. IsFiniteSet(1 .. n)  BY FS_Interval
  <2>. QED  BY <1>6, <2>1, FS_Subset
<1>8. Starts(a, j) \in SUBSET Nat /\ \A y \in Starts(a, j) : y < j  BY <1>6 DEF Starts
<1>9. Along(WordAt, Starts(a, j) \cup {j}) = Append(Along(WordAt, Starts(a, j)), WordAt[j])
  BY <1>7, <1>8, AlongMore
<1>10. WordAt[j] = Spelt(j, e)
  <2>1. j \in 1 .. Len(linebuf)  BY <1>1
  <2>2. WordAt[j] = Word(linebuf, j)  BY <2>1 DEF WordAt
  <2>. QED  BY <2>2, WordIs
<1>. QED  BY <1>5, <1>9, <1>10 DEF Spoken

(* The words are a sequence.                                               *)
LEMMA SpokenSeq ==
  ASSUME IsString(linebuf), NEW a \in Nat, NEW p
  PROVE  IsSequence(Spoken(a, p))
<1>1. PICK n \in Nat : n = Len(linebuf)  BY StringFacts
<1>2. Starts(a, p) \in SUBSET (a .. n)
  <2>1. \A i \in WordStarts(linebuf, a) : i \in a .. n  BY <1>1, StartIs
  <2>. QED  BY <2>1 DEF Starts
<1>3. IsFiniteSet(Starts(a, p))
  <2>1. IsFiniteSet(a .. n)  BY FS_Interval
  <2>. QED  BY <1>2, <2>1, FS_Subset
<1>. QED  BY <1>3, AlongSeq DEF Spoken, IsSequence

LEMMA AppendFacts ==
  ASSUME NEW q, IsSequence(q), NEW x
  PROVE  /\ IsSequence(Append(q, x)) /\ Append(q, x) # <<>>
         /\ Len(Append(q, x)) = Len(q) + 1 /\ Append(q, x)[Len(q) + 1] = x
         /\ \A k \in 1 .. Len(q) : Append(q, x)[k] = q[k]
         /\ q = <<>> => Append(q, x)[1] = x
         /\ q # <<>> => Append(q, x)[1] = q[1]
<1>1. PICK V : q \in Seq(V)  BY DEF IsSequence
<1>2. PICK W : W = V \cup {x}  OBVIOUS
<1>3. q \in Seq(W) /\ x \in W
  <2>1. \A i \in 1 .. Len(q) : q[i] \in W  BY <1>1, <1>2
  <2>2. q = [i \in 1 .. Len(q) |-> q[i]] /\ Len(q) \in Nat  BY <1>1
  <2>. QED  BY <1>2, <2>1, <2>2, IsASeq
<1>4. /\ Append(q, x) \in Seq(W) /\ Append(q, x) # <<>>
      /\ Len(Append(q, x)) = Len(q) + 1 /\ Append(q, x)[Len(q) + 1] = x
      /\ \A k \in 1 .. Len(q) : Append(q, x)[k] = q[k]
  BY <1>3, AppendProperties
<1>5. q = <<>> => Append(q, x)[1] = x
  <2>1. q = <<>> => Len(q) = 0 /\ Len(q) + 1 = 1  OBVIOUS
  <2>. QED  BY <1>4, <2>1
<1>6. q # <<>> => 1 \in 1 .. Len(q)  BY <1>3
<1>. QED  BY <1>4, <1>5, <1>6 DEF IsSequence
-----------------------------------------------------------------------------
(* SkipBlanks stands at the first character that is not blank.             *)
Skipped(p, j) ==
  /\ j \in p .. Len(linebuf) + 1 /\ CharAt(j) # Blank
  /\ \A k \in p .. j - 1 : CharAt(k) = Blank

LEMMA SkipBlanksIs ==
  ASSUME IsString(linebuf), NEW p \in Nat, p > 0, p <= Len(linebuf) + 1
  PROVE  Skipped(p, SkipBlanks(p))
<1>1. PICK n \in Nat : n = Len(linebuf)  BY StringFacts
<1>2. PICK S : S = {j \in p .. n + 1 : CharAt(j) # Blank}  OBVIOUS
<1>3. PICK m \in S : \A k \in S : m <= k
  <2>1. n + 1 \in Nat /\ n + 1 > 0 /\ n + 1 > Len(linebuf)  BY <1>1
  <2>2. CharAt(n + 1) = NUL  BY <2>1, CharFacts
  <2>3. n + 1 \in S  BY <1>1, <1>2, <2>2, Distinct
  <2>4. S \in SUBSET Nat  BY <1>2
  <2>. QED  BY <2>3, <2>4, Smallest
<1>4. ASSUME NEW k \in p .. m - 1  PROVE CharAt(k) = Blank
  <2>1. k \in p .. n + 1 /\ ~(m <= k)  BY <1>2, <1>3
  <2>. QED  BY <1>2, <1>3, <2>1
<1>5. m \in p .. Len(linebuf) + 1 /\ CharAt(m) # Blank  BY <1>1, <1>2, <1>3
<1>. QED  BY <1>4, <1>5 DEF SkipBlanks, Skipped

(* Outside quotes it passes plain blanks only.                             *)
LEMMA SkippedPlain ==
  ASSUME IsString(linebuf), NEW p \in Nat, p > 0, p <= Len(linebuf) + 1,
         Mode(linebuf)[p] = NUL, NEW j, Skipped(p, j)
  PROVE  /\ j \in Nat /\ j <= Len(linebuf) + 1 /\ p <= j
         /\ Mode(linebuf)[j] = NUL
         /\ \A k \in p .. j - 1 : k \in Blanks /\ k \notin Separators
<1>1. PICK n \in Nat : n = Len(linebuf)  BY StringFacts
<1>2. j \in p .. n + 1 /\ \A k \in p .. j - 1 : CharAt(k) = Blank  BY <1>1 DEF Skipped
<1>3. PICK d \in Nat : d = j - p  BY <1>2
<1> DEFINE S == {k \in 0 .. d : Mode(linebuf)[p + k] = NUL}
<1>4. 0 \in S  OBVIOUS
<1>5. ASSUME NEW k \in 0 .. d - 1  PROVE linebuf[p + k] = Blank /\ p + k \in 1 .. n
  <2>1. PICK i \in Nat : i = p + k /\ i > 0 /\ i <= n /\ i \in p .. j - 1  BY <1>2, <1>3
  <2>2. CharAt(i) = Blank /\ CharAt(i) = linebuf[i]  BY <1>1, <1>2, <2>1, CharFacts
  <2>. QED  BY <2>1, <2>2
<1>6. ASSUME NEW k \in 0 .. d - 1, k \in S  PROVE k + 1 \in S
  <2>1. PICK i \in 1 .. n : i = p + k /\ linebuf[i] = Blank /\ i + 1 = p + (k + 1)  BY <1>5
  <2>2. Mode(linebuf)[i] = NUL  BY <1>6, <2>1
  <2>3. IsKind(linebuf, i, NUL, TRUE, TRUE)  BY <1>1, <2>1, <2>2, Kinds
  <2>. QED  BY <2>1, <2>3 DEF IsKind
<1>. HIDE DEF S
<1>7. 0 .. d \subseteq S  BY <1>4, <1>6, Climb
<1>8. \A k \in 0 .. d : Mode(linebuf)[p + k] = NUL  BY <1>7 DEF S
<1>9. Mode(linebuf)[j] = NUL
  <2>1. d \in 0 .. d /\ p + d = j  BY <1>2, <1>3
  <2>. QED  BY <1>8, <2>1
<1>10. ASSUME NEW i \in p .. j - 1  PROVE i \in Blanks /\ i \notin Separators
  <2>1. PICK k \in 0 .. d - 1 : k \in 0 .. d /\ i = p + k
    <3>1. i - p \in 0 .. d - 1 /\ i - p \in 0 .. d /\ i = p + (i - p)  BY <1>2, <1>3
    <3>. QED  BY <3>1
  <2>2. Mode(linebuf)[i] = NUL /\ linebuf[i] = Blank /\ i \in 1 .. n  BY <1>5, <1>8, <2>1
  <2>. QED  BY <1>1, <2>2, MarkFacts, Distinct
<1>. QED  BY <1>1, <1>2, <1>9, <1>10

-----------------------------------------------------------------------------
(* msh_parse_line, round by round: it has the words of the sentence up to  *)
(* where it stands, which is the start or a blank outside quotes.          *)
IsParser(s) ==
  s \in [readpos : {s.readpos}, argv : {s.argv}, argv0 : {s.argv0}, over : {s.over}, next : {s.next}]

Underway(s, a) ==
  /\ s.readpos \in a .. Len(linebuf) + 1 /\ Mode(linebuf)[s.readpos] = NUL
  /\ s.readpos = a \/ s.readpos \in Blanks
  /\ SameSentence(a, s.readpos)
  /\ s.argv = Spoken(a, s.readpos) /\ s.next = a
  /\ s.argv # <<>> => s.argv0 = s.argv[1]

Here(s, a) == s.next = a /\ SameSentence(a, Len(linebuf) + 1)
Beyond(s, a) == \E e \in Separators : a <= e /\ SameSentence(a, e) /\ s.next = e + 1

Understood(s, a) ==
  /\ Ended(linebuf, a) /\ s.argv = Words(linebuf, a)
  /\ s.argv # <<>> => s.argv0 = s.argv[1]
  /\ s.argv = <<>> => s.argv0 = <<>> \/ s.next = a
  /\ Here(s, a) \/ Beyond(s, a)

Rejected(s, a) == s.next = 0 /\ ~Ended(linebuf, a)

Parser(s, a, k) ==
  /\ IsParser(s) /\ s.over \in BOOLEAN
  /\ s.over = FALSE => Underway(s, a) /\ a + k <= s.readpos
  /\ s.over = TRUE => Understood(s, a) \/ Rejected(s, a)

LEMMA EndedIs ==
  ASSUME NEW a
  PROVE  Ended(linebuf, a) <=> (\E i \in Separators : a <= i) \/ Mode(linebuf)[Len(linebuf) + 1] = NUL
BY DEF Ended, Separators

(* Nothing is left of the line.                                            *)
LEMMA LineOver ==
  ASSUME IsString(linebuf), NEW a \in Nat, a > 0, a <= Len(linebuf) + 1, NEW s, IsParser(s),
         Underway(s, a), CharAt(s.readpos) = NUL, NEW k
  PROVE  Parser([s EXCEPT !.over = TRUE], a, k)
<1>1. PICK n \in Nat : n = Len(linebuf)  BY StringFacts
<1>2. PICK p \in Nat : p = s.readpos /\ p \in a .. n + 1 /\ p > 0  BY <1>1 DEF Underway
<1>3. p = n + 1
  <2>1. p > Len(linebuf)  BY <1>2, CharFacts
  <2>. QED  BY <1>1, <1>2, <2>1
<1>4. p = a
  <2>1. p \notin Blanks  BY <1>1, <1>3, MarkFacts
  <2>. QED  BY <1>2, <2>1 DEF Underway
<1>5. PICK t : t = [s EXCEPT !.over = TRUE]  OBVIOUS
<1>6. IsParser(t) /\ t.over = TRUE /\ t.argv = s.argv /\ t.argv0 = s.argv0 /\ t.next = s.next
  BY <1>5 DEF IsParser
<1>7. t.argv = <<>>  BY <1>2, <1>4, <1>6, SpokenNone DEF Underway
<1>8. Words(linebuf, a) = <<>>
  <2>1. Words(linebuf, a) = Spoken(a, a)  BY <1>1, <1>3, <1>4, WordsAre
  <2>. QED  BY <2>1, SpokenNone
<1>9. t.next = a  BY <1>6 DEF Underway
<1>10. Ended(linebuf, a)  BY <1>1, <1>2, <1>3, EndedIs DEF Underway
<1>11. SameSentence(a, Len(linebuf) + 1)
  <2>1. a .. (Len(linebuf) + 1) - 1 = {}  BY <1>1, <1>3, <1>4
  <2>. QED  BY <2>1 DEF SameSentence
<1>12. Understood(t, a)  BY <1>7, <1>8, <1>9, <1>10, <1>11 DEF Understood, Here
<1>. QED  BY <1>5, <1>6, <1>12 DEF Parser

(* What a round makes of a token.                                          *)
Took(s, t) ==
  [readpos |-> t.readpos,
   argv |-> IF t.ret > 0 THEN Append(s.argv, t.tok) ELSE s.argv,
   argv0 |-> IF s.argv = <<>> THEN t.tok ELSE s.argv0,
   over |-> t.ret <= 0 \/ CharAt(t.readpos) # Blank,
   next |-> IF t.ret < 0 \/ (/\ CharAt(t.readpos) \notin {NUL, Separator}
                             /\ t.ret = 0 \/ CharAt(t.readpos) # Blank) THEN 0
            ELSE IF CharAt(t.readpos) = Separator THEN t.readpos + 1 ELSE s.next]

LEMMA ParseRoundIs ==
  ASSUME NEW s, s.over \in BOOLEAN
  PROVE  ParseRound(s) = IF s.over THEN s
                         ELSE IF CharAt(s.readpos) = NUL THEN [s EXCEPT !.over = TRUE]
                         ELSE Took(s, read_token(SkipBlanks(s.readpos)))
BY DEF ParseRound, Took
(* Where a token begins.                                                   *)
Begins(s, a, j) ==
  /\ Underway(s, a) /\ j \in Nat /\ s.readpos <= j /\ j <= Len(linebuf) + 1
  /\ Mode(linebuf)[j] = NUL /\ CharAt(j) # Blank
  /\ \A k \in s.readpos .. j - 1 : k \in Blanks /\ k \notin Separators

LEMMA BeginFacts ==
  ASSUME IsString(linebuf), NEW a \in Nat, a > 0, NEW s, NEW j, Begins(s, a, j)
  PROVE  /\ j \in Nat /\ j > 0 /\ a <= j /\ j <= Len(linebuf) + 1 /\ s.readpos \in Nat
         /\ SameSentence(a, j) /\ s.argv = Spoken(a, j) /\ (j = a \/ j - 1 \in Blanks)
<1>1. PICK n \in Nat : n = Len(linebuf)  BY StringFacts
<1>2. PICK p \in Nat : p = s.readpos /\ a <= p /\ p > 0  BY <1>1 DEF Begins, Underway
<1>3. j \in Nat /\ p <= j /\ j <= n + 1  BY <1>1, <1>2 DEF Begins
<1>4. SameSentence(a, p) /\ \A k \in p .. j - 1 : k \in Blanks /\ k \notin Separators
  BY <1>2 DEF Begins, Underway
<1>5. SameSentence(a, j)
  <2>1. \A k \in a .. j - 1 : k \in a .. p - 1 \/ k \in p .. j - 1  BY <1>2, <1>3
  <2>. QED  BY <1>4, <2>1 DEF SameSentence
<1>6. s.argv = Spoken(a, j)
  <2>1. Spoken(a, j) = Spoken(a, p)  BY <1>2, <1>3, <1>4, SpokenBlanks
  <2>. QED  BY <1>2, <2>1 DEF Begins, Underway
<1>7. j = a \/ j - 1 \in Blanks
  <2>1. CASE j = p
    <3>1. j \notin Blanks
      <4>1. j \in Blanks => linebuf[j] = Blank /\ CharAt(j) = linebuf[j]
        BY <1>1, <1>2, <1>3, MarkFacts, CharFacts
      <4>. QED  BY <4>1 DEF Begins
    <3>. QED  BY <1>2, <2>1, <3>1 DEF Begins, Underway
  <2>2. CASE j # p
    <3>1. j - 1 \in p .. j - 1  BY <1>2, <1>3, <2>2
    <3>. QED  BY <1>4, <3>1
  <2>. QED  BY <2>1, <2>2
<1>. QED  BY <1>1, <1>2, <1>3, <1>5, <1>6, <1>7

LEMMA TookFields ==
  ASSUME NEW s, NEW t
  PROVE  IsParser(Took(s, t)) /\ (t.ret \in Int => Took(s, t).over \in BOOLEAN)
BY DEF Took, IsParser

(* A syntax error.                                                         *)
LEMMA TookError ==
  ASSUME IsString(linebuf), NEW a \in Nat, a > 0, NEW s, NEW j, Begins(s, a, j),
         NEW t, Failed(t, j), NEW k
  PROVE  Parser(Took(s, t), a, k)
<1>1. PICK n \in Nat : n = Len(linebuf)  BY StringFacts
<1>2. j \in Nat /\ a <= j /\ j <= n + 1 /\ SameSentence(a, j)  BY <1>1, BeginFacts
<1>3. t.ret = -1 /\ Within(j, n + 1) /\ Mode(linebuf)[n + 1] # NUL  BY <1>1 DEF Failed
<1>4. ~Ended(linebuf, a)
  <2> SUFFICES ASSUME NEW i \in Separators, a <= i  PROVE FALSE
    BY <1>1, <1>3, EndedIs
  <2>1. i \in 1 .. n /\ i \in Ends(linebuf)  BY <1>1, MarkFacts
  <2>2. CASE i < j
    <3>1. i \in a .. j - 1  BY <1>2, <2>1, <2>2
    <3>. QED  BY <1>2, <3>1 DEF SameSentence
  <2>3. CASE ~(i < j)
    <3>1. i \in j .. (n + 1) - 1  BY <1>2, <2>1, <2>3
    <3>. QED  BY <1>3, <2>1, <3>1 DEF Within
  <2>. QED  BY <2>2, <2>3
<1>5. PICK u : u = Took(s, t)  OBVIOUS
<1>6. u.next = 0 /\ u.over = TRUE
  <2>1. (t.ret < 0) = TRUE /\ (t.ret <= 0) = TRUE  BY <1>3
  <2>2. u.over = TRUE  BY <1>5, <2>1 DEF Took
  <2>3. u.next = 0  BY <1>5, <2>1 DEF Took
  <2>. QED  BY <2>2, <2>3
<1>7. IsParser(u)  BY <1>5, TookFields
<1>8. Rejected(u, a)  BY <1>4, <1>6 DEF Rejected
<1>. QED  BY <1>5, <1>6, <1>7, <1>8 DEF Parser

(* A token that stops, and what stops it.                                  *)
LEMMA StopFacts ==
  ASSUME IsString(linebuf), NEW j \in Nat, j > 0, j <= Len(linebuf) + 1, NEW t, Stopped(t, j)
  PROVE  /\ t.readpos \in Nat /\ j <= t.readpos /\ t.readpos <= Len(linebuf) + 1
         /\ t.ret = t.readpos - j /\ t.ret \in Nat
         /\ Mode(linebuf)[t.readpos] = NUL /\ t.tok = Spelt(j, t.readpos)
         /\ Within(j, t.readpos)
         /\ \/ CharAt(t.readpos) = NUL /\ t.readpos = Len(linebuf) + 1
            \/ CharAt(t.readpos) = Blank /\ t.readpos \in Blanks
            \/ CharAt(t.readpos) = Separator /\ t.readpos \in Separators
<1>1. PICK n \in Nat : n = Len(linebuf)  BY StringFacts
<1>2. PICK e \in Nat : e = t.readpos /\ j <= e /\ e <= n + 1 /\ e > 0
  BY <1>1 DEF Stopped, Going
<1>3. t.ret = e - j /\ e - j \in Nat  BY <1>2 DEF Stopped, Going
<1>4. /\ Mode(linebuf)[e] = NUL /\ t.tok = Spelt(j, e) /\ Within(j, e)
      /\ CharAt(e) \in {NUL, Blank, Separator}
  BY <1>2 DEF Stopped, Going
<1>5. CASE CharAt(e) = NUL
  <2>1. e > n  BY <1>1, <1>2, <1>5, CharFacts
  <2>2. e = n + 1  BY <1>2, <2>1
  <2>. QED  BY <1>1, <1>2, <1>3, <1>4, <1>5, <2>2
<1>6. CASE CharAt(e) \in {Blank, Separator}
  <2>1. ~(e > n)  BY <1>1, <1>2, <1>6, CharFacts, Distinct
  <2>2. e \in 1 .. n /\ CharAt(e) = linebuf[e]  BY <1>1, <1>2, <2>1, CharFacts
  <2>3. CharAt(e) = Blank => e \in Blanks  BY <1>1, <1>4, <2>2, MarkFacts
  <2>4. CharAt(e) = Separator => e \in Separators  BY <1>1, <1>4, <2>2, MarkFacts
  <2>. QED  BY <1>1, <1>2, <1>3, <1>4, <1>6, <2>3, <2>4
<1>. QED  BY <1>4, <1>5, <1>6

(* No separator up to the end of a token.                                  *)
LEMMA StillSame ==
  ASSUME IsString(linebuf), NEW a \in Nat, NEW j \in Nat, NEW e \in Nat, a <= j, j <= e,
         SameSentence(a, j), Within(j, e)
  PROVE  SameSentence(a, e)
<1>1. \A k \in a .. e - 1 : k \in a .. j - 1 \/ k \in j .. e - 1  OBVIOUS
<1>. QED  BY <1>1, MarkFacts DEF SameSentence, Within

(* The parser is at the end of the sentence.                               *)
LEMMA SentenceOver ==
  ASSUME IsString(linebuf), NEW a \in Nat, NEW e \in Nat, a <= e, SameSentence(a, e),
         Mode(linebuf)[e] = NUL, e = Len(linebuf) + 1 \/ e \in Separators, NEW u, IsParser(u),
         u.over = TRUE, u.argv = Spoken(a, e), u.argv # <<>> => u.argv0 = u.argv[1],
         u.argv = <<>> => u.argv0 = <<>>,
         e = Len(linebuf) + 1 => u.next = a, e \in Separators => u.next = e + 1, NEW k
  PROVE  Parser(u, a, k)
<1>1. u.argv = Words(linebuf, a)  BY WordsAre
<1>2. Ended(linebuf, a)  BY EndedIs
<1>3. Here(u, a) \/ Beyond(u, a)  BY DEF Here, Beyond
<1>4. Understood(u, a)  BY <1>1, <1>2, <1>3 DEF Understood
<1>. QED  BY <1>4 DEF Parser
(* Nothing but blanks is left of the sentence.                             *)
LEMMA TookNothing ==
  ASSUME IsString(linebuf), NEW a \in Nat, a > 0, NEW s, NEW j, Begins(s, a, j),
         NEW t, Stopped(t, j), t.readpos = j, NEW k
  PROVE  Parser(Took(s, t), a, k)
<1>1. /\ j \in Nat /\ j > 0 /\ a <= j /\ j <= Len(linebuf) + 1 /\ SameSentence(a, j)
      /\ s.argv = Spoken(a, j)
  BY BeginFacts
<1>2. /\ t.ret = 0 /\ Mode(linebuf)[j] = NUL /\ t.tok = Spelt(j, j)
      /\ \/ CharAt(j) = NUL /\ j = Len(linebuf) + 1
         \/ CharAt(j) = Blank /\ j \in Blanks
         \/ CharAt(j) = Separator /\ j \in Separators
  BY <1>1, StopFacts
<1>3. t.tok = <<>>  BY <1>1, <1>2, SpeltNone
<1>4. PICK u : u = Took(s, t)  OBVIOUS
<1>5. IsParser(u)  BY <1>4, TookFields
<1>6. (t.ret <= 0) = TRUE /\ (t.ret > 0) = FALSE /\ (t.ret < 0) = FALSE  BY <1>2
<1>7. u.over = TRUE /\ u.argv = s.argv /\ u.argv0 = IF s.argv = <<>> THEN <<>> ELSE s.argv0
  BY <1>3, <1>4, <1>6 DEF Took
<1>8. s.next = a /\ (s.argv # <<>> => s.argv0 = s.argv[1])  BY DEF Begins, Underway
<1>9. u.argv # <<>> => u.argv0 = u.argv[1]  BY <1>7, <1>8
<1>10. u.argv = <<>> => u.argv0 = <<>>  BY <1>7
<1>11. CharAt(j) # Blank  BY DEF Begins
<1>12. CASE CharAt(j) = NUL /\ j = Len(linebuf) + 1
  <2>1. u.next = a  BY <1>4, <1>6, <1>8, <1>12, Distinct DEF Took
  <2>2. j \notin Separators
    <3>1. Len(linebuf) \in Nat  BY StringFacts
    <3>. QED  BY <1>12, <3>1, MarkFacts
  <2>. QED  BY <1>1, <1>2, <1>4, <1>5, <1>7, <1>9, <1>10, <1>12, <2>1, <2>2, SentenceOver
<1>13. CASE CharAt(j) = Separator /\ j \in Separators
  <2>1. u.next = j + 1  BY <1>4, <1>6, <1>13, Distinct DEF Took
  <2>2. j # Len(linebuf) + 1
    <3>1. Len(linebuf) \in Nat  BY StringFacts
    <3>. QED  BY <1>13, <3>1, MarkFacts
  <2>. QED  BY <1>1, <1>2, <1>4, <1>5, <1>7, <1>9, <1>10, <1>13, <2>1, <2>2, SentenceOver
<1>. QED  BY <1>2, <1>11, <1>12, <1>13

(* A word.                                                                 *)
LEMMA TookWord ==
  ASSUME IsString(linebuf), NEW a \in Nat, a > 0, NEW s, NEW j, Begins(s, a, j),
         NEW t, Stopped(t, j), t.readpos # j, NEW k \in Nat, a + k <= s.readpos
  PROVE  Parser(Took(s, t), a, k + 1)
<1>1. /\ j \in Nat /\ j > 0 /\ a <= j /\ j <= Len(linebuf) + 1 /\ SameSentence(a, j)
      /\ s.argv = Spoken(a, j) /\ (j = a \/ j - 1 \in Blanks) /\ s.readpos \in Nat
  BY BeginFacts
<1>2. s.readpos <= j  BY DEF Begins
<1>3. PICK e \in Nat : e = t.readpos  BY <1>1, StopFacts
<1>4. /\ j <= e /\ e <= Len(linebuf) + 1 /\ t.ret = e - j
      /\ Mode(linebuf)[e] = NUL /\ t.tok = Spelt(j, e) /\ Within(j, e)
      /\ \/ CharAt(e) = NUL /\ e = Len(linebuf) + 1
         \/ CharAt(e) = Blank /\ e \in Blanks
         \/ CharAt(e) = Separator /\ e \in Separators
  BY <1>1, <1>3, StopFacts
<1>5. j < e /\ t.ret > 0 /\ (t.ret > 0) = TRUE /\ (t.ret <= 0) = FALSE /\ (t.ret < 0) = FALSE
      /\ t.ret # 0
  BY <1>1, <1>3, <1>4
<1>6. PICK u : u = Took(s, t)  OBVIOUS
<1>7. IsParser(u)  BY <1>6, TookFields
<1>8. /\ u.readpos = e /\ u.argv = Append(s.argv, t.tok)
      /\ u.argv0 = IF s.argv = <<>> THEN t.tok ELSE s.argv0
  BY <1>3, <1>5, <1>6 DEF Took
<1>9. e \in Ends(linebuf) \/ e = Len(linebuf) + 1  BY <1>4, MarkFacts
<1>10. u.argv = Spoken(a, e)
  <2>1. Spoken(a, e) = Append(Spoken(a, j), Spelt(j, e))  BY <1>1, <1>4, <1>5, <1>9, SpokenWord
  <2>. QED  BY <1>1, <1>4, <1>8, <2>1
<1>11. s.next = a /\ (s.argv # <<>> => s.argv0 = s.argv[1])  BY DEF Begins, Underway
<1>12. u.argv # <<>> /\ u.argv0 = u.argv[1]
  <2>1. IsSequence(s.argv)  BY <1>1, SpokenSeq
  <2>2. /\ u.argv # <<>>
        /\ s.argv = <<>> => u.argv[1] = t.tok
        /\ s.argv # <<>> => u.argv[1] = s.argv[1]
    BY <1>8, <2>1, AppendFacts
  <2>. QED  BY <1>8, <1>11, <2>2
<1>13. SameSentence(a, e)  BY <1>1, <1>4, StillSame
<1>14. a <= e  BY <1>1, <1>4
<1>15. CASE CharAt(e) = NUL /\ e = Len(linebuf) + 1
  <2>1. u.next = a  BY <1>3, <1>5, <1>6, <1>11, <1>15, Distinct DEF Took
  <2>2. u.over = TRUE  BY <1>3, <1>6, <1>15, Distinct DEF Took
  <2>3. e \notin Separators
    <3>1. Len(linebuf) \in Nat  BY StringFacts
    <3>. QED  BY <1>15, <3>1, MarkFacts
  <2>4. Parser(u, a, k + 1)
    BY <1>4, <1>7, <1>10, <1>12, <1>13, <1>14, <1>15, <2>1, <2>2, <2>3, SentenceOver
  <2>. QED  BY <1>6, <2>4
<1>16. CASE CharAt(e) = Separator /\ e \in Separators
  <2>1. u.next = e + 1  BY <1>3, <1>5, <1>6, <1>16, Distinct DEF Took
  <2>2. u.over = TRUE  BY <1>3, <1>6, <1>16, Distinct DEF Took
  <2>3. e # Len(linebuf) + 1
    <3>1. Len(linebuf) \in Nat  BY StringFacts
    <3>. QED  BY <1>16, <3>1, MarkFacts
  <2>4. Parser(u, a, k + 1)
    BY <1>4, <1>7, <1>10, <1>12, <1>13, <1>14, <1>16, <2>1, <2>2, <2>3, SentenceOver
  <2>. QED  BY <1>6, <2>4
<1>17. CASE CharAt(e) = Blank /\ e \in Blanks
  <2>1. u.next = a  BY <1>3, <1>5, <1>6, <1>11, <1>17, Distinct DEF Took
  <2>2. u.over = FALSE  BY <1>3, <1>5, <1>6, <1>17 DEF Took
  <2>3. a + (k + 1) <= e /\ e \in a .. Len(linebuf) + 1
    <3>1. Len(linebuf) \in Nat  BY StringFacts
    <3>. QED  BY <1>1, <1>2, <1>4, <1>5, <3>1
  <2>4. Underway(u, a)
    BY <1>4, <1>8, <1>10, <1>12, <1>13, <1>17, <2>1, <2>3 DEF Underway
  <2>. QED  BY <1>6, <1>7, <1>8, <2>2, <2>3, <2>4 DEF Parser
<1>. QED  BY <1>4, <1>15, <1>16, <1>17

(* One round of msh_parse_line.                                            *)
LEMMA ParserRound ==
  ASSUME IsString(linebuf), NEW a \in Nat, a > 0, a <= Len(linebuf) + 1,
         NEW s, NEW k \in Nat, Parser(s, a, k)
  PROVE  Parser(ParseRound(s), a, k + 1)
<1>1. s.over \in BOOLEAN /\ IsParser(s)  BY DEF Parser
<1>2. CASE s.over = TRUE
  <2>1. ParseRound(s) = s  BY <1>1, <1>2, ParseRoundIs
  <2>2. s.over # FALSE  BY <1>2
  <2>. QED  BY <1>2, <2>1, <2>2 DEF Parser
<1>3. CASE s.over = FALSE
  <2>1. Underway(s, a) /\ a + k <= s.readpos  BY <1>3 DEF Parser
  <2>2. CASE CharAt(s.readpos) = NUL
    <3>1. ParseRound(s) = [s EXCEPT !.over = TRUE]  BY <1>1, <1>3, <2>2, ParseRoundIs
    <3>2. Parser([s EXCEPT !.over = TRUE], a, k + 1)  BY <1>1, <2>1, <2>2, LineOver
    <3>. QED  BY <3>1, <3>2
  <2>3. CASE CharAt(s.readpos) # NUL
    <3>1. PICK j : j = SkipBlanks(s.readpos)  OBVIOUS
    <3>2. PICK t : t = read_token(j)  OBVIOUS
    <3>3. ParseRound(s) = Took(s, t)  BY <1>1, <1>3, <2>3, <3>1, <3>2, ParseRoundIs
    <3>4. /\ s.readpos \in Nat /\ s.readpos > 0 /\ s.readpos <= Len(linebuf) + 1
          /\ Mode(linebuf)[s.readpos] = NUL
      <4>1. Len(linebuf) \in Nat  BY StringFacts
      <4>. QED  BY <2>1, <4>1 DEF Underway
    <3>5. Skipped(s.readpos, j)  BY <3>1, <3>4, SkipBlanksIs
    <3>6. Begins(s, a, j)
      <4>1. /\ j \in Nat /\ j <= Len(linebuf) + 1 /\ s.readpos <= j
            /\ Mode(linebuf)[j] = NUL
            /\ \A i \in s.readpos .. j - 1 : i \in Blanks /\ i \notin Separators
        BY <3>4, <3>5, SkippedPlain
      <4>. QED  BY <2>1, <3>5, <4>1 DEF Begins, Skipped
    <3>7. j \in 1 .. Len(linebuf) + 1 /\ Mode(linebuf)[j] = NUL
      <4>1. Len(linebuf) \in Nat  BY StringFacts
      <4>. QED  BY <3>4, <3>6, <4>1 DEF Begins
    <3>8. Stopped(t, j) \/ Failed(t, j)  BY <3>2, <3>7, TokenRead DEF IsToken
    <3>9. CASE Failed(t, j)  BY <3>3, <3>6, <3>9, TookError
    <3>10. CASE Stopped(t, j) /\ t.readpos = j  BY <3>3, <3>6, <3>10, TookNothing
    <3>11. CASE Stopped(t, j) /\ t.readpos # j  BY <2>1, <3>3, <3>6, <3>11, TookWord
    <3>. QED  BY <3>8, <3>9, <3>10, <3>11
  <2>. QED  BY <2>2, <2>3
<1>. QED  BY <1>1, <1>2, <1>3
(* The rounds, and that they are enough.                                   *)
ParseRounds(f, s, n) == f = [k \in 0 .. n |-> IF k = 0 THEN s ELSE ParseRound(f[k - 1])]

LEMMA ParseRoundsExist ==
  ASSUME NEW s, NEW n \in Nat
  PROVE  \E f : ParseRounds(f, s, n)
<1> DEFINE S == {m \in 0 .. n : \E f : ParseRounds(f, s, m)}
<1>1. 0 \in S
  <2>1. PICK f : f = [k \in 0 .. 0 |-> s]  OBVIOUS
  <2>2. \A k \in 0 .. 0 : f[k] = IF k = 0 THEN s ELSE ParseRound(f[k - 1])  BY <2>1
  <2>3. f = [k \in 0 .. 0 |-> f[k]]  BY <2>1
  <2>4. ParseRounds(f, s, 0)  BY <2>2, <2>3 DEF ParseRounds
  <2>. QED  BY <2>4
<1>2. ASSUME NEW m \in 0 .. n - 1, NEW f, ParseRounds(f, s, m)
      PROVE  \E g : ParseRounds(g, s, m + 1)
  <2>1. PICK g : g = [k \in 0 .. m + 1 |-> IF k <= m THEN f[k] ELSE ParseRound(f[m])]  OBVIOUS
  <2>2. \A k \in 0 .. m : f[k] = IF k = 0 THEN s ELSE ParseRound(f[k - 1])
    BY <1>2 DEF ParseRounds
  <2>3. \A k \in 0 .. m : g[k] = f[k]  BY <2>1
  <2>4. g[m + 1] = ParseRound(f[m])  BY <2>1
  <2>5. ASSUME NEW k \in 0 .. m + 1
        PROVE  g[k] = IF k = 0 THEN s ELSE ParseRound(g[k - 1])
    <3>1. CASE k = m + 1
      <4>1. k # 0 /\ k - 1 = m /\ m \in 0 .. m  BY <3>1
      <4>2. g[k - 1] = f[m]  BY <2>3, <4>1
      <4>. QED  BY <2>4, <3>1, <4>1, <4>2
    <3>2. CASE k = 0  BY <2>2, <2>3, <3>2
    <3>3. CASE k # 0 /\ k # m + 1
      <4>1. k \in 0 .. m /\ k - 1 \in 0 .. m  BY <3>3
      <4>. QED  BY <2>2, <2>3, <3>3, <4>1
    <3>. QED  BY <3>1, <3>2, <3>3
  <2>6. g = [k \in 0 .. m + 1 |-> g[k]]  BY <2>1
  <2>7. ParseRounds(g, s, m + 1)  BY <2>5, <2>6 DEF ParseRounds
  <2>. QED  BY <2>7
<1>3. \A m \in 0 .. n - 1 : m \in S => m + 1 \in S  BY <1>2
<1>. HIDE DEF S
<1>4. 0 .. n \subseteq S  BY <1>1, <1>3, Climb
<1>5. n \in S  BY <1>4
<1>. QED  BY <1>5 DEF S

(* msh_parse_line gives the words of the sentence and where the next one   *)
(* starts, or rejects a sentence that is not closed.                       *)
LEMMA SentenceParsed ==
  ASSUME IsString(linebuf), NEW a \in Nat, a > 0, a <= Len(linebuf) + 1, Mode(linebuf)[a] = NUL
  PROVE  Understood(msh_parse_line(a), a) \/ Rejected(msh_parse_line(a), a)
<1>1. PICK n \in Nat : n = Len(linebuf)  BY StringFacts
<1>2. PICK s : s = [readpos |-> a, argv |-> <<>>, argv0 |-> argv0, over |-> FALSE, next |-> a]
  OBVIOUS
<1>3. PICK f : f = CHOOSE g : ParseRounds(g, s, n + 1)  OBVIOUS
<1>4. ParseRounds(f, s, n + 1)
  <2>1. n + 1 \in Nat  OBVIOUS
  <2>. QED  BY <1>3, <2>1, ParseRoundsExist
<1>5. msh_parse_line(a) = f[n + 1]  BY <1>1, <1>2, <1>3 DEF msh_parse_line, Times, ParseRounds
<1>6. f[0] = s /\ \A k \in 1 .. n + 1 : f[k] = ParseRound(f[k - 1])  BY <1>4 DEF ParseRounds
<1>7. Parser(s, a, 0)
  <2>1. IsParser(s) /\ s.over = FALSE  BY <1>2 DEF IsParser
  <2>2. s.readpos = a /\ s.argv = <<>> /\ s.next = a  BY <1>2
  <2>3. Spoken(a, a) = <<>>  BY SpokenNone
  <2>4. SameSentence(a, a)
    <3>1. a .. a - 1 = {}  OBVIOUS
    <3>. QED  BY <3>1 DEF SameSentence
  <2>5. a \in a .. Len(linebuf) + 1 /\ a + 0 <= a  BY <1>1
  <2>6. Underway(s, a)  BY <2>2, <2>3, <2>4, <2>5 DEF Underway
  <2>. QED  BY <2>1, <2>2, <2>5, <2>6 DEF Parser
<1> DEFINE S == {k \in 0 .. n + 1 : Parser(f[k], a, k)}
<1>8. 0 \in S  BY <1>6, <1>7
<1>9. ASSUME NEW k \in 0 .. (n + 1) - 1, k \in S  PROVE k + 1 \in S
  <2>1. k \in Nat /\ k + 1 \in 1 .. n + 1 /\ (k + 1) - 1 = k  OBVIOUS
  <2>2. f[k + 1] = ParseRound(f[k])  BY <1>6, <2>1
  <2>3. Parser(ParseRound(f[k]), a, k + 1)  BY <1>9, <2>1, ParserRound
  <2>. QED  BY <2>1, <2>2, <2>3
<1>. HIDE DEF S
<1>10. n + 1 \in S
  <2>1. n + 1 \in Nat  OBVIOUS
  <2>2. 0 .. n + 1 \subseteq S  BY <1>8, <1>9, <2>1, Climb
  <2>. QED  BY <2>2
<1>11. Parser(f[n + 1], a, n + 1)  BY <1>10 DEF S
<1>12. f[n + 1].over # FALSE
  <2> SUFFICES ASSUME f[n + 1].over = FALSE  PROVE FALSE
    OBVIOUS
  <2>1. f[n + 1].readpos \in a .. n + 1 /\ a + (n + 1) <= f[n + 1].readpos
    BY <1>1, <1>11 DEF Parser, Underway
  <2>. QED  BY <2>1
<1>. QED  BY <1>5, <1>11, <1>12 DEF Parser

-----------------------------------------------------------------------------
(* The sentences of the line that have been run.                           *)
LEMMA StartFacts ==
  ASSUME IsString(linebuf)
  PROVE  /\ \A a : a \in SentenceStarts(linebuf) <=> a = 1 \/ (a - 1 \in Separators /\ a = (a - 1) + 1)
         /\ \A a \in SentenceStarts(linebuf) :
              a \in Nat /\ a > 0 /\ a <= Len(linebuf) + 1 /\ Mode(linebuf)[a] = NUL
<1>1. PICK n \in Nat : n = Len(linebuf)  BY StringFacts
<1>2. SentenceStarts(linebuf) = {1} \cup {i + 1 : i \in Separators}
  BY DEF SentenceStarts, Separators
<1>3. ASSUME NEW i \in Separators
      PROVE  i \in 1 .. n /\ (i + 1) - 1 = i /\ Mode(linebuf)[i + 1] = NUL
  <2>1. i \in 1 .. n /\ Mode(linebuf)[i] = NUL /\ linebuf[i] = Separator  BY <1>1, MarkFacts
  <2>2. IsKind(linebuf, i, NUL, TRUE, TRUE)  BY <1>1, <2>1, Kinds
  <2>. QED  BY <2>1, <2>2 DEF IsKind
<1>4. ASSUME NEW a
      PROVE  a \in SentenceStarts(linebuf) <=> a = 1 \/ (a - 1 \in Separators /\ a = (a - 1) + 1)
  BY <1>2, <1>3
<1>5. Mode(linebuf)[1] = NUL  BY ModeIs
<1>6. ASSUME NEW a \in SentenceStarts(linebuf)
      PROVE  a \in Nat /\ a > 0 /\ a <= Len(linebuf) + 1 /\ Mode(linebuf)[a] = NUL
  <2>1. CASE a = 1  BY <1>1, <1>5, <2>1
  <2>2. CASE \E i \in Separators : a = i + 1  BY <1>1, <1>3, <2>2
  <2>. QED  BY <1>2, <2>1, <2>2
<1>. QED  BY <1>4, <1>6

Reached(a) ==
  /\ a \in SentenceStarts(linebuf)
  /\ \A b \in SentenceStarts(linebuf) : b < a => Fine(linebuf, b)

(* What a sentence adds to the meaning of the line.                        *)
LEMMA MeaningMore ==
  ASSUME IsString(linebuf), NEW a, Reached(a), NEW q \in Nat,
         \A b \in SentenceStarts(linebuf) : b < q <=> b <= a
  PROVE  IF Fine(linebuf, a) /\ Words(linebuf, a)[1] \in UserCommands \cup BuiltinCommands
         THEN Meaning(linebuf, q) = Append(Meaning(linebuf, a), Words(linebuf, a))
         ELSE Meaning(linebuf, q) = Meaning(linebuf, a)
<1>1. PICK n \in Nat : n = Len(linebuf)  BY StringFacts
<1>2. a \in SentenceStarts(linebuf) /\ a \in Nat  BY StartFacts DEF Reached
<1>3. a \in Called(linebuf)
        <=> Fine(linebuf, a) /\ Words(linebuf, a)[1] \in UserCommands \cup BuiltinCommands
  <2>1. \A b \in SentenceStarts(linebuf) : b \in Nat  BY StartFacts
  <2>2. \A b \in SentenceStarts(linebuf) : b <= a => b < a \/ b = a  BY <1>2, <2>1
  <2>. QED  BY <1>2, <2>2 DEF Called, Reached
<1>4. \A b \in Called(linebuf) : b \in SentenceStarts(linebuf) /\ b \in 1 .. n + 1
  <2>1. \A b \in Called(linebuf) : b \in SentenceStarts(linebuf)  BY DEF Called
  <2>. QED  BY <1>1, <2>1, StartFacts
<1> DEFINE Upto(x) == {b \in Called(linebuf) : b < x}
<1>5. PICK W : W = [b \in SentenceStarts(linebuf) |-> Words(linebuf, b)]  OBVIOUS
<1>6. Meaning(linebuf, q) = Along(W, Upto(q)) /\ Meaning(linebuf, a) = Along(W, Upto(a))
  BY <1>5 DEF Meaning
<1>7. \A b \in Called(linebuf) : b < q <=> b < a \/ b = a
  <2>1. \A b \in Called(linebuf) : b <= a <=> b < a \/ b = a  BY <1>2, <1>4
  <2>. QED  BY <1>4, <2>1
<1>8. CASE a \in Called(linebuf)
  <2>1. Upto(q) = Upto(a) \cup {a}  BY <1>7, <1>8
  <2>2. Upto(a) \in SUBSET (1 .. n + 1) /\ \A b \in Upto(a) : b < a  BY <1>4
  <2>. HIDE DEF Upto
  <2>3. IsFiniteSet(Upto(a))
    <3>1. IsFiniteSet(1 .. n + 1)  BY FS_Interval
    <3>. QED  BY <2>2, <3>1, FS_Subset
  <2>4. Upto(a) \in SUBSET Nat  BY <2>2
  <2>5. Along(W, Upto(a) \cup {a}) = Append(Along(W, Upto(a)), W[a])
    BY <1>2, <2>2, <2>3, <2>4, AlongMore
  <2>6. W[a] = Words(linebuf, a)  BY <1>2, <1>5
  <2>. QED  BY <1>3, <1>6, <1>8, <2>1, <2>5, <2>6
<1>9. CASE a \notin Called(linebuf)
  <2>1. Upto(q) = Upto(a)  BY <1>7, <1>9
  <2>. HIDE DEF Upto
  <2>. QED  BY <1>3, <1>6, <1>9, <2>1
<1>. QED  BY <1>8, <1>9

(* A sentence that is not fine is the end of it.                           *)
LEMMA MeaningOver ==
  ASSUME IsString(linebuf), NEW a, Reached(a), ~Fine(linebuf, a)
  PROVE  Meaning(linebuf, Len(linebuf) + 2) = Meaning(linebuf, a)
<1>1. PICK n \in Nat : n = Len(linebuf)  BY StringFacts
<1>2. a \in SentenceStarts(linebuf) /\ a \in Nat  BY StartFacts DEF Reached
<1>3. ASSUME NEW b \in Called(linebuf)  PROVE b < n + 2 <=> b < a
  <2>1. b \in SentenceStarts(linebuf) /\ ~(a <= b)  BY <1>2 DEF Called
  <2>2. b \in Nat /\ b <= n + 1  BY <1>1, <2>1, StartFacts
  <2>. QED  BY <1>2, <2>1, <2>2
<1>4. {b \in Called(linebuf) : b < n + 2} = {b \in Called(linebuf) : b < a}  BY <1>3
<1>. QED  BY <1>1, <1>4 DEF Meaning

(* A line that is just begun.                                              *)
LEMMA FreshLine ==
  ASSUME NEW str
  PROVE  /\ 1 \in SentenceStarts(str) /\ \A b \in SentenceStarts(str) : ~(b < 1)
         /\ Meaning(str, 1) = <<>>
<1>1. 1 \in SentenceStarts(str)  BY DEF SentenceStarts
<1>2. \A b \in SentenceStarts(str) : ~(b < 1)
  <2>1. \A i \in Plain(str, Separator) : i \in 1 .. Len(str)  BY Sets
  <2>2. \A i \in Plain(str, Separator) : ~(i + 1 < 1)  BY <2>1
  <2>. QED  BY <2>2 DEF SentenceStarts
<1>3. {b \in Called(str) : b < 1} = {}  BY <1>2 DEF Called
<1>4. Meaning(str, 1) = <<>>  BY <1>3, AlongNone DEF Meaning
<1>. QED  BY <1>1, <1>2, <1>4

-----------------------------------------------------------------------------
(* What has been called, and the calls of one sentence.                    *)
Did(r) == [k \in DOMAIN r |-> r[k][1][2]]

LEMMA DidMore ==
  ASSUME NEW r, IsSequence(r), NEW c
  PROVE  Did(Append(r, c)) = Append(Did(r), c[1][2])
<1>1. PICK V : r \in Seq(V)  BY DEF IsSequence
<1>2. PICK n \in Nat : n = Len(r) /\ DOMAIN r = 1 .. n  BY <1>1
<1>3. PICK q : q = Append(r, c)  OBVIOUS
<1>4. /\ IsSequence(q) /\ Len(q) = n + 1 /\ q[n + 1] = c /\ \A k \in 1 .. n : q[k] = r[k]
  BY <1>2, <1>3, AppendFacts
<1>5. DOMAIN q = 1 .. n + 1  BY <1>4 DEF IsSequence
<1>6. PICK d : d = Did(r)  OBVIOUS
<1>7. d = [k \in 1 .. n |-> r[k][1][2]]  BY <1>2, <1>6 DEF Did
<1>8. IsSequence(d) /\ Len(d) = n
  <2>1. PICK V2 : V2 = {d[k] : k \in 1 .. n}  OBVIOUS
  <2>2. DOMAIN d = 1 .. n /\ d = [k \in 1 .. n |-> d[k]]  BY <1>7
  <2>3. \A k \in 1 .. n : d[k] \in V2  BY <2>1
  <2>4. d \in Seq(V2)  BY <2>2, <2>3
  <2>5. Len(d) = n  BY <2>2, <2>4
  <2>. QED  BY <2>4, <2>5 DEF IsSequence
<1>9. PICK e : e = Append(d, c[1][2])  OBVIOUS
<1>10. /\ IsSequence(e) /\ Len(e) = n + 1 /\ e[n + 1] = c[1][2]
       /\ \A k \in 1 .. n : e[k] = d[k]
  BY <1>8, <1>9, AppendFacts
<1>11. e = [k \in 1 .. n + 1 |-> e[k]]  BY <1>10 DEF IsSequence
<1>12. Did(q) = [k \in 1 .. n + 1 |-> q[k][1][2]]  BY <1>5 DEF Did
<1>13. ASSUME NEW k \in 1 .. n + 1  PROVE e[k] = q[k][1][2]
  <2>1. CASE k = n + 1  BY <1>4, <1>10, <2>1
  <2>2. CASE k # n + 1
    <3>1. k \in 1 .. n  BY <2>2
    <3>. QED  BY <1>4, <1>7, <1>10, <3>1
  <2>. QED  BY <2>1, <2>2
<1>. QED  BY <1>3, <1>6, <1>9, <1>11, <1>12, <1>13

LEMMA DidNone == Did(<<>>) = <<>>
<1>1. PICK d : d = Did(<<>>)  OBVIOUS
<1>2. DOMAIN <<>> = {}  OBVIOUS
<1>3. d = [k \in {} |-> <<>>[k][1][2]]  BY <1>1, <1>2 DEF Did
<1>4. d \in [1 .. 0 -> {}]  BY <1>3
<1>5. d \in Seq({}) /\ Len(d) = 0  BY <1>4
<1>. QED  BY <1>1, <1>5

(* A command is called with the words of the sentence, if it names one.    *)
LEMMA CallsAre ==
  ASSUME NEW argv, NEW c \in Calls(argv)
  PROVE  IF argv # <<>> /\ argv[1] \in UserCommands \cup BuiltinCommands
         THEN c # <<>> /\ c[1][2] = argv
         ELSE c = <<>>
<1> DEFINE user == IF argv # <<>> /\ argv[1] \in UserCommands THEN {<<"user", argv>>} ELSE {}
           builtin == IF argv # <<>> /\ argv[1] \in BuiltinCommands THEN {<<"builtin", argv>>} ELSE {}
           seq(S) == IF S = {} THEN <<>> ELSE <<CHOOSE x \in S : TRUE>>
<1>1. c \in {seq(user) \o seq(builtin)} \cup (IF user = {} THEN {} ELSE {seq(user)})
  BY DEF Calls
<1>2. seq({<<"user", argv>>}) = <<<<"user", argv>>>>  OBVIOUS
<1>3. seq({<<"builtin", argv>>}) = <<<<"builtin", argv>>>>  OBVIOUS
<1>4. seq({}) = <<>>  OBVIOUS
<1>5. CASE argv # <<>> /\ argv[1] \in UserCommands
  <2>1. user = {<<"user", argv>>} /\ user # {}  BY <1>5
  <2>2. PICK b : b = seq(builtin) /\ (b = <<>> \/ b = <<<<"builtin", argv>>>>)
    BY <1>3, <1>4
  <2>3. c = <<<<"user", argv>>>> \o b \/ c = <<<<"user", argv>>>>
    <3>. HIDE DEF seq, builtin
    <3>. QED  BY <1>1, <1>2, <2>1, <2>2
  <2>4. <<<<"user", argv>>>> \o <<>> = <<<<"user", argv>>>>  OBVIOUS
  <2>5. <<<<"user", argv>>>> \o <<<<"builtin", argv>>>> = <<<<"user", argv>>, <<"builtin", argv>>>>
    <3>1. PICK x, y : x = <<"user", argv>> /\ y = <<"builtin", argv>>  OBVIOUS
    <3>2. PICK V : V = {x, y}  OBVIOUS
    <3>3. <<x>> \in Seq(V) /\ <<y>> \in Seq(V) /\ <<x, y>> \in Seq(V)  BY <3>2
    <3>4. PICK z : z = <<x>> \o <<y>>  OBVIOUS
    <3>5. z \in Seq(V) /\ Len(z) = 2 /\ z[1] = x /\ z[2] = y  BY <3>3, <3>4
    <3>6. \A i \in 1 .. 2 : z[i] = <<x, y>>[i]  BY <3>5
    <3>7. Len(<<x, y>>) = 2  OBVIOUS
    <3>8. z = <<x, y>>  BY <3>3, <3>5, <3>6, <3>7, SeqEqual
    <3>. QED  BY <3>1, <3>4, <3>8
  <2>6. c = <<<<"user", argv>>>> \/ c = <<<<"user", argv>>, <<"builtin", argv>>>>
    BY <2>2, <2>3, <2>4, <2>5
  <2>7. c # <<>> /\ c[1] = <<"user", argv>>  BY <2>6
  <2>. QED  BY <1>5, <2>7
<1>6. CASE ~(argv # <<>> /\ argv[1] \in UserCommands)
  <2>1. user = {}  BY <1>6
  <2>2. c = <<>> \o seq(builtin)
    <3>. HIDE DEF seq, builtin
    <3>. QED  BY <1>1, <1>4, <2>1
  <2>3. CASE argv # <<>> /\ argv[1] \in BuiltinCommands
    <3>1. seq(builtin) = <<<<"builtin", argv>>>>  BY <1>3, <2>3
    <3>2. <<>> \o <<<<"builtin", argv>>>> = <<<<"builtin", argv>>>>  OBVIOUS
    <3>3. c = <<<<"builtin", argv>>>>
      <4>. HIDE DEF seq, builtin
      <4>. QED  BY <2>2, <3>1, <3>2
    <3>. QED  BY <2>3, <3>3
  <2>4. CASE ~(argv # <<>> /\ argv[1] \in BuiltinCommands)
    <3>1. seq(builtin) = <<>>  BY <1>4, <2>4
    <3>2. <<>> \o <<>> = <<>>  OBVIOUS
    <3>3. c = <<>>
      <4>. HIDE DEF seq, builtin
      <4>. QED  BY <2>2, <3>1, <3>2
    <3>. QED  BY <1>6, <2>4, <3>3
  <2>. QED  BY <2>3, <2>4
<1>. QED  BY <1>5, <1>6

-----------------------------------------------------------------------------
(* What always holds of the shell: it stands at the start of a sentence    *)
(* that follows fine ones only, and has run what those mean.               *)
ShellInv ==
  /\ at \in {"edit", "sentence", "done"}
  /\ IsSequence(ran)
  /\ at = "edit" => ran = <<>>
  /\ at # "edit" => IsString(linebuf)
  /\ at = "sentence" => Reached(linebufp) /\ Did(ran) = Meaning(linebuf, linebufp)
  /\ at = "done" => Did(ran) = Meaning(linebuf, Len(linebuf) + 2)

(* The shell starts on a line, or in the editor.                           *)
LEMMA ShellStart ==
  ASSUME ShellInit
  PROVE  ShellInv
<1>1. ran = <<>> /\ linebufp = 1  BY DEF ShellInit
<1>2. IsSequence(ran)
  <2>1. <<>> \in Seq({})  OBVIOUS
  <2>. QED  BY <1>1, <2>1 DEF IsSequence
<1>3. CASE at = "edit"  BY <1>1, <1>2, <1>3 DEF ShellInv
<1>4. CASE at = "sentence" /\ linebuf \in Lines
  <2>1. IsString(linebuf)  BY <1>4, ShellAssumption DEF IsString
  <2>2. Reached(1)  BY FreshLine DEF Reached
  <2>3. Did(ran) = Meaning(linebuf, 1)  BY <1>1, DidNone, FreshLine
  <2>. QED  BY <1>1, <1>2, <1>4, <2>1, <2>2, <2>3 DEF ShellInv
<1>. QED  BY <1>3, <1>4 DEF ShellInit

(* A line that the editor hands over.                                      *)
LEMMA GetCmdlineStep ==
  ASSUME ShellInv, LineInv, GetCmdline
  PROVE  ShellInv'
<1>1. at = "edit" /\ ran' = ran /\ ran = <<>> /\ IsSequence(ran) /\ linebufp' = 1
  BY DEF GetCmdline, ShellInv
<1>2. at' = IF linebuf' = <<>> THEN "edit" ELSE "sentence"  BY DEF GetCmdline
<1>3. CASE linebuf' = <<>>
  <2>1. at' = "edit"  BY <1>2, <1>3
  <2>. QED  BY <1>1, <2>1 DEF ShellInv, IsSequence
<1>4. CASE linebuf' # <<>>
  <2>1. at' = "sentence"  BY <1>2, <1>4
  <2>2. linebuf' = StringAt(CmdLine.buf, 0)  BY <1>4 DEF GetCmdline
  <2>3. PICK str : str = linebuf'  OBVIOUS
  <2>4. IsString(str)
    <3>1. PICK l, r : Holds(CmdLine, l, r)  BY Now
    <3>2. l \o r \in LineTexts /\ StringAt(CmdLine.buf, 0) = l \o r  BY <3>1, Fits, TextsRead
    <3>3. str \in Seq(Text)  BY <2>2, <2>3, <3>2 DEF LineTexts
    <3>4. \A i \in DOMAIN str : str[i] \in Text  BY <3>3
    <3>5. NUL \notin Text  BY LineAssumption DEF Text
    <3>6. str \in Seq({str[i] : i \in DOMAIN str})
      <4>1. PICK V : V = {str[i] : i \in DOMAIN str}  OBVIOUS
      <4>2. Len(str) \in Nat /\ DOMAIN str = 1 .. Len(str) /\ str = [i \in 1 .. Len(str) |-> str[i]]
        BY <3>3
      <4>3. \A i \in 1 .. Len(str) : str[i] \in V  BY <4>1, <4>2
      <4>. QED  BY <4>1, <4>2, <4>3, IsASeq
    <3>. QED  BY <3>4, <3>5, <3>6 DEF IsString
  <2>5. IsString(linebuf')  BY <2>3, <2>4
  <2>6. Reached(linebufp)'
    <3>1. /\ 1 \in SentenceStarts(linebuf')
          /\ \A b \in SentenceStarts(linebuf') : ~(b < 1)
      BY FreshLine
    <3>. QED  BY <1>1, <3>1 DEF Reached
  <2>7. Meaning(linebuf', 1) = <<>>  BY FreshLine
  <2>8. Did(ran') = Meaning(linebuf', linebufp')  BY <1>1, <2>7, DidNone
  <2>. QED  BY <1>1, <2>1, <2>5, <2>6, <2>8 DEF ShellInv, IsSequence
<1>. QED  BY <1>3, <1>4

(* A sentence that is not fine ends the line with nothing more called.     *)
LEMMA NotFine ==
  ASSUME IsString(linebuf), NEW a \in Nat, a > 0, NEW p,
         Understood(p, a) \/ Rejected(p, a), Stops(p)
  PROVE  ~Fine(linebuf, a)
<1>1. CASE Rejected(p, a)  BY <1>1 DEF Rejected, Fine
<1>2. CASE Understood(p, a)
  <2>1. p.next # 0
    <3>1. CASE Here(p, a)  BY <3>1 DEF Here
    <3>2. CASE Beyond(p, a)
      <4>1. \A e \in Separators : e + 1 # 0
        <5>1. \A e \in Separators : e \in 1 .. Len(linebuf)  BY MarkFacts
        <5>. QED  BY <5>1
      <4>. QED  BY <3>2, <4>1 DEF Beyond
    <3>. QED  BY <1>2, <3>1, <3>2 DEF Understood
  <2>2. p.argv0 = <<>>  BY <2>1 DEF Stops
  <2>. QED  BY <1>2, <2>2 DEF Understood, Fine
<1>. QED  BY <1>1, <1>2

(* The other sentences are fine when they have words.                      *)
LEMMA IsFine ==
  ASSUME NEW a, NEW p, Understood(p, a), ~Stops(p)
  PROVE  /\ Fine(linebuf, a) <=> p.argv # <<>>
         /\ p.argv = Words(linebuf, a)
         /\ p.argv = <<>> => p.next = a
BY DEF Understood, Fine, Stops

(* What is called for a sentence is what it adds to the meaning.           *)
LEMMA CalledRight ==
  ASSUME IsString(linebuf), NEW a, Reached(a), IsSequence(ran), Did(ran) = Meaning(linebuf, a),
         NEW p, Understood(p, a), ~Stops(p), NEW calls \in Calls(p.argv), NEW q \in Nat,
         \A b \in SentenceStarts(linebuf) : b < q <=> b <= a,
         NEW r, r = IF calls = <<>> THEN ran ELSE Append(ran, calls)
  PROVE  IsSequence(r) /\ Did(r) = Meaning(linebuf, q)
<1>1. p.argv = Words(linebuf, a) /\ (Fine(linebuf, a) <=> p.argv # <<>>)  BY IsFine
<1>2. PICK argv : argv = p.argv  OBVIOUS
<1>3. CASE argv # <<>> /\ argv[1] \in UserCommands \cup BuiltinCommands
  <2>1. calls # <<>> /\ calls[1][2] = argv  BY <1>2, <1>3, CallsAre
  <2>2. r = Append(ran, calls)  BY <2>1
  <2>3. Did(Append(ran, calls)) = Append(Did(ran), calls[1][2])  BY DidMore
  <2>4. IsSequence(Append(ran, calls))  BY AppendFacts
  <2>5. Did(r) = Append(Did(ran), argv) /\ IsSequence(r)  BY <2>1, <2>2, <2>3, <2>4
  <2>6. Meaning(linebuf, q) = Append(Meaning(linebuf, a), argv)
    BY <1>1, <1>2, <1>3, MeaningMore
  <2>. QED  BY <2>5, <2>6
<1>4. CASE ~(argv # <<>> /\ argv[1] \in UserCommands \cup BuiltinCommands)
  <2>1. calls = <<>>  BY <1>2, <1>4, CallsAre
  <2>2. Meaning(linebuf, q) = Meaning(linebuf, a)  BY <1>1, <1>2, <1>4, MeaningMore
  <2>. QED  BY <2>1, <2>2
<1>. QED  BY <1>3, <1>4

(* One round of the inner loop.                                            *)
LEMMA SentenceStep ==
  ASSUME ShellInv, Sentence
  PROVE  ShellInv'
<1>1. PICK a : a = linebufp  OBVIOUS
<1>2. /\ at = "sentence" /\ IsString(linebuf) /\ IsSequence(ran) /\ Reached(a)
      /\ Did(ran) = Meaning(linebuf, a)
  BY <1>1 DEF Sentence, ShellInv
<1>3. PICK n \in Nat : n = Len(linebuf)  BY <1>2, StringFacts
<1>4. a \in SentenceStarts(linebuf) /\ a \in Nat /\ a > 0 /\ a <= n + 1 /\ Mode(linebuf)[a] = NUL
  BY <1>2, <1>3, StartFacts DEF Reached
<1>5. PICK p : p = msh_parse_line(a)  OBVIOUS
<1>6. Understood(p, a) \/ Rejected(p, a)  BY <1>2, <1>3, <1>4, <1>5, SentenceParsed
<1>7. /\ IF Stops(p) \/ p.next = a
         THEN at' = "done" /\ linebufp' = linebufp
         ELSE at' = "sentence" /\ linebufp' = p.next
      /\ \E calls \in Calls(p.argv) :
           ran' = IF Stops(p) \/ calls = <<>> THEN ran ELSE Append(ran, calls)
      /\ linebuf' = linebuf
  BY <1>1, <1>5 DEF Sentence
<1>8. CASE Stops(p)
  <2>1. at' = "done" /\ ran' = ran  BY <1>7, <1>8
  <2>2. ~Fine(linebuf, a)  BY <1>2, <1>4, <1>6, <1>8, NotFine
  <2>3. Did(ran) = Meaning(linebuf, Len(linebuf) + 2)  BY <1>2, <2>2, MeaningOver
  <2>4. Did(ran') = Meaning(linebuf', Len(linebuf') + 2)  BY <1>7, <2>1, <2>3
  <2>5. IsSequence(ran') /\ IsString(linebuf')  BY <1>2, <1>7, <2>1
  <2>. QED  BY <2>1, <2>4, <2>5 DEF ShellInv, IsSequence, IsString
<1>9. CASE ~Stops(p)
  <2>1. p.next # 0  BY <1>9 DEF Stops
  <2>2. Understood(p, a)  BY <1>6, <2>1 DEF Rejected
  <2>3. PICK calls \in Calls(p.argv) : ran' = IF calls = <<>> THEN ran ELSE Append(ran, calls)
    BY <1>7, <1>9
  <2>4. Here(p, a) \/ Beyond(p, a)  BY <2>2 DEF Understood
  <2>5. \A b \in SentenceStarts(linebuf) :
          b \in Nat /\ b > 0 /\ b <= n + 1 /\ (b = 1 \/ b - 1 \in Separators)
    BY <1>2, <1>3, StartFacts
  <2>6. CASE p.next = a
    <3>1. at' = "done"  BY <1>7, <2>6
    <3>2. ~Beyond(p, a)
      <4> SUFFICES ASSUME NEW e \in Separators, a <= e, p.next = e + 1  PROVE FALSE
        BY DEF Beyond
      <4>1. e \in 1 .. n  BY <1>2, <1>3, MarkFacts
      <4>. QED  BY <1>4, <2>6, <4>1
    <3>3. SameSentence(a, n + 1)  BY <1>3, <2>4, <3>2 DEF Here
    <3>4. ASSUME NEW b \in SentenceStarts(linebuf)  PROVE b < n + 2 <=> b <= a
      <4>1. b \in Nat /\ b > 0 /\ b <= n + 1 /\ (b = 1 \/ b - 1 \in Separators)  BY <2>5
      <4>2. b - 1 \notin Separators \/ ~(b - 1 \in a .. (n + 1) - 1)  BY <3>3 DEF SameSentence
      <4>. QED  BY <1>4, <4>1, <4>2
    <3>5. n + 2 \in Nat /\ n + 2 = Len(linebuf) + 2  BY <1>3
    <3>6. IsSequence(ran') /\ Did(ran') = Meaning(linebuf, n + 2)
      <4>1. PICK r : r = ran'  OBVIOUS
      <4>2. IsSequence(r) /\ Did(r) = Meaning(linebuf, n + 2)
        BY <1>2, <1>9, <2>2, <2>3, <3>4, <3>5, <4>1, CalledRight
      <4>. QED  BY <4>1, <4>2
    <3>7. Did(ran') = Meaning(linebuf', Len(linebuf') + 2) /\ IsString(linebuf')
      BY <1>2, <1>7, <3>5, <3>6
    <3>. QED  BY <3>1, <3>6, <3>7 DEF ShellInv, IsSequence, IsString
  <2>7. CASE p.next # a
    <3>1. at' = "sentence" /\ linebufp' = p.next  BY <1>7, <1>9, <2>7
    <3>2. PICK e \in Separators : a <= e /\ SameSentence(a, e) /\ p.next = e + 1
      BY <2>4, <2>7 DEF Here, Beyond
    <3>3. e \in 1 .. n /\ e + 1 \in Nat /\ (e + 1) - 1 = e  BY <1>2, <1>3, <3>2, MarkFacts
    <3>4. Fine(linebuf, a)  BY <2>2, <1>9, <2>7, IsFine
    <3>5. ASSUME NEW b \in SentenceStarts(linebuf)  PROVE b < e + 1 <=> b <= a
      <4>1. b \in Nat /\ b > 0 /\ (b = 1 \/ b - 1 \in Separators)  BY <2>5
      <4>2. b - 1 \notin Separators \/ ~(b - 1 \in a .. e - 1)  BY <3>2 DEF SameSentence
      <4>. QED  BY <1>4, <3>2, <3>3, <4>1, <4>2
    <3>6. e + 1 \in SentenceStarts(linebuf)  BY <1>2, <3>2, <3>3, StartFacts
    <3>7. \A b \in SentenceStarts(linebuf) : b < e + 1 => Fine(linebuf, b)
      <4>1. \A b \in SentenceStarts(linebuf) : b < e + 1 => b < a \/ b = a
        BY <1>4, <2>5, <3>5
      <4>. QED  BY <1>2, <3>4, <4>1 DEF Reached
    <3>8. IsSequence(ran') /\ Did(ran') = Meaning(linebuf, e + 1)
      <4>1. PICK r : r = ran'  OBVIOUS
      <4>2. IsSequence(r) /\ Did(r) = Meaning(linebuf, e + 1)
        BY <1>2, <1>9, <2>2, <2>3, <3>3, <3>5, <4>1, CalledRight
      <4>. QED  BY <4>1, <4>2
    <3>9. linebufp' = e + 1 /\ linebuf' = linebuf  BY <1>7, <3>1, <3>2
    <3>10. Reached(linebufp)'  BY <3>6, <3>7, <3>9 DEF Reached
    <3>11. Did(ran') = Meaning(linebuf', linebufp') /\ IsString(linebuf')
      BY <1>2, <3>8, <3>9
    <3>. QED  BY <3>1, <3>8, <3>10, <3>11 DEF ShellInv, IsSequence, IsString
  <2>. QED  BY <2>6, <2>7
<1>. QED  BY <1>8, <1>9

(* The shell does with the line only what the editor does, so that every   *)
(* property of the editor is one of the shell.                             *)
THEOREM ShellIsEditor == Spec => LineSpec
<1>1. Init => LineInit  BY DEF Init
<1>2. [Next]_vars => [LineNext]_linevars
  BY DEF Next, vars, Typing, GetCmdline, Sentence, Again, LineNext
<1>. QED  BY <1>1, <1>2, PTL DEF Spec, LineSpec

(* ShellInv always holds.                                                  *)
THEOREM ShellSound == Spec => []ShellInv
<1>1. Init => ShellInv  BY ShellStart DEF Init
<1>2. ShellInv /\ LineInv /\ [Next]_vars => ShellInv'
  <2> SUFFICES ASSUME ShellInv, LineInv, [Next]_vars  PROVE ShellInv'
    OBVIOUS
  <2>1. CASE Typing
    <3>1. at = "edit" /\ UNCHANGED <<at, linebuf, ran>>  BY <2>1 DEF Typing, shellvars
    <3>. QED  BY <3>1 DEF ShellInv, IsSequence
  <2>2. CASE GetCmdline  BY <2>2, GetCmdlineStep
  <2>3. CASE Sentence  BY <2>3, SentenceStep
  <2>4. CASE Again
    <3>1. at' = "edit" /\ ran' = <<>>  BY <2>4 DEF Again, LineDone
    <3>2. <<>> \in Seq({})  OBVIOUS
    <3>. QED  BY <3>1, <3>2 DEF ShellInv, IsSequence
  <2>5. CASE UNCHANGED vars
    <3>1. UNCHANGED <<at, linebuf, linebufp, ran>>  BY <2>5 DEF vars, shellvars
    <3>. QED  BY <3>1 DEF ShellInv, IsSequence, IsString, Reached
  <2>. QED  BY <2>1, <2>2, <2>3, <2>4, <2>5 DEF Next
<1>. QED  BY <1>1, <1>2, LineSound, ShellIsEditor, PTL DEF Spec

(* CommandsInOrder for every line of every length: whatever quotes,        *)
(* escapes, blanks and separators it holds, msh_parse_line and the loop    *)
(* around it call exactly the commands that the line means.                *)
THEOREM ShellCommandsInOrder == Spec => []CommandsInOrder
<1>1. ShellInv => CommandsInOrder  BY DEF ShellInv, CommandsInOrder, Did
<1>. QED  BY <1>1, ShellSound, PTL
=============================================================================

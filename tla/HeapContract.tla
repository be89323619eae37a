---------------------------- MODULE HeapContract ----------------------------
(***************************************************************************)
(* What include/smalloc.h promises the callers of smalloc and sfree: an    *)
(* allocation returns memory inside the heap, of the size asked for, that  *)
(* meets nothing another caller holds; a free gives up one holding and     *)
(* disturbs no other.  Nothing is said of lists, headers or first fit,     *)
(* except that Gap bytes below a block belong to it.                       *)
(***************************************************************************)
EXTENDS Integers

CONSTANTS Low, High, Gap, Sizes

VARIABLE held

Apart(p, n, q, m) == p + n + Gap <= q \/ q + m + Gap <= p

Init == held = <<>>

Grant(p, n) ==
  /\ p \notin DOMAIN held
  /\ Low + Gap <= p
  /\ p + n <= High
  /\ \A q \in DOMAIN held : Apart(p, n, q, held[q])
  /\ held' = [q \in DOMAIN held \cup {p} |-> IF q = p THEN n ELSE held[q]]

Release(p) == held' = [q \in DOMAIN held \ {p} |-> held[q]]

Next ==
  \/ \E n \in Sizes, p \in Low .. High : Grant(p, n)
  \/ \E p \in DOMAIN held : Release(p)

Spec == Init /\ [][Next]_held
=============================================================================

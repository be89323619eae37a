--------------------------- MODULE OsTimerProofs ---------------------------
(***************************************************************************)
(* Proofs about OsTimer: the task list stays a list of the active timers,  *)
(* in any order of starts, callbacks and ends, and what follows from that  *)
(* for when and how often a timer fires.                                   *)
(***************************************************************************)
EXTENDS OsTimer, FiniteSetTheorems, WellFoundedInduction, TLAPS

Counts == (0 .. RunCap) \cup {Always}

TimerTypeOK ==
  /\ task_list \in Timers \cup {NULL}
  /\ next \in [Timers -> Timers \cup {NULL}]
  /\ run_count \in [Timers -> 0 .. RunCap]
  /\ max_run_count \in [Timers -> Counts]
  /\ interval \in [Timers -> Nat]
  /\ elapsed_time \in [Timers -> Nat]
  /\ at \in {"main", "walk", "callback", "hung"}
  /\ cur_task \in Timers \cup {NULL}
  /\ at \in {"walk", "callback"} => cur_task \in Timers
  /\ active \subseteq Timers /\ early \subseteq Timers
  /\ age \in [Timers -> Nat]

-----------------------------------------------------------------------------
(* A start is well typed, and leaves the place of the walk.                *)
LEMMA StartTypes == ASSUME TimerTypeOK, Start  PROVE TimerTypeOK' /\ cur_task' = cur_task
<1>0. /\ MaxCounts \subseteq Counts /\ Intervals \subseteq Nat /\ RunCap \in Nat
      /\ NULL \notin Timers
  BY TimerAssumption DEF Counts
<1>1. PICK t \in Timers, count \in MaxCounts, ticks \in Intervals :
        timer_start(t, count, ticks)
  BY DEF Start
<1>2. /\ max_run_count' \in [Timers -> Counts] /\ interval' \in [Timers -> Nat]
      /\ run_count' \in [Timers -> 0 .. RunCap] /\ elapsed_time' \in [Timers -> Nat]
      /\ age' \in [Timers -> Nat]
  BY <1>0, <1>1 DEF timer_start, TimerTypeOK
<1>3. active' \subseteq Timers /\ early' \subseteq Timers /\ cur_task' = cur_task
  BY <1>1 DEF timer_start, TimerTypeOK
<1>4. PICK n \in [Timers -> Timers \cup {NULL}] : n = [next EXCEPT ![t] = NULL]
  BY DEF TimerTypeOK
<1>5. /\ task_list' \in {t, task_list} /\ at' \in {at, "hung"}
      /\ next' = n \/ \E last : next' = [n EXCEPT ![last] = t]
  BY <1>1, <1>4 DEF timer_start, add_task
<1>6. next' \in [Timers -> Timers \cup {NULL}]  BY <1>5
<1> QED  BY <1>2, <1>3, <1>5, <1>6 DEF TimerTypeOK

(* A callback's return is well typed: the next task or NULL.               *)
LEMMA ReturnTypes == ASSUME TimerTypeOK, Return  PROVE TimerTypeOK'
<1>0. RunCap \in Nat /\ NULL \notin Timers  BY TimerAssumption
<1>1. at = "callback" /\ cur_task \in Timers  BY DEF Return, TimerTypeOK
<1>2. elapsed_time' \in [Timers -> Nat] /\ age' \in [Timers -> Nat]
  BY <1>1 DEF Return, TimerTypeOK
<1>3. run_count' \in [Timers -> 0 .. RunCap]  BY <1>0, <1>1 DEF Return, TimerTypeOK, Count
<1>4. /\ cur_task' = next[cur_task] /\ at' = IF next[cur_task] = NULL THEN "main" ELSE "walk"
      /\ active' \subseteq Timers /\ early' \subseteq Timers /\ UNCHANGED fields
  BY DEF Return, Advance, TimerTypeOK
<1>5. next[cur_task] \in Timers \cup {NULL}  BY <1>1 DEF TimerTypeOK
<1>6. task_list' \in Timers \cup {NULL} /\ next' \in [Timers -> Timers \cup {NULL}]
  BY <1>5 DEF Return, remove_task, TimerTypeOK
<1> QED  BY <1>2, <1>3, <1>4, <1>5, <1>6 DEF TimerTypeOK, fields

(* No step takes a field out of its range.                                 *)
LEMMA TimerTypesKept == ASSUME TimerTypeOK, [Next]_vars  PROVE TimerTypeOK'
<1>0. NULL \notin Timers  BY TimerAssumption
<1>1. CASE Start  BY <1>1, StartTypes
<1>2. CASE timer_handle
  BY <1>0, <1>2 DEF timer_handle, TimerTypeOK, fields
<1>3. CASE Pass
  BY <1>0, <1>3 DEF Pass, Advance, TimerTypeOK, fields, ghosts
<1>4. CASE Fire
  BY <1>0, <1>4 DEF Fire, TimerTypeOK, fields, ghosts
<1>5. CASE Return  BY <1>5, ReturnTypes
<1>6. CASE UNCHANGED vars  BY <1>6 DEF vars, fields, ghosts, TimerTypeOK
<1> QED  BY <1>1, <1>2, <1>3, <1>4, <1>5, <1>6 DEF Next, Handle

(* Nothing is out of its range at first.                                   *)
LEMMA TimerTypesInit == Init => TimerTypeOK
<1> SUFFICES ASSUME Init  PROVE TimerTypeOK
  OBVIOUS
<1>1. RunCap \in Nat  BY TimerAssumption
<1> QED  BY <1>1 DEF Init, TimerTypeOK, Counts

(* The timers' fields and the walk's place are well typed, also when       *)
(* timers are started again.                                               *)
THEOREM TimerTypeCorrect == Spec => []TimerTypeOK
<1>1. Init => TimerTypeOK  BY TimerTypesInit
<1>2. TimerTypeOK /\ [Next]_vars => TimerTypeOK'  BY TimerTypesKept
<1> QED  BY <1>1, <1>2, PTL DEF Spec

-----------------------------------------------------------------------------
(* A start sets the count to 0, and a run that reaches the limit is the    *)
(* timer's last.                                                           *)
LEMMA RunsKept == ASSUME TimerTypeOK, RunsBounded, [Next]_vars  PROVE RunsBounded'
<1>0. MaxCounts \subseteq Counts /\ RunCap \in Nat  BY TimerAssumption DEF Counts
<1>1. CASE Start
  <2>1. PICK t \in Timers, count \in MaxCounts, ticks \in Intervals :
          timer_start(t, count, ticks)
    BY <1>1 DEF Start
  <2>2. /\ run_count' = [run_count EXCEPT ![t] = 0]
        /\ max_run_count' = [max_run_count EXCEPT ![t] = count]
        /\ active' = active \cup {t}
    BY <2>1 DEF timer_start
  <2>3. run_count'[t] = 0 /\ max_run_count'[t] = count  BY <2>2 DEF TimerTypeOK
  <2>4. \A u \in active \ {t} : run_count'[u] = run_count[u] /\ max_run_count'[u] = max_run_count[u]
    BY <2>2 DEF TimerTypeOK
  <2>5. count \notin {0, Always} => 0 < count  BY <1>0 DEF Counts
  <2> QED  BY <2>2, <2>3, <2>4, <2>5 DEF RunsBounded
<1>2. CASE Return
  <2>1. cur_task \in Timers  BY <1>2 DEF Return, TimerTypeOK
  <2>2. /\ \A u \in active \ {cur_task} : run_count'[u] = run_count[u]
        /\ max_run_count' = max_run_count
    BY <1>2 DEF Return, TimerTypeOK, fields
  <2>3. \/ active' = active \ {cur_task}
        \/ active' = active /\ ~Finished(cur_task)
    BY <1>2 DEF Return
  <2>4. ~Finished(cur_task) /\ max_run_count[cur_task] \notin {0, Always}
        => run_count'[cur_task] < max_run_count[cur_task]
    <3>1. max_run_count[cur_task] \in Counts  BY <2>1 DEF TimerTypeOK
    <3>2. run_count'[cur_task] \in Int
      BY <1>0, <1>2, <2>1, TimerTypesKept DEF TimerTypeOK, Next, Handle
    <3> QED  BY <1>0, <3>1, <3>2 DEF Finished, Counts
  <2> QED  BY <2>2, <2>3, <2>4 DEF RunsBounded
<1>3. CASE timer_handle \/ Pass \/ Fire \/ UNCHANGED vars
  <2>1. UNCHANGED <<run_count, max_run_count, active>>
    BY <1>3 DEF timer_handle, Pass, Fire, vars, fields, ghosts
  <2> QED  BY <2>1 DEF RunsBounded
<1> QED  BY <1>1, <1>2, <1>3 DEF Next, Handle

(* No timer runs more often than it was told, for any limits and whoever   *)
(* starts it again.                                                        *)
THEOREM TimerRunsBounded == Spec => []RunsBounded
<1>1. Init => RunsBounded  BY DEF Init, RunsBounded
<1>2. TimerTypeOK /\ RunsBounded /\ [Next]_vars => RunsBounded'  BY RunsKept
<1>3. Spec => []TimerTypeOK  BY TimerTypeCorrect
<1> QED  BY <1>1, <1>2, <1>3, PTL DEF Spec
-----------------------------------------------------------------------------
(* A set of naturals has a smallest element: induction, as the provers can *)
(* use it.                                                                 *)
LEMMA Smallest ==
  ASSUME NEW S \in SUBSET Nat, S # {}
  PROVE  \E m \in S : \A k \in S : m <= k
<1> DEFINE R == {ss \in Nat \X Nat : ss[1] < ss[2]}
<1>1. R = OpToRel(<, Nat)  BY DEF OpToRel
<1>2. IsWellFoundedOn(R, Nat)  BY <1>1, NatLessThanWellFounded
<1>3. PICK m \in S : \A k \in S : <<k, m>> \notin R
  <2> HIDE DEF R
  <2> QED  BY <1>2, WFMin
<1>4. \A k \in S : ~(k < m)  BY <1>3
<1> QED  BY <1>4

(* L lists n timers, once each, in the order in which the pointers nx lead *)
(* from one to the next, beginning at h.                                   *)
Chain(h, nx, n, L) ==
  /\ n \in Nat /\ L \in [1 .. n -> Timers]
  /\ \A i, j \in 1 .. n : L[i] = L[j] => i = j
  /\ h = IF n = 0 THEN NULL ELSE L[1]
  /\ \A i \in 1 .. n : nx[L[i]] = IF i < n THEN L[i + 1] ELSE NULL

Elements(n, L) == {L[i] : i \in 1 .. n}

(* A chain is no longer than there are timers.                             *)
LEMMA ChainFits ==
  ASSUME NEW h, NEW nx, NEW n, NEW L, Chain(h, nx, n, L)
  PROVE  n \in Steps /\ Cardinality(Timers) \in Nat
<1>1. IsFiniteSet(Timers)  BY TimerAssumption
<1>2. Cardinality(Timers) \in Nat  BY <1>1, FS_CardinalityType
<1>3. IsFiniteSet(1 .. n) /\ Cardinality(1 .. n) = n
  BY FS_Interval DEF Chain
<1>4. Cardinality(1 .. n) <= Cardinality(Timers)
  BY <1>1, <1>3, FS_Injection DEF Chain, ExistsInjection, Injection, IsInjective
<1> QED  BY <1>2, <1>3, <1>4 DEF Steps, Chain

(* The recursion of Walk has one solution...                               *)
IsWalk(N, h, nx, w) ==
  w = [k \in 0 .. N |-> IF k = 0 THEN h ELSE IF w[k - 1] = NULL THEN NULL ELSE nx[w[k - 1]]]

(* ... for every head and every pointers.                                  *)
LEMMA WalkUnique ==
  ASSUME NEW N \in Nat, NEW h, NEW nx, NEW f, NEW g, IsWalk(N, h, nx, f), IsWalk(N, h, nx, g)
  PROVE  f = g
<1> DEFINE S == {k \in 0 .. N : f[k] # g[k]}
<1>1. CASE S = {}
  <2>1. \A k \in 0 .. N : f[k] = g[k]  BY <1>1
  <2> QED  BY <2>1 DEF IsWalk
<1>2. CASE S # {}
  <2>1. PICK m \in S : \A k \in S : m <= k
    <3>1. S \in SUBSET Nat  OBVIOUS
    <3> HIDE DEF S
    <3> QED  BY <1>2, <3>1, Smallest
  <2>2. m \in 1 .. N \/ m = 0  BY <2>1
  <2>3. f[0] = h /\ g[0] = h  BY DEF IsWalk
  <2>4. m \in 1 .. N  BY <2>1, <2>2, <2>3
  <2>5. m - 1 \in 0 .. N /\ m - 1 \notin S  BY <2>1, <2>4
  <2>6. f[m - 1] = g[m - 1]  BY <2>5
  <2>7. f[m] = IF f[m - 1] = NULL THEN NULL ELSE nx[f[m - 1]]  BY <2>4 DEF IsWalk
  <2>8. g[m] = IF g[m - 1] = NULL THEN NULL ELSE nx[g[m - 1]]  BY <2>4 DEF IsWalk
  <2> QED  BY <2>1, <2>6, <2>7, <2>8
<1> QED  BY <1>1, <1>2

(* ... and along a chain it is the chain, followed by NULL.                *)
LEMMA WalkOfChain ==
  ASSUME NEW h, NEW nx, NEW n, NEW L, Chain(h, nx, n, L)
  PROVE  Walk(h, nx) = [k \in Steps |-> IF k < n THEN L[k + 1] ELSE NULL]
<1>0. NULL \notin Timers  BY TimerAssumption
<1>1. n \in Steps /\ Cardinality(Timers) \in Nat  BY ChainFits
<1>2. PICK N \in Nat : N = Cardinality(Timers)  BY <1>1
<1> DEFINE g == [k \in 0 .. N |-> IF k < n THEN L[k + 1] ELSE NULL]
<1>3. IsWalk(N, h, nx, g)
  <2> SUFFICES ASSUME NEW k \in 0 .. N
               PROVE  g[k] = IF k = 0 THEN h ELSE IF g[k - 1] = NULL THEN NULL ELSE nx[g[k - 1]]
    BY DEF IsWalk
  <2>1. CASE k = 0  BY <2>1 DEF Chain
  <2>2. CASE k # 0 /\ k - 1 < n
    <3>1. k \in 1 .. n /\ k - 1 \in 0 .. N  BY <2>2 DEF Chain
    <3>2. g[k - 1] = L[k] /\ L[k] # NULL  BY <1>0, <2>2, <3>1 DEF Chain
    <3>3. nx[L[k]] = g[k]  BY <3>1 DEF Chain
    <3> QED  BY <2>2, <3>1, <3>2, <3>3
  <2>3. CASE k # 0 /\ ~(k - 1 < n)
    <3>1. k - 1 \in 0 .. N /\ ~(k < n)  BY <2>3 DEF Chain
    <3> QED  BY <2>3, <3>1
  <2> QED  BY <2>1, <2>2, <2>3
<1>4. PICK w : w = Walk(h, nx) /\ w = CHOOSE f : IsWalk(N, h, nx, f)
  BY <1>2 DEF Walk, Steps, IsWalk
<1>5. IsWalk(N, h, nx, w)
  <2> HIDE DEF g
  <2> QED  BY <1>3, <1>4
<1>6. w = g
  <2> HIDE DEF g
  <2> QED  BY <1>3, <1>5, WalkUnique
<1> QED  BY <1>2, <1>4, <1>6 DEF Steps

(* So the list reaches the timers of the chain, and ends.                  *)
LEMMA ChainReach ==
  ASSUME NEW h, NEW nx, NEW n, NEW L, Chain(h, nx, n, L)
  PROVE  Reach(h, nx) = Elements(n, L) /\ Ends(h, nx)
<1>0. NULL \notin Timers /\ n \in Nat /\ L \in [1 .. n -> Timers]
  BY TimerAssumption DEF Chain
<1>1. n \in Steps /\ Cardinality(Timers) \in Nat  BY ChainFits
<1>2. \A k \in Steps : Walk(h, nx)[k] = IF k < n THEN L[k + 1] ELSE NULL
  BY WalkOfChain
<1>3. Walk(h, nx)[n] = NULL  BY <1>0, <1>1, <1>2
<1>4. Ends(h, nx)  BY <1>1, <1>3 DEF Ends
<1>5. Reach(h, nx) \subseteq Elements(n, L)
  <2> SUFFICES ASSUME NEW k \in Steps, Walk(h, nx)[k] # NULL
               PROVE  Walk(h, nx)[k] \in Elements(n, L)
    BY DEF Reach
  <2>1. k < n /\ k + 1 \in 1 .. n  BY <1>0, <1>1, <1>2 DEF Steps
  <2> QED  BY <1>2, <2>1 DEF Elements
<1>6. Elements(n, L) \subseteq Reach(h, nx)
  <2> SUFFICES ASSUME NEW i \in 1 .. n  PROVE L[i] \in Reach(h, nx)
    BY DEF Elements
  <2>1. i - 1 \in Steps /\ i - 1 < n  BY <1>0, <1>1 DEF Steps
  <2>2. Walk(h, nx)[i - 1] = L[i]  BY <1>0, <1>2, <2>1
  <2>3. L[i] # NULL  BY <1>0
  <2> QED  BY <2>1, <2>2, <2>3 DEF Reach
<1> QED  BY <1>4, <1>5, <1>6
(* add_task puts a new timer at the end.                                   *)
Longer(n, L, t) == [i \in 1 .. n + 1 |-> IF i <= n THEN L[i] ELSE t]

Appended(h, nx, n, L, t, h2, nx2) ==
  /\ h2 = IF n = 0 THEN t ELSE h
  /\ nx2 = IF n = 0 THEN [nx EXCEPT ![t] = NULL]
           ELSE [[nx EXCEPT ![t] = NULL] EXCEPT ![L[n]] = t]

(* The chain it leaves is one longer.                                      *)
LEMMA ChainAppend ==
  ASSUME NEW h, NEW nx \in [Timers -> Timers \cup {NULL}], NEW n, NEW L, Chain(h, nx, n, L),
         NEW t \in Timers, t \notin Elements(n, L), NEW h2, NEW nx2, Appended(h, nx, n, L, t, h2, nx2)
  PROVE  /\ Chain(h2, nx2, n + 1, Longer(n, L, t))
         /\ Elements(n + 1, Longer(n, L, t)) = Elements(n, L) \cup {t}
<1> DEFINE L2 == Longer(n, L, t)
<1>1. n \in Nat /\ \A i \in 1 .. n : L[i] \in Timers /\ L[i] # t
  BY DEF Chain, Elements
<1>2. /\ L2 \in [1 .. n + 1 -> Timers] /\ L2[n + 1] = t
      /\ \A i \in 1 .. n : L2[i] = L[i]
  BY <1>1 DEF Longer
<1>3. \A i \in 1 .. n + 1 : i \in 1 .. n \/ i = n + 1  BY <1>1
<1>4. \A i, j \in 1 .. n + 1 : L2[i] = L2[j] => i = j
  <2> HIDE DEF L2
  <2> QED  BY <1>1, <1>2, <1>3 DEF Chain
<1>5. h2 = L2[1]
  <2>1. CASE n = 0  BY <1>2, <2>1 DEF Appended
  <2>2. CASE n # 0  BY <1>1, <1>2, <2>2 DEF Chain, Appended
  <2> QED  BY <2>1, <2>2
<1>6. nx2[t] = NULL
  <2>1. CASE n = 0  BY <2>1 DEF Appended
  <2>2. CASE n # 0
    <3>1. n \in 1 .. n  BY <1>1, <2>2
    <3>2. L[n] # t  BY <1>1, <3>1
    <3> QED  BY <2>2, <3>2 DEF Appended
  <2> QED  BY <2>1, <2>2
<1>7. \A i \in 1 .. n : nx2[L[i]] = L2[i + 1]
  <2> SUFFICES ASSUME NEW i \in 1 .. n  PROVE nx2[L[i]] = L2[i + 1]
    OBVIOUS
  <2>1. n # 0 /\ L[i] \in Timers /\ L[i] # t  BY <1>1
  <2>2. CASE i = n  BY <1>2, <2>1, <2>2 DEF Appended
  <2>3. CASE i # n
    <3>1. i < n /\ i + 1 \in 1 .. n /\ n \in 1 .. n  BY <1>1, <2>3
    <3>2. L[i] # L[n]  BY <2>3, <3>1 DEF Chain
    <3>3. nx2[L[i]] = nx[L[i]]  BY <2>1, <3>2 DEF Appended
    <3>4. nx[L[i]] = L[i + 1]  BY <3>1 DEF Chain
    <3> QED  BY <1>2, <3>1, <3>3, <3>4
  <2> QED  BY <2>2, <2>3
<1>8. \A i \in 1 .. n + 1 : nx2[L2[i]] = IF i < n + 1 THEN L2[i + 1] ELSE NULL
  <2> HIDE DEF L2
  <2> QED  BY <1>1, <1>2, <1>3, <1>6, <1>7
<1>9. Elements(n + 1, L2) = Elements(n, L) \cup {t}
  <2> HIDE DEF L2
  <2>1. n + 1 \in 1 .. n + 1 /\ \A i \in 1 .. n : i \in 1 .. n + 1  BY <1>1
  <2> QED  BY <1>2, <1>3, <2>1 DEF Elements
<1>10. n + 1 \in Nat /\ n + 1 # 0  BY <1>1
<1> QED
  <2> HIDE DEF L2
  <2>1. Chain(h2, nx2, n + 1, L2)  BY <1>2, <1>4, <1>5, <1>8, <1>10 DEF Chain
  <2> QED  BY <1>9, <2>1 DEF L2

(* remove_task takes the timer at place p out.                             *)
Shorter(n, L, p) == [i \in 1 .. n - 1 |-> IF i < p THEN L[i] ELSE L[i + 1]]

Removed(h, nx, n, L, p, h2, nx2) ==
  /\ h2 = IF p = 1 THEN nx[L[p]] ELSE h
  /\ nx2 = IF p = 1 THEN nx
           ELSE [u \in Timers |-> IF u \in Elements(n, L) /\ nx[u] = L[p]
                                  THEN nx[L[p]] ELSE nx[u]]

(* The chain it leaves has all the others, in their order.                 *)
LEMMA ChainRemove ==
  ASSUME NEW h, NEW nx \in [Timers -> Timers \cup {NULL}], NEW n, NEW L, Chain(h, nx, n, L),
         NEW p \in 1 .. n, NEW h2, NEW nx2, Removed(h, nx, n, L, p, h2, nx2)
  PROVE  /\ Chain(h2, nx2, n - 1, Shorter(n, L, p))
         /\ Elements(n - 1, Shorter(n, L, p)) = Elements(n, L) \ {L[p]}
<1>0. NULL \notin Timers  BY TimerAssumption
<1> DEFINE L2 == Shorter(n, L, p)
<1>1. /\ n \in Nat \ {0} /\ n - 1 \in Nat /\ p \in Nat
      /\ \A i \in 1 .. n : L[i] \in Timers /\ L[i] # NULL
  BY <1>0 DEF Chain
<1>2. /\ L2 \in [1 .. n - 1 -> Timers]
      /\ \A i \in 1 .. n - 1 : L2[i] = IF i < p THEN L[i] ELSE L[i + 1]
  BY <1>1 DEF Shorter
<1>3. \A i \in 1 .. n - 1 : i \in 1 .. n /\ i + 1 \in 1 .. n  BY <1>1
<1>4. \A i, j \in 1 .. n - 1 : L2[i] = L2[j] => i = j
  <2> SUFFICES ASSUME NEW i \in 1 .. n - 1, NEW j \in 1 .. n - 1, L2[i] = L2[j]
               PROVE  i = j
    OBVIOUS
  <2> DEFINE a == IF i < p THEN i ELSE i + 1
             b == IF j < p THEN j ELSE j + 1
  <2>1. a \in 1 .. n /\ b \in 1 .. n  BY <1>3
  <2>2. L[a] = L[b]
    <3> HIDE DEF L2
    <3> QED  BY <1>2
  <2>3. a = b
    <3> HIDE DEF a, b
    <3> QED  BY <2>1, <2>2 DEF Chain
  <2> QED  BY <1>1, <2>3
<1>5. nx[L[p]] = IF p < n THEN L[p + 1] ELSE NULL  BY DEF Chain
<1>6. h2 = IF n - 1 = 0 THEN NULL ELSE L2[1]
  <2>1. CASE p = 1
    <3>1. h2 = IF 1 < n THEN L[2] ELSE NULL  BY <1>5, <2>1 DEF Removed
    <3>2. n - 1 # 0 => 1 < n /\ 1 \in 1 .. n - 1 /\ ~(1 < p)  BY <1>1, <2>1
    <3>3. n - 1 = 0 => ~(1 < n)  BY <1>1
    <3> HIDE DEF L2
    <3> QED  BY <1>2, <3>1, <3>2, <3>3
  <2>2. CASE p # 1
    <3>1. 1 < p /\ n - 1 # 0 /\ n # 0 /\ 1 \in 1 .. n - 1  BY <1>1, <2>2
    <3>2. h2 = L[1]  BY <2>2, <3>1 DEF Chain, Removed
    <3> HIDE DEF L2
    <3> QED  BY <1>2, <3>1, <3>2
  <2> QED  BY <2>1, <2>2
<1>7. \A i \in 1 .. n : i # p =>
        nx2[L[i]] = IF i + 1 = p THEN nx[L[p]] ELSE nx[L[i]]
  <2> SUFFICES ASSUME NEW i \in 1 .. n, i # p
               PROVE  nx2[L[i]] = IF i + 1 = p THEN nx[L[p]] ELSE nx[L[i]]
    OBVIOUS
  <2>1. CASE p = 1  BY <1>1, <2>1 DEF Removed
  <2>2. CASE p # 1
    <3>1. L[i] \in Timers /\ L[i] \in Elements(n, L)  BY <1>1 DEF Elements
    <3>2. nx2[L[i]] = IF nx[L[i]] = L[p] THEN nx[L[p]] ELSE nx[L[i]]  BY <2>2, <3>1 DEF Removed
    <3>3. nx[L[i]] = IF i < n THEN L[i + 1] ELSE NULL  BY DEF Chain
    <3>4. nx[L[i]] = L[p] <=> i + 1 = p
      <4>1. CASE i < n
        <5>1. i + 1 \in 1 .. n  BY <1>1, <4>1
        <5>2. L[i + 1] = L[p] <=> i + 1 = p  BY <5>1 DEF Chain
        <5> QED  BY <3>3, <4>1, <5>2
      <4>2. CASE ~(i < n)  BY <1>1, <3>3, <4>2
      <4> QED  BY <4>1, <4>2
    <3> QED  BY <3>2, <3>4
  <2> QED  BY <2>1, <2>2
<1>8. \A i \in 1 .. n - 1 : nx2[L2[i]] = IF i < n - 1 THEN L2[i + 1] ELSE NULL
  <2> SUFFICES ASSUME NEW i \in 1 .. n - 1
               PROVE  nx2[L2[i]] = IF i < n - 1 THEN L2[i + 1] ELSE NULL
    OBVIOUS
  <2>1. i \in Nat /\ i \in 1 .. n /\ i + 1 \in 1 .. n /\ (i < n - 1 <=> i + 1 < n)
        /\ (i < n - 1 => i + 1 \in 1 .. n - 1)
    BY <1>1
  <2>2. CASE i + 1 < p
    <3>1. L2[i] = L[i] /\ i + 1 < n /\ i # p /\ i + 1 # p /\ i < n  BY <1>1, <1>2, <2>1, <2>2
    <3>2. L2[i + 1] = L[i + 1]
      <4> HIDE DEF L2
      <4> QED  BY <1>2, <2>1, <2>2, <3>1
    <3>3. nx[L[i]] = L[i + 1]  BY <2>1, <3>1 DEF Chain
    <3> HIDE DEF L2
    <3> QED  BY <1>7, <2>1, <3>1, <3>2, <3>3
  <2>3. CASE i + 1 = p
    <3>1. L2[i] = L[i] /\ i # p  BY <1>1, <1>2, <2>1, <2>3
    <3>2. nx2[L[i]] = IF p < n THEN L[p + 1] ELSE NULL  BY <1>5, <1>7, <2>1, <2>3, <3>1
    <3>3. i < n - 1 => L2[i + 1] = L[p + 1]
      <4> HIDE DEF L2
      <4> QED  BY <1>1, <1>2, <2>1, <2>3
    <3> HIDE DEF L2
    <3> QED  BY <2>1, <2>3, <3>1, <3>2, <3>3
  <2>4. CASE i >= p
    <3>1. L2[i] = L[i + 1] /\ i + 1 # p /\ i + 1 + 1 # p /\ ~(i < p) /\ ~(i + 1 < p)
      BY <1>1, <1>2, <2>1, <2>4
    <3>2. nx2[L[i + 1]] = nx[L[i + 1]]  BY <1>7, <2>1, <3>1
    <3>3. nx[L[i + 1]] = IF i + 1 < n THEN L[i + 1 + 1] ELSE NULL  BY <2>1 DEF Chain
    <3>4. i < n - 1 => L2[i + 1] = L[i + 1 + 1]
      <4> HIDE DEF L2
      <4> QED  BY <1>2, <2>1, <3>1
    <3> HIDE DEF L2
    <3> QED  BY <2>1, <3>1, <3>2, <3>3, <3>4
  <2> QED  BY <1>1, <2>1, <2>2, <2>3, <2>4
<1>9. Elements(n - 1, L2) = Elements(n, L) \ {L[p]}
  <2>1. \A i \in 1 .. n - 1 : L2[i] \in Elements(n, L) /\ L2[i] # L[p]
    <3> SUFFICES ASSUME NEW i \in 1 .. n - 1
                 PROVE  L2[i] \in Elements(n, L) /\ L2[i] # L[p]
      OBVIOUS
    <3>1. CASE i < p
      <4>1. L2[i] = L[i] /\ i # p /\ i \in 1 .. n  BY <1>1, <1>2, <1>3, <3>1
      <4> HIDE DEF L2
      <4> QED  BY <4>1 DEF Chain, Elements
    <3>2. CASE ~(i < p)
      <4>1. L2[i] = L[i + 1] /\ i + 1 # p /\ i + 1 \in 1 .. n  BY <1>1, <1>2, <1>3, <3>2
      <4> HIDE DEF L2
      <4> QED  BY <4>1 DEF Chain, Elements
    <3> QED  BY <3>1, <3>2
  <2>2. \A i \in 1 .. n : i # p => L[i] \in Elements(n - 1, L2)
    <3> SUFFICES ASSUME NEW i \in 1 .. n, i # p  PROVE L[i] \in Elements(n - 1, L2)
      OBVIOUS
    <3>1. CASE i < p
      <4>1. i \in 1 .. n - 1 /\ L2[i] = L[i]  BY <1>1, <1>2, <3>1
      <4> QED  BY <4>1 DEF Elements
    <3>2. CASE i > p
      <4>1. i - 1 \in 1 .. n - 1 /\ ~(i - 1 < p) /\ (i - 1) + 1 = i  BY <1>1, <3>2
      <4>2. L2[i - 1] = L[i]
        <5> HIDE DEF L2
        <5> QED  BY <1>2, <4>1
      <4> QED  BY <4>1, <4>2 DEF Elements
    <3> QED  BY <1>1, <3>1, <3>2
  <2> HIDE DEF L2
  <2> QED  BY <2>1, <2>2 DEF Elements
<1> QED
  <2> HIDE DEF L2
  <2>1. Chain(h2, nx2, n - 1, L2)  BY <1>1, <1>2, <1>4, <1>6, <1>8 DEF Chain
  <2> QED  BY <1>9, <2>1 DEF L2
-----------------------------------------------------------------------------
(* The list holds the active timers in the order of L, and the walk is at  *)
(* place p of it, behind the end when the main program runs.               *)
Order(n, L, p) ==
  /\ Chain(task_list, next, n, L) /\ active = Elements(n, L)
  /\ p \in 1 .. n + 1
  /\ at \in {"main", "walk", "callback"}
  /\ at = "main" <=> p = n + 1
  /\ at # "main" => cur_task = L[p]

(* The walk has counted the tick for the timer at place i.                 *)
Seen(i, p) == i < p \/ (i = p /\ at = "callback")

(* The walks a timer has seen are the ticks it has counted, plus the one   *)
(* that the walk at work has not counted yet, less the one it has had too  *)
(* early; it is called back when it has counted a period.                  *)
Counted(t, seen) ==
  age[t] = elapsed_time[t] + (IF seen THEN 0 ELSE 1) - (IF t \in early THEN 1 ELSE 0)

Ages(n, L, p) ==
  \A i \in 1 .. n :
    /\ Counted(L[i], Seen(i, p))
    /\ IF i = p /\ at = "callback" THEN elapsed_time[L[i]] = Period(L[i])
       ELSE elapsed_time[L[i]] < Period(L[i])

OrderInv == \E n, L, p : Order(n, L, p) /\ Ages(n, L, p)

(* A start puts its timer behind all others: seen, if the main program     *)
(* runs, and still to be walked over, if a callback does.                  *)
LEMMA OrderStart ==
  ASSUME TimerTypeOK, ~Restart, NEW n, NEW L, NEW p, Order(n, L, p), Ages(n, L, p), Start
  PROVE  OrderInv'
<1>0. NULL \notin Timers /\ Intervals \subseteq Nat  BY TimerAssumption
<1>1. PICK t \in Timers, count \in MaxCounts, ticks \in Intervals :
        timer_start(t, count, ticks)
  BY DEF Start
<1>2. t \notin Elements(n, L) /\ t \notin active  BY <1>1 DEF timer_start, Order
<1>3. PICK nx \in [Timers -> Timers \cup {NULL}] : nx = [next EXCEPT ![t] = NULL]
  BY DEF TimerTypeOK
<1>4. n \in Nat /\ p \in Nat /\ \A i \in 1 .. n : L[i] \in Timers /\ L[i] # t /\ L[i] # NULL
  BY <1>0, <1>2 DEF Order, Chain, Elements
<1>5. Chain(task_list, nx, n, L)
  <2>1. \A i \in 1 .. n : nx[L[i]] = next[L[i]]  BY <1>3, <1>4 DEF TimerTypeOK
  <2> QED  BY <2>1 DEF Order, Chain
<1>6. Ends(task_list, nx) /\ Reach(task_list, nx) = Elements(n, L)  BY <1>5, ChainReach
<1>7. task_list = NULL <=> n = 0  BY <1>0, <1>4 DEF Order, Chain
<1>8. /\ at' = at
      /\ task_list' = IF n = 0 THEN t ELSE task_list
      /\ next' = IF n = 0 THEN nx ELSE [nx EXCEPT ![L[n]] = t]
  <2>1. add_task(t)  BY <1>1 DEF timer_start
  <2>2. CASE n = 0  BY <1>3, <1>7, <2>1, <2>2 DEF add_task
  <2>3. CASE n # 0
    <3>1. PICK last \in Elements(n, L) :
            nx[last] = NULL /\ next' = [nx EXCEPT ![last] = t]
      BY <1>3, <1>6, <1>7, <2>1, <2>3 DEF add_task
    <3>2. PICK i \in 1 .. n : last = L[i]  BY <3>1 DEF Elements
    <3>3. i < n => nx[last] = L[i + 1] /\ i + 1 \in 1 .. n  BY <1>4, <1>5, <3>2 DEF Chain
    <3>4. i = n  BY <1>4, <3>1, <3>3
    <3>5. at' = at /\ task_list' = task_list
      BY <1>3, <1>6, <1>7, <2>1, <2>3 DEF add_task
    <3> QED  BY <2>3, <3>1, <3>2, <3>4, <3>5
  <2> QED  BY <2>2, <2>3
<1> DEFINE L2 == Longer(n, L, t)
<1>14. PICK p2 \in Nat : p2 = IF at = "main" THEN n + 2 ELSE p  BY <1>4
<1>9. Chain(task_list', next', n + 1, L2) /\ Elements(n + 1, L2) = Elements(n, L) \cup {t}
  <2>1. Chain(task_list, next, n, L)  BY DEF Order
  <2>2. next \in [Timers -> Timers \cup {NULL}]  BY DEF TimerTypeOK
  <2>3. Appended(task_list, next, n, L, t, task_list', next')
    BY <1>3, <1>8 DEF Appended
  <2> QED  BY <1>2, <2>1, <2>2, <2>3, ChainAppend
<1>10. \A i \in 1 .. n : L2[i] = L[i]  BY <1>4 DEF Longer
<1>11. L2[n + 1] = t  BY <1>4 DEF Longer
<1>12. Order(n + 1, L2, p2)'
  <2>1. active' = Elements(n + 1, L2)  BY <1>1, <1>9 DEF timer_start, Order
  <2>2. p2 \in 1 .. n + 1 + 1 /\ (at = "main" <=> p2 = n + 1 + 1)
        /\ (at # "main" => p2 = p /\ p \in 1 .. n)
    BY <1>4, <1>14 DEF Order
  <2>3. cur_task' = cur_task  BY <1>1 DEF timer_start
  <2> HIDE DEF L2
  <2> QED  BY <1>8, <1>9, <1>10, <2>1, <2>2, <2>3 DEF Order
<1>13. Ages(n + 1, L2, p2)'
  <2>1. /\ elapsed_time' = [elapsed_time EXCEPT ![t] = 0] /\ age' = [age EXCEPT ![t] = 0]
        /\ interval' = [interval EXCEPT ![t] = ticks]
        /\ early' = IF at = "callback" THEN early \cup {t} ELSE early \ {t}
    BY <1>1 DEF timer_start
  <2> SUFFICES ASSUME NEW i \in 1 .. n + 1
               PROVE  /\ Counted(L2[i], Seen(i, p2))'
                      /\ IF i = p2 /\ at' = "callback"
                           THEN elapsed_time'[L2[i]] = Period(L2[i])'
                           ELSE elapsed_time'[L2[i]] < Period(L2[i])'
    BY DEF Ages
  <2>2. at \in {"main", "callback"}  BY DEF Start
  <2>3. p \in 1 .. n + 1 /\ (at = "main" <=> p = n + 1)  BY DEF Order
  <2>4. CASE i = n + 1
    <3>1. elapsed_time'[t] = 0 /\ age'[t] = 0 /\ interval'[t] = ticks /\ ticks \in Nat
      BY <1>0, <2>1 DEF TimerTypeOK
    <3>2. t \in early' <=> at = "callback"  BY <2>1, <2>2
    <3>3. Seen(i, p2)' <=> at = "main"  BY <1>4, <1>8, <1>14, <2>2, <2>3, <2>4 DEF Seen
    <3>4. Counted(t, Seen(i, p2))'  BY <2>2, <3>1, <3>2, <3>3 DEF Counted
    <3>5. 0 < Period(t)'  BY <3>1 DEF Period
    <3>6. i # p2  BY <1>4, <1>14, <2>2, <2>3, <2>4
    <3> HIDE DEF L2
    <3> QED  BY <1>11, <2>4, <3>1, <3>4, <3>5, <3>6
  <2>5. CASE i # n + 1
    <3>1. i \in 1 .. n  BY <1>4, <2>5
    <3>2. L2[i] = L[i] /\ L[i] \in Timers /\ L[i] # t  BY <1>4, <1>10, <3>1
    <3>3. /\ elapsed_time'[L[i]] = elapsed_time[L[i]] /\ age'[L[i]] = age[L[i]]
          /\ interval'[L[i]] = interval[L[i]] /\ (L[i] \in early' <=> L[i] \in early)
      BY <2>1, <3>2 DEF TimerTypeOK
    <3>4. Seen(i, p2)' <=> Seen(i, p)
      BY <1>4, <1>8, <1>14, <2>2, <2>3, <3>1 DEF Seen
    <3>5. i = p2 <=> (i = p /\ at = "callback")  BY <1>4, <1>14, <2>2, <2>3, <3>1
    <3>6. Period(L[i])' = Period(L[i])  BY <3>3 DEF Period
    <3>7. Counted(L[i], Seen(i, p2))'  BY <3>1, <3>3, <3>4 DEF Ages, Counted
    <3> HIDE DEF L2
    <3> QED  BY <1>8, <3>1, <3>2, <3>3, <3>5, <3>6, <3>7 DEF Ages
  <2> QED  BY <2>4, <2>5
<1> QED  BY <1>12, <1>13 DEF OrderInv
(* What the walk is at, and what follows it.                               *)
LEMMA AtWork ==
  ASSUME NEW n, NEW L, NEW p, Order(n, L, p), at \in {"walk", "callback"}
  PROVE  /\ n \in Nat /\ p \in 1 .. n /\ cur_task = L[p]
         /\ \A i \in 1 .. n : L[i] \in Timers /\ L[i] # NULL /\ (L[i] = L[p] => i = p)
         /\ next[cur_task] = IF p < n THEN L[p + 1] ELSE NULL
         /\ next[cur_task] = NULL <=> p = n
         /\ p # n => p < n /\ p + 1 \in 1 .. n
<1>0. NULL \notin Timers  BY TimerAssumption
<1>1. n \in Nat /\ p \in 1 .. n /\ cur_task = L[p]  BY DEF Order, Chain
<1>2. \A i \in 1 .. n : L[i] \in Timers /\ L[i] # NULL /\ (L[i] = L[p] => i = p)
  BY <1>0, <1>1 DEF Order, Chain
<1>3. next[cur_task] = IF p < n THEN L[p + 1] ELSE NULL  BY <1>1 DEF Order, Chain
<1>4. p # n => p < n /\ p + 1 \in 1 .. n  BY <1>1
<1>5. p = n => ~(p < n)  BY <1>1
<1> QED  BY <1>1, <1>2, <1>3, <1>4, <1>5

(* The handler begins a walk in which no timer has been seen yet.          *)
LEMMA OrderHandle ==
  ASSUME TimerTypeOK, NEW n, NEW L, NEW p, Order(n, L, p), Ages(n, L, p), timer_handle
  PROVE  OrderInv'
<1>0. NULL \notin Timers  BY TimerAssumption
<1>1. n \in Nat /\ p = n + 1 /\ \A i \in 1 .. n : L[i] \in Timers /\ L[i] \in active
  BY DEF Order, Chain, timer_handle, Elements
<1>2. task_list = NULL <=> n = 0  BY <1>0, <1>1 DEF Order, Chain
<1>3. Order(n, L, 1)'
  <2>1. Chain(task_list, next, n, L)' /\ active' = Elements(n, L)
    BY DEF timer_handle, Order, Chain
  <2>2. at' \in {"main", "walk"} /\ (at' = "main" <=> 1 = n + 1) /\ 1 \in 1 .. n + 1
    BY <1>1, <1>2 DEF timer_handle
  <2>3. at' # "main" => cur_task' = L[1]  BY <1>1, <1>2 DEF timer_handle, Order, Chain
  <2> QED  BY <2>1, <2>2, <2>3 DEF Order
<1>4. Ages(n, L, 1)'
  <2> SUFFICES ASSUME NEW i \in 1 .. n
               PROVE  /\ Counted(L[i], Seen(i, 1))' /\ at' # "callback"
                      /\ (elapsed_time[L[i]] < Period(L[i]))'
    BY DEF Ages
  <2>1. at' = "walk"  BY <1>1, <1>2 DEF timer_handle
  <2>2. Seen(i, p) /\ ~Seen(i, 1)'  BY <1>1, <2>1 DEF Seen
  <2>3. age'[L[i]] = age[L[i]] + 1  BY <1>1 DEF timer_handle
  <2>4. UNCHANGED <<elapsed_time, early, interval>>  BY DEF timer_handle, fields
  <2>5. age[L[i]] \in Nat /\ elapsed_time[L[i]] \in Nat  BY <1>1 DEF TimerTypeOK
  <2>6. Counted(L[i], TRUE)  BY <2>2 DEF Ages
  <2>7. Counted(L[i], FALSE)'  BY <2>3, <2>4, <2>5, <2>6 DEF Counted
  <2>8. elapsed_time[L[i]] < Period(L[i])  BY DEF Ages, timer_handle
  <2>9. Period(L[i])' = Period(L[i])  BY <2>4 DEF Period
  <2>10. Counted(L[i], Seen(i, 1))'  BY <2>2, <2>7 DEF Counted
  <2> QED  BY <2>1, <2>4, <2>8, <2>9, <2>10
<1> QED  BY <1>3, <1>4 DEF OrderInv

(* A timer that is not due counts the tick.                                *)
LEMMA OrderPass ==
  ASSUME TimerTypeOK, NEW n, NEW L, NEW p, Order(n, L, p), Ages(n, L, p), Pass
  PROVE  OrderInv'
<1>1. at = "walk"  BY DEF Pass
<1>2. /\ n \in Nat /\ p \in 1 .. n /\ cur_task = L[p]
      /\ \A i \in 1 .. n : L[i] \in Timers /\ (L[i] = L[p] => i = p)
      /\ next[cur_task] = NULL <=> p = n
      /\ p # n => next[cur_task] = L[p + 1]
  BY <1>1, AtWork
<1>3. /\ cur_task' = next[cur_task] /\ at' = IF next[cur_task] = NULL THEN "main" ELSE "walk"
      /\ UNCHANGED <<task_list, next, active, interval, age, early>>
      /\ elapsed_time' = [elapsed_time EXCEPT ![cur_task] = @ + 1]
  BY DEF Pass, Advance, fields, ghosts
<1>4. Order(n, L, p + 1)'
  <2>1. Chain(task_list, next, n, L)' /\ active' = Elements(n, L)
    BY <1>3 DEF Order, Chain
  <2>2. p + 1 \in 1 .. n + 1 /\ at' \in {"main", "walk"} /\ (at' = "main" <=> p + 1 = n + 1)
    BY <1>2, <1>3
  <2>3. at' # "main" => cur_task' = L[p + 1]  BY <1>2, <1>3
  <2> QED  BY <2>1, <2>2, <2>3 DEF Order
<1>5. Ages(n, L, p + 1)'
  <2>0. at' # "callback"  BY <1>3
  <2> SUFFICES ASSUME NEW i \in 1 .. n
               PROVE  Counted(L[i], Seen(i, p + 1))' /\ (elapsed_time[L[i]] < Period(L[i]))'
    BY <2>0 DEF Ages
  <2>1. Counted(L[i], Seen(i, p)) /\ elapsed_time[L[i]] < Period(L[i])  BY <1>1 DEF Ages
  <2>2. Period(L[i])' = Period(L[i])  BY <1>3 DEF Period
  <2>3. CASE i = p
    <3>1. ~Seen(i, p) /\ Seen(i, p + 1)'  BY <1>1, <1>2, <2>0, <2>3 DEF Seen
    <3>2. elapsed_time'[L[i]] = elapsed_time[L[i]] + 1  BY <1>2, <1>3, <2>3 DEF TimerTypeOK
    <3>3. age[L[i]] \in Nat /\ elapsed_time[L[i]] \in Nat /\ interval[L[i]] \in Nat
      BY <1>2 DEF TimerTypeOK
    <3>4. Counted(L[i], FALSE)  BY <2>1, <3>1 DEF Counted
    <3>5. Counted(L[i], TRUE)'  BY <1>3, <3>2, <3>3, <3>4 DEF Counted
    <3>6. elapsed_time[L[i]] + 1 < interval[L[i]]
      BY <1>2, <2>3, <3>3 DEF Pass, Due
    <3>7. elapsed_time'[L[i]] < Period(L[i])  BY <3>2, <3>3, <3>6 DEF Period
    <3>8. Counted(L[i], Seen(i, p + 1))'  BY <3>1, <3>5 DEF Counted
    <3> QED  BY <2>2, <3>7, <3>8
  <2>4. CASE i # p
    <3>1. Seen(i, p) <=> Seen(i, p + 1)'  BY <1>1, <1>2, <2>0, <2>4 DEF Seen
    <3>2. elapsed_time'[L[i]] = elapsed_time[L[i]]  BY <1>2, <1>3, <2>4 DEF TimerTypeOK
    <3>3. Counted(L[i], Seen(i, p + 1))'  BY <1>3, <2>1, <3>1, <3>2 DEF Counted
    <3> QED  BY <2>1, <2>2, <3>2, <3>3
  <2> QED  BY <2>3, <2>4
<1> QED  BY <1>4, <1>5 DEF OrderInv

(* A timer that is due has counted its period.                             *)
LEMMA OrderFire ==
  ASSUME TimerTypeOK, NEW n, NEW L, NEW p, Order(n, L, p), Ages(n, L, p), Fire
  PROVE  OrderInv'
<1>1. at = "walk" /\ at' = "callback"  BY DEF Fire
<1>2. /\ n \in Nat /\ p \in 1 .. n /\ cur_task = L[p]
      /\ \A i \in 1 .. n : L[i] \in Timers /\ (L[i] = L[p] => i = p)
  BY <1>1, AtWork
<1>3. /\ UNCHANGED <<task_list, next, active, interval, age, early, cur_task>>
      /\ elapsed_time' = [elapsed_time EXCEPT ![cur_task] = @ + 1]
  BY DEF Fire, fields, ghosts
<1>4. Order(n, L, p)'
  <2>1. Chain(task_list, next, n, L)' /\ active' = Elements(n, L)
    BY <1>3 DEF Order, Chain
  <2>2. p \in 1 .. n + 1 /\ p # n + 1  BY <1>2
  <2> QED  BY <1>1, <1>2, <1>3, <2>1, <2>2 DEF Order
<1>5. Ages(n, L, p)'
  <2> SUFFICES ASSUME NEW i \in 1 .. n
               PROVE  /\ Counted(L[i], Seen(i, p))'
                      /\ i = p => (elapsed_time[L[i]] = Period(L[i]))'
                      /\ i # p => (elapsed_time[L[i]] < Period(L[i]))'
    BY <1>1 DEF Ages
  <2>1. Counted(L[i], Seen(i, p)) /\ elapsed_time[L[i]] < Period(L[i])  BY <1>1 DEF Ages
  <2>2. Period(L[i])' = Period(L[i])  BY <1>3 DEF Period
  <2>3. CASE i = p
    <3>1. ~Seen(i, p) /\ Seen(i, p)'  BY <1>1, <1>2, <2>3 DEF Seen
    <3>2. elapsed_time'[L[i]] = elapsed_time[L[i]] + 1  BY <1>2, <1>3, <2>3 DEF TimerTypeOK
    <3>3. age[L[i]] \in Nat /\ elapsed_time[L[i]] \in Nat /\ interval[L[i]] \in Nat
      BY <1>2 DEF TimerTypeOK
    <3>4. Counted(L[i], FALSE)  BY <2>1, <3>1 DEF Counted
    <3>5. Counted(L[i], TRUE)'  BY <1>3, <3>2, <3>3, <3>4 DEF Counted
    <3>6. elapsed_time[L[i]] + 1 >= interval[L[i]]
      BY <1>2, <2>3, <3>3 DEF Fire, Due
    <3>7. elapsed_time'[L[i]] = Period(L[i])  BY <2>1, <3>2, <3>3, <3>6 DEF Period
    <3>8. Counted(L[i], Seen(i, p))'  BY <3>1, <3>5 DEF Counted
    <3> QED  BY <2>2, <2>3, <3>7, <3>8
  <2>4. CASE i # p
    <3>1. Seen(i, p) <=> Seen(i, p)'  BY <1>1, <1>2, <2>4 DEF Seen
    <3>2. elapsed_time'[L[i]] = elapsed_time[L[i]]  BY <1>2, <1>3, <2>4 DEF TimerTypeOK
    <3>3. Counted(L[i], Seen(i, p))'  BY <1>3, <2>1, <3>1, <3>2 DEF Counted
    <3> QED  BY <2>1, <2>2, <2>4, <3>2, <3>3
  <2> QED  BY <2>3, <2>4
<1> QED  BY <1>4, <1>5 DEF OrderInv
(* A callback that returns leaves the timer for its next period, or takes  *)
(* it off the list; the walk goes on behind it either way.                 *)
LEMMA OrderReturn ==
  ASSUME TimerTypeOK, NEW n, NEW L, NEW p, Order(n, L, p), Ages(n, L, p), Return
  PROVE  OrderInv'
<1>1. at = "callback"  BY DEF Return
<1>2. /\ n \in Nat /\ p \in 1 .. n /\ cur_task = L[p]
      /\ \A i \in 1 .. n : L[i] \in Timers /\ L[i] # NULL /\ (L[i] = L[p] => i = p)
      /\ next[cur_task] = NULL <=> p = n
      /\ p # n => next[cur_task] = L[p + 1] /\ p < n /\ p + 1 \in 1 .. n
  BY <1>1, AtWork
<1>3. /\ cur_task' = next[cur_task] /\ at' = IF next[cur_task] = NULL THEN "main" ELSE "walk"
      /\ interval' = interval /\ early' = early \ {cur_task}
      /\ age' = [age EXCEPT ![cur_task] = 0]
      /\ elapsed_time' = [elapsed_time EXCEPT ![cur_task] = 0]
  BY DEF Return, Advance, fields
<1>4. \A i \in 1 .. n : i # p =>
        /\ age'[L[i]] = age[L[i]] /\ elapsed_time'[L[i]] = elapsed_time[L[i]]
        /\ (L[i] \in early' <=> L[i] \in early)
  BY <1>2, <1>3 DEF TimerTypeOK
<1>5. \A i \in 1 .. n : Period(L[i])' = Period(L[i])  BY <1>3 DEF Period
<1>6. at' # "callback"  BY <1>3
<1>7. \A i \in 1 .. n : i # p =>
        /\ age'[L[i]] = elapsed_time'[L[i]] + (IF i < p THEN 0 ELSE 1)
                        - (IF L[i] \in early' THEN 1 ELSE 0)
        /\ elapsed_time'[L[i]] < Period(L[i])'
  <2> SUFFICES ASSUME NEW i \in 1 .. n, i # p
               PROVE  /\ age'[L[i]] = elapsed_time'[L[i]] + (IF i < p THEN 0 ELSE 1)
                                      - (IF L[i] \in early' THEN 1 ELSE 0)
                      /\ elapsed_time'[L[i]] < Period(L[i])'
    OBVIOUS
  <2>1. Seen(i, p) <=> i < p  BY <1>1 DEF Seen
  <2>2. Counted(L[i], Seen(i, p)) /\ elapsed_time[L[i]] < Period(L[i])  BY DEF Ages
  <2> QED  BY <1>4, <1>5, <2>1, <2>2 DEF Counted
<1>8. CASE Finished(cur_task)
  <2> DEFINE L2 == Shorter(n, L, p)
  <2>1. remove_task(cur_task) /\ active' = active \ {cur_task}  BY <1>8 DEF Return
  <2>2. Chain(task_list, next, n, L) /\ next \in [Timers -> Timers \cup {NULL}]
    BY DEF Order, TimerTypeOK
  <2>3. Listed = Elements(n, L)  BY <2>2, ChainReach DEF Listed
  <2>4. task_list = cur_task <=> p = 1
    <3>1. task_list = L[1] /\ 1 \in 1 .. n  BY <1>2, <2>2 DEF Chain
    <3> QED  BY <1>2, <3>1
  <2>5. Removed(task_list, next, n, L, p, task_list', next')
    <3>1. CASE p = 1  BY <1>2, <2>1, <2>4, <3>1 DEF remove_task, Removed
    <3>2. CASE p # 1  BY <1>2, <2>1, <2>3, <2>4, <3>2 DEF remove_task, Removed
    <3> QED  BY <3>1, <3>2
  <2>6. Chain(task_list', next', n - 1, L2) /\ Elements(n - 1, L2) = Elements(n, L) \ {L[p]}
    <3>1. p \in 1 .. n  BY <1>2
    <3> QED  BY <2>2, <2>5, <3>1, ChainRemove
  <2>7. \A i \in 1 .. n - 1 : L2[i] = IF i < p THEN L[i] ELSE L[i + 1]
    BY <1>2 DEF Shorter
  <2>8. Order(n - 1, L2, p)'
    <3>1. active' = Elements(n - 1, L2)  BY <1>2, <2>1, <2>6 DEF Order
    <3>2. p \in 1 .. n - 1 + 1 /\ at' \in {"main", "walk"} /\ (at' = "main" <=> p = n - 1 + 1)
      BY <1>2, <1>3
    <3>3. at' # "main" => cur_task' = L2[p]
      <4>1. p # n => p \in 1 .. n - 1 /\ ~(p < p)  BY <1>2
      <4> HIDE DEF L2
      <4> QED  BY <1>2, <1>3, <2>7, <4>1
    <3> HIDE DEF L2
    <3> QED  BY <2>6, <3>1, <3>2, <3>3 DEF Order
  <2>9. Ages(n - 1, L2, p)'
    <3> SUFFICES ASSUME NEW i \in 1 .. n - 1
                 PROVE  Counted(L2[i], Seen(i, p))' /\ (elapsed_time[L2[i]] < Period(L2[i]))'
      BY <1>6 DEF Ages
    <3>1. PICK j \in 1 .. n : j = IF i < p THEN i ELSE i + 1
      BY <1>2
    <3>2. L2[i] = L[j] /\ j # p /\ (i < p <=> j < p)  BY <1>2, <2>7, <3>1
    <3>3. Seen(i, p)' <=> j < p  BY <1>6, <3>2 DEF Seen
    <3> HIDE DEF L2
    <3> QED  BY <1>7, <3>2, <3>3 DEF Counted
  <2> QED  BY <2>8, <2>9 DEF OrderInv
<1>9. CASE ~Finished(cur_task)
  <2>1. UNCHANGED <<task_list, next, active>>  BY <1>9 DEF Return
  <2>2. Order(n, L, p + 1)'
    <3>1. Chain(task_list, next, n, L)' /\ active' = Elements(n, L)
      BY <2>1 DEF Order, Chain
    <3>2. p + 1 \in 1 .. n + 1 /\ at' \in {"main", "walk"} /\ (at' = "main" <=> p + 1 = n + 1)
      BY <1>2, <1>3
    <3>3. at' # "main" => cur_task' = L[p + 1]  BY <1>2, <1>3
    <3> QED  BY <3>1, <3>2, <3>3 DEF Order
  <2>3. Ages(n, L, p + 1)'
    <3> SUFFICES ASSUME NEW i \in 1 .. n
                 PROVE  Counted(L[i], Seen(i, p + 1))' /\ (elapsed_time[L[i]] < Period(L[i]))'
      BY <1>6 DEF Ages
    <3>1. Seen(i, p + 1)' <=> i < p + 1  BY <1>6 DEF Seen
    <3>2. CASE i = p
      <4>1. age'[L[i]] = 0 /\ elapsed_time'[L[i]] = 0 /\ L[i] \notin early'
        BY <1>2, <1>3, <3>2 DEF TimerTypeOK
      <4>2. Seen(i, p + 1)'  BY <1>2, <3>1, <3>2
      <4>3. Counted(L[i], Seen(i, p + 1))'  BY <4>1, <4>2 DEF Counted
      <4>4. interval[L[i]] \in Nat  BY <1>2 DEF TimerTypeOK
      <4>5. 0 < Period(L[i])  BY <4>4 DEF Period
      <4> QED  BY <1>5, <4>1, <4>3, <4>5
    <3>3. CASE i # p
      <4>1. Seen(i, p + 1)' <=> i < p  BY <1>2, <3>1, <3>3
      <4> QED  BY <1>7, <3>3, <4>1 DEF Counted
    <3> QED  BY <3>2, <3>3
  <2> QED  BY <2>2, <2>3 DEF OrderInv
<1> QED  BY <1>8, <1>9

(* No step of a program that leaves a running timer alone loses the order. *)
LEMMA OrderKept ==
  ASSUME ~Restart, TimerTypeOK, OrderInv, [Next]_vars
  PROVE  OrderInv'
<1>1. PICK n, L, p : Order(n, L, p) /\ Ages(n, L, p)  BY DEF OrderInv
<1>2. CASE UNCHANGED vars
  <2>1. Order(n, L, p)'  BY <1>1, <1>2 DEF Order, Chain, vars, ghosts
  <2>2. Ages(n, L, p)'
    BY <1>1, <1>2 DEF Ages, Counted, Seen, Period, vars, fields, ghosts
  <2> QED  BY <2>1, <2>2 DEF OrderInv
<1> QED
  BY <1>1, <1>2, OrderStart, OrderHandle, OrderPass, OrderFire, OrderReturn
     DEF Next, Handle

(* The list is empty at first.                                             *)
LEMMA OrderStarts == Init => OrderInv
<1> SUFFICES ASSUME Init  PROVE OrderInv
  OBVIOUS
<1> DEFINE L == [i \in 1 .. 0 |-> CHOOSE t \in Timers : TRUE]
<1>1. L \in [1 .. 0 -> Timers]  OBVIOUS
<1>2. Order(0, L, 1)  BY <1>1 DEF Init, Order, Chain, Elements
<1>3. Ages(0, L, 1)  BY DEF Ages
<1> QED  BY <1>2, <1>3 DEF OrderInv

(* For any number of timers: a timer that has been started and has runs    *)
(* left is on the list, and nothing else is, if a running timer is not     *)
(* started again.                                                          *)
THEOREM TimerActiveListed == ~Restart => (Spec => []ActiveListed)
<1> SUFFICES ASSUME ~Restart  PROVE Spec => []ActiveListed
  OBVIOUS
<1>1. Init => TimerTypeOK /\ OrderInv  BY TimerTypesInit, OrderStarts
<1>2. TimerTypeOK /\ OrderInv /\ [Next]_vars => (TimerTypeOK /\ OrderInv)'
  BY TimerTypesKept, OrderKept
<1>3. OrderInv => ActiveListed  BY ChainReach DEF OrderInv, Order, ActiveListed, Listed
<1> QED  BY <1>1, <1>2, <1>3, PTL DEF Spec

(* Under the same condition a timer is called back on the tick that        *)
(* completes its period, wherever it stands on the list and whatever is    *)
(* started or removed while the list is walked; the first call of one that *)
(* a callback has started comes a tick early.                              *)
THEOREM TimerOnTime == ~Restart => (Spec => []OnTime)
<1> SUFFICES ASSUME ~Restart  PROVE Spec => []OnTime
  OBVIOUS
<1>1. Init => TimerTypeOK /\ OrderInv  BY TimerTypesInit, OrderStarts
<1>2. TimerTypeOK /\ OrderInv /\ [Next]_vars => (TimerTypeOK /\ OrderInv)'
  BY TimerTypesKept, OrderKept
<1>3. TimerTypeOK /\ OrderInv => OnTime
  <2> SUFFICES ASSUME TimerTypeOK, OrderInv, at = "callback"
               PROVE  age[cur_task] = IF cur_task \in early THEN Period(cur_task) - 1
                                      ELSE Period(cur_task)
    BY DEF OnTime
  <2>1. PICK n, L, p : Order(n, L, p) /\ Ages(n, L, p)  BY DEF OrderInv
  <2>2. p \in 1 .. n /\ cur_task = L[p]  BY <2>1, AtWork
  <2>3. Seen(p, p)  BY DEF Seen
  <2>4. Counted(L[p], TRUE) /\ elapsed_time[L[p]] = Period(L[p])
    BY <2>1, <2>2, <2>3 DEF Ages, Counted
  <2>5. elapsed_time[L[p]] \in Nat  BY <2>2 DEF TimerTypeOK
  <2> QED  BY <2>2, <2>4, <2>5 DEF Counted
<1> QED  BY <1>1, <1>2, <1>3, PTL DEF Spec
=============================================================================

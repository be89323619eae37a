------------------------------ MODULE OsTimer ------------------------------
(***************************************************************************)
(* The software timers of src/os.c: a singly linked list of tasks which    *)
(* timer_handle walks once per tick, calling back the timers that are due  *)
(* and unlinking the ones that are finished.  A callback runs in the       *)
(* middle of that walk and may itself start timers.                        *)
(*                                                                         *)
(* active, age and early are not in the code: which timers have been       *)
(* started and not finished, how many walks a timer has seen since it was  *)
(* started or last fired, and whether it was started from a callback and   *)
(* has not fired since.                                                    *)
(***************************************************************************)
EXTENDS Integers, FiniteSets

CONSTANTS
  Timers,     \* the timer_t objects
  NULL,
  Always,     \* TIMER_ALWAYS_RUN
  MaxCounts,  \* max_run_count arguments of timer_start
  Intervals,  \* interval arguments of timer_start
  RunCap,     \* bound: where run_count stops counting
  Restart     \* TRUE: a timer that is still running may be started again

ASSUME TimerAssumption ==
  /\ IsFiniteSet(Timers) /\ NULL \notin Timers
  /\ RunCap \in Nat /\ MaxCounts \subseteq (0 .. RunCap) \cup {Always}
  /\ Always \in Nat /\ Always > RunCap
  /\ Intervals \subseteq Nat
  /\ Restart \in BOOLEAN

VARIABLES
  task_list, next, run_count, max_run_count, interval, elapsed_time,
  at,         \* "main", "walk" (in task_loop), "callback" or "hung"
  cur_task,   \* of task_loop
  active, age, early

fields == <<max_run_count, interval>>
ghosts == <<active, age, early>>
vars == <<task_list, next, run_count, elapsed_time, fields, at, cur_task, ghosts>>

Init ==
  /\ task_list = NULL
  /\ next = [t \in Timers |-> NULL]
  /\ run_count = [t \in Timers |-> 0]
  /\ max_run_count = [t \in Timers |-> 0]
  /\ interval = [t \in Timers |-> 0]
  /\ elapsed_time = [t \in Timers |-> 0]
  /\ at = "main" /\ cur_task = NULL
  /\ active = {}
  /\ age = [t \in Timers |-> 0]
  /\ early = {}

-----------------------------------------------------------------------------
(* The list from head h along the pointers n: Walk(h, n)[k] is what k      *)
(* steps lead to.  It ends when one of the first |Timers| does.            *)
Steps == 0 .. Cardinality(Timers)

Walk(h, n) ==
  LET w[k \in Steps] ==
        IF k = 0 THEN h ELSE IF w[k - 1] = NULL THEN NULL ELSE n[w[k - 1]]
  IN  w

Reach(h, n) == {Walk(h, n)[k] : k \in Steps} \ {NULL}
Ends(h, n) == \E k \in Steps : Walk(h, n)[k] = NULL

Listed == Reach(task_list, next)

(* add_task: t gets NULL for its next and the last task of the list gets t *)
(* for its own; t may be that last task when it was on the list before.    *)
add_task(t) ==
  LET n == [next EXCEPT ![t] = NULL]
  IN  \/ /\ task_list = NULL
         /\ task_list' = t /\ next' = n /\ UNCHANGED at
      \/ /\ task_list # NULL /\ Ends(task_list, n)
         /\ \E last \in Reach(task_list, n) :
              n[last] = NULL /\ next' = [n EXCEPT ![last] = t]
         /\ UNCHANGED <<task_list, at>>
      \/ /\ task_list # NULL /\ ~Ends(task_list, n)
         /\ next' = n /\ at' = "hung" /\ UNCHANGED task_list

timer_start(t, count, ticks) ==
  /\ Restart \/ t \notin active
  /\ max_run_count' = [max_run_count EXCEPT ![t] = count]
  /\ interval' = [interval EXCEPT ![t] = ticks]
  /\ run_count' = [run_count EXCEPT ![t] = 0]
  /\ elapsed_time' = [elapsed_time EXCEPT ![t] = 0]
  /\ add_task(t)
  /\ active' = active \cup {t}
  /\ age' = [age EXCEPT ![t] = 0]
  /\ early' = IF at = "callback" THEN early \cup {t} ELSE early \ {t}
  /\ UNCHANGED cur_task

(* The main program starts timers between two walks, a callback during one.*)
(* A callback does not start its own timer, which is still listed, unless  *)
(* Restart allows it.                                                      *)
Start ==
  /\ at \in {"main", "callback"}
  /\ \E t \in Timers, count \in MaxCounts, ticks \in Intervals :
       timer_start(t, count, ticks)

-----------------------------------------------------------------------------
(* timer_handle and task_loop *)

timer_handle ==
  /\ at = "main"
  /\ cur_task' = task_list
  /\ at' = IF task_list = NULL THEN "main" ELSE "walk"
  /\ age' = [t \in Timers |-> IF t \in active THEN age[t] + 1 ELSE 0]
  /\ UNCHANGED <<task_list, next, run_count, elapsed_time, fields, active, early>>

(* Mutant of Advance: the walk stays where it is. *)
AdvanceNot(n) ==
  /\ cur_task' = cur_task
  /\ at' = "walk"

Advance(n) ==
  /\ cur_task' = n
  /\ at' = IF n = NULL THEN "main" ELSE "walk"

(* Mutant of Due: off by one. *)
DueLate(t) == elapsed_time[t] + 1 > interval[t]

Due(t) == elapsed_time[t] + 1 >= interval[t]

Pass ==
  /\ at = "walk" /\ ~Due(cur_task)
  /\ elapsed_time' = [elapsed_time EXCEPT ![cur_task] = @ + 1]
  /\ Advance(next[cur_task])
  /\ UNCHANGED <<task_list, next, run_count, fields, ghosts>>

Fire ==
  /\ at = "walk" /\ Due(cur_task)
  /\ elapsed_time' = [elapsed_time EXCEPT ![cur_task] = @ + 1]
  /\ at' = "callback"
  /\ UNCHANGED <<task_list, next, run_count, fields, cur_task, ghosts>>

(* Mutant of remove_task: removing the head empties the list. *)
RemoveHeadAndAll(t) ==
  \/ /\ task_list = t
     /\ task_list' = NULL
     /\ UNCHANGED next
  \/ /\ task_list # t
     /\ next' = [u \in Timers |-> IF u \in Listed /\ next[u] = t THEN next[t] ELSE next[u]]
     /\ UNCHANGED task_list

(* remove_task: the task before t on the list, or the head, skips it. *)
remove_task(t) ==
  \/ /\ task_list = t
     /\ task_list' = next[t]
     /\ UNCHANGED next
  \/ /\ task_list # t
     /\ next' = [u \in Timers |-> IF u \in Listed /\ next[u] = t THEN next[t] ELSE next[u]]
     /\ UNCHANGED task_list

Count(n) == IF n < RunCap THEN n + 1 ELSE n

(* Mutants of Finished: one run too many, and no limit at all. *)
FinishedNever(t) == FALSE
FinishedLate(t) == run_count'[t] > max_run_count[t] /\ max_run_count[t] # Always

Finished(t) == run_count'[t] >= max_run_count[t] /\ max_run_count[t] # Always

(* Mutant of Return: the time that has passed is not reset. *)
ReturnNoReset ==
  /\ at = "callback"
  /\ run_count' = [run_count EXCEPT ![cur_task] = Count(@)]
  /\ \/ /\ Finished(cur_task)
        /\ remove_task(cur_task)
        /\ active' = active \ {cur_task}
     \/ /\ ~Finished(cur_task)
        /\ UNCHANGED <<task_list, next, active>>
  /\ age' = [age EXCEPT ![cur_task] = 0]
  /\ early' = early \ {cur_task}
  /\ Advance(next[cur_task])
  /\ UNCHANGED <<fields, elapsed_time>>

(* The callback returns. *)
Return ==
  /\ at = "callback"
  /\ elapsed_time' = [elapsed_time EXCEPT ![cur_task] = 0]
  /\ run_count' = [run_count EXCEPT ![cur_task] = Count(@)]
  /\ \/ /\ Finished(cur_task)
        /\ remove_task(cur_task)
        /\ active' = active \ {cur_task}
     \/ /\ ~Finished(cur_task)
        /\ UNCHANGED <<task_list, next, active>>
  /\ age' = [age EXCEPT ![cur_task] = 0]
  /\ early' = early \ {cur_task}
  /\ Advance(next[cur_task])
  /\ UNCHANGED fields

Handle == timer_handle \/ Pass \/ Fire \/ Return

Next == Start \/ Handle

Spec == Init /\ [][Next]_vars

(* timer_handle is "called continuously in the main loop" and callbacks    *)
(* return; nobody has to start a timer.                                    *)
FairSpec == Spec /\ WF_vars(Handle)

-----------------------------------------------------------------------------
(* Properties *)

(* The ticks between two firings: elapsed_time is compared after it has    *)
(* been incremented, so an interval of 0 is one of 1.                      *)
Period(t) == IF interval[t] = 0 THEN 1 ELSE interval[t]

(* A timer that has been started and has runs left is on the list, and the *)
(* list ends: neither the unlinking of another timer during the walk nor a *)
(* start from a callback loses it or closes the list on itself.            *)
ActiveListed == Listed = active /\ Ends(task_list, next)

(* A timer fires on the tick it is due, never later.  The first firing of  *)
(* one that was started by a callback comes a tick early: the walk that is *)
(* on its way reaches the new task too.                                    *)
OnTime ==
  at = "callback" /\ cur_task \in active =>
    age[cur_task] = IF cur_task \in early THEN Period(cur_task) - 1
                    ELSE Period(cur_task)

(* A timer with n runs fires n times and is then off the list for good. *)
RunsBounded ==
  \A t \in active : max_run_count[t] \notin {0, Always} => run_count[t] < max_run_count[t]

(* A timer with a limit comes to its end. *)
FiniteTimersEnd ==
  \A t \in Timers : (t \in active /\ max_run_count[t] # Always) ~> t \notin active

(* timer_handle returns to the main loop. *)
HandleReturns == (at = "walk") ~> (at = "main")
=============================================================================

-------------------------------- MODULE Dma --------------------------------
(***************************************************************************)
(* The DMA channel manager of src/drivers/sys-dma.c: the table of channels *)
(* that clients request and release, the interrupt registers they share,   *)
(* and sunxi_dma_test, which waits for a transfer under a timeout.         *)
(*                                                                         *)
(* The firmware is one thread and no interrupt handler enters this file:   *)
(* each function is one action, and while sunxi_dma_test waits only the    *)
(* hardware and the clock move.  m_func is never set to anything but NULL, *)
(* so sunxi_dma_install_int and sunxi_dma_free_int never get past their    *)
(* test of it: only what they do to the registers is kept.                 *)
(***************************************************************************)
EXTENDS Integers, FiniteSets

CONSTANTS
  DMA_MAX,   \* SUNXI_DMA_MAX, the channels the driver manages
  Timeout,   \* the 100 ms of sunxi_dma_test, in ticks of its clock
  MaxInit    \* bound: calls of sunxi_dma_init and sunxi_dma_exit

ASSUME DmaAssumption ==
  DMA_MAX \in 1 .. 8 /\ Timeout \in Nat \ {0} /\ MaxInit \in Nat

Channels == 0 .. DMA_MAX - 1

(* The flags of channel c in irq_pending0: half package, package end and   *)
(* queue end.                                                              *)
Flags(c) == {4 * c, 4 * c + 1, 4 * c + 2}

VARIABLES
  ok,        \* dma_init_ok
  used,      \* the channels with used = 1
  enabled,   \* irq_en0: the channels whose package end interrupt is on
  pending,   \* irq_pending0, as the set of its bits
  count,     \* dma_int_cnt
  running,   \* the channels at work: enable, and the bit in status
  held,      \* the channels clients hold a handle of
  test,      \* sunxi_dma_test: what it is doing, with which channel
  waited,    \* sunxi_dma_test: ticks since it took the time
  inits      \* calls of init and exit so far

vars == <<ok, used, enabled, pending, count, running, held, test, waited, inits>>

Idle == [at |-> "idle"]
Poll(c, st) == [at |-> "poll", fd |-> c, st |-> st]
Result(r, c) == [at |-> "returned", result |-> r, fd |-> c]

-----------------------------------------------------------------------------
(* What the functions do to the shared state.  The steps of the code that  *)
(* is modelled stop at `used' being clear: they return -1.                 *)

(* Mutant of CountEnabled: no test for "available already". *)
CountAlways(c) == count + 1

CountEnabled(c) == IF c \in enabled THEN count ELSE count + 1

(* sunxi_dma_disable_int, in a state with `used' as U. *)
StillEnabled(U, c) == IF c \in U THEN enabled \ {c} ELSE enabled
CountDisabled(U, c) == IF c \in U \cap enabled /\ count > 0 THEN count - 1 ELSE count

(* Writing ones to irq_pending0 clears these bits: install_int shifts by   *)
(* four bits a channel, free_int by one.                                   *)
InstallClears(c) == {4 * c, 4 * c + 1, 4 * c + 2}
FreeClears(c) == {c, c + 1, c + 2}

(* The channel for a new request: the search runs up or down the table. *)
FirstFree(c) == c \in Channels \ used /\ \A d \in Channels : d < c => d \in used
LastFree(c) == c \in Channels \ used /\ \A d \in Channels : d > c => d \in used

-----------------------------------------------------------------------------
Init ==
  /\ ok = -1
  /\ used = {} /\ enabled = {} /\ pending = {} /\ count = 0 /\ running = {}
  /\ held = {} /\ test = Idle /\ waited = 0 /\ inits = 0

sunxi_dma_init ==
  /\ test.at = "idle" /\ inits < MaxInit
  /\ inits' = inits + 1
  /\ \/ /\ ok > 0
        /\ UNCHANGED <<ok, used, enabled, pending, count>>
     \/ /\ ok <= 0
        /\ ok' = 1
        /\ used' = {} /\ enabled' = {} /\ pending' = {} /\ count' = 0
  /\ UNCHANGED <<running, held, test, waited>>

(* Every channel in use is stopped and marked unused; the calls of         *)
(* disable_int and free_int that follow return at once, because `used' is  *)
(* clear by then.  The clients' handles end here.                          *)
sunxi_dma_exit ==
  /\ test.at = "idle" /\ inits < MaxInit /\ ok > 0
  /\ inits' = inits + 1
  /\ running' = running \ used
  /\ used' = {} /\ held' = {}
  /\ enabled' = {} /\ pending' = {}
  /\ ok' = ok - 1
  /\ UNCHANGED <<count, test, waited>>

-----------------------------------------------------------------------------
(* The functions a client calls with a handle it holds *)

(* Mutant of Take: the channel is handed out, not marked. *)
TakeUnmarked(c) ==
  /\ held' = held \cup {c}
  /\ UNCHANGED used

Take(c) ==
  /\ used' = used \cup {c}
  /\ held' = held \cup {c}

(* sunxi_dma_request and sunxi_dma_request_from_last; with no free channel *)
(* they return 0.                                                          *)
Request ==
  /\ \E c \in Channels : (FirstFree(c) \/ LastFree(c)) /\ Take(c)
  /\ UNCHANGED <<ok, enabled, pending, count, running, test, waited, inits>>

sunxi_dma_install_int(c) ==
  /\ c \in used
  /\ pending' = pending \ InstallClears(c)
  /\ UNCHANGED <<ok, used, enabled, count, running, held, test, waited, inits>>

sunxi_dma_enable_int(c) ==
  /\ c \in used
  /\ enabled' = enabled \cup {c}
  /\ count' = CountEnabled(c)
  /\ UNCHANGED <<ok, used, pending, running, held, test, waited, inits>>

sunxi_dma_disable_int(c) ==
  /\ enabled' = StillEnabled(used, c)
  /\ count' = CountDisabled(used, c)
  /\ UNCHANGED <<ok, used, pending, running, held, test, waited, inits>>

sunxi_dma_free_int(c) ==
  /\ c \in used
  /\ pending' = pending \ FreeClears(c)
  /\ UNCHANGED <<ok, used, enabled, count, running, held, test, waited, inits>>

sunxi_dma_start(c) ==
  /\ c \in used
  /\ running' = running \cup {c}
  /\ UNCHANGED <<ok, used, enabled, pending, count, held, test, waited, inits>>

sunxi_dma_stop(c) ==
  /\ c \in used
  /\ running' = running \ {c}
  /\ UNCHANGED <<ok, used, enabled, pending, count, held, test, waited, inits>>

(* Mutant of Release: the channel is marked unused before its interrupt is *)
(* disabled, the order of sunxi_dma_exit.                                  *)
ReleaseUnusedFirst(c) ==
  /\ enabled' = StillEnabled(used \ {c}, c)
  /\ count' = CountDisabled(used \ {c}, c)
  /\ used' = used \ {c}
  /\ held' = held \ {c}
  /\ UNCHANGED pending

(* sunxi_dma_release *)
Release(c) ==
  /\ enabled' = StillEnabled(used, c)
  /\ count' = CountDisabled(used, c)
  /\ pending' = pending \ FreeClears(c)
  /\ used' = used \ {c}
  /\ held' = held \ {c}

(* Clients stop a transfer before they give its channel back, as           *)
(* sunxi_dma_test does.                                                    *)
sunxi_dma_release(c) ==
  /\ c \in used \ running
  /\ Release(c)
  /\ UNCHANGED <<ok, running, test, waited, inits>>

Client ==
  /\ test.at = "idle" /\ ok > 0
  /\ \/ Request
     \/ \E c \in held :
          \/ sunxi_dma_install_int(c) \/ sunxi_dma_enable_int(c)
          \/ sunxi_dma_disable_int(c) \/ sunxi_dma_free_int(c)
          \/ sunxi_dma_start(c) \/ sunxi_dma_stop(c) \/ sunxi_dma_release(c)

-----------------------------------------------------------------------------
(* sunxi_dma_test *)

TestBegin ==
  /\ test.at = "idle" /\ ok > 0
  /\ waited' = 0
  /\ \/ /\ Channels \subseteq used
        /\ test' = Result("no channel", 0)
        /\ UNCHANGED <<used, held, running>>
     \/ \E c \in Channels :
          /\ FirstFree(c)
          /\ Take(c)
          /\ running' = running \cup {c}
          /\ test' = Poll(c, 1)
  /\ UNCHANGED <<ok, enabled, pending, count, inits>>

(* Mutant of KeepPolling: the timeout is forgotten. *)
PollForEver == test.st = 1

KeepPolling == waited < Timeout /\ test.st = 1

(* Mutant of sunxi_dma_querystatus: the status is not shifted. *)
QueryUnshifted(c) == IF 0 \in running THEN 1 ELSE 0

sunxi_dma_querystatus(c) == IF c \in running THEN 1 ELSE 0

TestPoll ==
  /\ test.at = "poll"
  /\ KeepPolling
  /\ test' = [test EXCEPT !.st = sunxi_dma_querystatus(test.fd)]
  /\ UNCHANGED <<ok, used, enabled, pending, count, running, held, waited, inits>>

TestCleanUp(c, r) ==
  /\ running' = running \ {c}
  /\ Release(c)
  /\ test' = Result(r, c)

(* The loop is left, and whether the transfer is over is what the last     *)
(* query said, not what is so now.                                         *)
TestEnd ==
  /\ test.at = "poll"
  /\ ~KeepPolling
  /\ TestCleanUp(test.fd, IF test.st = 1 THEN "timeout" ELSE "done")
  /\ UNCHANGED <<ok, waited, inits>>

TestReturn ==
  /\ test.at = "returned"
  /\ test' = Idle
  /\ waited' = 0
  /\ UNCHANGED <<ok, used, enabled, pending, count, running, held, inits>>

Test == TestPoll \/ TestEnd \/ TestReturn

-----------------------------------------------------------------------------
(* The hardware: a transfer ends and raises its flags; time passes. *)

Complete ==
  /\ \E c \in running :
       /\ running' = running \ {c}
       /\ pending' = pending \cup Flags(c)
  /\ UNCHANGED <<ok, used, enabled, count, held, test, waited, inits>>

Tick ==
  /\ test.at = "poll" /\ waited < Timeout
  /\ waited' = waited + 1
  /\ UNCHANGED <<ok, used, enabled, pending, count, running, held, test, inits>>

Next ==
  \/ sunxi_dma_init \/ sunxi_dma_exit \/ Client
  \/ TestBegin \/ Test \/ Complete \/ Tick

Spec == Init /\ [][Next]_vars

(* The thread runs and the clock advances; nothing makes a transfer end. *)
FairSpec == Spec /\ WF_vars(Test) /\ WF_vars(Tick)

-----------------------------------------------------------------------------
(* Properties *)

(* The type of every variable. *)
TypeOK ==
  /\ ok \in {-1, 0, 1}
  /\ used \subseteq Channels /\ enabled \subseteq Channels
  /\ running \subseteq Channels /\ held \subseteq Channels
  /\ pending \subseteq 0 .. 4 * DMA_MAX - 1
  /\ count \in 0 .. DMA_MAX
  /\ waited \in 0 .. Timeout
  /\ inits \in 0 .. MaxInit

(* A channel is marked used exactly while a client holds its handle: none  *)
(* is given out twice and none is lost, on any path of sunxi_dma_test.     *)
UsedIsHeld == used = held

(* dma_int_cnt counts the interrupts that are on, however often they are   *)
(* enabled and disabled.                                                   *)
CountIsEnabled == ok > 0 => count = Cardinality(enabled)

(* A channel nobody uses neither runs nor interrupts: what its last user   *)
(* left behind cannot reach the next one.                                  *)
UnusedIsQuiet == running \cup enabled \subseteq used

(* sunxi_dma_test never takes a transfer that is still at work for done. *)
DoneMeansOver ==
  test.at = "poll" /\ test.st = 0 => test.fd \notin running

(* sunxi_dma_test returns although the transfer may never end. *)
TestReturns == test.at = "poll" ~> test.at = "returned"
=============================================================================

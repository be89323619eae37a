----------------------------- MODULE DmaProofs -----------------------------
(***************************************************************************)
(* Proofs about Dma for every number of channels, every timeout and any    *)
(* number of calls of init and exit: channels have one owner, the count of *)
(* interrupts is right, unused channels are quiet, and sunxi_dma_test does *)
(* not take a transfer at work for done.                                   *)
(***************************************************************************)
EXTENDS Dma, FiniteSetTheorems, TLAPS

(* What sunxi_dma_test is doing is one of three things. *)
IsTest(t) ==
  \/ t = Idle
  \/ \E c \in Channels, st \in {0, 1} : t = Poll(c, st)
  \/ \E r \in {"no channel", "timeout", "done"}, c \in Nat : t = Result(r, c)

Types ==
  /\ ok \in {-1, 0, 1}
  /\ used \subseteq Channels /\ pending \subseteq 0 .. 4 * DMA_MAX - 1
  /\ waited \in 0 .. Timeout /\ inits \in 0 .. MaxInit
  /\ IsTest(test)

(* Whoever uses a channel holds it, and only those run or interrupt.       *)
(* Before init and after exit there are none.                              *)
Owned ==
  /\ used = held
  /\ running \subseteq used /\ enabled \subseteq used
  /\ ok # 1 => used = {}

(* dma_int_cnt, which exit leaves behind and the next init resets. *)
Counted ==
  /\ count \in 0 .. DMA_MAX
  /\ ok = 1 => count = Cardinality(enabled)

(* While sunxi_dma_test waits it holds its channel, and once a query has   *)
(* said that the transfer is over it is.                                   *)
Tested ==
  test.at = "poll" => /\ ok = 1 /\ test.fd \in used
                      /\ test.st = 0 => test.fd \notin running

(* The inductive invariant. *)
IInv == Types /\ Owned /\ Counted /\ Tested

-----------------------------------------------------------------------------
(* The table is finite, and a set of its channels has at most DMA_MAX. *)
LEMMA ChannelsFinite ==
  /\ IsFiniteSet(Channels) /\ Cardinality(Channels) = DMA_MAX
  /\ \A S \in SUBSET Channels :
       IsFiniteSet(S) /\ Cardinality(S) \in Nat /\ Cardinality(S) <= DMA_MAX
<1>1. DMA_MAX \in Nat /\ 0 \in Int /\ DMA_MAX - 1 \in Int /\ ~(0 > DMA_MAX - 1)
  BY DmaAssumption
<1>2. IsFiniteSet(Channels) /\ Cardinality(Channels) = DMA_MAX
  <2>1. /\ IsFiniteSet(0 .. DMA_MAX - 1)
        /\ Cardinality(0 .. DMA_MAX - 1) = (DMA_MAX - 1) - 0 + 1
    BY <1>1, FS_Interval
  <2> QED BY <1>1, <2>1 DEF Channels
<1>3. ASSUME NEW S \in SUBSET Channels
      PROVE  IsFiniteSet(S) /\ Cardinality(S) \in Nat /\ Cardinality(S) <= DMA_MAX
  BY <1>2, FS_Subset, FS_CardinalityType
<1> QED BY <1>2, <1>3

(* The flags of a channel lie in irq_pending0. *)
LEMMA FlagsInRegister ==
  ASSUME NEW c \in Channels
  PROVE  Flags(c) \subseteq 0 .. 4 * DMA_MAX - 1
  BY DmaAssumption DEF Channels, Flags

(* Before the first init there is nothing to own, count or wait for.       *)
LEMMA InitInv == Init => IInv
<1> SUFFICES ASSUME Init PROVE IInv
  OBVIOUS
<1>1. Types
  BY DmaAssumption DEF Init, Types, IsTest
<1>2. Owned /\ Tested
  BY DEF Init, Owned, Tested, Idle
<1>3. Counted
  BY DmaAssumption DEF Init, Counted
<1> QED BY <1>1, <1>2, <1>3 DEF IInv

(* Enabling and disabling an interrupt keeps the count. *)
LEMMA EnableCounts ==
  ASSUME enabled \subseteq Channels, count = Cardinality(enabled), NEW c \in Channels
  PROVE  /\ CountEnabled(c) = Cardinality(enabled \cup {c})
         /\ CountEnabled(c) \in 0 .. DMA_MAX
<1>1. IsFiniteSet(enabled) /\ enabled \cup {c} \in SUBSET Channels
  BY ChannelsFinite
<1>2. CountEnabled(c) = Cardinality(enabled \cup {c})
  <2>1. CASE c \in enabled
    BY <1>1, <2>1, FS_AddElement DEF CountEnabled
  <2>2. CASE c \notin enabled
    BY <1>1, <2>2, FS_AddElement DEF CountEnabled
  <2> QED BY <2>1, <2>2
<1>3. Cardinality(enabled \cup {c}) \in Nat /\ Cardinality(enabled \cup {c}) <= DMA_MAX
  BY <1>1, ChannelsFinite
<1> QED BY <1>2, <1>3, DmaAssumption

(* Disabling one channel takes it from the enabled ones and one off the    *)
(* count, if it was enabled, so that the count stays right.                *)
LEMMA DisableCounts ==
  ASSUME enabled \subseteq used, used \subseteq Channels, count = Cardinality(enabled),
         NEW c \in Channels
  PROVE  /\ StillEnabled(used, c) = enabled \ {c}
         /\ CountDisabled(used, c) = Cardinality(enabled \ {c})
         /\ CountDisabled(used, c) \in 0 .. DMA_MAX
<1>1. IsFiniteSet(enabled) /\ enabled \ {c} \in SUBSET Channels
  BY ChannelsFinite
<1>2. StillEnabled(used, c) = enabled \ {c}
  BY DEF StillEnabled
<1>3. CountDisabled(used, c) = Cardinality(enabled \ {c})
  <2>1. CASE c \in enabled
    <3>1. Cardinality(enabled) \in Nat /\ Cardinality(enabled) # 0
      BY <1>1, <2>1, FS_CardinalityType, FS_EmptySet
    <3>2. Cardinality(enabled \ {c}) = Cardinality(enabled) - 1
      BY <1>1, <2>1, FS_RemoveElement
    <3>3. c \in used \cap enabled /\ count > 0
      BY <2>1, <3>1
    <3> QED BY <3>2, <3>3 DEF CountDisabled
  <2>2. CASE c \notin enabled
    BY <1>1, <2>2, FS_RemoveElement DEF CountDisabled
  <2> QED BY <2>1, <2>2
<1>4. Cardinality(enabled \ {c}) \in Nat /\ Cardinality(enabled \ {c}) <= DMA_MAX
  BY <1>1, ChannelsFinite
<1> QED BY <1>2, <1>3, <1>4, DmaAssumption

-----------------------------------------------------------------------------
(* init and exit *)

(* Init enters with an empty table: no channel is used, none is enabled.   *)
LEMMA InitStep ==
  ASSUME IInv, sunxi_dma_init
  PROVE  IInv'
<1>1. /\ test.at = "idle" /\ UNCHANGED <<running, held, test, waited>>
      /\ inits < MaxInit /\ inits' = inits + 1
  BY DEF sunxi_dma_init
<1>2. inits' \in 0 .. MaxInit
  BY <1>1, DmaAssumption DEF IInv, Types
<1>3. CASE ok > 0 /\ UNCHANGED <<ok, used, enabled, pending, count>>
  BY <1>1, <1>2, <1>3 DEF IInv, Types, Owned, Counted, Tested
<1>4. CASE /\ ok <= 0 /\ ok' = 1
           /\ used' = {} /\ enabled' = {} /\ pending' = {} /\ count' = 0
  <2>1. used = {} /\ held = {} /\ running = {}
    BY <1>4 DEF IInv, Types, Owned
  <2>2. Types' /\ Owned' /\ Tested'
    BY <1>1, <1>2, <1>4, <2>1 DEF IInv, Types, Owned, Tested
  <2>3. Counted'
    BY <1>4, FS_EmptySet, DmaAssumption DEF Counted
  <2> QED BY <2>2, <2>3 DEF IInv
<1> QED BY <1>3, <1>4 DEF sunxi_dma_init

(* Exit leaves no channel used, running or enabled; dma_int_cnt may stay.  *)
LEMMA ExitStep ==
  ASSUME IInv, sunxi_dma_exit
  PROVE  IInv'
<1>1. /\ test.at = "idle" /\ UNCHANGED <<count, test, waited>>
      /\ inits < MaxInit /\ inits' = inits + 1
      /\ running' = running \ used /\ used' = {} /\ held' = {}
      /\ enabled' = {} /\ pending' = {}
      /\ ok > 0 /\ ok' = ok - 1
  BY DEF sunxi_dma_exit
<1>2. inits' \in 0 .. MaxInit
  BY <1>1, DmaAssumption DEF IInv, Types
<1>3. ok = 1 /\ ok' = 0
  BY <1>1 DEF IInv, Types
<1>4. running' = {}
  BY <1>1 DEF IInv, Owned
<1>5. Types'
  BY <1>1, <1>2, <1>3 DEF IInv, Types
<1>6. Owned' /\ Tested'
  BY <1>1, <1>4 DEF Owned, Tested
<1>7. Counted'
  BY <1>1, <1>3 DEF IInv, Counted
<1> QED BY <1>5, <1>6, <1>7 DEF IInv

-----------------------------------------------------------------------------
(* The functions a client calls.  None of them is called while             *)
(* sunxi_dma_test waits.                                                   *)
LEMMA RequestStep ==
  ASSUME IInv, ok > 0, test.at = "idle", Request
  PROVE  IInv'
<1>1. PICK c \in Channels : Take(c)
  BY DEF Request
<1>2. UNCHANGED <<ok, enabled, pending, count, running, test, waited, inits>>
  BY DEF Request
<1>3. used' = used \cup {c} /\ held' = held \cup {c} /\ ok = 1
  BY <1>1 DEF Take, IInv, Types
<1>4. Types' /\ Owned' /\ Counted' /\ Tested'
  BY <1>2, <1>3 DEF IInv, Types, Owned, Counted, Tested
<1> QED BY <1>4 DEF IInv

(* Clearing pending bits. *)
LEMMA PendingStep ==
  ASSUME IInv, NEW c \in Channels, sunxi_dma_install_int(c) \/ sunxi_dma_free_int(c)
  PROVE  IInv'
<1>1. /\ pending' \subseteq pending
      /\ UNCHANGED <<ok, used, enabled, count, running, held, test, waited, inits>>
  BY DEF sunxi_dma_install_int, sunxi_dma_free_int
<1>2. Types' /\ Owned' /\ Counted' /\ Tested'
  BY <1>1 DEF IInv, Types, Owned, Counted, Tested
<1> QED BY <1>2 DEF IInv

(* sunxi_dma_enable_int counts a channel only the first time.              *)
LEMMA EnableStep ==
  ASSUME IInv, ok > 0, NEW c \in Channels, sunxi_dma_enable_int(c)
  PROVE  IInv'
<1>1. /\ c \in used /\ enabled' = enabled \cup {c} /\ count' = CountEnabled(c)
      /\ UNCHANGED <<ok, used, pending, running, held, test, waited, inits>>
  BY DEF sunxi_dma_enable_int
<1>2. ok = 1 /\ enabled \subseteq Channels /\ count = Cardinality(enabled)
  BY DEF IInv, Types, Owned, Counted
<1>3. Counted'
  BY <1>1, <1>2, EnableCounts DEF Counted
<1>4. Types' /\ Owned' /\ Tested'
  BY <1>1, <1>2 DEF IInv, Types, Owned, Tested
<1> QED BY <1>3, <1>4 DEF IInv

(* sunxi_dma_disable_int gives back at most what enabling counted.         *)
LEMMA DisableStep ==
  ASSUME IInv, ok > 0, NEW c \in Channels, sunxi_dma_disable_int(c)
  PROVE  IInv'
<1>1. /\ enabled' = StillEnabled(used, c) /\ count' = CountDisabled(used, c)
      /\ UNCHANGED <<ok, used, pending, running, held, test, waited, inits>>
  BY DEF sunxi_dma_disable_int
<1>2. /\ ok = 1 /\ enabled \subseteq used /\ used \subseteq Channels
      /\ count = Cardinality(enabled)
  BY DEF IInv, Types, Owned, Counted
<1>3. enabled' = enabled \ {c} /\ Counted'
  BY <1>1, <1>2, DisableCounts DEF Counted
<1>4. Types' /\ Owned' /\ Tested'
  BY <1>1, <1>2, <1>3 DEF IInv, Types, Owned, Tested
<1> QED BY <1>3, <1>4 DEF IInv

(* Starting or stopping touches only a channel that is used.               *)
LEMMA RunStep ==
  ASSUME IInv, test.at = "idle", NEW c \in Channels,
         sunxi_dma_start(c) \/ sunxi_dma_stop(c)
  PROVE  IInv'
<1>1. /\ running' \subseteq running \cup {c} /\ c \in used
      /\ UNCHANGED <<ok, used, enabled, pending, count, held, test, waited, inits>>
  BY DEF sunxi_dma_start, sunxi_dma_stop
<1>2. Types' /\ Owned' /\ Counted' /\ Tested'
  BY <1>1 DEF IInv, Types, Owned, Counted, Tested
<1> QED BY <1>2 DEF IInv

(* What sunxi_dma_release does to a channel that is not running: its       *)
(* interrupt is off and counted off before the channel is unused.          *)
LEMMA ReleaseFacts ==
  ASSUME IInv, ok > 0, NEW c \in Channels, Release(c)
  PROVE  /\ used' = used \ {c} /\ held' = held \ {c}
         /\ enabled' = enabled \ {c}
         /\ pending' \subseteq pending
         /\ Counted'
<1>1. /\ enabled' = StillEnabled(used, c) /\ count' = CountDisabled(used, c)
      /\ used' = used \ {c} /\ held' = held \ {c} /\ pending' \subseteq pending
  BY DEF Release
<1>2. /\ ok = 1 /\ enabled \subseteq used /\ used \subseteq Channels
      /\ count = Cardinality(enabled)
  BY DEF IInv, Types, Owned, Counted
<1>3. enabled' = enabled \ {c} /\ Counted'
  BY <1>1, <1>2, DisableCounts DEF Counted
<1> QED BY <1>1, <1>3

(* A release turns the interrupt off before the channel becomes unused.    *)
LEMMA ReleaseStep ==
  ASSUME IInv, ok > 0, test.at = "idle", NEW c \in Channels, sunxi_dma_release(c)
  PROVE  IInv'
<1>1. /\ c \notin running /\ Release(c)
      /\ UNCHANGED <<ok, running, test, waited, inits>>
  BY DEF sunxi_dma_release
<1>2. /\ used' = used \ {c} /\ held' = held \ {c}
      /\ enabled' = enabled \ {c} /\ pending' \subseteq pending /\ Counted'
  BY <1>1, ReleaseFacts
<1>3. Types' /\ Owned' /\ Tested'
  BY <1>1, <1>2 DEF IInv, Types, Owned, Tested
<1> QED BY <1>2, <1>3 DEF IInv

(* Every call of a client keeps the invariant.                             *)
LEMMA ClientStep ==
  ASSUME IInv, Client
  PROVE  IInv'
<1>1. test.at = "idle" /\ ok > 0
  BY DEF Client
<1>2. CASE Request
  BY <1>1, <1>2, RequestStep
<1>3. ASSUME NEW c \in held,
             \/ sunxi_dma_install_int(c) \/ sunxi_dma_enable_int(c)
             \/ sunxi_dma_disable_int(c) \/ sunxi_dma_free_int(c)
             \/ sunxi_dma_start(c) \/ sunxi_dma_stop(c) \/ sunxi_dma_release(c)
      PROVE  IInv'
  <2>1. c \in Channels
    BY DEF IInv, Types, Owned
  <2> QED BY <1>1, <1>3, <2>1, PendingStep, EnableStep, DisableStep, RunStep, ReleaseStep
<1> QED BY <1>2, <1>3 DEF Client

-----------------------------------------------------------------------------
(* sunxi_dma_test *)

(* The fields of what it is doing. *)
LEMMA PollFields ==
  ASSUME IsTest(test), test.at = "poll"
  PROVE  /\ test.fd \in Channels /\ test.st \in {0, 1}
         /\ \A st \in {0, 1} :
              /\ IsTest([test EXCEPT !.st = st])
              /\ [test EXCEPT !.st = st].at = "poll"
              /\ [test EXCEPT !.st = st].fd = test.fd
              /\ [test EXCEPT !.st = st].st = st
<1>1. PICK c \in Channels, z \in {0, 1} : test = Poll(c, z)
  <2>1. test # Idle
    BY DEF Idle
  <2>2. ASSUME NEW r \in {"no channel", "timeout", "done"}, NEW d \in Nat
        PROVE  test # Result(r, d)
    <3>1. Result(r, d).at = "returned"
      BY DEF Result
    <3> QED BY <3>1
  <2> QED BY <2>1, <2>2 DEF IsTest
<1>2. test.fd = c /\ test.st = z
  BY <1>1 DEF Poll
<1>3. ASSUME NEW st \in {0, 1}
      PROVE  [test EXCEPT !.st = st] = Poll(c, st)
  BY <1>1 DEF Poll
<1>4. ASSUME NEW st \in {0, 1} PROVE IsTest(Poll(c, st))
  BY DEF IsTest
<1>5. ASSUME NEW st \in {0, 1}
      PROVE  Poll(c, st).at = "poll" /\ Poll(c, st).fd = c /\ Poll(c, st).st = st
  BY DEF Poll
<1> QED BY <1>2, <1>3, <1>4, <1>5

(* What it returns. *)
LEMMA ResultFields ==
  ASSUME NEW r \in {"no channel", "timeout", "done"}, NEW c \in Nat
  PROVE  IsTest(Result(r, c)) /\ Result(r, c).at = "returned"
<1>1. IsTest(Result(r, c))
  BY DEF IsTest
<1>2. Result(r, c).at = "returned"
  BY DEF Result
<1> QED BY <1>1, <1>2

(* sunxi_dma_test waits only for a channel it has just requested.          *)
LEMMA TestBeginStep ==
  ASSUME IInv, TestBegin
  PROVE  IInv'
<1>1. /\ ok > 0 /\ waited' = 0
      /\ UNCHANGED <<ok, enabled, pending, count, inits>>
  BY DEF TestBegin
<1>2. ok = 1 /\ waited' \in 0 .. Timeout
  BY <1>1, DmaAssumption DEF IInv, Types
<1>3. CASE test' = Result("no channel", 0) /\ UNCHANGED <<used, held, running>>
  <2>1. IsTest(test') /\ test'.at = "returned"
    BY <1>3, ResultFields
  <2>2. Types' /\ Owned' /\ Counted' /\ Tested'
    BY <1>1, <1>2, <1>3, <2>1 DEF IInv, Types, Owned, Counted, Tested
  <2> QED BY <2>2 DEF IInv
<1>4. ASSUME NEW c \in Channels, Take(c), running' = running \cup {c}, test' = Poll(c, 1)
      PROVE  IInv'
  <2>1. /\ IsTest(test') /\ test'.at = "poll" /\ test'.fd = c /\ test'.st = 1
    BY <1>4 DEF Poll, IsTest
  <2>2. used' = used \cup {c} /\ held' = held \cup {c}
    BY <1>4 DEF Take
  <2>3. Types' /\ Owned' /\ Counted' /\ Tested'
    BY <1>1, <1>2, <1>4, <2>1, <2>2 DEF IInv, Types, Owned, Counted, Tested
  <2> QED BY <2>3 DEF IInv
<1> QED BY <1>3, <1>4 DEF TestBegin

(* What a query says of the channel is true when the loop looks at it.     *)
LEMMA TestPollStep ==
  ASSUME IInv, TestPoll
  PROVE  IInv'
<1>1. /\ test.at = "poll"
      /\ test' = [test EXCEPT !.st = sunxi_dma_querystatus(test.fd)]
      /\ UNCHANGED <<ok, used, enabled, pending, count, running, held, waited, inits>>
  BY DEF TestPoll
<1>2. /\ sunxi_dma_querystatus(test.fd) \in {0, 1}
      /\ sunxi_dma_querystatus(test.fd) = 0 => test.fd \notin running
  BY DEF sunxi_dma_querystatus
<1>3. /\ IsTest(test') /\ test'.at = "poll" /\ test'.fd = test.fd
      /\ test'.st = sunxi_dma_querystatus(test.fd)
  BY <1>1, <1>2, PollFields DEF IInv, Types
<1>4. Types' /\ Owned' /\ Counted' /\ Tested'
  BY <1>1, <1>2, <1>3 DEF IInv, Types, Owned, Counted, Tested
<1> QED BY <1>4 DEF IInv

(* The channel is stopped before it is given back. *)
LEMMA TestEndStep ==
  ASSUME IInv, TestEnd
  PROVE  IInv'
<1> DEFINE c == test.fd
           r == IF test.st = 1 THEN "timeout" ELSE "done"
<1>1. /\ test.at = "poll" /\ running' = running \ {c} /\ Release(c)
      /\ test' = Result(r, c) /\ UNCHANGED <<ok, waited, inits>>
  BY DEF TestEnd, TestCleanUp
<1>2. c \in Channels /\ c \in Nat /\ ok > 0
  <2>1. c \in Channels /\ ok = 1
    BY <1>1, PollFields DEF IInv, Types, Tested
  <2> QED BY <2>1, DmaAssumption DEF Channels
<1>3. r \in {"no channel", "timeout", "done"}
  OBVIOUS
<1> HIDE DEF c, r
<1>4. IsTest(test') /\ test'.at = "returned"
  BY <1>1, <1>2, <1>3, ResultFields
<1>5. /\ used' = used \ {c} /\ held' = held \ {c}
      /\ enabled' = enabled \ {c} /\ pending' \subseteq pending /\ Counted'
  BY <1>1, <1>2, ReleaseFacts
<1>6. Types' /\ Owned' /\ Tested'
  BY <1>1, <1>4, <1>5 DEF IInv, Types, Owned, Tested
<1> QED BY <1>5, <1>6 DEF IInv

(* Returning a verdict touches no channel.                                 *)
LEMMA TestReturnStep ==
  ASSUME IInv, TestReturn
  PROVE  IInv'
<1>1. /\ test' = Idle /\ waited' = 0
      /\ UNCHANGED <<ok, used, enabled, pending, count, running, held, inits>>
  BY DEF TestReturn
<1>2. IsTest(test') /\ test'.at = "idle" /\ waited' \in 0 .. Timeout
  BY <1>1, DmaAssumption DEF IsTest, Idle
<1>3. Types' /\ Owned' /\ Counted' /\ Tested'
  BY <1>1, <1>2 DEF IInv, Types, Owned, Counted, Tested
<1> QED BY <1>3 DEF IInv

-----------------------------------------------------------------------------
(* The hardware and the clock *)

(* A transfer that ends raises flags of its own channel only.              *)
LEMMA CompleteStep ==
  ASSUME IInv, Complete
  PROVE  IInv'
<1>1. PICK c \in running :
        running' = running \ {c} /\ pending' = pending \cup Flags(c)
  BY DEF Complete
<1>2. UNCHANGED <<ok, used, enabled, count, held, test, waited, inits>>
  BY DEF Complete
<1>3. pending' \subseteq 0 .. 4 * DMA_MAX - 1
  <2>1. c \in Channels /\ pending \subseteq 0 .. 4 * DMA_MAX - 1
    BY DEF IInv, Types, Owned
  <2>2. Flags(c) \subseteq 0 .. 4 * DMA_MAX - 1
    BY <2>1, FlagsInRegister
  <2> QED BY <1>1, <2>1, <2>2
<1>4. Types' /\ Owned' /\ Counted' /\ Tested'
  BY <1>1, <1>2, <1>3 DEF IInv, Types, Owned, Counted, Tested
<1> QED BY <1>4 DEF IInv

(* The clock moves up to the limit of the poll and touches no channel.     *)
LEMMA TickStep ==
  ASSUME IInv, Tick
  PROVE  IInv'
<1>1. /\ waited < Timeout /\ waited' = waited + 1
      /\ UNCHANGED <<ok, used, enabled, pending, count, running, held, test, inits>>
  BY DEF Tick
<1>2. waited' \in 0 .. Timeout
  BY <1>1, DmaAssumption DEF IInv, Types
<1>3. Types' /\ Owned' /\ Counted' /\ Tested'
  BY <1>1, <1>2 DEF IInv, Types, Owned, Counted, Tested
<1> QED BY <1>3 DEF IInv

-----------------------------------------------------------------------------
(* The invariant, one step per action. *)
LEMMA Invariance == Spec => []IInv
<1>1. IInv /\ [Next]_vars => IInv'
  <2> SUFFICES ASSUME IInv, [Next]_vars PROVE IInv'
    OBVIOUS
  <2>1. CASE sunxi_dma_init
    BY <2>1, InitStep
  <2>2. CASE sunxi_dma_exit
    BY <2>2, ExitStep
  <2>3. CASE Client
    BY <2>3, ClientStep
  <2>4. CASE TestBegin
    BY <2>4, TestBeginStep
  <2>5. CASE TestPoll
    BY <2>5, TestPollStep
  <2>6. CASE TestEnd
    BY <2>6, TestEndStep
  <2>7. CASE TestReturn
    BY <2>7, TestReturnStep
  <2>8. CASE Complete
    BY <2>8, CompleteStep
  <2>9. CASE Tick
    BY <2>9, TickStep
  <2>10. CASE UNCHANGED vars
    BY <2>10 DEF IInv, Types, Owned, Counted, Tested, vars
  <2> QED BY <2>1, <2>2, <2>3, <2>4, <2>5, <2>6, <2>7, <2>8, <2>9, <2>10 DEF Next, Test
<1> QED BY <1>1, InitInv, PTL DEF Spec

(* Every variable of the channel manager keeps its type; the pending flags *)
(* stay within the register and the count within the table.                *)
THEOREM DmaTypeCorrect == Spec => []TypeOK
<1>1. IInv => TypeOK
  BY DEF IInv, Types, Owned, Counted, TypeOK
<1> QED BY <1>1, Invariance, PTL

(* However many channels there are: used means held, by one client. *)
THEOREM DmaUsedIsHeld == Spec => []UsedIsHeld
<1>1. IInv => UsedIsHeld
  BY DEF IInv, Owned, UsedIsHeld
<1> QED BY <1>1, Invariance, PTL

(* However often interrupts are enabled and disabled, dma_int_cnt counts   *)
(* the ones that are on.                                                   *)
THEOREM DmaCountIsEnabled == Spec => []CountIsEnabled
<1>1. IInv => CountIsEnabled
  BY DEF IInv, Types, Counted, CountIsEnabled
<1> QED BY <1>1, Invariance, PTL

(* A channel that is unused, on every path of release, exit and test,      *)
(* neither runs nor interrupts.                                            *)
THEOREM DmaUnusedIsQuiet == Spec => []UnusedIsQuiet
<1>1. IInv => UnusedIsQuiet
  BY DEF IInv, Owned, UnusedIsQuiet
<1> QED BY <1>1, Invariance, PTL

(* Whatever the timeout, sunxi_dma_test takes no transfer at work for done.*)
THEOREM DmaDoneMeansOver == Spec => []DoneMeansOver
<1>1. IInv => DoneMeansOver
  BY DEF IInv, Tested, DoneMeansOver
<1> QED BY <1>1, Invariance, PTL
=============================================================================

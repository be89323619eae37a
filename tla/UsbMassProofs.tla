--------------------------- MODULE UsbMassProofs ---------------------------
(***************************************************************************)
(* Proofs about UsbMass for every number and kind of commands, lengths of  *)
(* writes and bus events, as long as the two restrictions hold under which *)
(* the code is right: a read fits into one packet, and a bus event comes   *)
(* while the main loop waits.                                              *)
(*                                                                         *)
(* The inductive invariant is the list of the stages that a command goes   *)
(* through.  Each says where the main loop and the handler are and what    *)
(* the endpoints, the receive channel and the host have.                   *)
(***************************************************************************)
EXTENDS UsbMass, SequenceTheorems, TLAPS

(* What UsbMassTwoPackets and a bus event in the middle of a command break.*)
Restricted == Quiet /\ MaxIn <= 1

UsbTypeOK ==
  /\ ready \in BOOLEAN /\ enable \in BOOLEAN /\ txReady \in BOOLEAN
  /\ dma \in Nat /\ events \in Nat
  /\ sent \in [cbw : Nat, data : Nat]

NoTx == txFifo = <<>> /\ txReady = FALSE
NoDma == dma = 0
(* Nothing announces data: no completion of an earlier write is left.      *)
NoFlag == enable = FALSE /\ "dma" \notin irq

(* The last answer has been taken and sunxi_usb_write_fifo returns.        *)
Returning ==
  /\ NoTx
  /\ pc \in {"loop", "restore"} \/ (pc = "poll" /\ Len(left) = 1)

(* The data that comes with a write before the DMA is started stays where  *)
(* it is.                                                                  *)
DataBefore ==
  IF asked.kind = "out"
  THEN (rxFifo = None /\ sent.data = 0) \/ (rxFifo = Data(asked.tag) /\ sent.data = 1)
  ELSE rxFifo = None

(* What the host has of the answer before its status.                      *)
DataGot ==
  IF asked.kind = "in" /\ asked.len = 1 THEN << <<Data(asked.tag)>> >> ELSE <<>>

-----------------------------------------------------------------------------
(* Nothing has been asked since the last bus reset.                        *)
Unasked ==
  /\ asked = None /\ "reset" \notin irq /\ pc = "loop"
  /\ status = "IDLE" /\ ready = FALSE
  /\ NoTx /\ NoDma /\ rxFifo = None /\ got = <<>>

(* The bus has been reset, the handler has not run.                        *)
Resetting ==
  /\ asked = None /\ "reset" \in irq /\ pc = "loop"
  /\ NoTx /\ rxFifo = None /\ got = <<>>

Asked == asked \in Commands /\ "reset" \notin irq

(* The command is in the FIFO.                                             *)
Coming ==
  /\ Asked /\ Returning /\ NoDma
  /\ status = "IDLE" /\ ready = FALSE
  /\ rxFifo = asked /\ "rx" \in irq /\ got = <<>> /\ sent.data = 0

(* It is in the buffer, and the loop has not looked at it.                 *)
Received ==
  /\ Asked /\ NoDma
  /\ Returning \/ (NoTx /\ pc = "accept")
  /\ status = "IDLE" /\ ready = TRUE /\ buf = asked
  /\ DataBefore /\ got = <<>>

(* It is decoded, until the channel of a write is started.                 *)
Decoding ==
  /\ Asked /\ NoDma /\ NoTx
  /\ status = "SETUP" /\ ready = TRUE /\ buf = asked
  /\ DataBefore /\ got = <<>>
  /\ \/ pc \in {"loop", "setup"}
     \/ asked.kind = "out" /\ pc \in {"dma_begin", "dma_start"} /\ next = "RECEIVE_DATA" /\ NoFlag
     \/ /\ pc = "commit" /\ csw = asked.tag
        /\ \/ asked.kind = "status" /\ next = "STATUS"
           \/ asked.kind = "in" /\ next = "SEND_DATA" /\ send = asked.len

(* It is malformed and ignored.                                            *)
Dropped ==
  /\ Asked /\ NoDma /\ NoTx
  /\ asked.kind = "bad" /\ buf = asked /\ ready = FALSE /\ rxFifo = None /\ got = <<>>
  /\ \/ pc = "commit" /\ status = "SETUP" /\ next = "IDLE"
     \/ pc = "loop" /\ status = "IDLE"

(* The channel of a write waits for what has not come, and is done when    *)
(* that is announced; or it has not been started, because the handler      *)
(* selected another endpoint.                                              *)
Started ==
  /\ sent.data <= asked.len
  /\ dma = asked.len - sent.data + (IF rxFifo = None THEN 0 ELSE 1)
  /\ (enable = TRUE \/ "dma" \in irq) <=> dma = 0

Unstarted == NoDma /\ NoFlag /\ DataBefore

Writing ==
  /\ Asked /\ NoTx
  /\ asked.kind = "out" /\ ready = TRUE /\ buf = asked /\ got = <<>>
  /\ \/ pc \in {"dma_restore", "commit"} /\ status = "SETUP" /\ next = "RECEIVE_DATA"
     \/ pc = "loop" /\ status = "RECEIVE_DATA"
  /\ rxFifo \in {None, Data(asked.tag)}
  /\ Started \/ Unstarted

Answering ==
  /\ Asked /\ NoDma
  /\ asked.kind \in {"in", "status"} /\ csw = asked.tag
  /\ rxFifo = None

(* A packet p on its way to a host that has got g.                         *)
Sending(p, g) ==
  /\ left = <<p>> /\ got = g
  /\ \/ pc = "begin" /\ NoTx
     \/ /\ irq = {} /\ ep = BulkInEp
        /\ \/ pc = "fill" /\ NoTx
           \/ pc = "arm" /\ txFifo = <<p>> /\ txReady = FALSE
           \/ pc = "poll" /\ txFifo = <<p>> /\ txReady = TRUE

(* The data of a read.                                                     *)
Reading ==
  /\ Answering /\ asked.kind = "in" /\ got = <<>> /\ buf = asked
  /\ \/ /\ status = "SEND_DATA" /\ pc \in {"loop", "send_data"}
        /\ send = asked.len /\ NoTx
     \/ status = "STATUS" /\ asked.len = 0 /\ pc = "begin" /\ left = <<>> /\ NoTx
     \/ status = "STATUS" /\ asked.len = 1 /\ Sending(Data(asked.tag), <<>>)

(* The host has the data.                                                  *)
DataSent ==
  /\ Answering /\ status = "STATUS" /\ buf = asked
  /\ Returning \/ (NoTx /\ pc = "send_csw")
  /\ got = DataGot

(* The status of the command.                                              *)
Concluding ==
  /\ Answering /\ status = "IDLE" /\ ready = FALSE
  /\ Sending(Csw(asked.tag), DataGot)

(* The host has its answer.                                                *)
Over ==
  /\ Answering /\ status = "IDLE" /\ ready = FALSE /\ Returning
  /\ got = Append(DataGot, <<Csw(asked.tag)>>)

Stages ==
  \/ Unasked \/ Resetting \/ Coming \/ Received \/ Decoding \/ Dropped
  \/ Writing \/ Reading \/ DataSent \/ Concluding \/ Over

UsbInv == UsbTypeOK /\ Stages
-----------------------------------------------------------------------------
(* The fields of a command.                                                *)
LEMMA CommandFacts ==
  ASSUME Restricted, NEW c \in Commands
  PROVE  /\ c.item = "cbw" /\ c.tag \in 1 .. MaxTag /\ c.len \in Nat
         /\ c.kind \in {"status", "in", "out", "bad"}
         /\ c.kind = "in" => c.len \in {0, 1}
         /\ c.kind = "out" => c.len > 0
<1>0. PICK k \in Kinds : c \in {Cbw(t, k, n) : t \in 1 .. MaxTag, n \in Lengths(k)}
  BY DEF Commands
<1>1. PICK t \in 1 .. MaxTag, n \in Lengths(k) : c = Cbw(t, k, n)
  BY <1>0
<1>2. k \in {"status", "in", "out", "bad"}
  BY UsbAssumption
<1>3. /\ k = "in" => n \in 0 .. MaxIn
      /\ k = "out" => n \in 1 .. MaxOut
      /\ k \notin {"in", "out"} => n = 0
  BY DEF Lengths
<1>4. n \in Nat /\ (k = "in" => n \in {0, 1}) /\ (k = "out" => n > 0)
  <2>1. CASE k = "in"
    BY <1>3, <2>1, UsbAssumption DEF Restricted
  <2>2. CASE k = "out"
    BY <1>3, <2>2, UsbAssumption
  <2>3. CASE k \notin {"in", "out"}
    BY <1>3, <2>3
  <2> QED BY <2>1, <2>2, <2>3
<1> QED BY <1>1, <1>2, <1>4 DEF Cbw

(* A packet of data, a status, a command and no packet are four things.    *)
LEMMA PacketsDiffer ==
  ASSUME Restricted, NEW c \in Commands, NEW t, NEW u
  PROVE  /\ c # None /\ c # Data(t) /\ Data(t) # None /\ Csw(t) # Data(u)
         /\ Data(t).item = "data" /\ None.item = "none"
<1>1. c.item = "cbw"
  BY CommandFacts
<1>2. Data(t).item = "data" /\ None.item = "none" /\ Csw(t).item = "csw" /\ Data(u).item = "data"
  BY DEF Data, None, Csw
<1> QED BY <1>1, <1>2

(* None of the host's packets is a command that has been answered yet.     *)
LEMMA NotAnswered ==
  ASSUME Restricted, asked \in Commands, got = <<>> \/ got = DataGot
  PROVE  ~Answered
<1>1. CASE got = <<>>
  BY <1>1 DEF Answered
<1>2. CASE got = << <<Data(asked.tag)>> >>
  <2>1. got[Len(got)] = <<Data(asked.tag)>>
    BY <1>2
  <2>2. <<Data(asked.tag)>> # <<Csw(asked.tag)>>
    BY PacketsDiffer
  <2> QED BY <2>1, <2>2 DEF Answered
<1> QED BY <1>1, <1>2 DEF DataGot

(* The state of the two sides stays well typed.                            *)
LEMMA TypeStep == UsbTypeOK /\ Restricted /\ [Next]_vars /\ Stages => UsbTypeOK'
<1> SUFFICES ASSUME UsbTypeOK, Restricted, [Next]_vars, Stages PROVE UsbTypeOK'
  OBVIOUS
<1> USE DEF UsbTypeOK, vars, loopVars, sharedVars, inVars, outVars, hostVars
<1>1. CASE UNCHANGED vars
  BY <1>1
<1>2. CASE MainLoop
  <2>1. CASE Dispatch \/ Accept \/ Commit \/ SendData \/ SendCsw
    BY <2>1 DEF Dispatch, Accept, Commit, SendData, SendCsw
  <2>2. CASE Setup
    BY <2>2 DEF Setup, SetupBad, SetupStatus, SetupIn, SetupOut
  <2>3. CASE DmaBegin \/ DmaRestore
    BY <2>3 DEF DmaBegin, DmaRestore
  <2>4. CASE DmaStart
    <3>1. buf \in Commands
      BY <2>4 DEF DmaStart, Stages, Unasked, Resetting, Coming, Received, Decoding,
             Dropped, Writing, Reading, DataSent, Concluding, Over, Answering, Asked,
             Returning, Sending
    <3> QED BY <2>4, <3>1, CommandFacts DEF DmaStart
  <2>5. CASE WriteBegin \/ WritePacket \/ WriteStatus \/ Poll \/ Restore
    BY <2>5 DEF WriteBegin, WritePacket, WriteStatus, Poll, Restore
  <2> QED BY <1>2, <2>1, <2>2, <2>3, <2>4, <2>5 DEF MainLoop
<1>3. CASE Irq
  <2>1. CASE IrqReset
    BY <2>1 DEF IrqReset
  <2>3. CASE IrqDisconnect
    BY <2>3 DEF IrqDisconnect
  <2>2. CASE IrqEndpoints
    <3>1. ready' \in BOOLEAN
      BY <2>2 DEF IrqEndpoints, eprx_recv_op
    <3>2. enable' \in BOOLEAN
      BY <2>2 DEF IrqEndpoints
    <3> QED BY <2>2, <3>1, <3>2 DEF IrqEndpoints
  <2> QED BY <1>3, <2>1, <2>2, <2>3 DEF Irq
<1>4. CASE DmaTake
  <2>1. dma > 0 /\ dma' = dma - 1
    BY <1>4 DEF DmaTake
  <2>2. dma' \in Nat
    BY <2>1
  <2> QED BY <1>4, <2>2 DEF DmaTake
<1>5. CASE Host
  <2>1. CASE HostCommand
    BY <2>1 DEF HostCommand
  <2>2. CASE HostData
    BY <2>2 DEF HostData
  <2>3. CASE HostTake
    BY <2>3 DEF HostTake
  <2> QED BY <1>5, <2>1, <2>2, <2>3 DEF Host
<1>6. CASE BusEvent
  <2>1. events' \in Nat
    BY <1>6 DEF BusEvent
  <2>2. CASE BusReset
    BY <1>6, <2>1, <2>2 DEF BusEvent, BusReset
  <2>3. CASE BusOther
    BY <1>6, <2>1, <2>3 DEF BusEvent, BusOther
  <2> QED BY <1>6, <2>2, <2>3 DEF BusEvent
<1> QED BY <1>1, <1>2, <1>3, <1>4, <1>5, <1>6 DEF Next

-----------------------------------------------------------------------------
(* The main loop takes a step only when no interrupt is pending, and where *)
(* it is tells which.                                                      *)
LEMMA LoopByPlace ==
  ASSUME MainLoop
  PROVE  /\ irq = {}
         /\ pc = "loop" => Dispatch
         /\ pc = "accept" => Accept
         /\ pc = "setup" => Setup
         /\ pc = "commit" => Commit
         /\ pc = "send_data" => SendData
         /\ pc = "send_csw" => SendCsw
         /\ pc = "dma_begin" => DmaBegin
         /\ pc = "dma_start" => DmaStart
         /\ pc = "dma_restore" => DmaRestore
         /\ pc = "begin" => WriteBegin
         /\ pc = "fill" => WritePacket
         /\ pc = "arm" => WriteStatus
         /\ pc = "poll" => Poll
         /\ pc = "restore" => Restore
BY DEF MainLoop, Dispatch, Accept, Setup, Commit, SendData, SendCsw, DmaBegin, DmaStart,
       DmaRestore, WriteBegin, WritePacket, WriteStatus, Poll, Restore

(* A bus event finds the main loop at rest: it is a reset, or a bit of the *)
(* interrupt status that no stage depends on.                              *)
LEMMA BusStep ==
  ASSUME Restricted, BusEvent
  PROVE  /\ AtRest
         /\ \/ Resetting'
            \/ /\ \E e \in {"misc", "disconnect", "ep0"} : irq' = irq \cup {e}
               /\ UNCHANGED <<pc, loopVars, sharedVars, ep, inVars, outVars, asked, sent, got>>
<1>1. AtRest /\ pc' = "loop"
  BY DEF BusEvent, Restricted, AtRest
<1>2. CASE BusReset
  BY <1>1, <1>2 DEF BusReset, Resetting, NoTx
<1>3. CASE BusOther
  <2>1. Events \ {"reset"} \subseteq {"misc", "disconnect", "ep0"}
    BY UsbAssumption
  <2> QED BY <1>1, <1>3, <2>1 DEF BusOther, BusEvent
<1> QED BY <1>2, <1>3 DEF BusEvent

(* The handler when the bus has not been reset.                            *)
LEMMA IrqStep ==
  ASSUME Irq, "reset" \notin irq
  PROVE  /\ irq # {} /\ irq' \subseteq irq \ {"misc", "disconnect"}
         /\ UNCHANGED <<pc, loopVars, status, inVars, dma, hostVars>>
         /\ \/ irq' = irq \ {"disconnect", "misc"} /\ UNCHANGED <<sharedVars, rxFifo>>
            \/ irq' = {} /\ eprx_recv_op /\ enable' = (enable \/ "dma" \in irq)
BY DEF Irq, IrqReset, IrqDisconnect, IrqEndpoints, sharedVars, outVars, inVars

(* When no command comes, the handler changes nothing but the flag, and    *)
(* that only for a completion.                                             *)
LEMMA IrqQuiet ==
  ASSUME UsbTypeOK, Irq, "reset" \notin irq, NoDma, rxFifo = None \/ ready
  PROVE  /\ UNCHANGED <<pc, loopVars, status, ready, buf, inVars, outVars, hostVars>>
         /\ irq # {} /\ "reset" \notin irq' /\ NoDma' /\ (NoFlag => NoFlag')
<1>1. UNCHANGED <<ready, buf, rxFifo>>
  BY IrqStep DEF eprx_recv_op, sharedVars
<1>2. NoFlag => NoFlag'
  BY IrqStep DEF NoFlag, sharedVars, UsbTypeOK
<1>3. UNCHANGED <<status, dma>>
  BY IrqStep
<1>4. UNCHANGED outVars
  BY <1>1, <1>3 DEF outVars
<1> QED BY IrqStep, <1>1, <1>2, <1>3, <1>4 DEF NoDma

-----------------------------------------------------------------------------
(* A host with no command under way sends one.                             *)
LEMMA CommandStep ==
  ASSUME UsbTypeOK, HostCommand, Returning, NoDma, status = "IDLE", ready = FALSE
  PROVE  Coming'
<1> USE DEF loopVars, sharedVars, inVars, outVars, hostVars, NoTx
<1>1. asked' \in Commands
  <2>1. sent.cbw + 1 \in 1 .. MaxTag
    BY UsbAssumption DEF UsbTypeOK, HostCommand
  <2> QED BY <2>1 DEF HostCommand, Commands
<1> QED BY <1>1 DEF HostCommand, Coming, Asked, Returning, NoDma

(* From each stage a step leads to a stage.                                *)
LEMMA UnaskedStep ==
  ASSUME UsbTypeOK, Restricted, Unasked, Next
  PROVE  Unasked' \/ Resetting' \/ Coming'
<1> USE DEF loopVars, sharedVars, inVars, outVars, hostVars, NoTx
<1>1. ~MainLoop
  BY LoopByPlace DEF Dispatch, Unasked
<1>2. CASE Irq
  BY <1>2, IrqQuiet DEF Unasked
<1>3. ~DmaTake
  BY DEF DmaTake, Unasked, NoDma
<1>4. CASE Host
  <2>1. HostCommand
    BY <1>4 DEF Host, HostData, HostTake, Unasked
  <2> QED BY <2>1, CommandStep DEF Unasked, Returning
<1>5. CASE BusEvent
  <2>1. CASE Resetting'
    BY <2>1
  <2>2. CASE ~Resetting'
    BY <1>5, <2>2, BusStep DEF Unasked, NoDma
  <2> QED BY <2>1, <2>2
<1> QED BY <1>1, <1>2, <1>3, <1>4, <1>5 DEF Next

(* While the reset is pending, everything else waits.                      *)
LEMMA ResettingStep ==
  ASSUME UsbTypeOK, Restricted, Resetting, Next
  PROVE  Unasked' \/ Resetting'
<1> USE DEF loopVars, sharedVars, inVars, outVars, hostVars, NoTx
<1>1. ~MainLoop
  BY DEF MainLoop, Resetting
<1>2. CASE Irq
  BY <1>2 DEF Irq, IrqReset, IrqDisconnect, IrqEndpoints, Resetting, Unasked, NoDma
<1>3. ~DmaTake
  BY DEF DmaTake, Resetting
<1>4. ~Host
  BY DEF Host, HostCommand, HostData, HostTake, Resetting
<1>5. CASE BusEvent
  BY <1>5, BusStep DEF Resetting
<1> QED BY <1>1, <1>2, <1>3, <1>4, <1>5 DEF Next

(* sunxi_usb_write_fifo returns.                                           *)
LEMMA ReturnStep ==
  ASSUME MainLoop, Returning, pc # "loop"
  PROVE  /\ Returning' /\ irq = {}
         /\ UNCHANGED <<csw, send, next, sharedVars, inVars, outVars, irq, hostVars>>
<1> USE DEF loopVars, sharedVars, inVars, outVars, hostVars, NoTx
<1>1. CASE pc = "restore"
  BY <1>1, LoopByPlace DEF Restore, Returning
<1>2. CASE pc = "poll"
  BY <1>2, LoopByPlace DEF Poll, Returning
<1> QED BY <1>1, <1>2 DEF Returning

(* The handler takes the command into the buffer.                          *)
LEMMA ComingStep ==
  ASSUME UsbTypeOK, Restricted, Coming, Next
  PROVE  Coming' \/ Received' \/ Resetting'
<1> USE DEF loopVars, sharedVars, inVars, outVars, hostVars, NoTx
<1>1. asked # None
  BY PacketsDiffer DEF Coming, Asked
<1>2. ~MainLoop
  BY DEF MainLoop, Coming
<1>3. CASE Irq
  <2>1. "reset" \notin irq
    BY DEF Coming, Asked
  <2>2. CASE irq' = irq \ {"disconnect", "misc"} /\ UNCHANGED <<sharedVars, rxFifo>>
    BY <1>3, <2>1, <2>2, IrqStep DEF Coming, Asked, Returning, NoDma
  <2>3. CASE irq' = {} /\ eprx_recv_op /\ enable' = (enable \/ "dma" \in irq)
    <3>1. buf' = asked /\ ready' = TRUE /\ rxFifo' = None
      BY <1>1, <2>3 DEF eprx_recv_op, Coming
    <3>3. UNCHANGED <<pc, loopVars, status, inVars, dma, hostVars>>
      BY <1>3, <2>1, IrqStep
    <3>4. NoDma' /\ Returning' /\ Asked'
      BY <2>3, <3>3 DEF Coming, Returning, NoDma, Asked
    <3>5. DataBefore'
      BY <3>1, <3>3 DEF Coming, DataBefore
    <3> QED BY <3>1, <3>3, <3>4, <3>5 DEF Coming, Received
  <2> QED BY <1>3, <2>1, <2>2, <2>3, IrqStep
<1>4. ~DmaTake
  BY DEF DmaTake, Coming, NoDma
<1>5. ~Host
  BY <1>1 DEF Host, HostCommand, HostData, HostTake, Coming, Returning
<1>6. CASE BusEvent
  <2>1. CASE Resetting'
    BY <2>1
  <2>2. CASE ~Resetting'
    BY <1>6, <2>2, BusStep DEF Coming, Asked, Returning, NoDma
  <2> QED BY <2>1, <2>2
<1> QED BY <1>2, <1>3, <1>4, <1>5, <1>6 DEF Next

(* The packets of a write come one after the other; before the channel is  *)
(* started the first one stays in the FIFO.                                *)
LEMMA DataBeforeStep ==
  ASSUME UsbTypeOK, Restricted, Asked, NoTx, got = <<>>, DataBefore, Host
  PROVE  /\ DataBefore' /\ irq' = irq \cup {"rx"}
         /\ UNCHANGED <<pc, loopVars, sharedVars, ep, inVars, dma, asked, got>>
<1>1. asked # None /\ Data(asked.tag) # None /\ ~Answered
  BY PacketsDiffer, NotAnswered DEF Asked
<1>2. HostData
  BY <1>1 DEF Host, HostCommand, HostTake, NoTx
<1>3. /\ asked.kind = "out" /\ rxFifo = None /\ rxFifo' = Data(asked.tag)
      /\ sent' = [sent EXCEPT !.data = @ + 1] /\ irq' = irq \cup {"rx"}
      /\ UNCHANGED <<pc, loopVars, sharedVars, ep, inVars, dma, asked, got>>
  BY <1>2 DEF HostData
<1>4. sent.data = 0 /\ sent'.data = 1
  BY <1>1, <1>3 DEF DataBefore, UsbTypeOK
<1> QED BY <1>3, <1>4 DEF DataBefore

(* The loop takes it up, after it has returned from the last answer.        *)
LEMMA ReceivedStep ==
  ASSUME UsbTypeOK, Restricted, Received, Next
  PROVE  Received' \/ Decoding'
<1> USE DEF loopVars, sharedVars, inVars, outVars, hostVars, NoTx
<1>1. CASE MainLoop
  <2>1. CASE pc = "loop"
    BY <1>1, <2>1, LoopByPlace
       DEF Dispatch, Received, Asked, NoDma, DataBefore, Returning
  <2>2. CASE pc = "accept"
    BY <1>1, <2>2, LoopByPlace
       DEF Accept, Received, Decoding, Asked, NoDma, DataBefore, Returning
  <2>3. CASE pc \notin {"loop", "accept"}
    <3>1. Returning
      BY <2>3 DEF Received
    <3>2. /\ Returning' /\ irq = {}
          /\ UNCHANGED <<csw, send, next, sharedVars, inVars, outVars, irq, hostVars>>
      BY <1>1, <2>3, <3>1, ReturnStep
    <3>3. DataBefore' /\ NoDma' /\ Asked'
      BY <3>2 DEF Received, DataBefore, NoDma, Asked
    <3> QED BY <3>2, <3>3 DEF Received
  <2> QED BY <2>1, <2>2, <2>3
<1>2. CASE Irq
  BY <1>2, IrqQuiet DEF Received, Asked, DataBefore, Returning
<1>3. ~DmaTake
  BY DEF DmaTake, Received, NoDma
<1>4. CASE Host
  <2>1. NoTx
    BY DEF Received, Returning
  <2>2. /\ DataBefore' /\ irq' = irq \cup {"rx"}
        /\ UNCHANGED <<pc, loopVars, sharedVars, ep, inVars, dma, asked, got>>
    BY <1>4, <2>1, DataBeforeStep DEF Received
  <2>3. Asked' /\ NoDma' /\ (Returning => Returning')
    BY <2>2 DEF Received, Asked, NoDma, Returning
  <2> QED BY <2>2, <2>3 DEF Received
<1>5. ~BusEvent
  BY BusStep DEF AtRest, Received
<1> QED BY <1>1, <1>2, <1>3, <1>4, <1>5 DEF Next

(* Its kind decides how it goes on.                                        *)
LEMMA DecodingStep ==
  ASSUME UsbTypeOK, Restricted, Decoding, Next
  PROVE  Decoding' \/ Dropped' \/ Writing' \/ Reading' \/ DataSent'
<1> USE DEF loopVars, sharedVars, inVars, outVars, hostVars, NoTx
<1>0. asked \in Commands /\ asked.item = "cbw" /\ "reset" \notin irq
      /\ asked.kind \in {"status", "in", "out", "bad"} /\ asked.len \in Nat
  BY CommandFacts DEF Decoding, Asked
<1>1. CASE MainLoop
  <2>1. CASE pc = "loop"
    BY <1>1, <2>1, LoopByPlace DEF Dispatch, Decoding, Asked, NoDma, DataBefore
  <2>2. CASE pc = "setup"
    <3>1. Setup /\ UNCHANGED <<left, saved, status, buf, ep, inVars, outVars, irq, hostVars>>
      BY <1>1, <2>2, LoopByPlace DEF Setup
    <3>2. CASE SetupBad
      <4>1. asked.kind = "bad"
        BY <1>0, <3>2 DEF SetupBad, Decoding
      <4> QED BY <3>1, <3>2, <4>1 DEF SetupBad, Decoding, Dropped, Asked, NoDma, DataBefore
    <3>3. CASE SetupStatus
      BY <3>1, <3>3 DEF SetupStatus, Decoding, Asked, NoDma, DataBefore
    <3>4. CASE SetupIn
      BY <3>1, <3>4 DEF SetupIn, Decoding, Asked, NoDma, DataBefore
    <3>5. CASE SetupOut
      <4>1. NoFlag'
        BY <1>1, <3>1, <3>5, LoopByPlace DEF SetupOut, NoFlag
      <4> QED BY <3>1, <3>5, <4>1 DEF SetupOut, Decoding, Asked, NoDma, DataBefore
    <3> QED BY <3>1, <3>2, <3>3, <3>4, <3>5 DEF Setup
  <2>3. CASE pc = "commit"
    BY <1>1, <2>3, LoopByPlace
       DEF Commit, Decoding, Reading, DataSent, Answering, Returning, Asked, NoDma,
           DataBefore, DataGot
  <2>4. CASE pc = "dma_begin"
    BY <1>1, <2>4, LoopByPlace DEF DmaBegin, Decoding, Asked, NoDma, NoFlag, DataBefore
  <2>5. CASE pc = "dma_start"
    <3>1. /\ DmaStart /\ asked.kind = "out" /\ next = "RECEIVE_DATA" /\ irq = {}
      BY <1>1, <2>5, LoopByPlace DEF Decoding
    <3>2. \/ rxFifo = None /\ sent.data = 0
          \/ rxFifo = Data(asked.tag) /\ sent.data = 1 /\ rxFifo # None
      BY <1>0, <3>1, PacketsDiffer DEF Decoding, DataBefore
    <3>3. asked.len \in Nat /\ asked.len > 0 /\ enable = FALSE /\ DataBefore
      BY <1>0, <2>5, <3>1, CommandFacts DEF Decoding, NoFlag
    <3>4. CASE ep = BulkOutEp
      <4>1. dma' = asked.len
        BY <3>1, <3>4 DEF DmaStart, Decoding
      <4>2. dma' = asked.len - sent.data + (IF rxFifo = None THEN 0 ELSE 1) /\ dma' # 0
        BY <1>0, <3>2, <3>3, <4>1
      <4>3. sent.data <= asked.len
        BY <1>0, <3>2, <3>3
      <4>4. Started'
        BY <3>1, <3>3, <4>2, <4>3 DEF DmaStart, Started
      <4> QED BY <3>1, <3>2, <4>4 DEF DmaStart, Decoding, Writing, Asked
    <3>5. CASE ep # BulkOutEp
      <4>1. Unstarted'
        BY <3>1, <3>3, <3>5 DEF DmaStart, Decoding, Unstarted, NoDma, NoFlag, DataBefore
      <4> QED BY <3>1, <3>2, <4>1 DEF DmaStart, Decoding, Writing, Asked
    <3> QED BY <3>4, <3>5
  <2> QED BY <2>1, <2>2, <2>3, <2>4, <2>5 DEF Decoding
<1>2. CASE Irq
  <2>1. /\ UNCHANGED <<pc, loopVars, status, ready, buf, inVars, outVars, hostVars>>
        /\ "reset" \notin irq' /\ NoDma' /\ (NoFlag => NoFlag')
    BY <1>2, IrqQuiet DEF Decoding, Asked
  <2>2. DataBefore' /\ Asked'
    BY <2>1 DEF Decoding, DataBefore, Asked
  <2> QED BY <2>1, <2>2 DEF Decoding
<1>3. ~DmaTake
  BY DEF DmaTake, Decoding, NoDma
<1>4. CASE Host
  <2>1. /\ DataBefore' /\ irq' = irq \cup {"rx"}
        /\ UNCHANGED <<pc, loopVars, sharedVars, ep, inVars, dma, asked, got>>
    BY <1>4, DataBeforeStep DEF Decoding
  <2>2. Asked' /\ NoDma' /\ (NoFlag => NoFlag')
    BY <2>1 DEF Decoding, Asked, NoDma, NoFlag
  <2> QED BY <2>1, <2>2 DEF Decoding
<1>5. ~BusEvent
  BY BusStep DEF AtRest, Decoding
<1> QED BY <1>1, <1>2, <1>3, <1>4, <1>5 DEF Next

(* Only a reset helps the host after a malformed command.                  *)
LEMMA DroppedStep ==
  ASSUME UsbTypeOK, Restricted, Dropped, Next
  PROVE  Dropped' \/ Resetting'
<1> USE DEF loopVars, sharedVars, inVars, outVars, hostVars, NoTx
<1>1. CASE MainLoop
  BY <1>1, LoopByPlace DEF Commit, Dispatch, Dropped, Asked, NoDma
<1>2. CASE Irq
  <2>1. /\ UNCHANGED <<pc, loopVars, status, ready, buf, inVars, outVars, hostVars>>
        /\ "reset" \notin irq' /\ NoDma'
    BY <1>2, IrqQuiet DEF Dropped, Asked
  <2> QED BY <2>1 DEF Dropped, Asked
<1>3. ~DmaTake
  BY DEF DmaTake, Dropped, NoDma
<1>4. ~Host
  <2>1. asked # None /\ ~Answered
    BY PacketsDiffer, NotAnswered DEF Dropped, Asked
  <2> QED BY <2>1 DEF Host, HostCommand, HostData, HostTake, Dropped
<1>5. CASE BusEvent
  <2>1. CASE Resetting'
    BY <2>1
  <2>2. CASE ~Resetting'
    BY <1>5, <2>2, BusStep DEF Dropped, Asked, NoDma
  <2> QED BY <2>1, <2>2
<1> QED BY <1>1, <1>2, <1>3, <1>4, <1>5 DEF Next

(* The channel takes each packet of the write, whenever it is started.      *)
LEMMA WritingStep ==
  ASSUME UsbTypeOK, Restricted, Writing, Next
  PROVE  Writing' \/ Resetting'
<1> USE DEF loopVars, sharedVars, inVars, outVars, hostVars, NoTx
<1>0. /\ asked # None /\ ~Answered /\ asked.len \in Nat /\ sent.data \in Nat
      /\ Data(asked.tag) # None /\ "reset" \notin irq /\ dma \in Nat
  BY PacketsDiffer, NotAnswered, CommandFacts DEF Writing, Asked, UsbTypeOK
<1>1. CASE MainLoop
  <2>1. /\ UNCHANGED <<asked, sent, rxFifo, dma, enable, irq>> => (Started => Started')
        /\ UNCHANGED <<asked, sent, rxFifo, dma, enable, irq>> => (Unstarted => Unstarted')
    BY DEF Started, Unstarted, NoDma, NoFlag, DataBefore
  <2>2. CASE pc = "dma_restore"
    BY <1>1, <2>1, <2>2, LoopByPlace DEF DmaRestore, Writing, Asked
  <2>3. CASE pc = "commit"
    BY <1>1, <2>1, <2>3, LoopByPlace DEF Commit, Writing, Asked
  <2>4. CASE pc = "loop"
    BY <1>1, <2>4, LoopByPlace DEF Dispatch, Writing
  <2> QED BY <2>2, <2>3, <2>4 DEF Writing
<1>2. CASE Irq
  <2>1. /\ UNCHANGED <<pc, loopVars, status, ready, buf, inVars, outVars, hostVars>>
        /\ "reset" \notin irq'
    BY <1>0, <1>2, IrqStep DEF eprx_recv_op, Writing
  <2>2. (enable' = TRUE \/ "dma" \in irq') <=> (enable = TRUE \/ "dma" \in irq)
    BY <1>0, <1>2, IrqStep DEF UsbTypeOK
  <2>3. Started => Started'
    BY <2>1, <2>2 DEF Started
  <2>4. Unstarted => Unstarted'
    <3>1. NoFlag => NoFlag'
      BY <1>0, <1>2, IrqStep DEF NoFlag, UsbTypeOK
    <3> QED BY <2>1, <3>1 DEF Unstarted, NoDma, DataBefore
  <2> QED BY <2>1, <2>3, <2>4 DEF Writing, Asked
<1>3. CASE DmaTake
  <2>1. /\ dma > 0 /\ rxFifo # None /\ rxFifo' = None /\ dma' = dma - 1
        /\ irq' = IF dma = 1 THEN irq \cup {"dma"} ELSE irq
        /\ UNCHANGED <<pc, loopVars, sharedVars, ep, inVars, hostVars>>
    BY <1>3 DEF DmaTake
  <2>2. dma = asked.len - sent.data + 1 /\ ~(enable = TRUE \/ "dma" \in irq)
    BY <2>1 DEF Writing, Started, Unstarted, NoDma
  <2>3. dma' = asked.len - sent.data
    BY <1>0, <2>1, <2>2
  <2>4. (enable' = TRUE \/ "dma" \in irq') <=> dma' = 0
    <3>1. CASE dma = 1
      BY <2>1, <3>1
    <3>2. CASE dma # 1
      BY <1>0, <2>1, <2>2, <3>2
    <3> QED BY <3>1, <3>2
  <2>5. Started'
    <3>1. sent.data <= asked.len
      BY <2>1 DEF Writing, Started, Unstarted, NoDma
    <3> QED BY <1>0, <2>1, <2>3, <2>4, <3>1 DEF Started
  <2>6. "reset" \notin irq'
    BY <1>0, <2>1
  <2> QED BY <2>1, <2>5, <2>6 DEF Writing, Asked
<1>4. CASE Host
  <2>1. HostData
    BY <1>0, <1>4 DEF Host, HostCommand, HostTake, Writing
  <2>2. /\ sent.data < asked.len /\ rxFifo = None /\ rxFifo' = Data(asked.tag)
        /\ sent' = [sent EXCEPT !.data = @ + 1] /\ irq' = irq \cup {"rx"}
        /\ UNCHANGED <<pc, loopVars, sharedVars, ep, inVars, dma, asked, got>>
    BY <2>1 DEF HostData
  <2>3. sent'.data = sent.data + 1
    BY <2>2 DEF UsbTypeOK
  <2>4. Started => Started'
    <3>1. ASSUME Started PROVE dma = asked.len - sent.data
      BY <1>0, <2>2, <3>1 DEF Started
    <3> QED BY <1>0, <2>2, <2>3, <3>1 DEF Started
  <2>5. Unstarted => Unstarted'
    <3>1. ASSUME Unstarted PROVE DataBefore'
      BY <1>4, <3>1, DataBeforeStep DEF Unstarted, Writing
    <3> QED BY <2>2, <3>1 DEF Unstarted, NoDma, NoFlag
  <2> QED BY <1>0, <2>2, <2>4, <2>5 DEF Writing, Asked
<1>5. CASE BusEvent
  <2>1. CASE Resetting'
    BY <2>1
  <2>2. CASE ~Resetting'
    <3>1. /\ "reset" \notin irq' /\ ("dma" \in irq' <=> "dma" \in irq)
          /\ UNCHANGED <<pc, loopVars, sharedVars, ep, inVars, outVars, asked, sent, got>>
      BY <1>0, <1>5, <2>2, BusStep
    <3>2. (Started => Started') /\ (Unstarted => Unstarted')
      BY <3>1 DEF Started, Unstarted, NoDma, NoFlag, DataBefore
    <3> QED BY <3>1, <3>2 DEF Writing, Asked
  <2> QED BY <2>1, <2>2
<1> QED BY <1>1, <1>2, <1>3, <1>4, <1>5 DEF Next

(* A packet goes from the loop to the FIFO, the FIFO is declared ready, and *)
(* the host takes it.  No interrupt comes between the selection of the     *)
(* endpoint and the declaration.                                           *)
LEMMA SendingStep ==
  ASSUME UsbTypeOK, Restricted, Answering, NEW p, NEW g, Sending(p, g), ~Answered, Next
  PROVE  /\ UNCHANGED <<status, csw, send, next, buf, asked>> /\ Answering'
         /\ ready' = ready \/ ready' = FALSE
         /\ \/ Sending(p, g)'
            \/ Returning' /\ got' = Append(g, <<p>>)
<1> USE DEF loopVars, sharedVars, inVars, outVars, hostVars, NoTx
<1>0. asked # None /\ rxFifo = None /\ asked.kind # "out" /\ "reset" \notin irq
  BY PacketsDiffer DEF Answering, Asked
<1>1. CASE MainLoop
  <2>1. CASE pc = "begin"
    BY <1>1, <2>1, LoopByPlace DEF WriteBegin, Sending, Answering, Asked, NoDma
  <2>2. CASE pc = "fill"
    <3>1. txFifo' = <<p>>
      BY <1>1, <2>2, LoopByPlace DEF WritePacket, Sending
    <3> QED BY <1>1, <2>2, <3>1, LoopByPlace DEF WritePacket, Sending, Answering, Asked, NoDma
  <2>3. CASE pc = "arm"
    <3>1. txReady' = TRUE
      BY <1>1, <2>3, LoopByPlace DEF WriteStatus, Sending
    <3> QED BY <1>1, <2>3, <3>1, LoopByPlace DEF WriteStatus, Sending, Answering, Asked, NoDma
  <2>4. pc # "poll"
    BY <1>1, LoopByPlace DEF Poll, PacketSent, Sending
  <2> QED BY <2>1, <2>2, <2>3, <2>4 DEF Sending
<1>2. CASE Irq
  <2>1. /\ UNCHANGED <<pc, loopVars, status, ready, buf, inVars, outVars, hostVars>>
        /\ irq # {} /\ "reset" \notin irq' /\ NoDma'
    BY <1>0, <1>2, IrqQuiet DEF Answering
  <2> QED BY <2>1 DEF Sending, Answering, Asked
<1>3. ~DmaTake
  BY DEF DmaTake, Answering, NoDma
<1>4. CASE Host
  <2>1. HostTake
    BY <1>0, <1>4 DEF Host, HostCommand, HostData
  <2>2. pc = "poll" /\ txFifo = <<p>> /\ left = <<p>> /\ got = g
    BY <2>1 DEF HostTake, Sending
  <2>3. Returning' /\ got' = Append(g, <<p>>)
    BY <2>1, <2>2 DEF HostTake, Returning
  <2> QED BY <2>1, <2>3 DEF HostTake, Answering, Asked, NoDma
<1>5. ~BusEvent
  BY BusStep DEF AtRest, Sending
<1> QED BY <1>1, <1>2, <1>3, <1>4, <1>5 DEF Next

(* The data of a read is one packet or none.                               *)
LEMMA ReadingStep ==
  ASSUME UsbTypeOK, Restricted, Reading, Next
  PROVE  Reading' \/ DataSent'
<1> USE DEF loopVars, sharedVars, inVars, outVars, hostVars, NoTx
<1>0. /\ asked # None /\ rxFifo = None /\ asked.len \in {0, 1} /\ "reset" \notin irq
      /\ ~Answered
  BY PacketsDiffer, NotAnswered, CommandFacts DEF Reading, Answering, Asked
<1>1. CASE status = "STATUS" /\ asked.len = 1 /\ Sending(Data(asked.tag), <<>>)
  <2>1. PICK p : p = Data(asked.tag)
    OBVIOUS
  <2>2. /\ UNCHANGED <<status, csw, send, next, buf, asked>> /\ Answering'
        /\ Sending(p, <<>>)' \/ (Returning' /\ got' = Append(<<>>, <<p>>))
    BY <1>0, <1>1, <2>1, SendingStep DEF Reading
  <2>3. CASE Sending(p, <<>>)'
    <3>1. Sending(Data(asked.tag), <<>>)' /\ got' = <<>>
      BY <2>1, <2>2, <2>3 DEF Sending
    <3> QED BY <1>1, <2>2, <3>1 DEF Reading
  <2>4. CASE Returning' /\ got' = Append(<<>>, <<p>>)
    <3>1. got' = << <<p>> >>
      BY <2>4
    <3>2. DataGot' = << <<p>> >>
      BY <1>1, <2>1, <2>2 DEF Reading, DataGot
    <3> QED BY <1>1, <2>2, <2>4, <3>1, <3>2 DEF Reading, DataSent
  <2> QED BY <2>2, <2>3, <2>4
<1>2. CASE \/ status = "SEND_DATA" /\ pc \in {"loop", "send_data"} /\ send = asked.len /\ NoTx
           \/ status = "STATUS" /\ asked.len = 0 /\ pc = "begin" /\ left = <<>> /\ NoTx
  <2>1. CASE MainLoop
    <3>1. CASE pc = "loop"
      BY <1>2, <2>1, <3>1, LoopByPlace DEF Dispatch, Reading, Answering, Asked, NoDma
    <3>2. CASE pc = "send_data"
      <4>1. SendData /\ send = asked.len /\ csw = asked.tag
        BY <1>2, <2>1, <3>2, LoopByPlace DEF Reading, Answering
      <4>2. /\ asked.len = 0 => left' = <<>>
            /\ asked.len = 1 => left' = <<Data(asked.tag)>>
        BY <4>1 DEF SendData
      <4> QED BY <1>0, <1>2, <4>1, <4>2 DEF SendData, Reading, Answering, Asked, NoDma, Sending
    <3>3. CASE pc = "begin"
      BY <1>2, <2>1, <3>3, LoopByPlace
         DEF WriteBegin, Reading, DataSent, Answering, Asked, NoDma, Returning, DataGot
    <3> QED BY <1>2, <3>1, <3>2, <3>3
  <2>2. CASE Irq
    <3>1. /\ UNCHANGED <<pc, loopVars, status, ready, buf, inVars, outVars, hostVars>>
          /\ "reset" \notin irq' /\ NoDma'
      BY <1>0, <2>2, IrqQuiet DEF Reading, Answering
    <3> QED BY <1>2, <3>1 DEF Reading, Answering, Asked
  <2>3. ~DmaTake
    BY DEF DmaTake, Reading, Answering, NoDma
  <2>4. ~Host
    BY <1>0, <1>2 DEF Host, HostCommand, HostData, HostTake, Reading
  <2>5. ~BusEvent
    BY <1>2, BusStep DEF AtRest
  <2> QED BY <2>1, <2>2, <2>3, <2>4, <2>5 DEF Next
<1> QED BY <1>1, <1>2 DEF Reading

(* After the data the loop sends the status.                               *)
LEMMA DataSentStep ==
  ASSUME UsbTypeOK, Restricted, DataSent, Next
  PROVE  DataSent' \/ Concluding'
<1> USE DEF loopVars, sharedVars, inVars, outVars, hostVars, NoTx
<1>0. /\ asked # None /\ rxFifo = None /\ "reset" \notin irq /\ ~Answered /\ NoTx
  BY PacketsDiffer, NotAnswered DEF DataSent, Answering, Asked, Returning
<1>1. CASE MainLoop
  <2>1. CASE pc = "loop"
    BY <1>1, <2>1, LoopByPlace DEF Dispatch, DataSent, Answering, Asked, NoDma, Returning, DataGot
  <2>2. CASE pc = "send_csw"
    <3>1. SendCsw
      BY <1>1, <2>2, LoopByPlace
    <3>2. left' = <<Csw(asked'.tag)>> /\ DataGot' = got'
      BY <3>1 DEF SendCsw, DataSent, Answering, DataGot
    <3> QED BY <1>0, <3>1, <3>2 DEF SendCsw, DataSent, Answering, Asked, NoDma, Concluding, Sending
  <2>3. CASE pc \notin {"loop", "send_csw"}
    <3>1. Returning
      BY <2>3 DEF DataSent
    <3>2. /\ Returning' /\ irq = {}
          /\ UNCHANGED <<csw, send, next, sharedVars, inVars, outVars, irq, hostVars>>
      BY <1>1, <2>3, <3>1, ReturnStep
    <3>3. DataGot' = DataGot /\ Answering'
      BY <3>2 DEF DataSent, DataGot, Answering, Asked, NoDma
    <3> QED BY <3>2, <3>3 DEF DataSent
  <2> QED BY <2>1, <2>2, <2>3
<1>2. CASE Irq
  <2>1. /\ UNCHANGED <<pc, loopVars, status, ready, buf, inVars, outVars, hostVars>>
        /\ "reset" \notin irq' /\ NoDma'
    BY <1>0, <1>2, IrqQuiet DEF DataSent, Answering
  <2>2. DataGot' = DataGot /\ Answering' /\ (Returning => Returning')
    BY <2>1 DEF DataSent, DataGot, Answering, Asked, Returning
  <2> QED BY <2>1, <2>2 DEF DataSent
<1>3. ~DmaTake
  BY DEF DmaTake, DataSent, Answering, NoDma
<1>4. ~Host
  BY <1>0 DEF Host, HostCommand, HostData, HostTake, DataSent, Answering
<1>5. ~BusEvent
  BY BusStep DEF AtRest, DataSent
<1> QED BY <1>1, <1>2, <1>3, <1>4, <1>5 DEF Next

(* The status ends the command.                                            *)
LEMMA ConcludingStep ==
  ASSUME UsbTypeOK, Restricted, Concluding, Next
  PROVE  Concluding' \/ Over'
<1>0. got = DataGot /\ ~Answered
  BY NotAnswered DEF Concluding, Answering, Asked, Sending
<1>1. PICK p, g : p = Csw(asked.tag) /\ g = DataGot
  OBVIOUS
<1>2. /\ UNCHANGED <<status, csw, send, next, buf, asked>> /\ Answering'
      /\ ready' = ready \/ ready' = FALSE
      /\ Sending(p, g)' \/ (Returning' /\ got' = Append(g, <<p>>))
  BY <1>0, <1>1, SendingStep DEF Concluding
<1>3. DataGot' = g /\ Csw(asked'.tag) = p
  BY <1>1, <1>2 DEF DataGot
<1>4. CASE Sending(p, g)'
  <2>1. Sending(Csw(asked.tag), DataGot)'
    BY <1>3, <1>4 DEF Sending
  <2> QED BY <1>2, <2>1 DEF Concluding
<1>5. CASE Returning' /\ got' = Append(g, <<p>>)
  BY <1>2, <1>3, <1>5 DEF Concluding, Over
<1> QED BY <1>2, <1>4, <1>5

(* The host sends the next command.                                        *)
LEMMA OverStep ==
  ASSUME UsbTypeOK, Restricted, Over, Next
  PROVE  Over' \/ Coming' \/ Resetting'
<1> USE DEF loopVars, sharedVars, inVars, outVars, hostVars, NoTx
<1>0. /\ asked # None /\ rxFifo = None /\ "reset" \notin irq /\ NoTx
  BY PacketsDiffer DEF Over, Answering, Asked, Returning
<1>1. CASE MainLoop
  <2>1. pc # "loop"
    BY <1>1, LoopByPlace DEF Dispatch, Over
  <2>2. /\ Returning' /\ irq = {}
        /\ UNCHANGED <<csw, send, next, sharedVars, inVars, outVars, irq, hostVars>>
    BY <1>1, <2>1, ReturnStep DEF Over
  <2>3. DataGot' = DataGot /\ Answering'
    BY <2>2 DEF Over, DataGot, Answering, Asked, NoDma
  <2> QED BY <2>2, <2>3 DEF Over
<1>2. CASE Irq
  <2>1. /\ UNCHANGED <<pc, loopVars, status, ready, buf, inVars, outVars, hostVars>>
        /\ "reset" \notin irq' /\ NoDma'
    BY <1>0, <1>2, IrqQuiet DEF Over, Answering
  <2>2. DataGot' = DataGot /\ Answering' /\ Returning'
    BY <2>1 DEF Over, DataGot, Answering, Asked, Returning
  <2> QED BY <2>1, <2>2 DEF Over
<1>3. ~DmaTake
  BY DEF DmaTake, Over, Answering, NoDma
<1>4. CASE Host
  <2>1. HostCommand
    BY <1>0, <1>4 DEF Host, HostData, HostTake, Over, Answering
  <2> QED BY <2>1, CommandStep DEF Over, Answering
<1>5. CASE BusEvent
  <2>1. CASE Resetting'
    BY <2>1
  <2>2. CASE ~Resetting'
    <3>1. /\ "reset" \notin irq'
          /\ UNCHANGED <<pc, loopVars, sharedVars, ep, inVars, outVars, asked, sent, got>>
      BY <1>0, <1>5, <2>2, BusStep DEF Over, Answering, NoDma
    <3>2. DataGot' = DataGot /\ Answering' /\ Returning'
      BY <3>1 DEF Over, DataGot, Answering, Asked, Returning, NoDma
    <3> QED BY <3>1, <3>2 DEF Over
  <2> QED BY <2>1, <2>2
<1> QED BY <1>1, <1>2, <1>3, <1>4, <1>5 DEF Next

-----------------------------------------------------------------------------
(* The stages are all that there is.                                       *)
LEMMA UsbStep == UsbInv /\ Restricted /\ [Next]_vars => UsbInv'
<1> SUFFICES ASSUME UsbInv, Restricted, [Next]_vars PROVE UsbInv'
  OBVIOUS
<1>1. UsbTypeOK' /\ UsbTypeOK
  BY TypeStep DEF UsbInv
<1>2. CASE Next
  <2>1. CASE Unasked \/ Resetting
    BY <1>1, <1>2, <2>1, UnaskedStep, ResettingStep DEF UsbInv, Stages
  <2>2. CASE Coming \/ Received
    BY <1>1, <1>2, <2>2, ComingStep, ReceivedStep DEF UsbInv, Stages
  <2>3. CASE Decoding \/ Dropped
    BY <1>1, <1>2, <2>3, DecodingStep, DroppedStep DEF UsbInv, Stages
  <2>4. CASE Writing \/ Reading
    BY <1>1, <1>2, <2>4, WritingStep, ReadingStep DEF UsbInv, Stages
  <2>5. CASE DataSent \/ Concluding \/ Over
    BY <1>1, <1>2, <2>5, DataSentStep, ConcludingStep, OverStep DEF UsbInv, Stages
  <2> QED BY <2>1, <2>2, <2>3, <2>4, <2>5 DEF UsbInv, Stages
<1>3. CASE UNCHANGED vars
  <2> USE <1>3 DEF vars, loopVars, sharedVars, inVars, outVars, hostVars
  <2>1. /\ UNCHANGED <<NoTx, NoDma, NoFlag, Returning, DataBefore, DataGot, Asked, Answering>>
        /\ Unasked => Unasked'
        /\ Resetting => Resetting'
    BY DEF NoTx, NoDma, NoFlag, Returning, DataBefore, DataGot, Asked, Answering, Unasked, Resetting
  <2>2. (Coming => Coming') /\ (Received => Received') /\ (Dropped => Dropped')
    BY <2>1 DEF Coming, Received, Dropped
  <2>3. (Decoding => Decoding') /\ (Writing => Writing')
    BY <2>1 DEF Decoding, Writing, Started, Unstarted
  <2>4. Sending(Data(asked.tag), <<>>) => Sending(Data(asked.tag), <<>>)'
    BY <2>1 DEF Sending
  <2>5. Sending(Csw(asked.tag), DataGot) => Sending(Csw(asked.tag), DataGot)'
    BY <2>1 DEF Sending
  <2>6. (Reading => Reading') /\ (DataSent => DataSent')
    BY <2>1, <2>4 DEF Reading, DataSent
  <2>7. (Concluding => Concluding') /\ (Over => Over')
    BY <2>1, <2>5 DEF Concluding, Over
  <2> QED BY <1>1, <2>1, <2>2, <2>3, <2>6, <2>7 DEF UsbInv, Stages
<1> QED BY <1>2, <1>3

(* The program begins with nothing asked.                                  *)
LEMMA UsbInitInv == Init => UsbInv
<1> SUFFICES ASSUME Init PROVE UsbInv
  OBVIOUS
<1>1. UsbTypeOK
  BY DEF Init, UsbTypeOK
<1>2. Unasked
  BY DEF Init, Unasked, NoTx, NoDma
<1> QED BY <1>1, <1>2 DEF UsbInv, Stages

(* In every reachable state the command is at one of its stages.           *)
THEOREM UsbInvariant == Restricted => (Spec => []UsbInv)
<1> SUFFICES ASSUME Restricted PROVE Spec => []UsbInv
  OBVIOUS
<1> QED BY UsbInitInv, UsbStep, PTL DEF Spec

-----------------------------------------------------------------------------
(* The answer to a command, written out.                                   *)
LEMMA AnswerIs ==
  ASSUME Restricted, asked \in Commands
  PROVE  Answer(asked) = Append(DataGot, <<Csw(asked.tag)>>)
<1>1. asked.kind = "in" => asked.len \in {0, 1}
  BY CommandFacts
<1>2. CASE asked.kind = "in" /\ asked.len = 1
  <2>1. [i \in 1 .. 1 |-> <<Data(asked.tag)>>] = << <<Data(asked.tag)>> >>
    OBVIOUS
  <2> QED BY <1>2, <2>1 DEF Answer, DataGot
<1>3. CASE ~(asked.kind = "in" /\ asked.len = 1)
  <2>1. [i \in 1 .. 0 |-> <<Data(asked.tag)>>] = <<>>
    OBVIOUS
  <2>2. (IF asked.kind = "in" THEN asked.len ELSE 0) = 0
    BY <1>1, <1>3
  <2> QED BY <1>3, <2>1, <2>2 DEF Answer, DataGot
<1> QED BY <1>2, <1>3

(* What the host has got at each stage.                                    *)
LEMMA GotOfStage ==
  ASSUME UsbInv, asked # None
  PROVE  /\ asked \in Commands
         /\ got \in {<<>>, DataGot, Append(DataGot, <<Csw(asked.tag)>>)}
BY DEF UsbInv, Stages, Unasked, Resetting, Coming, Received, Decoding, Dropped, Writing,
       Reading, DataSent, Concluding, Over, Answering, Asked, Sending

(* Two beginnings of a sequence.                                           *)
LEMMA Beginnings ==
  ASSUME NEW S, NEW s \in Seq(S), NEW e \in S
  PROVE  /\ Len(s) <= Len(Append(s, e)) /\ SubSeq(Append(s, e), 1, Len(s)) = s
         /\ SubSeq(Append(s, e), 1, Len(Append(s, e))) = Append(s, e)
<1> DEFINE t == Append(s, e)
<1>1. /\ t \in Seq(S) /\ Len(t) = Len(s) + 1 /\ Len(s) \in Nat
      /\ \A i \in 1 .. Len(s) : t[i] = s[i]
  BY AppendProperties
<1> HIDE DEF t
<1>2. \A i \in 1 .. Len(s) : t[i] \in S
  BY <1>1
<1>3. /\ SubSeq(t, 1, Len(s)) \in Seq(S) /\ Len(SubSeq(t, 1, Len(s))) = Len(s)
      /\ \A i \in 1 .. Len(s) : SubSeq(t, 1, Len(s))[i] = t[i]
  <2> DEFINE n == Len(s)
  <2>1. /\ SubSeq(t, 1, n) \in Seq(S)
        /\ Len(SubSeq(t, 1, n)) = IF 1 <= n THEN n - 1 + 1 ELSE 0
        /\ \A i \in 1 .. n - 1 + 1 : SubSeq(t, 1, n)[i] = t[1 + i - 1]
    BY <1>1, <1>2, SubSeqProperties
  <2> HIDE DEF n
  <2>2. n \in Nat
    BY <1>1 DEF n
  <2>3. Len(SubSeq(t, 1, n)) = n /\ \A i \in 1 .. n : SubSeq(t, 1, n)[i] = t[i]
    BY <2>1, <2>2
  <2> QED BY <2>1, <2>3 DEF n
<1>4. SubSeq(t, 1, Len(s)) = s
  BY <1>1, <1>3, SeqEqual
<1>5. SubSeq(t, 1, Len(t)) = t
  BY <1>1, SubSeqFull
<1> QED BY <1>1, <1>4, <1>5 DEF t

(* What the host has got is a beginning of the answer to its command: no   *)
(* packet is lost, repeated, out of order or of another command, as long   *)
(* as a read takes one packet and bus events find the loop at rest.        *)
THEOREM UsbAnswerInOrder == Restricted => (Spec => []AnswerInOrder)
<1> SUFFICES ASSUME Restricted PROVE Spec => []AnswerInOrder
  OBVIOUS
<1>1. UsbInv => AnswerInOrder
  <2> SUFFICES ASSUME UsbInv, asked # None, got # <<>>
               PROVE  /\ Len(got) <= Len(Answer(asked))
                      /\ got = SubSeq(Answer(asked), 1, Len(got))
    BY DEF AnswerInOrder
  <2>1. Answer(asked) = Append(DataGot, <<Csw(asked.tag)>>)
    BY GotOfStage, AnswerIs
  <2>2. PICK d, c : d = <<Data(asked.tag)>> /\ c = <<Csw(asked.tag)>>
    OBVIOUS
  <2>3. DataGot \in Seq({d, c})
    <3>1. <<>> \in Seq({d, c}) /\ <<d>> \in Seq({d, c})
      OBVIOUS
    <3> QED BY <2>2, <3>1 DEF DataGot
  <2>4. PICK g : g = DataGot
    OBVIOUS
  <2>5. g \in Seq({d, c}) /\ c \in {d, c}
    BY <2>3, <2>4
  <2>6. /\ Len(g) <= Len(Append(g, c)) /\ SubSeq(Append(g, c), 1, Len(g)) = g
        /\ SubSeq(Append(g, c), 1, Len(Append(g, c))) = Append(g, c)
        /\ Len(Append(g, c)) \in Nat
    BY <2>5, Beginnings, AppendProperties
  <2>7. Answer(asked) = Append(g, c)
    BY <2>1, <2>2, <2>4
  <2>8. got = g \/ got = Append(g, c)
    BY <2>2, <2>4, GotOfStage
  <2> HIDE <2>2, <2>4
  <2>9. CASE got = g
    BY <2>6, <2>7, <2>9
  <2>10. CASE got = Append(g, c)
    BY <2>6, <2>7, <2>10
  <2> QED BY <2>8, <2>9, <2>10
<1> QED BY <1>1, UsbInvariant, PTL

(* The packets of a write do not overwrite the command that the loop is at *)
(* work on.                                                                *)
THEOREM UsbCommandIntact == Restricted => (Spec => []CommandIntact)
<1> SUFFICES ASSUME Restricted PROVE Spec => []CommandIntact
  OBVIOUS
<1>1. UsbInv => CommandIntact
  <2> SUFFICES ASSUME UsbInv, asked # None, ~Answered, status # "IDLE" \/ ready
               PROVE  buf = asked
    BY DEF CommandIntact
  <2>1. ~Over /\ ~Concluding /\ ~Coming
    BY DEF Over, Concluding, Coming
  <2>2. ~Unasked /\ ~Resetting
    BY DEF Unasked, Resetting
  <2> QED BY <2>1, <2>2 DEF UsbInv, Stages, Received, Decoding, Dropped, Writing, Reading, DataSent
<1> QED BY <1>1, UsbInvariant, PTL

(* When the loop goes on, the host has taken every packet that was put     *)
(* into the FIFO.                                                          *)
THEOREM UsbNoPacketStranded == Restricted => (Spec => []NoPacketStranded)
<1> SUFFICES ASSUME Restricted PROVE Spec => []NoPacketStranded
  OBVIOUS
<1>1. UsbInv => NoPacketStranded
  BY DEF NoPacketStranded, UsbInv, Stages, Unasked, Resetting, Coming, Received, Decoding,
         Dropped, Writing, Reading, DataSent, Concluding, Over, Sending, NoTx, Returning
<1> QED BY <1>1, UsbInvariant, PTL

(* The receive channel takes no command for data, and while a write is     *)
(* received its data are announced exactly when all of them have come,     *)
(* whatever completion a reset has left behind.                            *)
THEOREM UsbDmaOfCommand == Restricted => (Spec => []DmaOfCommand)
<1> SUFFICES ASSUME Restricted PROVE Spec => []DmaOfCommand
  OBVIOUS
<1>1. UsbInv => DmaOfCommand
  <2> SUFFICES ASSUME UsbInv, "reset" \notin irq PROVE DmaOfCommand
    BY DEF DmaOfCommand
  <2>0. enable \in BOOLEAN /\ sent.data \in Nat
    BY DEF UsbInv, UsbTypeOK
  <2>1. CASE Writing
    <3>1. rxFifo # None => rxFifo.item = "data"
      BY <2>1 DEF Writing, Data
    <3>2. asked # None /\ asked.len \in Nat /\ asked.len > 0
      BY <2>1, PacketsDiffer, CommandFacts DEF Writing, Asked
    <3>3. ASSUME Started, "dma" \notin irq
          PROVE  enable <=> sent.data = asked.len /\ rxFifo = None
      <4>1. dma = 0 <=> sent.data = asked.len /\ rxFifo = None
        <5>1. dma \in Nat
          BY DEF UsbInv, UsbTypeOK
        <5> QED BY <2>0, <3>2, <3>3, <5>1 DEF Started
      <4>2. enable = TRUE <=> dma = 0
        BY <3>3 DEF Started
      <4> QED BY <2>0, <4>1, <4>2
    <3>4. ASSUME Unstarted
          PROVE  enable <=> sent.data = asked.len /\ rxFifo = None
      <4>1. enable = FALSE
        BY <3>4 DEF Unstarted, NoFlag
      <4>2. rxFifo = None => sent.data = 0
        BY <2>1, <3>2, <3>4, PacketsDiffer DEF Unstarted, DataBefore, Writing, Asked
      <4> QED BY <3>2, <4>1, <4>2
    <3> QED BY <2>1, <3>1, <3>2, <3>3, <3>4 DEF Writing, DmaOfCommand
  <2>2. CASE ~Writing
    <3>1. NoDma /\ status # "RECEIVE_DATA"
      BY <2>2 DEF UsbInv, Stages, Unasked, Resetting, Coming, Received, Decoding, Dropped,
             Reading, DataSent, Concluding, Over, Answering
    <3> QED BY <3>1 DEF NoDma, DmaOfCommand
  <2> QED BY <2>1, <2>2
<1> QED BY <1>1, UsbInvariant, PTL
=============================================================================

------------------------------ MODULE UsbMass ------------------------------
(***************************************************************************)
(* USB mass storage: the main loop (sunxi_mass_state_loop of               *)
(* module/usb_mass.c and the PIO write path of usb.c), the interrupt       *)
(* handler sunxi_usb_irq that preempts it between any two of its accesses, *)
(* and the host that sends commands (CBW), takes data and status (CSW) and *)
(* resets the bus.                                                         *)
(*                                                                         *)
(* The two sides share sunxi_usb_mass_status, sunxi_ubuf and one register  *)
(* of the controller: the index that selects which endpoint's control      *)
(* register the processor sees.  The handler runs to its end on the only   *)
(* core, so it is one action; the main loop is cut where it reads or       *)
(* writes what is shared.                                                  *)
(***************************************************************************)
EXTENDS Integers, Sequences, FiniteSets

CONSTANTS
  MaxTag,      \* bound: commands the host sends
  MaxIn,       \* bound: data packets of a command that reads
  MaxOut,      \* bound: data packets of a command that writes
  Kinds,       \* kinds of command the host sends
  Events,      \* what else happens on the bus
  MaxEvents,   \* bound: how often
  Quiet        \* TRUE: only while the main loop is at rest

ASSUME UsbAssumption ==
  /\ MaxTag \in Nat /\ MaxIn \in Nat /\ MaxOut \in Nat /\ MaxEvents \in Nat
  /\ Kinds \subseteq {"status", "in", "out", "bad"}
  /\ Events \subseteq {"reset", "misc", "disconnect", "ep0"}
  /\ Quiet \in BOOLEAN

(* SUNXI_USB_CTRL_EP_INDEX, SUNXI_USB_BULK_IN_EP_INDEX, ..._OUT_EP_INDEX *)
CtrlEp == 0
BulkInEp == 1
BulkOutEp == 2
Endpoints == {CtrlEp, BulkInEp, BulkOutEp}

(* A packet: a command (CBW), a packet of its data, or its status (CSW). *)
None == [item |-> "none", tag |-> 0]
Data(tag) == [item |-> "data", tag |-> tag]
Csw(tag) == [item |-> "csw", tag |-> tag]
Cbw(tag, kind, len) == [item |-> "cbw", tag |-> tag, kind |-> kind, len |-> len]
Lengths(kind) ==
  CASE kind = "in"  -> 0 .. MaxIn
    [] kind = "out" -> 1 .. MaxOut
    [] OTHER        -> {0}
Commands == UNION {{Cbw(t, k, n) : t \in 1 .. MaxTag, n \in Lengths(k)} : k \in Kinds}

VARIABLES
  pc,       \* where the main loop is
  status,   \* sunxi_usb_mass_status
  ready,    \* sunxi_ubuf.rx_ready_for_data
  buf,      \* the packet in sunxi_ubuf.rx_req_buffer
  enable,   \* sunxi_usb_mass_write_enable
  csw,      \* the tag in the static csw
  send,     \* trans_data.send_size, in packets
  next,     \* the status the SETUP case is about to store
  left,     \* sunxi_usb_write_fifo: packets still to write
  saved,    \* old_ep_idx of the function at work
  ep,       \* the index register of the controller
  txFifo,   \* bulk IN endpoint: packets in the FIFO
  txReady,  \* bulk IN endpoint: TxPktRdy, the FIFO belongs to the host
  rxFifo,   \* bulk OUT endpoint: the packet in the FIFO
  dma,      \* packets the receive DMA channel still waits for
  irq,      \* pending interrupts
  asked,    \* host: its last command, None after a bus reset
  sent,     \* host: commands, and data packets of the last one, sent so far
  got,      \* host: what it has received since
  events    \* bus events so far

loopVars == <<csw, send, next, left, saved>>
sharedVars == <<status, ready, buf, enable>>
inVars == <<txFifo, txReady>>
outVars == <<rxFifo, dma>>
hostVars == <<asked, sent, got, events>>
vars == <<pc, loopVars, sharedVars, ep, inVars, outVars, irq, hostVars>>

Status == {"IDLE", "SETUP", "SEND_DATA", "RECEIVE_DATA", "STATUS"}

Init ==
  /\ pc = "loop" /\ status = "IDLE" /\ next = "IDLE"
  /\ ready = FALSE /\ buf = None /\ enable = FALSE
  /\ csw = 0 /\ send = 0 /\ left = <<>> /\ saved = CtrlEp /\ ep = CtrlEp
  /\ txFifo = <<>> /\ txReady = FALSE /\ rxFifo = None /\ dma = 0
  /\ irq = {} /\ asked = None /\ sent = [cbw |-> 0, data |-> 0]
  /\ got = <<>> /\ events = 0

-----------------------------------------------------------------------------
(* The main loop: sunxi_mass_state_loop *)

(* The switch, and in the IDLE case the test of rx_ready_for_data. *)
Dispatch ==
  /\ pc = "loop"
  /\ \/ /\ status = "IDLE" /\ ready
        /\ pc' = "accept"
     \/ /\ status = "SETUP"
        /\ pc' = "setup"
     \/ /\ status = "SEND_DATA"
        /\ pc' = "send_data"
     \/ /\ status = "STATUS"
        /\ pc' = "send_csw"
  /\ UNCHANGED <<loopVars, sharedVars, ep, inVars, outVars, irq, hostVars>>

Accept ==
  /\ pc = "accept"
  /\ status' = "SETUP"
  /\ pc' = "loop"
  /\ UNCHANGED <<loopVars, ready, buf, enable, ep, inVars, outVars, irq, hostVars>>

(* Neither the size nor the signature of a CBW: the packet is dropped. *)
SetupBad ==
  /\ buf.item # "cbw" \/ buf.kind = "bad"
  /\ ready' = FALSE
  /\ next' = "IDLE"
  /\ pc' = "commit"
  /\ UNCHANGED <<csw, send, enable>>

(* Commands without data, the ones that are not supported among them. *)
SetupStatus ==
  /\ buf.kind = "status"
  /\ csw' = buf.tag
  /\ next' = "STATUS"
  /\ pc' = "commit"
  /\ UNCHANGED <<send, ready, enable>>

(* Mutant of SetupIn: the length is not limited to what was asked for. *)
SetupInUnlimited ==
  /\ buf.kind = "in"
  /\ csw' = buf.tag
  /\ send' = buf.len + 1
  /\ next' = "SEND_DATA"
  /\ pc' = "commit"
  /\ UNCHANGED <<ready, enable>>

SetupIn ==
  /\ buf.kind = "in"
  /\ csw' = buf.tag
  /\ send' = buf.len
  /\ next' = "SEND_DATA"
  /\ pc' = "commit"
  /\ UNCHANGED <<ready, enable>>

(* Mutant of SetupOut: the flag of an earlier write is not cleared. *)
SetupOutKeepingFlag ==
  /\ buf.kind = "out"
  /\ csw' = buf.tag
  /\ next' = "RECEIVE_DATA"
  /\ pc' = "dma_begin"
  /\ UNCHANGED <<send, ready, enable>>

SetupOut ==
  /\ buf.kind = "out"
  /\ csw' = buf.tag
  /\ enable' = FALSE
  /\ next' = "RECEIVE_DATA"
  /\ pc' = "dma_begin"
  /\ UNCHANGED <<send, ready>>

(* The command is checked and decoded; `Commit' stores the status. *)
Setup ==
  /\ pc = "setup"
  /\ \/ SetupBad
     \/ buf.item = "cbw" /\ (SetupStatus \/ SetupIn \/ SetupOut)
  /\ UNCHANGED <<left, saved, status, buf, ep, inVars, outVars, irq, hostVars>>

Commit ==
  /\ pc = "commit"
  /\ status' = next
  /\ pc' = "loop"
  /\ UNCHANGED <<loopVars, ready, buf, enable, ep, inVars, outVars, irq, hostVars>>

SendData ==
  /\ pc = "send_data"
  /\ status' = "STATUS"
  /\ left' = [i \in 1 .. send |-> Data(csw)]
  /\ pc' = "begin"
  /\ UNCHANGED <<csw, send, next, saved, ready, buf, enable, ep, inVars,
                 outVars, irq, hostVars>>

(* Mutant of SendCsw: the loop does not return to IDLE. *)
SendCswAgain ==
  /\ pc = "send_csw"
  /\ ready' = FALSE
  /\ left' = <<Csw(csw)>>
  /\ pc' = "begin"
  /\ UNCHANGED <<csw, send, next, saved, status, buf, enable, ep, inVars,
                 outVars, irq, hostVars>>

SendCsw ==
  /\ pc = "send_csw"
  /\ status' = "IDLE"
  /\ ready' = FALSE
  /\ left' = <<Csw(csw)>>
  /\ pc' = "begin"
  /\ UNCHANGED <<csw, send, next, saved, buf, enable, ep, inVars, outVars, irq,
                 hostVars>>

-----------------------------------------------------------------------------
(* sunxi_usb_start_recv_by_dma *)

DmaBegin ==
  /\ pc = "dma_begin"
  /\ saved' = ep
  /\ ep' = BulkOutEp
  /\ pc' = "dma_start"
  /\ UNCHANGED <<csw, send, next, left, sharedVars, inVars, outVars, irq, hostVars>>

(* usb_device_config_ep_dma acts on the endpoint selected; without it the  *)
(* channel never sees a request.                                           *)
DmaStart ==
  /\ pc = "dma_start"
  /\ dma' = IF ep = BulkOutEp THEN buf.len ELSE dma
  /\ pc' = "dma_restore"
  /\ UNCHANGED <<loopVars, sharedVars, ep, inVars, rxFifo, irq, hostVars>>

DmaRestore ==
  /\ pc = "dma_restore"
  /\ ep' = saved
  /\ pc' = "commit"
  /\ UNCHANGED <<loopVars, sharedVars, inVars, outVars, irq, hostVars>>

-----------------------------------------------------------------------------
(* sunxi_usb_send_data and sunxi_usb_write_fifo *)

WriteBegin ==
  /\ pc = "begin"
  /\ ready' = FALSE
  /\ saved' = ep
  /\ ep' = BulkInEp
  /\ pc' = IF left = <<>> THEN "restore" ELSE "fill"
  /\ UNCHANGED <<csw, send, next, left, status, buf, enable, inVars, outVars,
                 irq, hostVars>>

(* usb_controller_write_packet: the FIFO is addressed by its own number. *)
WritePacket ==
  /\ pc = "fill"
  /\ txFifo' = Append(txFifo, Head(left))
  /\ pc' = "arm"
  /\ UNCHANGED <<loopVars, sharedVars, ep, txReady, outVars, irq, hostVars>>

(* Mutant of WriteStatus: the packet is not declared complete. *)
WriteStatusHalf ==
  /\ pc = "arm"
  /\ pc' = "poll"
  /\ UNCHANGED <<loopVars, sharedVars, ep, inVars, outVars, irq, hostVars>>

(* usb_device_write_data_status sets the bit in the register of whatever   *)
(* endpoint the index selects; in the control register of endpoint 0 that  *)
(* bit is RxPktRdy, which the processor cannot set.                        *)
WriteStatus ==
  /\ pc = "arm"
  /\ txReady' = (txReady \/ ep = BulkInEp)
  /\ pc' = "poll"
  /\ UNCHANGED <<loopVars, sharedVars, ep, txFifo, outVars, irq, hostVars>>

(* Mutant of PacketSent: do not wait for the host. *)
DoNotWait == TRUE

(* What usb_device_get_write_data_ready reads: the bit of the selected     *)
(* endpoint.                                                               *)
PacketSent == ~(ep = BulkInEp /\ txReady)

(* The wait of sunxi_usb_write_complete. *)
Poll ==
  /\ pc = "poll"
  /\ PacketSent
  /\ left' = Tail(left)
  /\ pc' = IF Len(left) = 1 THEN "restore" ELSE "fill"
  /\ UNCHANGED <<csw, send, next, saved, sharedVars, ep, inVars, outVars, irq,
                 hostVars>>

Restore ==
  /\ pc = "restore"
  /\ ep' = saved
  /\ pc' = "loop"
  /\ UNCHANGED <<loopVars, sharedVars, inVars, outVars, irq, hostVars>>

(* sunxi_usb_attach has enabled interrupts: one that is pending is taken   *)
(* before the loop goes on.                                                *)
MainLoop ==
  /\ irq = {}
  /\ \/ Dispatch \/ Accept \/ Setup \/ Commit \/ SendData \/ SendCsw
     \/ DmaBegin \/ DmaStart \/ DmaRestore
     \/ WriteBegin \/ WritePacket \/ WriteStatus \/ Poll \/ Restore

-----------------------------------------------------------------------------
(* sunxi_usb_irq *)

(* Mutant of IrqReset: state_reset is not called. *)
IrqResetKeepingState ==
  /\ "reset" \in irq
  /\ irq' = irq \cap {"dma"}
  /\ ep' = CtrlEp
  /\ dma' = 0
  /\ ready' = FALSE
  /\ UNCHANGED <<pc, loopVars, status, buf, enable, inVars, rxFifo, hostVars>>

(* The RESET branch, sunxi_mass_reset included; it returns with endpoint 0 *)
(* selected and the interrupts of the bus and the endpoints acknowledged.  *)
(* The status of the DMA is not among them: the completion of a write that *)
(* the reset ends is taken at the next entry of the handler.               *)
IrqReset ==
  /\ "reset" \in irq
  /\ irq' = irq \cap {"dma"}
  /\ ep' = CtrlEp
  /\ dma' = 0
  /\ ready' = FALSE
  /\ enable' = FALSE
  /\ status' = "IDLE"
  /\ UNCHANGED <<pc, loopVars, buf, inVars, rxFifo, hostVars>>

(* The DISCONNECT branch acknowledges its bit and returns; RESUME and      *)
(* SUSPEND ("misc") were acknowledged before it.                           *)
IrqDisconnect ==
  /\ "disconnect" \in irq /\ "reset" \notin irq
  /\ irq' = irq \ {"disconnect", "misc"}
  /\ UNCHANGED <<pc, loopVars, sharedVars, ep, inVars, outVars, hostVars>>

(* Mutant of eprx_recv_op: any packet is taken for a command. *)
eprx_recv_op_overwriting ==
  \/ /\ "rx" \in irq /\ rxFifo # None
     /\ buf' = rxFifo
     /\ ready' = TRUE
     /\ rxFifo' = None
  \/ /\ "rx" \notin irq \/ rxFifo = None
     /\ UNCHANGED <<buf, ready, rxFifo>>

(* A packet is read only into a free buffer, otherwise it is left to the   *)
(* DMA; its interrupt is acknowledged all the same.                        *)
eprx_recv_op ==
  \/ /\ "rx" \in irq /\ rxFifo # None /\ ~ready
     /\ buf' = rxFifo
     /\ ready' = TRUE
     /\ rxFifo' = None
  \/ /\ "rx" \notin irq \/ rxFifo = None \/ ready
     /\ UNCHANGED <<buf, ready, rxFifo>>

(* The endpoint branches: endpoint 0 and the IN endpoint leave the shared  *)
(* state alone.  The index saved on entry is not the one written back.     *)
IrqEndpoints ==
  /\ irq # {} /\ irq \cap {"reset", "disconnect"} = {}
  /\ irq' = {}
  /\ eprx_recv_op
  /\ enable' = (enable \/ "dma" \in irq)
  /\ ep' = CtrlEp
  /\ UNCHANGED <<pc, loopVars, status, inVars, dma, hostVars>>

Irq == IrqReset \/ IrqDisconnect \/ IrqEndpoints

(* The receive channel takes whatever packet arrives. *)
DmaTake ==
  /\ dma > 0 /\ rxFifo # None
  /\ rxFifo' = None
  /\ dma' = dma - 1
  /\ irq' = IF dma = 1 THEN irq \cup {"dma"} ELSE irq
  /\ UNCHANGED <<pc, loopVars, sharedVars, ep, inVars, hostVars>>

-----------------------------------------------------------------------------
(* The host and the bus *)

Answered == got # <<>> /\ got[Len(got)] = <<Csw(asked.tag)>>

(* One command at a time; after a reset the host leaves the device the     *)
(* time to recover that the bus protocol grants.                           *)
HostCommand ==
  /\ asked = None \/ Answered
  /\ rxFifo = None /\ "reset" \notin irq
  /\ sent.cbw < MaxTag
  /\ \E k \in Kinds : \E n \in Lengths(k) : asked' = Cbw(sent.cbw + 1, k, n)
  /\ sent' = [cbw |-> sent.cbw + 1, data |-> 0]
  /\ rxFifo' = asked'
  /\ irq' = irq \cup {"rx"}
  /\ got' = <<>>
  /\ UNCHANGED <<pc, loopVars, sharedVars, ep, inVars, dma, events>>

(* The data of a write follows its command as soon as the FIFO is free. *)
HostData ==
  /\ asked # None /\ asked.kind = "out" /\ sent.data < asked.len
  /\ rxFifo = None
  /\ rxFifo' = Data(asked.tag)
  /\ sent' = [sent EXCEPT !.data = @ + 1]
  /\ irq' = irq \cup {"rx"}
  /\ UNCHANGED <<pc, loopVars, sharedVars, ep, inVars, dma, asked, got, events>>

(* The host takes whatever the FIFO of the IN endpoint holds. *)
HostTake ==
  /\ asked # None /\ txReady
  /\ got' = Append(got, txFifo)
  /\ txFifo' = <<>>
  /\ txReady' = FALSE
  /\ irq' = irq \cup {"tx"}
  /\ UNCHANGED <<pc, loopVars, sharedVars, ep, outVars, asked, sent, events>>

(* A bus reset ends the host's command and flushes the FIFOs. *)
BusReset ==
  /\ "reset" \in Events
  /\ irq' = irq \cup {"reset"}
  /\ txFifo' = <<>> /\ txReady' = FALSE /\ rxFifo' = None
  /\ asked' = None /\ got' = <<>>
  /\ UNCHANGED <<dma, sent>>

BusOther ==
  /\ \E e \in Events \ {"reset"} : irq' = irq \cup {e}
  /\ UNCHANGED <<inVars, outVars, asked, sent, got>>

(* Nothing to do but wait for the host. *)
AtRest == pc = "loop" /\ (status = "RECEIVE_DATA" \/ (status = "IDLE" /\ ~ready))

BusEvent ==
  /\ events < MaxEvents
  /\ events' = events + 1
  /\ Quiet => AtRest
  /\ BusReset \/ BusOther
  /\ UNCHANGED <<pc, loopVars, sharedVars, ep>>

Host == HostCommand \/ HostData \/ HostTake

Next == MainLoop \/ Irq \/ DmaTake \/ Host \/ BusEvent

Spec == Init /\ [][Next]_vars

(* The loop runs for ever, a pending interrupt is taken, the DMA takes a   *)
(* packet it waits for, and a host that waits for an answer keeps asking.  *)
Fairness ==
  WF_vars(MainLoop) /\ WF_vars(Irq) /\ WF_vars(DmaTake) /\ WF_vars(HostTake)

FairSpec == Spec /\ Fairness

-----------------------------------------------------------------------------
(* Properties *)

(* What a command is answered with: its data, packet by packet, then a CSW *)
(* with its tag.                                                           *)
Answer(c) ==
  [i \in 1 .. IF c.kind = "in" THEN c.len ELSE 0 |-> <<Data(c.tag)>>]
    \o << <<Csw(c.tag)>> >>

(* The host never sees a packet out of order, one too many or one of       *)
(* another command: what it has got is a beginning of the answer.          *)
AnswerInOrder ==
  asked # None /\ got # <<>> =>
    /\ Len(got) <= Len(Answer(asked))
    /\ got = SubSeq(Answer(asked), 1, Len(got))

(* The command buffer is not overwritten while the loop works on it: the   *)
(* packets of a write's data arrive before and after the DMA is started.   *)
CommandIntact ==
  asked # None /\ ~Answered /\ (status # "IDLE" \/ ready) => buf = asked

(* When sunxi_usb_write_fifo has returned, the host has every packet: the  *)
(* comment "Wait for tx packet sent out" of sunxi_usb_write_complete.      *)
NoPacketStranded == pc = "loop" => txFifo = <<>>

(* A receive channel left over from before a reset would take the next CBW *)
(* for data.  A completion does outlive the reset, and sets                *)
(* sunxi_usb_mass_write_enable with no write under way; yet while a write  *)
(* is received, the flag says of this write that all its data have come.   *)
DmaOfCommand ==
  "reset" \notin irq =>
    /\ dma > 0 /\ rxFifo # None => rxFifo.item = "data"
    /\ status = "RECEIVE_DATA" /\ "dma" \notin irq =>
         (enable <=> asked # None /\ sent.data = asked.len /\ rxFifo = None)

(* Every command that is read or that asks for no data gets its status,    *)
(* unless a bus reset ends it.                                             *)
EveryCommandAnswered ==
  \A t \in 1 .. MaxTag :
    asked.tag = t /\ asked.kind \in {"status", "in"} ~> Answered \/ asked.tag # t
=============================================================================

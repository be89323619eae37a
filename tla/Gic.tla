-------------------------------- MODULE Gic --------------------------------
(***************************************************************************)
(* Interrupt dispatch on the arm32 boards: src/drivers/intc/sys-gic.c, the *)
(* I bit of include/arch/arm32/interrupt.h, and the part of the GIC that   *)
(* the code relies on.  The main program installs, enables, disables and   *)
(* frees handlers while devices raise their level-sensitive lines; do_irq  *)
(* preempts it between any two accesses when the I bit is clear.           *)
(*                                                                         *)
(* gic_distributor_init gives every interrupt the priority 0xa0, so an     *)
(* acknowledged interrupt holds the others off until GIC_END_INT_REG is    *)
(* written.  Only shared peripheral interrupts have handlers; those of the *)
(* other two kinds only log and are left out.                              *)
(***************************************************************************)
EXTENDS Integers, Sequences

CONSTANTS
  Irqs,        \* shared peripheral interrupts below GIC_IRQ_NUM
  Outside,     \* a number that is not: GIC_IRQ_NUM or above
  Handlers,    \* functions a driver installs; each expects data of its own
  FreeMasked,  \* TRUE: irq_free_handler is called with interrupts masked too
  MaxDepth     \* bound: interrupts that preempt one another

ASSUME GicAssumption ==
  /\ Outside \notin Irqs
  /\ \A h \in Handlers : h # "NULL" /\ h # "default_isr"
  /\ FreeMasked \in BOOLEAN /\ MaxDepth \in Nat \ {0}

VARIABLES
  func, data,  \* sunxi_int_handlers[i]
  enabled,     \* GIC_SET_EN
  line,        \* the interrupts whose device asserts its line
  active,      \* acknowledged and not ended
  open,        \* the I bit is clear
  stack,       \* do_irq activations, the innermost first
  main,        \* the call the main program is in, or "ready"
  wanted       \* the main program wants interrupts: it last called
               \* arm32_interrupt_enable rather than arm32_interrupt_disable

vars == <<func, data, enabled, line, active, open, stack, main, wanted>>

Ready == [op |-> "ready"]
Call(op, i, f, flag) == [op |-> op, irq |-> i, f |-> f, flag |-> flag]

-----------------------------------------------------------------------------
(* arch_interrupt_init on zeroed memory: it is the data, not the function, *)
(* that becomes default_isr.  The boards enter it with interrupts masked.  *)
Init ==
  /\ func = [i \in Irqs |-> "NULL"]
  /\ data = [i \in Irqs |-> "default_isr"]
  /\ enabled = {} /\ line = {} /\ active = {}
  /\ open = FALSE /\ stack = <<>> /\ main = Ready /\ wanted = FALSE

(* The main program runs while no interrupt is being served. *)
InMain(op) == stack = <<>> /\ main.op = op

arm32_interrupt_enable ==
  /\ InMain("ready") /\ open' = TRUE /\ wanted' = TRUE
  /\ UNCHANGED <<func, data, enabled, line, active, stack, main>>

arm32_interrupt_disable ==
  /\ InMain("ready") /\ open' = FALSE /\ wanted' = FALSE
  /\ UNCHANGED <<func, data, enabled, line, active, stack, main>>

(* Mutant of InstallBegin: the table is written with interrupts open. *)
InstallOpen ==
  /\ InMain("ready")
  /\ \E i \in Irqs, h \in Handlers : main' = Call("data", i, h, FALSE)
  /\ UNCHANGED <<func, data, enabled, line, active, open, stack, wanted>>

(* The checks of the arguments: irq < GIC_IRQ_NUM, handle_irq not null. *)
InRange(i) == i \in Irqs
Given(h) == h # "NULL"

(* irq_install_handler: interrupts are masked if they were open, then the  *)
(* data and the function are written and the mask is put back.             *)
InstallBegin ==
  /\ InMain("ready")
  /\ \E i \in Irqs \cup {Outside}, h \in Handlers \cup {"NULL"} :
       main' = Call(IF InRange(i) /\ Given(h) THEN "data" ELSE "leave", i, h, open)
  /\ open' = FALSE
  /\ UNCHANGED <<func, data, enabled, line, active, stack, wanted>>

(* irq_free_handler always opens interrupts in the end. *)
FreeBegin ==
  /\ InMain("ready") /\ (open \/ FreeMasked)
  /\ \E i \in Irqs \cup {Outside} :
       main' = Call(IF InRange(i) THEN "data" ELSE "leave", i, "default_isr", TRUE)
  /\ open' = FALSE
  /\ UNCHANGED <<func, data, enabled, line, active, stack, wanted>>

DataFor(f) == IF f \in Handlers THEN f ELSE "NULL"

WriteData ==
  /\ InMain("data")
  /\ data' = [data EXCEPT ![main.irq] = DataFor(main.f)]
  /\ main' = [main EXCEPT !.op = "func"]
  /\ UNCHANGED <<func, enabled, line, active, open, stack, wanted>>

WriteFunc ==
  /\ InMain("func")
  /\ func' = [func EXCEPT ![main.irq] = main.f]
  /\ main' = [main EXCEPT !.op = "leave"]
  /\ UNCHANGED <<data, enabled, line, active, open, stack, wanted>>

(* Mutant of Leave: interrupts stay masked. *)
LeaveMasked ==
  /\ InMain("leave")
  /\ main' = Ready
  /\ UNCHANGED <<func, data, enabled, line, active, open, stack, wanted>>

Leave ==
  /\ InMain("leave")
  /\ open' = (open \/ main.flag)
  /\ main' = Ready
  /\ UNCHANGED <<func, data, enabled, line, active, stack, wanted>>

(* sunxi_usb_init, the only driver that enables an interrupt, has          *)
(* installed its handler first.                                            *)
MayEnable(i) == func[i] # "NULL"

irq_enable ==
  /\ InMain("ready")
  /\ \E i \in Irqs \cup {Outside} :
       /\ i \in Irqs => MayEnable(i)
       /\ enabled' = IF InRange(i) THEN enabled \cup {i} ELSE enabled
  /\ UNCHANGED <<func, data, line, active, open, stack, main, wanted>>

irq_disable ==
  /\ InMain("ready")
  /\ \E i \in Irqs \cup {Outside} :
       enabled' = IF InRange(i) THEN enabled \ {i} ELSE enabled
  /\ UNCHANGED <<func, data, line, active, open, stack, main, wanted>>

MainProgram ==
  \/ arm32_interrupt_enable \/ arm32_interrupt_disable
  \/ InstallBegin \/ FreeBegin \/ WriteData \/ WriteFunc \/ Leave
  \/ irq_enable \/ irq_disable

-----------------------------------------------------------------------------
(* do_irq *)

Top(at) == stack # <<>> /\ stack[1].at = at
Step(at) == [stack EXCEPT ![1].at = at]

(* The exception is taken and GIC_INT_ACK_REG read.  *)
Acknowledge ==
  /\ open /\ active = {} /\ Len(stack) < MaxDepth
  /\ \E i \in line \cap enabled :
       /\ active' = {i}
       /\ stack' = <<[irq |-> i, at |-> "dispatch"]>> \o stack
  /\ open' = FALSE
  /\ UNCHANGED <<func, data, enabled, line, main, wanted>>

(* gic_spi_handler: a freed interrupt is ended without being served. *)
Dispatch ==
  /\ Top("dispatch")
  /\ stack' = Step(IF func[stack[1].irq] = "default_isr" THEN "end" ELSE "handler")
  /\ UNCHANGED <<func, data, enabled, line, active, open, main, wanted>>

(* The handler serves its device, and may give up its interrupt.           *)
Serve ==
  /\ Top("handler")
  /\ line' = line \ {stack[1].irq}
  /\ stack' = Step("end")
  /\ \/ UNCHANGED <<func, data, enabled, open>>
     \/ /\ enabled' = enabled \ {stack[1].irq}
        /\ UNCHANGED <<func, data, open>>
     \/ /\ FreeMasked
        /\ func' = [func EXCEPT ![stack[1].irq] = "default_isr"]
        /\ data' = [data EXCEPT ![stack[1].irq] = "NULL"]
        /\ open' = TRUE
        /\ UNCHANGED enabled
  /\ UNCHANGED <<active, main, wanted>>

(* Mutant of EndOfInterrupt: only interrupts that had a handler are ended. *)
EndOnlyHandled ==
  /\ Top("end")
  /\ active' = IF func[stack[1].irq] = "default_isr" THEN active ELSE active \ {stack[1].irq}
  /\ stack' = Step("return")
  /\ UNCHANGED <<func, data, enabled, line, open, main, wanted>>

(* GIC_END_INT_REG, GIC_DEACT_INT_REG and the pending bit, which a line    *)
(* that is still asserted sets again.                                      *)
EndOfInterrupt ==
  /\ Top("end")
  /\ active' = active \ {stack[1].irq}
  /\ stack' = Step("return")
  /\ UNCHANGED <<func, data, enabled, line, open, main, wanted>>

(* The exception return restores the I bit it was taken with. *)
ReturnFromIrq ==
  /\ Top("return")
  /\ stack' = Tail(stack)
  /\ open' = TRUE
  /\ UNCHANGED <<func, data, enabled, line, active, main, wanted>>

do_irq == Acknowledge \/ Dispatch \/ Serve \/ EndOfInterrupt \/ ReturnFromIrq

Device ==
  /\ \E i \in Irqs : line' = line \cup {i}
  /\ UNCHANGED <<func, data, enabled, active, open, stack, main, wanted>>

Next == MainProgram \/ do_irq \/ Device

Spec == Init /\ [][Next]_vars

-----------------------------------------------------------------------------
(* Properties *)

(* The type of every variable. *)
TypeOK ==
  /\ func \in [Irqs -> {"NULL", "default_isr"} \cup Handlers]
  /\ data \in [Irqs -> {"NULL", "default_isr"} \cup Handlers]
  /\ enabled \subseteq Irqs /\ line \subseteq Irqs /\ active \subseteq Irqs
  /\ open \in BOOLEAN /\ wanted \in BOOLEAN
  /\ main.op \in {"ready", "data", "func", "leave"}
  /\ \A k \in 1 .. Len(stack) :
       /\ stack[k].irq \in Irqs
       /\ stack[k].at \in {"dispatch", "handler", "end", "return"}

(* A handler is never called with the data of another one or after its     *)
(* data are gone, and no call goes through a null pointer, although the    *)
(* main program rewrites the table while interrupts arrive.                *)
CallIsConsistent ==
  Top("handler") =>
    LET i == stack[1].irq IN func[i] \in Handlers /\ data[i] = func[i]

(* Every interrupt acknowledged is ended before the main program goes on:  *)
(* one left active would hold off all others for ever.                     *)
NothingLeftActive == stack = <<>> => active = {}

(* irq_install_handler and irq_free_handler return with the I bit as their *)
(* caller wants it: the caller's mask is a critical section.               *)
MaskKept == InMain("ready") => open = wanted

(* The comment of irq_install_handler: in irq mode interrupts are already  *)
(* disabled and need not be enabled; do_irq is never preempted by itself.  *)
NoNesting == Len(stack) <= 1
=============================================================================

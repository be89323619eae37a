----------------------------- MODULE GicProofs -----------------------------
(***************************************************************************)
(* Proofs about Gic for every set of interrupts and handlers: handlers are *)
(* called with their own data and every interrupt that is acknowledged is  *)
(* ended, whoever frees a handler; and the caller's mask is kept and       *)
(* do_irq is not preempted, if nobody frees one with interrupts masked.    *)
(***************************************************************************)
EXTENDS Gic, SequenceTheorems, TLAPS

Activation == [irq : Irqs, at : {"dispatch", "handler", "end", "return"}]

Calls ==
  {Ready} \cup [op   : {"data", "func", "leave"},
                irq  : Irqs \cup {Outside},
                f    : Handlers \cup {"NULL", "default_isr"},
                flag : BOOLEAN]

Functions == {"NULL", "default_isr"} \cup Handlers

Types ==
  /\ func \in [Irqs -> Functions] /\ data \in [Irqs -> Functions]
  /\ enabled \subseteq Irqs /\ line \subseteq Irqs /\ active \subseteq Irqs
  /\ open \in BOOLEAN /\ wanted \in BOOLEAN
  /\ main \in Calls
  /\ stack \in Seq(Activation)

(* A call that writes the table has had its arguments checked, and every   *)
(* call on the table runs with interrupts masked and none being served.    *)
CallOK ==
  /\ main.op \in {"data", "func"} =>
       main.irq \in Irqs /\ main.f \in Handlers \cup {"default_isr"}
  /\ main.op # "ready" => stack = <<>> /\ ~open

(* Whether the entry of interrupt i is half written: its data are those of *)
(* the function that comes next.                                           *)
HalfWritten(i) == main.op = "func" /\ main.irq = i

TableOK ==
  \A i \in Irqs :
    /\ HalfWritten(i) => data[i] = DataFor(main.f)
    /\ ~HalfWritten(i) /\ func[i] \in Handlers => data[i] = func[i]

(* An interrupt that is enabled, or being served, has had a handler. *)
NeverNull ==
  /\ \A i \in enabled : func[i] # "NULL"
  /\ \A k \in 1 .. Len(stack) : func[stack[k].irq] # "NULL"

(* Only the innermost activation of do_irq has anything left to do, and    *)
(* its interrupt is the only one that can be active.                       *)
StackOK ==
  /\ \A k \in 2 .. Len(stack) : stack[k].at = "return"
  /\ stack = <<>> => active = {}
  /\ stack # <<>> => active = IF stack[1].at = "return" THEN {} ELSE {stack[1].irq}
  /\ Top("handler") => func[stack[1].irq] \in Handlers

(* The inductive invariant. *)
IInv == Types /\ CallOK /\ TableOK /\ NeverNull /\ StackOK

-----------------------------------------------------------------------------
(* The three things do_irq does to its stack. *)

(* An interrupt is taken. *)
LEMMA Push ==
  ASSUME NEW s \in Seq(Activation), NEW a \in Activation
  PROVE  /\ <<a>> \o s \in Seq(Activation)
         /\ <<a>> \o s # <<>>
         /\ Len(<<a>> \o s) = Len(s) + 1
         /\ (<<a>> \o s)[1] = a
         /\ \A k \in 2 .. Len(s) + 1 : (<<a>> \o s)[k] = s[k - 1]
<1>1. <<a>> \in Seq(Activation) /\ Len(<<a>>) = 1 /\ <<a>>[1] = a
  OBVIOUS
<1>2. Len(s) \in Nat
  BY LenProperties
<1> DEFINE h == <<a>>
           t == h \o s
<1> HIDE DEF h
<1>3. /\ t \in Seq(Activation)
      /\ Len(t) = 1 + Len(s)
      /\ \A k \in 1 .. 1 + Len(s) : t[k] = IF k <= 1 THEN h[k] ELSE s[k - 1]
  BY <1>1, ConcatProperties DEF h
<1> HIDE DEF t
<1>4. t[1] = a
  BY <1>1, <1>2, <1>3 DEF h
<1>5. ASSUME NEW k \in 2 .. Len(s) + 1 PROVE t[k] = s[k - 1]
  BY <1>2, <1>3
<1>6. t # <<>>
  BY <1>2, <1>3
<1> QED BY <1>2, <1>3, <1>4, <1>5, <1>6 DEF t, h

(* The exception returns. *)
LEMMA Pop ==
  ASSUME NEW s \in Seq(Activation), s # <<>>
  PROVE  /\ Tail(s) \in Seq(Activation)
         /\ Len(Tail(s)) = Len(s) - 1
         /\ \A k \in 1 .. Len(s) - 1 : Tail(s)[k] = s[k + 1]
  BY HeadTailProperties, LenProperties

(* The innermost activation goes on to its next step. *)
Stepped(s, at) == [s EXCEPT ![1].at = at]

(* It does so without disturbing the ones it has preempted. *)
LEMMA Advance ==
  ASSUME NEW s \in Seq(Activation), s # <<>>,
         NEW at \in {"dispatch", "handler", "end", "return"}
  PROVE  /\ Stepped(s, at) \in Seq(Activation)
         /\ Stepped(s, at) # <<>>
         /\ Len(Stepped(s, at)) = Len(s)
         /\ Stepped(s, at)[1].at = at
         /\ Stepped(s, at)[1].irq = s[1].irq
         /\ \A k \in 2 .. Len(s) : Stepped(s, at)[k] = s[k]
<1>1. Len(s) \in Nat /\ Len(s) >= 1 /\ 1 \in 1 .. Len(s) /\ s[1] \in Activation
  BY LenProperties, EmptySeq, ElementOfSeq
<1> DEFINE a == [s[1] EXCEPT !.at = at]
<1>2. a \in Activation /\ a.at = at /\ a.irq = s[1].irq
  BY <1>1 DEF Activation
<1> HIDE DEF a
<1>3. Stepped(s, at) = [s EXCEPT ![1] = a]
  BY DEF a, Stepped
<1> QED BY <1>1, <1>2, <1>3, ExceptSeq

-----------------------------------------------------------------------------
(* The invariant holds at first. *)
LEMMA InitInv == Init => IInv
<1> SUFFICES ASSUME Init PROVE IInv
  OBVIOUS
<1>1. main = Ready /\ main.op = "ready" /\ stack = <<>> /\ Len(stack) = 0
  BY DEF Init, Ready
<1>2. Types
  BY <1>1, EmptySeq DEF Init, Types, Functions, Calls
<1>3. CallOK /\ TableOK /\ NeverNull
  BY <1>1, GicAssumption DEF Init, CallOK, TableOK, HalfWritten, NeverNull
<1>4. StackOK
  BY <1>1 DEF Init, StackOK, Top
<1> QED BY <1>2, <1>3, <1>4 DEF IInv

(* What a call record is, and what its steps make of it. *)
LEMMA CallFields ==
  ASSUME NEW m \in Calls, m.op # "ready"
  PROVE  /\ m.op \in {"data", "func", "leave"}
         /\ m.irq \in Irqs \cup {Outside}
         /\ m.f \in Handlers \cup {"NULL", "default_isr"}
         /\ m.flag \in BOOLEAN
         /\ \A op \in {"data", "func", "leave"} :
              /\ [m EXCEPT !.op = op] \in Calls
              /\ [m EXCEPT !.op = op].op = op
              /\ [m EXCEPT !.op = op].irq = m.irq
              /\ [m EXCEPT !.op = op].f = m.f
              /\ [m EXCEPT !.op = op].flag = m.flag
  BY DEF Calls, Ready

(* The fields of a call that begins. *)
LEMMA NewCall ==
  ASSUME NEW op \in {"data", "func", "leave"}, NEW i \in Irqs \cup {Outside},
         NEW f \in Handlers \cup {"NULL", "default_isr"}, NEW flag \in BOOLEAN
  PROVE  /\ Call(op, i, f, flag) \in Calls
         /\ Call(op, i, f, flag).op = op
         /\ Call(op, i, f, flag).irq = i
         /\ Call(op, i, f, flag).f = f
         /\ Call(op, i, f, flag).flag = flag
  BY DEF Call, Calls

(* Being ready is no call. *)
LEMMA ReadyCall == Ready \in Calls /\ Ready.op = "ready"
  BY DEF Ready, Calls

-----------------------------------------------------------------------------
(* The steps of the main program keep the invariant. *)
LEMMA MaskStep ==
  ASSUME IInv, arm32_interrupt_enable \/ arm32_interrupt_disable
  PROVE  IInv'
<1>1. /\ UNCHANGED <<func, data, enabled, line, active, stack, main>>
      /\ main.op = "ready" /\ open' \in BOOLEAN /\ wanted' \in BOOLEAN
  BY DEF arm32_interrupt_enable, arm32_interrupt_disable, InMain
<1>2. Types' /\ CallOK' /\ TableOK' /\ NeverNull' /\ StackOK'
  BY <1>1 DEF IInv, Types, CallOK, TableOK, HalfWritten, NeverNull, StackOK, Top
<1> QED BY <1>2 DEF IInv

(* A call of either kind: its arguments have been checked if it is to      *)
(* write the table, and interrupts are masked.                             *)
LEMMA BeginStep ==
  ASSUME IInv, InMain("ready"),
         NEW op \in {"data", "leave"}, NEW i \in Irqs \cup {Outside},
         NEW f \in Handlers \cup {"NULL", "default_isr"}, NEW flag \in BOOLEAN,
         op = "data" => i \in Irqs /\ f \in Handlers \cup {"default_isr"},
         main' = Call(op, i, f, flag), open' = FALSE,
         UNCHANGED <<func, data, enabled, line, active, stack, wanted>>
  PROVE  IInv'
<1>1. main.op = "ready" /\ stack = <<>>
  BY DEF InMain
<1>2. main' \in Calls /\ main'.op = op /\ main'.irq = i /\ main'.f = f
  BY NewCall
<1>3. Types'
  BY <1>2 DEF IInv, Types
<1>4. CallOK'
  BY <1>1, <1>2 DEF CallOK
<1>5. TableOK' /\ NeverNull' /\ StackOK'
  BY <1>1, <1>2 DEF IInv, TableOK, HalfWritten, NeverNull, StackOK, Top
<1> QED BY <1>3, <1>4, <1>5 DEF IInv

(* irq_install_handler checks both its arguments. *)
LEMMA InstallBeginStep ==
  ASSUME IInv, InstallBegin
  PROVE  IInv'
<1>1. PICK i \in Irqs \cup {Outside}, h \in Handlers \cup {"NULL"} :
        main' = Call(IF InRange(i) /\ Given(h) THEN "data" ELSE "leave", i, h, open)
  BY DEF InstallBegin
<1> DEFINE op == IF InRange(i) /\ Given(h) THEN "data" ELSE "leave"
<1>2. /\ op \in {"data", "leave"}
      /\ op = "data" => i \in Irqs /\ h \in Handlers
  BY DEF InRange, Given
<1>3. open \in BOOLEAN /\ h \in Handlers \cup {"NULL", "default_isr"}
  BY DEF IInv, Types
<1>4. main' = Call(op, i, h, open)
  BY <1>1
<1> HIDE DEF op
<1> QED BY <1>2, <1>3, <1>4, BeginStep DEF InstallBegin

(* irq_free_handler checks the number. *)
LEMMA FreeBeginStep ==
  ASSUME IInv, FreeBegin
  PROVE  IInv'
<1>1. PICK i \in Irqs \cup {Outside} :
        main' = Call(IF InRange(i) THEN "data" ELSE "leave", i, "default_isr", TRUE)
  BY DEF FreeBegin
<1> DEFINE op == IF InRange(i) THEN "data" ELSE "leave"
<1>2. op \in {"data", "leave"} /\ (op = "data" => i \in Irqs)
  BY DEF InRange
<1>3. "default_isr" \in Handlers \cup {"NULL", "default_isr"} /\ TRUE \in BOOLEAN
  OBVIOUS
<1>4. main' = Call(op, i, "default_isr", TRUE)
  BY <1>1
<1> HIDE DEF op
<1> QED BY <1>2, <1>3, <1>4, BeginStep DEF FreeBegin

(* While its data are written the old function stays, and no interrupt can *)
(* come in to see the two.                                                 *)
LEMMA WriteDataStep ==
  ASSUME IInv, WriteData
  PROVE  IInv'
<1>1. /\ UNCHANGED <<func, enabled, line, active, open, stack, wanted>>
      /\ data' = [data EXCEPT ![main.irq] = DataFor(main.f)]
      /\ main' = [main EXCEPT !.op = "func"]
      /\ main.op = "data" /\ stack = <<>> /\ ~open
  BY DEF WriteData, InMain, IInv, CallOK
<1>2. main.irq \in Irqs /\ main.f \in Handlers \cup {"default_isr"}
  BY <1>1 DEF IInv, CallOK
<1>3. /\ main' \in Calls /\ main'.op = "func"
      /\ main'.irq = main.irq /\ main'.f = main.f
  BY <1>1, CallFields DEF IInv, Types
<1>4. DataFor(main.f) \in Functions
  BY DEF DataFor, Functions
<1>5. data' \in [Irqs -> Functions]
  BY <1>1, <1>4 DEF IInv, Types
<1>6. Types'
  BY <1>1, <1>3, <1>5 DEF IInv, Types
<1>7. CallOK'
  BY <1>1, <1>2, <1>3 DEF CallOK
<1>8. TableOK'
  <2>1. ASSUME NEW i \in Irqs, i = main.irq
        PROVE  data'[i] = DataFor(main'.f) /\ HalfWritten(i)'
    BY <1>1, <1>2, <1>3, <2>1 DEF IInv, Types, HalfWritten
  <2>2. ASSUME NEW i \in Irqs, i # main.irq
        PROVE  data'[i] = data[i] /\ ~HalfWritten(i)' /\ ~HalfWritten(i)
    BY <1>1, <1>2, <1>3, <2>2 DEF IInv, Types, HalfWritten
  <2> QED BY <1>1, <2>1, <2>2 DEF IInv, TableOK
<1>9. NeverNull' /\ StackOK'
  BY <1>1 DEF IInv, NeverNull, StackOK, Top
<1> QED BY <1>6, <1>7, <1>8, <1>9 DEF IInv

(* With its function written the entry is whole again. *)
LEMMA WriteFuncStep ==
  ASSUME IInv, WriteFunc
  PROVE  IInv'
<1>1. /\ UNCHANGED <<data, enabled, line, active, open, stack, wanted>>
      /\ func' = [func EXCEPT ![main.irq] = main.f]
      /\ main' = [main EXCEPT !.op = "leave"]
      /\ main.op = "func" /\ stack = <<>> /\ ~open
  BY DEF WriteFunc, InMain, IInv, CallOK
<1>2. main.irq \in Irqs /\ main.f \in Handlers \cup {"default_isr"}
  BY <1>1 DEF IInv, CallOK
<1>3. main' \in Calls /\ main'.op = "leave"
  BY <1>1, CallFields DEF IInv, Types
<1>4. func' \in [Irqs -> Functions]
  BY <1>1, <1>2 DEF IInv, Types, Functions
<1>5. /\ func'[main.irq] = main.f
      /\ \A i \in Irqs : i # main.irq => func'[i] = func[i]
  BY <1>1, <1>2 DEF IInv, Types
<1>6. Types'
  BY <1>1, <1>3, <1>4 DEF IInv, Types
<1>7. CallOK'
  BY <1>1, <1>3 DEF CallOK
<1>8. TableOK'
  <2>1. data[main.irq] = DataFor(main.f)
    BY <1>1, <1>2 DEF IInv, TableOK, HalfWritten
  <2>2. ASSUME NEW i \in Irqs, func'[i] \in Handlers PROVE data[i] = func'[i]
    <3>1. CASE i = main.irq
      BY <1>5, <2>1, <2>2, <3>1 DEF DataFor
    <3>2. CASE i # main.irq
      BY <1>5, <2>2, <3>2 DEF IInv, TableOK, HalfWritten
    <3> QED BY <3>1, <3>2
  <2>3. \A i \in Irqs : ~HalfWritten(i)'
    BY <1>3 DEF HalfWritten
  <2> QED BY <1>1, <2>2, <2>3 DEF TableOK
<1>9. NeverNull'
  <2>1. \A i \in enabled : func'[i] # "NULL"
    BY <1>2, <1>5, GicAssumption DEF IInv, Types, NeverNull
  <2> QED BY <1>1, <2>1 DEF NeverNull
<1>10. StackOK'
  BY <1>1 DEF IInv, StackOK, Top
<1> QED BY <1>6, <1>7, <1>8, <1>9, <1>10 DEF IInv

(* The call returns, and the mask is put back. *)
LEMMA LeaveStep ==
  ASSUME IInv, Leave
  PROVE  IInv'
<1>1. /\ UNCHANGED <<func, data, enabled, line, active, stack, wanted>>
      /\ open' = (open \/ main.flag)
      /\ main' = Ready /\ main.op = "leave" /\ stack = <<>>
  BY DEF Leave, InMain
<1>2. main.flag \in BOOLEAN /\ open' \in BOOLEAN
  BY <1>1, CallFields DEF IInv, Types
<1>3. Types'
  BY <1>1, <1>2, ReadyCall DEF IInv, Types
<1>4. CallOK' /\ TableOK' /\ NeverNull' /\ StackOK'
  BY <1>1, ReadyCall DEF IInv, CallOK, TableOK, HalfWritten, NeverNull, StackOK, Top
<1> QED BY <1>3, <1>4 DEF IInv

(* Only interrupts that have had a handler are enabled. *)
LEMMA EnableStep ==
  ASSUME IInv, irq_enable \/ irq_disable
  PROVE  IInv'
<1>1. /\ UNCHANGED <<func, data, line, active, open, stack, main, wanted>>
      /\ \A j \in enabled' : j \in enabled \/ (j \in Irqs /\ func[j] # "NULL")
  BY DEF irq_enable, irq_disable, InRange, MayEnable
<1>2. enabled' \subseteq Irqs
  BY <1>1 DEF IInv, Types
<1>3. Types'
  BY <1>1, <1>2 DEF IInv, Types
<1>4. CallOK' /\ TableOK' /\ NeverNull' /\ StackOK'
  BY <1>1 DEF IInv, CallOK, TableOK, HalfWritten, NeverNull, StackOK, Top
<1> QED BY <1>3, <1>4 DEF IInv

-----------------------------------------------------------------------------
(* The steps of do_irq keep the invariant. *)
LEMMA AcknowledgeStep ==
  ASSUME IInv, Acknowledge
  PROVE  IInv'
<1>1. PICK i \in line \cap enabled :
        /\ active' = {i}
        /\ stack' = <<[irq |-> i, at |-> "dispatch"]>> \o stack
  BY DEF Acknowledge
<1>2. /\ UNCHANGED <<func, data, enabled, line, main, wanted>>
      /\ open /\ active = {} /\ open' = FALSE
  BY DEF Acknowledge
<1>3. i \in Irqs /\ func[i] # "NULL"
  BY DEF IInv, Types, NeverNull
<1> DEFINE a == [irq |-> i, at |-> "dispatch"]
<1>4. a \in Activation /\ a.irq = i /\ a.at = "dispatch"
  BY <1>3 DEF Activation
<1> HIDE DEF a
<1>5. stack \in Seq(Activation) /\ Len(stack) \in Nat
  BY LenProperties DEF IInv, Types
<1>6. /\ stack' \in Seq(Activation) /\ stack' # <<>>
      /\ Len(stack') = Len(stack) + 1 /\ stack'[1] = a
      /\ \A k \in 2 .. Len(stack) + 1 : stack'[k] = stack[k - 1]
  BY <1>1, <1>4, <1>5, Push DEF a
<1>7. Types'
  BY <1>1, <1>2, <1>3, <1>6 DEF IInv, Types
<1>8. main.op = "ready" /\ CallOK'
  BY <1>2 DEF IInv, CallOK
<1>9. TableOK'
  BY <1>2 DEF IInv, TableOK, HalfWritten
<1>10. \A k \in 1 .. Len(stack) : stack[k].at = "return"
  <2>1. ASSUME stack # <<>> PROVE stack[1].at = "return"
    BY <1>2, <2>1 DEF IInv, StackOK
  <2>2. ASSUME NEW k \in 1 .. Len(stack) PROVE stack[k].at = "return"
    <3>1. CASE k = 1
      BY <1>5, <2>1, <3>1, EmptySeq
    <3>2. CASE k # 1
      BY <1>5, <3>2 DEF IInv, StackOK
    <3> QED BY <3>1, <3>2
  <2> QED BY <2>2
<1>11. \A k \in 2 .. Len(stack') :
         stack'[k].at = "return" /\ func[stack'[k].irq] # "NULL"
  <2>1. ASSUME NEW k \in 2 .. Len(stack')
        PROVE  k - 1 \in 1 .. Len(stack) /\ stack'[k] = stack[k - 1]
    BY <1>5, <1>6
  <2> QED BY <1>10, <2>1 DEF IInv, NeverNull
<1>12. NeverNull'
  <2>1. ASSUME NEW k \in 1 .. Len(stack') PROVE func[stack'[k].irq] # "NULL"
    <3>1. CASE k = 1
      BY <1>3, <1>4, <1>6, <3>1
    <3>2. CASE k # 1
      BY <1>11, <1>5, <1>6, <3>2
    <3> QED BY <3>1, <3>2
  <2> QED BY <1>2, <2>1 DEF IInv, NeverNull
<1>13. StackOK'
  BY <1>1, <1>4, <1>6, <1>11 DEF StackOK, Top
<1> QED BY <1>7, <1>8, <1>9, <1>12, <1>13 DEF IInv

(* What is left of the stack when the innermost activation moves on. *)
LEMMA StepFacts ==
  ASSUME IInv, stack # <<>>, NEW at \in {"dispatch", "handler", "end", "return"},
         stack' = Step(at)
  PROVE  /\ stack' \in Seq(Activation) /\ stack' # <<>>
         /\ stack'[1].at = at /\ stack'[1].irq = stack[1].irq
         /\ stack[1].irq \in Irqs
         /\ func[stack[1].irq] # "NULL"
         /\ Len(stack') = Len(stack)
         /\ \A k \in 1 .. Len(stack) : stack'[k].irq = stack[k].irq
         /\ \A k \in 2 .. Len(stack') : stack'[k].at = "return"
         /\ main.op = "ready"
<1>1. stack \in Seq(Activation) /\ Len(stack) \in Nat /\ Len(stack) >= 1
  BY LenProperties, EmptySeq DEF IInv, Types
<1>2. /\ stack' \in Seq(Activation) /\ stack' # <<>>
      /\ Len(stack') = Len(stack)
      /\ stack'[1].at = at /\ stack'[1].irq = stack[1].irq
      /\ \A k \in 2 .. Len(stack) : stack'[k] = stack[k]
  <2>1. stack \in Seq(Activation) /\ stack' = Stepped(stack, at)
    BY <1>1 DEF Step, Stepped
  <2> QED BY <2>1, Advance
<1>3. 1 \in 1 .. Len(stack) /\ stack[1] \in Activation
  BY <1>1, ElementOfSeq
<1>4. stack[1].irq \in Irqs /\ func[stack[1].irq] # "NULL"
  BY <1>3 DEF IInv, NeverNull, Activation
<1>5. ASSUME NEW k \in 1 .. Len(stack) PROVE stack'[k].irq = stack[k].irq
  BY <1>1, <1>2
<1>6. \A k \in 2 .. Len(stack') : stack'[k].at = "return"
  BY <1>2 DEF IInv, StackOK
<1>7. main.op = "ready"
  BY DEF IInv, CallOK
<1> QED BY <1>2, <1>4, <1>5, <1>6, <1>7

(* A handler is called only if it is one. *)
LEMMA DispatchStep ==
  ASSUME IInv, Dispatch
  PROVE  IInv'
<1> DEFINE at == IF func[stack[1].irq] = "default_isr" THEN "end" ELSE "handler"
<1>1. /\ stack # <<>> /\ stack[1].at = "dispatch" /\ stack' = Step(at)
      /\ at \in {"end", "handler"}
      /\ UNCHANGED <<func, data, enabled, line, active, open, main, wanted>>
  BY DEF Dispatch, Top
<1>2. at = "handler" => func[stack[1].irq] # "default_isr"
  OBVIOUS
<1> HIDE DEF at
<1>3. /\ stack' \in Seq(Activation) /\ stack' # <<>>
      /\ stack'[1].at = at /\ stack'[1].irq = stack[1].irq
      /\ stack[1].irq \in Irqs
      /\ func[stack[1].irq] # "NULL"
      /\ Len(stack') = Len(stack)
      /\ \A k \in 1 .. Len(stack) : stack'[k].irq = stack[k].irq
      /\ \A k \in 2 .. Len(stack') : stack'[k].at = "return"
      /\ main.op = "ready"
  BY <1>1, StepFacts
<1>4. Types' /\ CallOK' /\ TableOK' /\ NeverNull'
  BY <1>1, <1>3 DEF IInv, Types, CallOK, TableOK, HalfWritten, NeverNull
<1>5. at = "handler" => func[stack[1].irq] \in Handlers
  BY <1>2, <1>3 DEF IInv, Types, Functions
<1>6. active' = {stack'[1].irq}
  BY <1>1, <1>3 DEF IInv, StackOK
<1>7. StackOK'
  BY <1>1, <1>3, <1>5, <1>6 DEF StackOK, Top
<1> QED BY <1>4, <1>7 DEF IInv

(* A handler may give up its interrupt; the entry keeps data that go with  *)
(* its function.                                                           *)
LEMMA ServeStep ==
  ASSUME IInv, Serve
  PROVE  IInv'
<1> DEFINE i == stack[1].irq
<1>1. /\ stack # <<>> /\ stack[1].at = "handler" /\ stack' = Step("end")
      /\ UNCHANGED <<active, main, wanted>>
      /\ line' = line \ {i}
  BY DEF Serve, Top
<1>2. /\ stack' \in Seq(Activation) /\ stack' # <<>>
      /\ stack'[1].at = "end" /\ stack'[1].irq = i
      /\ i \in Irqs
      /\ Len(stack') = Len(stack)
      /\ \A k \in 1 .. Len(stack) : stack'[k].irq = stack[k].irq
      /\ \A k \in 2 .. Len(stack') : stack'[k].at = "return"
      /\ main.op = "ready"
  BY <1>1, StepFacts
<1>3. /\ open' \in BOOLEAN /\ enabled' \subseteq enabled
      /\ \/ UNCHANGED <<func, data>>
         \/ /\ func' = [func EXCEPT ![i] = "default_isr"]
            /\ data' = [data EXCEPT ![i] = "NULL"]
  BY DEF Serve, IInv, Types
<1> HIDE DEF i
<1>4. /\ func' \in [Irqs -> Functions] /\ data' \in [Irqs -> Functions]
      /\ \A j \in Irqs :
           \/ func'[j] = func[j] /\ data'[j] = data[j]
           \/ func'[j] = "default_isr"
  BY <1>2, <1>3 DEF IInv, Types, Functions
<1>5. Types'
  BY <1>1, <1>2, <1>3, <1>4 DEF IInv, Types
<1>6. CallOK'
  BY <1>1, <1>2 DEF CallOK
<1>7. TableOK'
  <2>1. \A j \in Irqs : func[j] \in Handlers => data[j] = func[j]
    BY <1>2 DEF IInv, TableOK, HalfWritten
  <2>2. \A j \in Irqs : func'[j] \in Handlers => data'[j] = func'[j]
    BY <1>4, <2>1, GicAssumption
  <2> QED BY <1>1, <1>2, <2>2 DEF TableOK, HalfWritten
<1>8. NeverNull'
  <2>1. \A j \in Irqs : func[j] # "NULL" => func'[j] # "NULL"
    BY <1>4
  <2>2. \A j \in enabled' : func'[j] # "NULL"
    BY <1>3, <2>1 DEF IInv, Types, NeverNull
  <2>3. ASSUME NEW k \in 1 .. Len(stack') PROVE func'[stack'[k].irq] # "NULL"
    <3>1. stack[k] \in Activation /\ stack'[k].irq = stack[k].irq
      BY <1>2, ElementOfSeq DEF IInv, Types
    <3>2. stack[k].irq \in Irqs /\ func[stack[k].irq] # "NULL"
      BY <1>2, <3>1 DEF Activation, IInv, NeverNull
    <3> QED BY <2>1, <3>1, <3>2
  <2> QED BY <2>2, <2>3 DEF NeverNull
<1>9. active' = {stack'[1].irq}
  BY <1>1, <1>2 DEF IInv, StackOK, i
<1>10. StackOK'
  BY <1>2, <1>9 DEF StackOK, Top
<1> QED BY <1>5, <1>6, <1>7, <1>8, <1>10 DEF IInv

(* The end of interrupt leaves none active. *)
LEMMA EndStep ==
  ASSUME IInv, EndOfInterrupt
  PROVE  IInv'
<1>1. /\ stack # <<>> /\ stack[1].at = "end" /\ stack' = Step("return")
      /\ active' = active \ {stack[1].irq}
      /\ UNCHANGED <<func, data, enabled, line, open, main, wanted>>
  BY DEF EndOfInterrupt, Top
<1>2. /\ stack' \in Seq(Activation) /\ stack' # <<>>
      /\ stack'[1].at = "return"
      /\ Len(stack') = Len(stack)
      /\ \A k \in 1 .. Len(stack) : stack'[k].irq = stack[k].irq
      /\ \A k \in 2 .. Len(stack') : stack'[k].at = "return"
      /\ main.op = "ready"
  BY <1>1, StepFacts
<1>3. active' = {}
  BY <1>1 DEF IInv, StackOK
<1>4. Types' /\ CallOK' /\ TableOK' /\ NeverNull'
  BY <1>1, <1>2, <1>3 DEF IInv, Types, CallOK, TableOK, HalfWritten, NeverNull
<1>5. StackOK'
  BY <1>2, <1>3 DEF StackOK, Top
<1> QED BY <1>4, <1>5 DEF IInv

(* What an activation returns to has returned from its own work too. *)
LEMMA ReturnStep ==
  ASSUME IInv, ReturnFromIrq
  PROVE  IInv'
<1>1. /\ stack # <<>> /\ stack[1].at = "return" /\ stack' = Tail(stack)
      /\ open' = TRUE
      /\ UNCHANGED <<func, data, enabled, line, active, main, wanted>>
  BY DEF ReturnFromIrq, Top
<1>2. stack \in Seq(Activation) /\ Len(stack) \in Nat
  BY LenProperties DEF IInv, Types
<1>3. /\ stack' \in Seq(Activation) /\ Len(stack') = Len(stack) - 1
      /\ \A k \in 1 .. Len(stack) - 1 : stack'[k] = stack[k + 1]
  BY <1>1, <1>2, Pop
<1>4. active = {} /\ main.op = "ready"
  BY <1>1 DEF IInv, StackOK, CallOK
<1>5. \A k \in 1 .. Len(stack') :
         stack'[k].at = "return" /\ func[stack'[k].irq] # "NULL"
  <2>1. ASSUME NEW k \in 1 .. Len(stack')
        PROVE  k + 1 \in 2 .. Len(stack) /\ stack'[k] = stack[k + 1]
               /\ k + 1 \in 1 .. Len(stack)
    BY <1>2, <1>3
  <2> QED BY <2>1 DEF IInv, StackOK, NeverNull
<1>6. Types' /\ CallOK' /\ TableOK' /\ NeverNull'
  BY <1>1, <1>3, <1>4, <1>5 DEF IInv, Types, CallOK, TableOK, HalfWritten, NeverNull
<1>7. stack' # <<>> => stack'[1].at = "return"
  <2>1. stack' # <<>> => 1 \in 1 .. Len(stack')
    BY <1>3, EmptySeq, LenProperties
  <2> QED BY <1>5, <2>1
<1>8. StackOK'
  <2>1. \A k \in 2 .. Len(stack') : stack'[k].at = "return"
    <3>1. \A k \in 2 .. Len(stack') : k \in 1 .. Len(stack')
      OBVIOUS
    <3> QED BY <1>5, <3>1
  <2> QED BY <1>1, <1>4, <1>7, <2>1 DEF StackOK, Top
<1> QED BY <1>6, <1>8 DEF IInv

(* A device raises its line. *)
LEMMA DeviceStep ==
  ASSUME IInv, Device
  PROVE  IInv'
<1>1. /\ line' \subseteq Irqs
      /\ UNCHANGED <<func, data, enabled, active, open, stack, main, wanted>>
  BY DEF Device, IInv, Types
<1> QED BY <1>1 DEF IInv, Types, CallOK, TableOK, HalfWritten, NeverNull, StackOK, Top

-----------------------------------------------------------------------------
(* The invariant, one step per action. *)
LEMMA Invariance == Spec => []IInv
<1>1. IInv /\ [Next]_vars => IInv'
  <2> SUFFICES ASSUME IInv, [Next]_vars PROVE IInv'
    OBVIOUS
  <2>1. CASE arm32_interrupt_enable \/ arm32_interrupt_disable
    BY <2>1, MaskStep
  <2>2. CASE InstallBegin
    BY <2>2, InstallBeginStep
  <2>3. CASE FreeBegin
    BY <2>3, FreeBeginStep
  <2>4. CASE WriteData
    BY <2>4, WriteDataStep
  <2>5. CASE WriteFunc
    BY <2>5, WriteFuncStep
  <2>6. CASE Leave
    BY <2>6, LeaveStep
  <2>7. CASE irq_enable \/ irq_disable
    BY <2>7, EnableStep
  <2>8. CASE Acknowledge
    BY <2>8, AcknowledgeStep
  <2>9. CASE Dispatch
    BY <2>9, DispatchStep
  <2>10. CASE Serve
    BY <2>10, ServeStep
  <2>11. CASE EndOfInterrupt
    BY <2>11, EndStep
  <2>12. CASE ReturnFromIrq
    BY <2>12, ReturnStep
  <2>13. CASE Device
    BY <2>13, DeviceStep
  <2>14. CASE UNCHANGED vars
    BY <2>14 DEF IInv, Types, CallOK, TableOK, HalfWritten, NeverNull, StackOK, Top, vars
  <2> QED BY <2>1, <2>2, <2>3, <2>4, <2>5, <2>6, <2>7, <2>8, <2>9, <2>10,
             <2>11, <2>12, <2>13, <2>14 DEF Next, MainProgram, do_irq
<1> QED BY <1>1, InitInv, PTL DEF Spec

(* Every variable of the dispatcher keeps its type. *)
THEOREM GicTypeCorrect == Spec => []TypeOK
<1>1. IInv => TypeOK
  <2> SUFFICES ASSUME IInv PROVE TypeOK
    OBVIOUS
  <2>1. ASSUME NEW k \in 1 .. Len(stack)
        PROVE  /\ stack[k].irq \in Irqs
               /\ stack[k].at \in {"dispatch", "handler", "end", "return"}
    <3>1. stack[k] \in Activation
      BY ElementOfSeq DEF IInv, Types
    <3> QED BY <3>1 DEF Activation
  <2>2. main.op \in {"ready", "data", "func", "leave"}
    BY DEF IInv, Types, Calls, Ready
  <2> QED BY <2>1, <2>2 DEF IInv, Types, Functions, TypeOK
<1> QED BY <1>1, Invariance, PTL

(* For every set of interrupts and handlers, and however interrupts nest,  *)
(* a handler is called with its own data and never through a null pointer. *)
THEOREM GicCallIsConsistent == Spec => []CallIsConsistent
<1>1. IInv => CallIsConsistent
  <2> SUFFICES ASSUME IInv, Top("handler")
               PROVE  /\ func[stack[1].irq] \in Handlers
                      /\ data[stack[1].irq] = func[stack[1].irq]
    BY DEF CallIsConsistent
  <2>1. stack # <<>> /\ stack \in Seq(Activation)
    BY DEF Top, IInv, Types
  <2>2. stack[1].irq \in Irqs
    <3>1. stack[1] \in Activation
      BY <2>1, LenProperties, EmptySeq, ElementOfSeq
    <3> QED BY <3>1 DEF Activation
  <2>3. main.op = "ready" /\ func[stack[1].irq] \in Handlers
    BY <2>1 DEF IInv, CallOK, StackOK
  <2> QED BY <2>2, <2>3 DEF IInv, TableOK, HalfWritten
<1> QED BY <1>1, Invariance, PTL

(* Every interrupt acknowledged has been ended when the main program goes  *)
(* on, so none is held off for ever.                                       *)
THEOREM GicNothingLeftActive == Spec => []NothingLeftActive
<1>1. IInv => NothingLeftActive
  BY DEF IInv, StackOK, NothingLeftActive
<1> QED BY <1>1, Invariance, PTL

-----------------------------------------------------------------------------
(* The mask, when irq_free_handler is only called with interrupts open.    *)
MaskInv ==
  /\ stack # <<>> => ~open /\ wanted
  /\ Len(stack) <= 1
  /\ stack = <<>> /\ main.op = "ready" => open = wanted
  /\ main.op # "ready" => main.flag = wanted

(* It holds as long as FreeMasked is FALSE: one step per action again. *)
LEMMA MaskStepInv ==
  ASSUME ~FreeMasked, IInv, MaskInv, [Next]_vars
  PROVE  MaskInv'
<1> wanted \in BOOLEAN /\ open \in BOOLEAN
  BY DEF IInv, Types
<1>1. CASE arm32_interrupt_enable \/ arm32_interrupt_disable
  BY <1>1 DEF arm32_interrupt_enable, arm32_interrupt_disable, InMain, MaskInv
<1>2. CASE InstallBegin
  <2>1. PICK i \in Irqs \cup {Outside}, h \in Handlers \cup {"NULL"} :
          main' = Call(IF InRange(i) /\ Given(h) THEN "data" ELSE "leave", i, h, open)
    BY <1>2 DEF InstallBegin
  <2>2. /\ UNCHANGED <<stack, wanted>>
        /\ main.op = "ready" /\ stack = <<>>
    BY <1>2 DEF InstallBegin, InMain
  <2>3. main'.flag = open /\ main'.op # "ready"
    BY <2>1 DEF Call
  <2> QED BY <2>2, <2>3 DEF MaskInv
<1>3. CASE FreeBegin
  <2>1. PICK i \in Irqs \cup {Outside} :
          main' = Call(IF InRange(i) THEN "data" ELSE "leave", i, "default_isr", TRUE)
    BY <1>3 DEF FreeBegin
  <2>2. /\ UNCHANGED <<stack, wanted>> /\ open
        /\ main.op = "ready" /\ stack = <<>>
    BY <1>3 DEF FreeBegin, InMain
  <2>3. main'.flag = TRUE /\ main'.op # "ready"
    BY <2>1 DEF Call
  <2> QED BY <2>2, <2>3 DEF MaskInv
<1>4. CASE WriteData \/ WriteFunc
  <2>1. /\ UNCHANGED <<stack, wanted>> /\ main.op # "ready" /\ stack = <<>>
        /\ \E op \in {"data", "func", "leave"} :
             op # "ready" /\ main' = [main EXCEPT !.op = op]
    BY <1>4 DEF WriteData, WriteFunc, InMain
  <2>2. main'.op # "ready" /\ main'.flag = main.flag
    BY <2>1, CallFields DEF IInv, Types
  <2> QED BY <2>1, <2>2 DEF MaskInv
<1>5. CASE Leave
  <2>1. /\ UNCHANGED <<stack, wanted>> /\ open' = (open \/ main.flag)
        /\ main' = Ready /\ main.op # "ready" /\ stack = <<>>
    BY <1>5 DEF Leave, InMain
  <2>2. ~open
    BY <2>1 DEF IInv, CallOK
  <2> QED BY <2>1, <2>2, ReadyCall DEF MaskInv
<1>6. CASE irq_enable \/ irq_disable \/ Device
  BY <1>6 DEF irq_enable, irq_disable, Device, MaskInv
<1>7. CASE Acknowledge
  <2>1. /\ open /\ ~open' /\ UNCHANGED <<main, wanted>>
        /\ \E i \in Irqs : stack' = <<[irq |-> i, at |-> "dispatch"]>> \o stack
    BY <1>7 DEF Acknowledge, IInv, Types
  <2>2. stack = <<>> /\ main.op = "ready" /\ wanted
    BY <2>1 DEF MaskInv, IInv, CallOK
  <2>3. Len(stack') = 1 /\ stack' # <<>>
    <3>1. PICK i \in Irqs : stack' = <<[irq |-> i, at |-> "dispatch"]>> \o stack
      BY <2>1
    <3>2. [irq |-> i, at |-> "dispatch"] \in Activation
      BY DEF Activation
    <3>3. stack \in Seq(Activation) /\ Len(stack) = 0
      BY <2>2 DEF IInv, Types
    <3> QED BY <3>1, <3>2, <3>3, Push
  <2> QED BY <2>1, <2>2, <2>3 DEF MaskInv
<1>8. CASE Dispatch \/ Serve \/ EndOfInterrupt
  <2>1. /\ stack # <<>> /\ UNCHANGED <<main, wanted, open>>
        /\ \E at \in {"dispatch", "handler", "end", "return"} : stack' = Step(at)
    BY <1>8 DEF Dispatch, Serve, EndOfInterrupt, Top
  <2>2. stack' # <<>> /\ Len(stack') = Len(stack) /\ main.op = "ready"
    BY <2>1, StepFacts
  <2> QED BY <2>1, <2>2 DEF MaskInv
<1>9. CASE ReturnFromIrq
  <2>1. /\ stack # <<>> /\ stack' = Tail(stack) /\ open' = TRUE
        /\ UNCHANGED <<main, wanted>>
    BY <1>9 DEF ReturnFromIrq, Top
  <2>2. stack \in Seq(Activation) /\ Len(stack) \in Nat /\ Len(stack) <= 1
    BY LenProperties DEF IInv, Types, MaskInv
  <2>3. Len(stack) = 1 /\ main.op = "ready" /\ wanted
    <3>1. Len(stack) \in Nat \ {0}
      BY <2>1, <2>2, EmptySeq
    <3>2. main.op = "ready" /\ wanted
      BY <2>1 DEF IInv, CallOK, MaskInv
    <3>3. Len(stack) = 1
      <4> DEFINE n == Len(stack)
      <4>1. n \in Nat \ {0} /\ n <= 1
        BY <2>2, <3>1
      <4> HIDE DEF n
      <4>2. n = 1
        BY <4>1
      <4> QED BY <4>2 DEF n
    <3> QED BY <3>2, <3>3
  <2>4. stack' \in Seq(Activation) /\ Len(stack') = 0
    BY <2>1, <2>2, <2>3, Pop
  <2>5. stack' = <<>>
    BY <2>4, EmptySeq
  <2>6. /\ open' = wanted' /\ main'.op = "ready" /\ Len(stack') <= 1
    BY <2>1, <2>3, <2>4
  <2> QED BY <2>5, <2>6 DEF MaskInv
<1>10. CASE UNCHANGED vars
  BY <1>10 DEF MaskInv, vars
<1> QED BY <1>1, <1>2, <1>3, <1>4, <1>5, <1>6, <1>7, <1>8, <1>9, <1>10
        DEF Next, MainProgram, do_irq

(* The mask under the same condition, in every reachable state. *)
LEMMA MaskInvariance ==
  ASSUME ~FreeMasked
  PROVE  Spec => []MaskInv
<1>1. Init => MaskInv
  <2> SUFFICES ASSUME Init PROVE MaskInv
    OBVIOUS
  <2>1. stack = <<>> /\ Len(stack) = 0 /\ open = wanted /\ main = Ready
    BY DEF Init
  <2> QED BY <2>1, ReadyCall DEF MaskInv
<1>2. IInv /\ MaskInv /\ [Next]_vars => MaskInv'
  BY MaskStepInv
<1> QED BY <1>1, <1>2, Invariance, PTL DEF Spec

(* If no handler is freed with interrupts masked, installing and freeing   *)
(* handlers leaves the caller's mask as it was.                            *)
THEOREM GicMaskKept == ~FreeMasked => (Spec => []MaskKept)
<1> SUFFICES ASSUME ~FreeMasked PROVE Spec => []MaskKept
  OBVIOUS
<1>1. MaskInv => MaskKept
  BY DEF MaskInv, MaskKept, InMain
<1> QED BY <1>1, MaskInvariance, PTL

(* If no handler is freed with interrupts masked, do_irq is never          *)
(* preempted, whatever the bound on the depth.                             *)
THEOREM GicNoNesting == ~FreeMasked => (Spec => []NoNesting)
<1> SUFFICES ASSUME ~FreeMasked PROVE Spec => []NoNesting
  OBVIOUS
<1>1. MaskInv => NoNesting
  BY DEF MaskInv, NoNesting
<1> QED BY <1>1, MaskInvariance, PTL
=============================================================================

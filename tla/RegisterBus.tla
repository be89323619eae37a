---------------------------- MODULE RegisterBus ----------------------------
(***************************************************************************)
(* What the callers of sunxi_i2c_read and sunxi_i2c_write rely on: a bus   *)
(* of chips with registers, one call at a time.  A call that returns 0 has *)
(* read or written the register.  One that fails has written it or not;    *)
(* a byte that is still under way may arrive until the next call begins.   *)
(***************************************************************************)
EXTENDS Naturals

CONSTANTS Present, Registers, Bytes, Calls, NoCall

VARIABLES
  regs,   \* the registers of the chips that are there
  call, ret, value,
  due     \* the byte of the write has not arrived

vars == <<regs, call, ret, value, due>>

Init ==
  /\ regs \in [Present -> [Registers -> Bytes]]
  /\ call = NoCall /\ ret = "none" /\ value \in Bytes /\ due = FALSE

Begin ==
  /\ ret # "busy" /\ ret' = "busy"
  /\ call' \in Calls /\ due' = (call'.op = "write")
  /\ UNCHANGED <<regs, value>>

Land ==
  /\ due /\ call.chip \in Present
  /\ regs' = [regs EXCEPT ![call.chip][call.reg] = call.data] /\ due' = FALSE
  /\ UNCHANGED <<call, ret, value>>

Succeed ==
  /\ ret = "busy" /\ call.chip \in Present /\ ~due /\ ret' = "ok"
  /\ value' = IF call.op = "read" THEN regs[call.chip][call.reg] ELSE value
  /\ UNCHANGED <<regs, call, due>>

Fail ==
  /\ ret = "busy" /\ ret' = "failed" /\ value' \in Bytes
  /\ UNCHANGED <<regs, call, due>>

Next == Begin \/ Land \/ Succeed \/ Fail

Spec == Init /\ [][Next]_vars
=============================================================================

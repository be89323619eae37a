-------------------------------- MODULE I2c --------------------------------
(***************************************************************************)
(* sunxi_i2c_read and sunxi_i2c_write of drivers/sys-i2c.c, phase by phase *)
(* and poll by poll, over the controller and the chips on the bus.         *)
(*                                                                         *)
(* The controller works on its own: a phase that the driver has given up   *)
(* can still end, and the chip take its byte, while the driver sends the   *)
(* stop condition or has returned.  Both callers transfer a register       *)
(* number and a value of one byte each.                                    *)
(***************************************************************************)
EXTENDS Naturals

CONSTANTS
  Present,    \* the chips on the bus: an address each
  Chips,      \* the addresses that are asked
  Registers, Bytes,
  PowerOn,    \* bound: the registers of a chip when the program starts
  Polls       \* the polls of a loop (time = 0xffff)

ASSUME I2cAssumption ==
  /\ Present \subseteq Chips
  /\ PowerOn \subseteq [Registers -> Bytes]
  /\ Chips # {} /\ Registers # {} /\ Bytes # {}
  /\ Polls \in Nat \ {0}

Calls == [op : {"read"}, chip : Chips, reg : Registers]
         \cup [op : {"write"}, chip : Chips, reg : Registers, data : Bytes]

VARIABLES
  call, at,   \* the call at work or the last one, and its phase
  ret, value, \* its result, and the byte that a read stores
  time,       \* the counter of the polling loop
  flag, ack,  \* INTFLG of ctl, and whether status is the one expected
  stp,        \* STP of ctl
  shift,      \* the condition or byte that the controller works on
  data,       \* its data register
  slave,      \* the chip that listens, what it expects and its register pointer
  regs,
  due         \* history: the byte of the write has not arrived

drivervars == <<call, at, ret, value, time>>
twivars == <<flag, ack, stp, shift, data>>
i2cvars == <<drivervars, twivars, slave, regs, due>>

NoCall == [op |-> "none"]
None == [phase |-> "none"]
Deaf(s) == [s EXCEPT !.st = "free"]

I2cInit ==
  /\ call = NoCall /\ at = "idle" /\ ret = "none" /\ time = 0
  /\ value = CHOOSE b \in Bytes : TRUE
  /\ flag = FALSE /\ ack = FALSE /\ stp = FALSE /\ shift = None /\ data = value
  /\ slave = [st |-> "free", chip |-> CHOOSE c \in Chips : TRUE, reg |-> CHOOSE r \in Registers : TRUE]
  /\ regs \in [Present -> PowerOn] /\ due = FALSE

-----------------------------------------------------------------------------
(* What a phase gives the controller to send.                              *)
Sends(p, c) ==
  CASE p \in {"waddr", "raddr"} -> [phase |-> p, chip |-> c.chip]
    [] p = "byteaddr" -> [phase |-> p, reg |-> c.reg]
    [] p = "data"     -> [phase |-> p, data |-> c.data]
    [] OTHER          -> [phase |-> p]

(* Mutant of Trigger: the start condition is sent without a reset.         *)
TriggerUnreset(p, c) ==
  /\ at' = p /\ time' = Polls /\ flag' = FALSE
  /\ shift' = IF p = "stop" \/ (p = "start" /\ shift # None) THEN shift ELSE Sends(p, c)
  /\ stp' = (p = "stop" \/ stp)
  /\ UNCHANGED <<ack, data, slave, regs>>

(* Every write to ctl clears INTFLG, which is cleared by writing 1.  Only  *)
(* the start condition resets the controller (srst).                       *)
Trigger(p, c) ==
  /\ at' = p /\ time' = Polls /\ flag' = FALSE
  /\ shift' = IF p = "stop" THEN shift ELSE Sends(p, c)
  /\ stp' = IF p = "stop" THEN TRUE ELSE IF p = "start" THEN FALSE ELSE stp
  /\ UNCHANGED <<ack, data, slave, regs>>

Follows(p) ==
  CASE p = "start" -> "waddr"
    [] p = "waddr" -> "byteaddr"
    [] p = "byteaddr" -> IF call.op = "write" THEN "data" ELSE "restart"
    [] p = "restart" -> "raddr"
    [] p = "raddr" -> "get"
    [] p \in {"data", "get"} -> "stop"

(* while ((time--) && (!(ctl & INTFLG))), and then if (time <= 0): the     *)
(* flag that comes with the last poll comes too late.  A stop condition    *)
(* clears STP instead.                                                     *)
Seen == IF at = "stop" THEN ~stp ELSE flag

(* Mutant of InTime: the loop that runs out is not noticed.                *)
AnyTime == time = 0 \/ Seen

InTime == Seen /\ time > 1
Expired == time = 0 \/ (Seen /\ time = 1)

i2c_begin(c) ==
  /\ at = "idle" /\ call' = c /\ ret' = "busy" /\ due' = (c.op = "write")
  /\ Trigger("start", c) /\ UNCHANGED value

Poll ==
  /\ at # "idle" /\ ~Seen /\ time > 0 /\ time' = time - 1
  /\ UNCHANGED <<call, at, ret, value, twivars, slave, regs, due>>

Working == at \notin {"idle", "stop"}

(* A byte that is read is stored before its status is looked at.           *)
Stored == value' = IF at = "get" /\ InTime THEN data ELSE value

Proceed ==
  /\ Working /\ InTime /\ ack
  /\ Trigger(Follows(at), call) /\ Stored
  /\ ret' = IF Follows(at) = "stop" THEN "ok" ELSE ret
  /\ UNCHANGED <<call, due>>

GiveUp ==
  /\ Working /\ (Expired \/ (InTime /\ ~ack))
  /\ Trigger("stop", call) /\ Stored /\ ret' = "failed"
  /\ UNCHANGED <<call, due>>

(* The result of sunxi_i2c_stop is ignored.                                *)
Stopped ==
  /\ at = "stop" /\ (InTime \/ Expired) /\ at' = "idle"
  /\ UNCHANGED <<call, ret, value, time, twivars, slave, regs, due>>

Driver == Poll \/ Proceed \/ GiveUp \/ Stopped

-----------------------------------------------------------------------------
(* The chip that takes what the controller sends, and what it does.        *)
Taken ==
  CASE shift.phase \in {"start", "restart"} -> TRUE
    [] shift.phase \in {"waddr", "raddr"} -> slave.st = "listens" /\ shift.chip \in Present
    [] shift.phase = "byteaddr" -> slave.st = "waddr"
    [] shift.phase = "data" -> slave.st = "byteaddr"
    [] shift.phase = "get" -> slave.st = "raddr"

(* A chip keeps its register pointer over a restart.                       *)
SlaveAfter ==
  CASE shift.phase \in {"start", "restart"} -> [slave EXCEPT !.st = "listens"]
    [] shift.phase \in {"waddr", "raddr"} -> [slave EXCEPT !.st = shift.phase, !.chip = shift.chip]
    [] shift.phase = "byteaddr" -> [slave EXCEPT !.st = "byteaddr", !.reg = shift.reg]
    [] OTHER -> slave

(* The controller ends what it works on.  The chip may take it and not be  *)
(* heard, or not take it.                                                  *)
Transfer ==
  /\ shift # None /\ shift' = None /\ flag' = TRUE
  /\ \/ /\ Taken /\ ack' \in BOOLEAN /\ slave' = SlaveAfter
        /\ IF shift.phase = "data"
           THEN regs' = [regs EXCEPT ![slave.chip][slave.reg] = shift.data] /\ due' = FALSE
           ELSE UNCHANGED <<regs, due>>
        /\ data' = IF shift.phase = "get" THEN regs[slave.chip][slave.reg] ELSE data
     \/ ack' = FALSE /\ UNCHANGED <<slave, regs, due, data>>
  /\ UNCHANGED <<drivervars, stp>>

(* The stop condition, after or instead of a byte that was given up.       *)
Stop ==
  /\ stp /\ stp' = FALSE /\ shift' = None /\ slave' = Deaf(slave)
  /\ UNCHANGED <<drivervars, flag, ack, data, regs, due>>

Hardware == Transfer \/ Stop

I2cNext == (\E c \in Calls : i2c_begin(c)) \/ Driver \/ Hardware
I2cSpec == I2cInit /\ [][I2cNext]_i2cvars

-----------------------------------------------------------------------------
Bus == INSTANCE RegisterBus
(* A call that returns 0 has read or written the register it names; one    *)
(* that fails has written that register or none, and what it leaves under  *)
(* way is gone when the next call begins.                                  *)
ImplementsBus == Bus!Spec
=============================================================================

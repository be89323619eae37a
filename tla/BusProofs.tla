----------------------------- MODULE BusProofs -----------------------------
(***************************************************************************)
(* Proofs about the drivers of a device behind a bus: I2c with Pmu on top  *)
(* of it, and Mmc.                                                         *)
(*                                                                         *)
(* The phases of the I2C driver, with a controller that ends them on time, *)
(* late or not at all, implement RegisterBus.  The functions of the power  *)
(* chips use the bus as I2c allows, and a rail is changed and nothing      *)
(* else, for every table of rails.                                         *)
(*                                                                         *)
(* Card, controller and driver agree on the bus when sdmmc_init reports a  *)
(* card, for every board and card, whatever fails on the way.              *)
(***************************************************************************)
EXTENDS Pmu, Mmc, TLAPS, FiniteSetTheorems, WellFoundedInduction

Phases == {"start", "waddr", "byteaddr", "data", "restart", "raddr", "get"}

I2cTypeOK ==
  /\ at \in Phases \cup {"idle", "stop"}
  /\ value \in Bytes /\ data \in Bytes
  /\ flag \in BOOLEAN /\ ack \in BOOLEAN /\ stp \in BOOLEAN /\ due \in BOOLEAN
  /\ slave \in [st : Phases \cup {"free", "listens"}, chip : Chips, reg : Registers]
  /\ regs \in [Present -> [Registers -> Bytes]]

(* What the chip knows when the phase p is sent: the address and the       *)
(* register pointer, if an earlier phase has told them.                    *)
Told(p) ==
  /\ p \in {"byteaddr", "data", "restart", "get"} => slave.chip = call.chip
  /\ p \in {"data", "restart", "raddr", "get"} => slave.reg = call.reg
  /\ p \notin {"start", "waddr"} => call.chip \in Present

(* The operation of a phase.                                               *)
OfCall(p) ==
  /\ p = "data" => call.op = "write"
  /\ p \in {"restart", "raddr", "get"} => call.op = "read"

DriverOK ==
  /\ at \in {"idle", "stop"} => ret # "busy"
  /\ Working => /\ ret = "busy" /\ call \in Calls /\ OfCall(at) /\ ~stp
                /\ call.op = "write" /\ at # "data" => due
  /\ call = NoCall \/ call \in Calls
  /\ call.op # "write" => ~due
  /\ ret = "ok" => /\ call \in Calls /\ call.chip \in Present /\ ~due
                   /\ call.op = "read" => value = regs[call.chip][call.reg]

(* What the controller works on belongs to the call, late or not.          *)
ShiftOK ==
  shift # None =>
    /\ call \in Calls /\ shift.phase \in Phases
    /\ shift = Sends(shift.phase, call)
    /\ OfCall(shift.phase) /\ Told(shift.phase)
    /\ shift.phase = "data" => due
    /\ Working => shift.phase = at /\ ~flag
    /\ ret # "ok"

FlagOK ==
  Working /\ flag /\ ack =>
    /\ Told(Follows(at))
    /\ at = "data" => ~due
    /\ at = "get" => data = regs[call.chip][call.reg]

I2cInv == I2cTypeOK /\ DriverOK /\ ShiftOK /\ FlagOK

-----------------------------------------------------------------------------
(* None is nothing that the driver sends, and no call is NoCall.           *)
LEMMA Apart ==
  /\ \A p \in Phases, c \in Calls : Sends(p, c) # None /\ Sends(p, c).phase = p
  /\ \A c \in Calls : c # NoCall /\ c.op \in {"read", "write"}
BY DEF Phases, Calls, Sends, None, NoCall

(* The invariant holds when the program starts.                            *)
LEMMA I2cInitInv == I2cInit => I2cInv /\ Bus!Init
<1> SUFFICES ASSUME I2cInit PROVE I2cInv /\ Bus!Init
  OBVIOUS
<1>1. value \in Bytes /\ data \in Bytes
  BY I2cAssumption DEF I2cInit
<1>2. slave \in [st : Phases \cup {"free", "listens"}, chip : Chips, reg : Registers]
  <2>1. (CHOOSE c \in Chips : TRUE) \in Chips /\ (CHOOSE r \in Registers : TRUE) \in Registers
    BY I2cAssumption
  <2>2. QED  BY <2>1 DEF I2cInit
<1>3. regs \in [Present -> [Registers -> Bytes]]
  BY I2cAssumption DEF I2cInit
<1>4. I2cTypeOK
  BY <1>1, <1>2, <1>3 DEF I2cInit, I2cTypeOK
<1>5. DriverOK /\ ShiftOK /\ FlagOK
  BY DEF I2cInit, DriverOK, ShiftOK, FlagOK, Working, NoCall
<1>6. Bus!Init
  BY <1>1, <1>3 DEF I2cInit, Bus!Init
<1>7. QED  BY <1>4, <1>5, <1>6 DEF I2cInv

(* A call begins: the reset of its start condition ends what is under way. *)
LEMMA BeginStep ==
  ASSUME I2cInv, NEW c \in Calls, i2c_begin(c)
  PROVE  I2cInv' /\ Bus!Begin
<1>1. /\ at' = "start" /\ ret' = "busy" /\ call' = c /\ due' = (c.op = "write") /\ flag' = FALSE
      /\ shift' = Sends("start", c) /\ stp' = FALSE /\ value' = value
      /\ UNCHANGED <<ack, data, slave, regs>> /\ at = "idle"
  BY DEF i2c_begin, Trigger
<1>2. Sends("start", c) # None /\ Sends("start", c).phase = "start"
  BY Apart DEF Phases
<1>3. I2cTypeOK'
  BY <1>1 DEF I2cInv, I2cTypeOK, Phases
<1>4. DriverOK'
  BY <1>1 DEF DriverOK, Working, OfCall
<1>5. ShiftOK'
  BY <1>1, <1>2 DEF ShiftOK, Working, OfCall, Told, Phases
<1>6. FlagOK'
  BY <1>1 DEF FlagOK
<1>7. Bus!Begin
  BY <1>1 DEF Bus!Begin, I2cInv, DriverOK
<1>8. QED  BY <1>3, <1>4, <1>5, <1>6, <1>7 DEF I2cInv

(* What the phases send, and their order.                                  *)
LEMMA SendsFacts ==
  /\ \A c \in Calls : \A p \in {"waddr", "raddr"} : Sends(p, c).chip = c.chip
  /\ \A c \in Calls : Sends("byteaddr", c).reg = c.reg /\ Sends("data", c).data = c.data
BY DEF Sends

LEMMA FollowsFacts ==
  /\ Follows("start") = "waddr" /\ Follows("waddr") = "byteaddr"
  /\ call.op = "write" => Follows("byteaddr") = "data"
  /\ call.op # "write" => Follows("byteaddr") = "restart"
  /\ Follows("restart") = "raddr" /\ Follows("raddr") = "get"
  /\ Follows("data") = "stop" /\ Follows("get") = "stop"
BY DEF Follows

(* A phase that was heard is followed by the next one, or the call is done.*)
LEMMA ProceedStep ==
  ASSUME I2cInv, Proceed
  PROVE  I2cInv' /\ [Bus!Next]_Bus!vars
<1>0. PICK p : p = Follows(at)
  OBVIOUS
<1>1. /\ Working /\ flag /\ ack /\ call \in Calls /\ ret = "busy" /\ OfCall(at) /\ at \in Phases
      /\ Told(p) /\ (at = "data" => ~due) /\ (at = "get" => data = regs[call.chip][call.reg])
  BY <1>0 DEF Proceed, InTime, Seen, I2cInv, I2cTypeOK, DriverOK, FlagOK, Working
<1>2. shift = None /\ stp = FALSE
  BY <1>1 DEF I2cInv, I2cTypeOK, ShiftOK, DriverOK
<1>3. /\ at' = p /\ flag' = FALSE /\ UNCHANGED <<call, due, ack, data, slave, regs>>
      /\ shift' = (IF p = "stop" THEN shift ELSE Sends(p, call))
      /\ stp' = (IF p = "stop" THEN TRUE ELSE IF p = "start" THEN FALSE ELSE stp)
      /\ value' = (IF at = "get" THEN data ELSE value)
      /\ ret' = (IF p = "stop" THEN "ok" ELSE ret)
  <2>1. InTime
    BY DEF Proceed
  <2>2. QED  BY <1>0, <2>1 DEF Proceed, Trigger, Stored
<1>4. p \in (Phases \ {"start"}) \cup {"stop"} /\ (p = "stop" <=> at \in {"data", "get"})
      /\ (p = "data" => call.op = "write") /\ (p \in {"restart", "raddr", "get"} => call.op = "read")
  <2>1. call.op \in {"read", "write"}
    BY <1>1, Apart
  <2>2. CASE at = "byteaddr"
    BY <1>0, <2>1, <2>2, FollowsFacts DEF Phases
  <2>3. CASE at # "byteaddr"
    BY <1>0, <1>1, <2>3, FollowsFacts DEF Phases, OfCall
  <2>4. QED  BY <2>2, <2>3
<1>5. I2cTypeOK'
  <2>1. value' \in Bytes
    BY <1>3 DEF I2cInv, I2cTypeOK
  <2>2. stp' \in BOOLEAN
    BY <1>2, <1>3
  <2>3. QED  BY <1>3, <1>4, <2>1, <2>2 DEF I2cInv, I2cTypeOK
<1>6. CASE p = "stop"
  <2>1. at' = "stop" /\ ret' = "ok" /\ shift' = None /\ at \in {"data", "get"}
    BY <1>2, <1>3, <1>4, <1>6
  <2>2. call.chip \in Present
    BY <1>1, <1>6 DEF Told
  <2>3. ~due /\ (call.op = "read" => value' = regs[call.chip][call.reg])
    BY <1>1, <1>3, <2>1 DEF OfCall, I2cInv, DriverOK
  <2>4. DriverOK'
    BY <1>1, <1>3, <2>1, <2>2, <2>3 DEF DriverOK, Working
  <2>5. ShiftOK' /\ FlagOK'
    BY <1>3, <2>1 DEF ShiftOK, FlagOK, None
  <2>6. value' = IF call.op = "read" THEN regs[call.chip][call.reg] ELSE value
    BY <1>1, <1>3, <2>1, <2>3 DEF OfCall
  <2>7. Bus!Succeed
    BY <1>1, <1>3, <2>1, <2>2, <2>3, <2>6 DEF Bus!Succeed
  <2>8. QED  BY <1>5, <2>4, <2>5, <2>7 DEF I2cInv, Bus!Next
<1>7. CASE p # "stop"
  <2>1. /\ p \in Phases \ {"start"} /\ ret' = "busy" /\ value' = value /\ stp' = FALSE
        /\ shift' = Sends(p, call) /\ shift' # None /\ shift'.phase = p
    BY <1>1, <1>2, <1>3, <1>4, <1>7, Apart
  <2>2. OfCall(p)' /\ Told(p)'
    BY <1>1, <1>3, <1>4 DEF OfCall, Told
  <2>3. DriverOK'
    BY <1>1, <1>3, <1>4, <1>7, <2>1, <2>2 DEF DriverOK, Working, OfCall, Phases, I2cInv
  <2>4. p = "data" => due
    BY <1>4, <1>1 DEF I2cInv, DriverOK
  <2>5. ShiftOK'
    BY <1>1, <1>3, <2>1, <2>2, <2>4 DEF ShiftOK
  <2>6. FlagOK'
    BY <1>3 DEF FlagOK
  <2>7. UNCHANGED Bus!vars
    BY <1>1, <1>3, <2>1 DEF Bus!vars
  <2>8. QED  BY <1>5, <2>3, <2>5, <2>6, <2>7 DEF I2cInv
<1>8. QED  BY <1>6, <1>7

(* A phase that ran out of polls, or was not taken, ends the call.         *)
LEMMA GiveUpStep ==
  ASSUME I2cInv, GiveUp
  PROVE  I2cInv' /\ Bus!Fail
<1>1. /\ Working /\ at' = "stop" /\ ret' = "failed" /\ UNCHANGED <<call, due, ack, data, slave, regs>>
      /\ shift' = shift /\ stp' = TRUE /\ flag' = FALSE
      /\ value' = (IF at = "get" /\ InTime THEN data ELSE value)
  BY DEF GiveUp, Trigger, Stored
<1>2. value' \in Bytes /\ ret = "busy"
  BY <1>1 DEF I2cInv, I2cTypeOK, DriverOK
<1>3. I2cTypeOK'
  BY <1>1, <1>2 DEF I2cInv, I2cTypeOK
<1>4. DriverOK'
  BY <1>1 DEF I2cInv, DriverOK, Working
<1>5. ShiftOK'
  BY <1>1 DEF I2cInv, ShiftOK, Working, OfCall, Told
<1>6. FlagOK'
  BY <1>1 DEF FlagOK
<1>7. Bus!Fail
  BY <1>1, <1>2 DEF Bus!Fail
<1>8. QED  BY <1>3, <1>4, <1>5, <1>6, <1>7 DEF I2cInv

(* Polling, and the end of the stop condition.                             *)
LEMMA QuietStep ==
  ASSUME I2cInv, Poll \/ Stopped
  PROVE  I2cInv' /\ UNCHANGED Bus!vars
<1>1. UNCHANGED <<call, ret, value, twivars, slave, regs, due>>
      /\ (at' = at \/ (at = "stop" /\ at' = "idle"))
  BY DEF Poll, Stopped
<1>2. I2cTypeOK'
  BY <1>1 DEF I2cInv, I2cTypeOK, twivars
<1>3. DriverOK'
  BY <1>1 DEF I2cInv, DriverOK, Working, OfCall, twivars
<1>4. ShiftOK'
  BY <1>1 DEF I2cInv, ShiftOK, Working, OfCall, Told, twivars
<1>5. FlagOK'
  <2>1. CASE at' = at
    BY <1>1, <2>1 DEF I2cInv, FlagOK, Working, Told, twivars, Follows
  <2>2. CASE at' = "idle"
    BY <2>2 DEF FlagOK, Working
  <2>3. QED  BY <1>1, <2>1, <2>2
<1>6. QED  BY <1>1, <1>2, <1>3, <1>4, <1>5 DEF I2cInv, Bus!vars

(* The stop condition on the bus.                                          *)
LEMMA StopStep ==
  ASSUME I2cInv, Stop
  PROVE  I2cInv' /\ UNCHANGED Bus!vars
<1>1. /\ stp /\ stp' = FALSE /\ shift' = None /\ slave' = [slave EXCEPT !.st = "free"]
      /\ UNCHANGED <<call, at, ret, value, time, flag, ack, data, regs, due>>
  BY DEF Stop, Deaf, drivervars
<1>2. ~Working
  BY <1>1 DEF I2cInv, DriverOK
<1>3. I2cTypeOK'
  BY <1>1 DEF I2cInv, I2cTypeOK
<1>4. DriverOK' /\ ShiftOK' /\ FlagOK'
  BY <1>1, <1>2 DEF I2cInv, DriverOK, ShiftOK, FlagOK, Working
<1>5. QED  BY <1>1, <1>3, <1>4 DEF I2cInv, Bus!vars

(* The controller ends what it works on, on time or late.                  *)
LEMMA TransferStep ==
  ASSUME I2cInv, Transfer
  PROVE  I2cInv' /\ UNCHANGED call /\ (UNCHANGED Bus!vars \/ Bus!Land)
<1>0. PICK p : p = shift.phase
  OBVIOUS
<1>1. /\ p \in Phases /\ shift = Sends(p, call) /\ call \in Calls /\ OfCall(p) /\ Told(p)
      /\ (p = "data" => due) /\ (Working => p = at) /\ ret # "ok"
      /\ shift' = None /\ flag' = TRUE
      /\ UNCHANGED <<call, at, ret, value, time, stp>>
  BY <1>0 DEF Transfer, I2cInv, ShiftOK, drivervars
<1>2. ShiftOK'
  BY <1>1 DEF ShiftOK
<1>3. CASE ack' = FALSE /\ UNCHANGED <<slave, regs, due, data>>
  <2>1. I2cTypeOK'
    BY <1>1, <1>3 DEF I2cInv, I2cTypeOK
  <2>2. DriverOK'
    BY <1>1, <1>3 DEF I2cInv, DriverOK, Working, OfCall
  <2>3. FlagOK'
    BY <1>3 DEF FlagOK
  <2>4. UNCHANGED Bus!vars
    BY <1>1, <1>3 DEF Bus!vars
  <2>5. QED  BY <1>1, <1>2, <2>1, <2>2, <2>3, <2>4 DEF I2cInv
<1>4. CASE /\ Taken /\ ack' \in BOOLEAN /\ slave' = SlaveAfter
           /\ IF p = "data"
              THEN regs' = [regs EXCEPT ![slave.chip][slave.reg] = shift.data] /\ due' = FALSE
              ELSE UNCHANGED <<regs, due>>
           /\ data' = (IF p = "get" THEN regs[slave.chip][slave.reg] ELSE data)
  <2>1. CASE p = "data"
    <3>1. call.op = "write" /\ slave.chip = call.chip /\ slave.reg = call.reg /\ call.chip \in Present
      BY <1>1, <2>1 DEF OfCall, Told
    <3>2. call.data \in Bytes /\ call.reg \in Registers
      BY <1>1, <3>1 DEF Calls
    <3>3. shift.data = call.data
      BY <1>1, <2>1, SendsFacts
    <3>4. SlaveAfter = slave
      BY <1>0, <2>1 DEF SlaveAfter
    <3>5. /\ regs' = [regs EXCEPT ![call.chip][call.reg] = call.data] /\ due' = FALSE
          /\ slave' = slave /\ data' = data
      BY <1>4, <2>1, <3>1, <3>3, <3>4
    <3>6. I2cTypeOK'
      BY <1>1, <1>4, <3>1, <3>2, <3>5 DEF I2cInv, I2cTypeOK
    <3>7. DriverOK'
      BY <1>1, <2>1, <3>5 DEF I2cInv, DriverOK, Working, OfCall
    <3>8. FlagOK'
      BY <1>1, <2>1, <3>1, <3>5, FollowsFacts DEF FlagOK, Told, Follows, Working
    <3>9. Bus!Land
      BY <1>1, <2>1, <3>1, <3>5 DEF Bus!Land
    <3>10. QED  BY <1>1, <1>2, <3>6, <3>7, <3>8, <3>9 DEF I2cInv
  <2>2. CASE p # "data"
    <3>1. UNCHANGED <<regs, due>> /\ UNCHANGED Bus!vars
      BY <1>1, <1>4, <2>2 DEF Bus!vars
    <3>2. p \in {"waddr", "raddr"} => shift.chip = call.chip /\ call.chip \in Present /\ call.chip \in Chips
      BY <1>0, <1>1, <1>4, SendsFacts, I2cAssumption DEF Taken
    <3>3. p = "byteaddr" => shift.reg = call.reg /\ call.reg \in Registers
      BY <1>1, SendsFacts DEF Calls
    <3>4. /\ slave' \in [st : Phases \cup {"free", "listens"}, chip : Chips, reg : Registers]
          /\ slave'.chip = (IF p \in {"waddr", "raddr"} THEN call.chip ELSE slave.chip)
          /\ slave'.reg = (IF p = "byteaddr" THEN call.reg ELSE slave.reg)
      <4>1. slave \in [st : Phases \cup {"free", "listens"}, chip : Chips, reg : Registers]
        BY DEF I2cInv, I2cTypeOK
      <4>2. CASE p \in {"start", "restart"}
        BY <1>0, <1>4, <4>1, <4>2 DEF SlaveAfter
      <4>3. CASE p \in {"waddr", "raddr"}
        BY <1>0, <1>4, <3>2, <4>1, <4>3 DEF SlaveAfter, Phases
      <4>4. CASE p = "byteaddr"
        BY <1>0, <1>4, <3>3, <4>1, <4>4 DEF SlaveAfter, Phases
      <4>5. CASE p \in {"get"}
        BY <1>0, <1>4, <4>1, <4>5 DEF SlaveAfter
      <4>6. QED  BY <1>1, <2>2, <4>2, <4>3, <4>4, <4>5 DEF Phases
    <3>5. p = "get" => data' = regs[call.chip][call.reg] /\ data' \in Bytes
      BY <1>1, <1>4 DEF Told, Calls, I2cInv, I2cTypeOK
    <3>6. I2cTypeOK'
      BY <1>1, <1>4, <3>1, <3>4, <3>5 DEF I2cInv, I2cTypeOK
    <3>7. DriverOK'
      BY <1>1, <3>1 DEF I2cInv, DriverOK, Working, OfCall
    <3>8. FlagOK'
      <4>1. CASE ~Working
        BY <1>1, <4>1 DEF FlagOK, Working
      <4>2. CASE Working
        <5>1. p = at /\ Follows(at)' = Follows(at)
          BY <1>1, <4>2 DEF Follows
        <5>2. call.op \in {"read", "write"}
          BY <1>1, Apart
        <5>3. Told(Follows(at))'
          BY <1>1, <2>2, <3>2, <3>3, <3>4, <5>1, <5>2, FollowsFacts DEF Told, Phases
        <5>4. QED  BY <1>1, <2>2, <3>1, <3>5, <5>1, <5>3 DEF FlagOK
      <4>3. QED  BY <4>1, <4>2
    <3>9. QED  BY <1>1, <1>2, <3>1, <3>6, <3>7, <3>8 DEF I2cInv
  <2>3. QED  BY <2>1, <2>2
<1>5. QED  BY <1>0, <1>3, <1>4 DEF Transfer

(* Every step of the driver and of the controller keeps the invariant and  *)
(* is one of the bus, or changes nothing that its callers see.             *)
LEMMA I2cStep ==
  ASSUME I2cInv, [I2cNext]_i2cvars
  PROVE  I2cInv' /\ [Bus!Next]_Bus!vars
<1>1. CASE \E c \in Calls : i2c_begin(c)
  BY <1>1, BeginStep DEF Bus!Next
<1>2. CASE Driver
  BY <1>2, QuietStep, ProceedStep, GiveUpStep DEF Driver, Bus!Next
<1>3. CASE Hardware
  BY <1>3, TransferStep, StopStep DEF Hardware, Bus!Next
<1>4. CASE UNCHANGED i2cvars
  <2>1. UNCHANGED <<call, at, ret, value, time, flag, ack, stp, shift, data, slave, regs, due>>
    BY <1>4 DEF i2cvars, drivervars, twivars
  <2>2. I2cTypeOK' /\ DriverOK'
    BY <2>1 DEF I2cInv, I2cTypeOK, DriverOK, Working, OfCall
  <2>3. ShiftOK' /\ FlagOK'
    BY <2>1 DEF I2cInv, ShiftOK, FlagOK, Working, OfCall, Told, Follows
  <2>4. QED  BY <2>1, <2>2, <2>3 DEF I2cInv, Bus!vars
<1>5. QED  BY <1>1, <1>2, <1>3, <1>4 DEF I2cNext

(* What sunxi_i2c_read and sunxi_i2c_write keep true in every phase.       *)
THEOREM I2cInvariant == I2cSpec => []I2cInv
<1>1. I2cInit => I2cInv
  BY I2cInitInv
<1>2. I2cInv /\ [I2cNext]_i2cvars => I2cInv'
  BY I2cStep
<1>3. QED  BY <1>1, <1>2, PTL DEF I2cSpec

(* The driver implements the bus of registers for every set of chips, every*)
(* number of polls, and a controller and chips that fail as they like.     *)
THEOREM I2cImplementsBus == I2cSpec => ImplementsBus
<1>1. I2cInit => Bus!Init
  BY I2cInitInv
<1>2. I2cInv /\ [I2cNext]_i2cvars => [Bus!Next]_Bus!vars
  BY I2cStep
<1>3. QED  BY <1>1, <1>2, I2cInvariant, PTL DEF I2cSpec, ImplementsBus, Bus!Spec

-----------------------------------------------------------------------------
(* The functions of the power chips.                                       *)
FnOK ==
  /\ fn \in [f : {"none", "init", "dual"}]
            \cup [f : {"set"}, rail : Rails, vol : Volts, onoff : OnOff]
            \cup [f : {"get"}, rail : Rails]
  /\ fn.f = "none" => call = NoCall
  /\ fn.f # "none" => call \in Calls

(* Where a function may write, and which register it is at.                *)
LineOK ==
  /\ call.op = "write" => <<call.chip, call.reg>> \in Fields(fn)
  /\ fn.f = "set" =>
       /\ call.chip = fn.rail.chip /\ call.reg \in {fn.rail.cfg, fn.rail.ctl}
       /\ line = "cfg" => call.reg = fn.rail.cfg
       /\ line = "ctl" => call.reg = fn.rail.ctl

ElseKept ==
  \A c \in Present : \A reg \in Registers :
    <<c, reg>> \notin Fields(fn) => regs[c][reg] = old[c][reg]

(* How far the two registers of a rail are, while the first is at work...  *)
CfgOK(r, new, was) ==
  /\ fn.vol > 0 /\ new[r.ctl] = was[r.ctl]
  /\ call.op = "read" => new[r.cfg] = was[r.cfg]
  /\ call.op = "write" =>
       /\ call.data.bits = was[r.cfg].bits /\ call.data.code = Encode(r, fn.vol)
       /\ new[r.cfg] \in {was[r.cfg], call.data}
       /\ ~due => new[r.cfg] = call.data

(* ... and the second.                                                     *)
CtlOK(r, new, was) ==
  /\ new[r.cfg].bits = was[r.cfg].bits
  /\ fn.vol > 0 => new[r.cfg].code = Encode(r, fn.vol)
  /\ call.op = "read" => new[r.ctl] = was[r.ctl]
  /\ call.op = "write" =>
       /\ call.data.code = was[r.ctl].code
       /\ call.data.bits \ {r.bit} = was[r.ctl].bits \ {r.bit}
       /\ new[r.ctl] \in {was[r.ctl], call.data}

SetOK ==
  fn.f = "set" /\ fn.rail.chip \in Present =>
    /\ call.reg = fn.rail.cfg => CfgOK(fn.rail, regs[fn.rail.chip], old[fn.rail.chip])
    /\ call.reg = fn.rail.ctl => CtlOK(fn.rail, regs[fn.rail.chip], old[fn.rail.chip])

PmuInv == FnOK /\ LineOK /\ ElseKept /\ SetOK

-----------------------------------------------------------------------------
(* The registers that the functions may write, function by function.       *)
LEMMA FieldsFacts ==
  ASSUME NEW f
  PROVE  /\ f.f = "set" => Fields(f) = {<<f.rail.chip, f.rail.cfg>>, <<f.rail.chip, f.rail.ctl>>}
         /\ f.f = "init" => Fields(f) = {<<AXP1530, AXP1530_POWER_DOMN_SEQUENCE>>}
         /\ f.f = "dual" => Fields(f) = {AXP1530} \X {AXP1530_OUTPUT_MONITOR_CONTROL,
                                AXP1530_DCDC_MODE_CTRL2, AXP1530_POWER_DOMN_SEQUENCE}
         /\ f.f \in {"none", "get"} => Fields(f) = {}
BY DEF Fields

-----------------------------------------------------------------------------
(* The tables of the rails: arithmetic, the ranges of a table, and codes   *)
(* as places among the voltages that a rail gives.                         *)
(*                                                                         *)
(* Induction: a set of naturals has a least element, so a set with 1 and   *)
(* with the successor of each of its elements below N has all up to N.     *)
LEMMA Smallest ==
  ASSUME NEW S \in SUBSET Nat, S # {}
  PROVE  \E m \in S : \A k \in S : m <= k
<1> DEFINE R == {ss \in Nat \X Nat : ss[1] < ss[2]}
<1>1. R = OpToRel(<, Nat)  BY DEF OpToRel
<1>2. IsWellFoundedOn(R, Nat)  BY <1>1, NatLessThanWellFounded
<1>3. PICK m \in S : \A k \in S : <<k, m>> \notin R
  <2> HIDE DEF R
  <2> QED  BY <1>2, WFMin
<1>4. \A k \in S : ~(k < m)  BY <1>3
<1> QED  BY <1>4

LEMMA Climb ==
  ASSUME NEW N \in Nat, NEW S, 1 \in S, \A k \in 1 .. N - 1 : k \in S => k + 1 \in S
  PROVE  1 .. N \subseteq S
<1> DEFINE Missing == {k \in 1 .. N : k \notin S}
<1>1. CASE Missing = {}  BY <1>1
<1>2. CASE Missing # {}
  <2>1. PICK m \in Missing : \A k \in Missing : m <= k
    <3>1. Missing \in SUBSET Nat  OBVIOUS
    <3> HIDE DEF Missing
    <3> QED  BY <1>2, <3>1, Smallest
  <2>2. m \in 2 .. N  BY <2>1
  <2>3. m - 1 \in 1 .. N - 1 /\ m - 1 \notin Missing  BY <2>1, <2>2
  <2>4. m - 1 \in S  BY <2>3
  <2>5. (m - 1) + 1 \in S  BY <2>3, <2>4
  <2>6. (m - 1) + 1 = m  BY <2>2
  <2> QED  BY <2>1, <2>5, <2>6
<1> QED  BY <1>1, <1>2

(* Multiples are in order, and division counts them.                       *)
LEMMA Multiples ==
  ASSUME NEW v \in Nat, v > 0, NEW j \in Nat, NEW k \in Nat
  PROVE  /\ j * v \in Nat
         /\ j < k => j * v < k * v
         /\ j < k => j * v + v <= k * v
<1>1. j * v \in Nat /\ k * v \in Nat  OBVIOUS
<1>2. ASSUME j < k  PROVE j * v + v <= k * v
  <2>1. PICK d \in Nat : k = j + 1 + d
    <3>1. k - j - 1 \in Nat /\ k = j + 1 + (k - j - 1)  BY <1>2
    <3>. QED  BY <3>1
  <2>2. k * v = j * v + v + d * v  BY <2>1
  <2>3. d * v \in Nat  OBVIOUS
  <2>. QED  BY <1>1, <2>2, <2>3
<1>. QED  BY <1>1, <1>2

LEMMA Divided ==
  ASSUME NEW v \in Nat, v > 0, NEW x \in Nat
  PROVE  /\ x \div v \in Nat
         /\ (x \div v) * v <= x /\ x < (x \div v) * v + v
         /\ (x + v) \div v = x \div v + 1
<1>1. x \div v \in Nat /\ (x \div v) * v <= x /\ x < (x \div v) * v + v
  OBVIOUS
<1>2. (x + v) \div v \in Nat /\ ((x + v) \div v) * v <= x + v /\ x + v < ((x + v) \div v) * v + v
  OBVIOUS
<1>3. PICK p \in Nat, q \in Nat : p = x \div v /\ q = (x + v) \div v  BY <1>1, <1>2
<1>4. p * v <= x /\ x < p * v + v /\ q * v <= x + v /\ x + v < q * v + v  BY <1>1, <1>2, <1>3
<1>5. ~(q < p + 1)
  <2>1. ASSUME q < p + 1  PROVE FALSE
    <3>1. q * v + v <= (p + 1) * v  BY <2>1, Multiples
    <3>2. (p + 1) * v = p * v + v  OBVIOUS
    <3>3. p * v \in Nat /\ q * v \in Nat  OBVIOUS
    <3>. QED  BY <1>4, <3>1, <3>2, <3>3
  <2>. QED  BY <2>1
<1>6. ~(p + 1 < q)
  <2>1. ASSUME p + 1 < q  PROVE FALSE
    <3>1. (p + 1) * v + v <= q * v  BY <2>1, Multiples
    <3>2. (p + 1) * v = p * v + v  OBVIOUS
    <3>3. p * v \in Nat /\ q * v \in Nat  OBVIOUS
    <3>. QED  BY <1>4, <3>1, <3>2, <3>3
  <2>. QED  BY <2>1
<1>. QED  BY <1>1, <1>3, <1>5, <1>6

(* The n lowest voltages of a range.                                       *)
Lowest(s, n) == {s.min + k * s.val : k \in 0 .. n - 1}
IsRange(s) == s.min \in Nat /\ s.max \in Nat /\ s.val \in Nat /\ s.val > 0 /\ s.min <= s.max

LEMMA LowestCount ==
  ASSUME NEW s, IsRange(s), NEW n \in Nat
  PROVE  IsFiniteSet(Lowest(s, n)) /\ Cardinality(Lowest(s, n)) = n
<1> DEFINE f == [k \in 0 .. n - 1 |-> s.min + k * s.val]
<1>1. PICK a \in Nat, v \in Nat : a = s.min /\ v = s.val /\ v > 0  BY DEF IsRange
<1>2. f \in [0 .. n - 1 -> Lowest(s, n)]  BY DEF Lowest
<1>3. ASSUME NEW j \in 0 .. n - 1, NEW k \in 0 .. n - 1, j # k  PROVE f[j] # f[k]
  <2>1. j * v \in Nat /\ k * v \in Nat  BY Multiples, <1>1
  <2>2. j * v < k * v \/ k * v < j * v
    <3>1. j < k \/ k < j  BY <1>3
    <3>. QED  BY <1>1, <3>1, Multiples
  <2>3. f[j] = a + j * v /\ f[k] = a + k * v  BY <1>1
  <2> HIDE DEF f
  <2>. QED  BY <2>1, <2>2, <2>3
<1>4. \A x \in Lowest(s, n) : \E k \in 0 .. n - 1 : f[k] = x  BY DEF Lowest
<1> HIDE DEF f
<1>5. f \in Bijection(0 .. n - 1, Lowest(s, n))
  BY <1>2, <1>3, <1>4 DEF Bijection, Injection, Surjection, IsInjective
<1>6. IsFiniteSet(0 .. n - 1) /\ Cardinality(0 .. n - 1) = n  BY FS_Interval
<1>. QED  BY <1>5, <1>6, FS_Bijection DEF ExistsBijection

(* The voltages of a range.                                                *)
Rung(s) == {s.min + k * s.val : k \in 0 .. (s.max - s.min) \div s.val}

LEMMA RungFacts ==
  ASSUME NEW s, IsRange(s)
  PROVE  /\ Steps(s) = (s.max - s.min) \div s.val + 1 /\ Steps(s) \in Nat
         /\ Rung(s) = Lowest(s, Steps(s))
         /\ IsFiniteSet(Rung(s)) /\ Cardinality(Rung(s)) = Steps(s)
         /\ \A x \in Rung(s) : x \in Nat /\ s.min <= x /\ x <= s.max
         /\ s.min \in Rung(s)
<1>1. PICK a \in Nat, b \in Nat, v \in Nat : a = s.min /\ b = s.max /\ v = s.val /\ v > 0 /\ a <= b
  BY DEF IsRange
<1>2. PICK x \in Nat : x = b - a  BY <1>1
<1>3. PICK q \in Nat : q = x \div v  BY <1>1, Divided
<1>4. q * v <= x /\ (x + v) \div v = q + 1  BY <1>1, <1>3, Divided
<1>5. Steps(s) = q + 1  BY <1>1, <1>2, <1>4 DEF Steps
<1>6. Rung(s) = Lowest(s, q + 1)
  <2>1. 0 .. (q + 1) - 1 = 0 .. q  OBVIOUS
  <2>. QED  BY <1>1, <1>2, <1>3, <2>1 DEF Rung, Lowest
<1>7. ASSUME NEW k \in 0 .. q  PROVE a + k * v \in Nat /\ a <= a + k * v /\ a + k * v <= b
  <2>1. k * v \in Nat /\ q * v \in Nat  BY <1>1, Multiples
  <2>2. k * v <= q * v
    <3>1. CASE k = q  BY <2>1, <3>1
    <3>2. CASE k < q
      <4>1. k * v < q * v  BY <1>1, <3>2, Multiples
      <4>. QED  BY <2>1, <4>1
    <3>. QED  BY <3>1, <3>2
  <2>. QED  BY <1>1, <1>2, <1>4, <2>1, <2>2
<1>8. \A y \in Rung(s) : \E k \in 0 .. q : y = a + k * v  BY <1>1, <1>2, <1>3 DEF Rung
<1>9. a \in Rung(s)
  <2>1. 0 \in 0 .. q /\ a + 0 * v = a  OBVIOUS
  <2>. QED  BY <1>1, <1>2, <1>3, <2>1 DEF Rung
<1>10. IsFiniteSet(Rung(s)) /\ Cardinality(Rung(s)) = Steps(s)
  <2>1. q + 1 \in Nat  OBVIOUS
  <2>. QED  BY <1>5, <1>6, <2>1, LowestCount
<1>11. \A y \in Rung(s) : y \in Nat /\ s.min <= y /\ y <= s.max  BY <1>1, <1>7, <1>8
<1>12. Steps(s) = (s.max - s.min) \div s.val + 1 /\ Steps(s) \in Nat  BY <1>1, <1>2, <1>3, <1>5
<1>. QED  BY <1>1, <1>5, <1>6, <1>9, <1>10, <1>11, <1>12

-----------------------------------------------------------------------------
(* The ranges of a table are apart and in order.                           *)
Ranges(tbl, n) ==
  /\ n \in Nat /\ n > 0 /\ Len(tbl) = n /\ DOMAIN tbl = 1 .. n
  /\ \A i \in 1 .. n : IsRange(tbl[i]) /\ tbl[i].min > 0
  /\ \A i, j \in 1 .. n : i < j => tbl[i].max < tbl[j].min

LEMMA TableRanges ==
  ASSUME NEW r \in Rails
  PROVE  /\ \E n : Ranges(r.steps, n)
         /\ r.min = r.steps[1].min /\ r.max \in Nat /\ r.min <= r.max
         /\ r.max <= r.steps[Len(r.steps)].max
         /\ Base(r.steps, Len(r.steps) + 1) <= 128
<1>1. PICK tbl : tbl = r.steps  OBVIOUS
<1>2. /\ tbl \in Seq([min : Nat, max : Nat, val : Nat \ {0}]) /\ tbl # <<>>
      /\ \A i \in DOMAIN tbl : tbl[i].min <= tbl[i].max
      /\ \A i \in 1 .. Len(tbl) - 1 : tbl[i].max < tbl[i + 1].min
      /\ r.min = tbl[1].min /\ r.max \in r.min .. tbl[Len(tbl)].max
      /\ Base(tbl, Len(tbl) + 1) <= 128
  BY <1>1, TableAssumption DEF IsTable
<1>3. PICK n \in Nat : n = Len(tbl) /\ DOMAIN tbl = 1 .. n /\ n > 0  BY <1>2
<1>4. \A i \in 1 .. n : tbl[i] \in [min : Nat, max : Nat, val : Nat \ {0}]
  <2> DEFINE S == [min : Nat, max : Nat, val : Nat \ {0}]
  <2>1. tbl \in Seq(S)  BY <1>2
  <2> HIDE DEF S
  <2>2. \A i \in 1 .. n : tbl[i] \in S  BY <1>3, <2>1
  <2>. QED  BY <2>2 DEF S
<1>5. \A i \in 1 .. n : IsRange(tbl[i])
  <2> SUFFICES ASSUME NEW i \in 1 .. n  PROVE IsRange(tbl[i])
    OBVIOUS
  <2>1. tbl[i].min \in Nat /\ tbl[i].max \in Nat /\ tbl[i].val \in Nat \ {0}  BY <1>4
  <2>2. tbl[i].min <= tbl[i].max  BY <1>2, <1>3
  <2>. QED  BY <2>1, <2>2 DEF IsRange
<1>6. ASSUME NEW i \in 1 .. n, NEW j \in 1 .. n, i < j  PROVE tbl[i].max < tbl[j].min
  <2> DEFINE S == {k \in Nat : i + k <= n => tbl[i].max < tbl[i + k].min}
  <2>1. 1 \in S  BY <1>2, <1>3
  <2>2. ASSUME NEW k \in 1 .. n - 1, k \in S  PROVE k + 1 \in S
    <3> SUFFICES ASSUME i + (k + 1) <= n  PROVE tbl[i].max < tbl[i + (k + 1)].min
      OBVIOUS
    <3>1. PICK m \in 1 .. n - 1 : m = i + k  OBVIOUS
    <3>2. m + 1 \in 1 .. n /\ i + (k + 1) = m + 1  BY <3>1
    <3>3. tbl[i].max < tbl[m].min  BY <2>2, <3>1
    <3>4. tbl[m].max < tbl[m + 1].min  BY <1>2, <1>3
    <3>5. IsRange(tbl[m]) /\ IsRange(tbl[i]) /\ IsRange(tbl[m + 1])  BY <1>5, <3>2
    <3>. QED  BY <3>2, <3>3, <3>4, <3>5 DEF IsRange
  <2> HIDE DEF S
  <2>3. 1 .. n \subseteq S  BY <2>1, <2>2, Climb
  <2>4. j - i \in 1 .. n  BY <1>6
  <2>5. j - i \in S /\ i + (j - i) = j  BY <2>3, <2>4
  <2>. QED  BY <2>5 DEF S
<1>7. \A i \in 1 .. n : tbl[i].min > 0
  <2>1. tbl[1].min > 0  BY <1>2, PmuAssumption
  <2> SUFFICES ASSUME NEW i \in 1 .. n, 1 < i  PROVE tbl[i].min > 0
    BY <2>1
  <2>2. 1 \in 1 .. n  BY <1>3
  <2>3. tbl[1].max < tbl[i].min  BY <1>6, <2>2
  <2>4. IsRange(tbl[1]) /\ IsRange(tbl[i])  BY <1>5, <2>2
  <2>. QED  BY <2>3, <2>4 DEF IsRange
<1>8. Ranges(tbl, n)  BY <1>3, <1>5, <1>6, <1>7 DEF Ranges
<1>9. r.max \in Nat /\ r.min <= r.max /\ r.max <= tbl[n].max
  <2>1. IsRange(tbl[1]) /\ IsRange(tbl[n])  BY <1>3, <1>5
  <2>. QED  BY <1>2, <1>3, <2>1 DEF IsRange
<1>. QED  BY <1>1, <1>2, <1>3, <1>8, <1>9

(* The voltages of the ranges below the i-th.                              *)
Below(tbl, i) == UNION {Rung(tbl[j]) : j \in 1 .. i - 1}

LEMMA BelowMore ==
  ASSUME NEW tbl, NEW n, Ranges(tbl, n), NEW i \in 1 .. n
  PROVE  /\ Below(tbl, i + 1) = Below(tbl, i) \cup Rung(tbl[i])
         /\ Below(tbl, i) \cap Rung(tbl[i]) = {}
         /\ \A x \in Below(tbl, i) : x \in Nat /\ x < tbl[i].min
<1>1. n \in Nat /\ IsRange(tbl[i]) /\ \A j \in 1 .. n : IsRange(tbl[j])  BY DEF Ranges
<1>2. 1 .. (i + 1) - 1 = (1 .. i - 1) \cup {i}  OBVIOUS
<1>3. Below(tbl, i + 1) = Below(tbl, i) \cup Rung(tbl[i])  BY <1>2 DEF Below
<1>4. ASSUME NEW x \in Below(tbl, i)  PROVE x \in Nat /\ x < tbl[i].min
  <2>1. PICK j \in 1 .. i - 1 : x \in Rung(tbl[j])  BY DEF Below
  <2>2. j \in 1 .. n /\ j < i  BY <1>1, <2>1
  <2>3. tbl[j].max < tbl[i].min /\ IsRange(tbl[j])  BY <1>1, <2>2 DEF Ranges
  <2>4. x \in Nat /\ x <= tbl[j].max  BY <2>1, <2>3, RungFacts
  <2>. QED  BY <1>1, <2>3, <2>4 DEF IsRange
<1>5. \A x \in Rung(tbl[i]) : x \in Nat /\ tbl[i].min <= x  BY <1>1, RungFacts
<1>6. tbl[i].min \in Nat  BY <1>1 DEF IsRange
<1>7. Below(tbl, i) \cap Rung(tbl[i]) = {}  BY <1>4, <1>5, <1>6
<1>. QED  BY <1>3, <1>4, <1>7

LEMMA BelowCount ==
  ASSUME NEW tbl, NEW n, Ranges(tbl, n), NEW i \in 1 .. n,
         IsFiniteSet(Below(tbl, i))
  PROVE  /\ IsFiniteSet(Below(tbl, i + 1))
         /\ Cardinality(Below(tbl, i + 1)) = Cardinality(Below(tbl, i)) + Steps(tbl[i])
<1>1. IsRange(tbl[i])  BY DEF Ranges
<1>2. IsFiniteSet(Rung(tbl[i])) /\ Cardinality(Rung(tbl[i])) = Steps(tbl[i]) /\ Steps(tbl[i]) \in Nat
  BY <1>1, RungFacts
<1>3. Cardinality(Below(tbl, i)) \in Nat  BY FS_CardinalityType
<1>4. Cardinality(Below(tbl, i) \cap Rung(tbl[i])) = 0  BY BelowMore, FS_EmptySet
<1>5. PICK A, B : A = Below(tbl, i) /\ B = Rung(tbl[i])  OBVIOUS
<1>6. IsFiniteSet(A \cup B) /\ Cardinality(A \cup B) = Cardinality(A) + Cardinality(B) - Cardinality(A \cap B)
  BY <1>2, <1>5, FS_Union
<1>7. Below(tbl, i + 1) = A \cup B  BY <1>5, BelowMore
<1>8. \A a, b \in Nat : a + b - 0 = a + b  OBVIOUS
<1>9. Cardinality(A \cup B) = Cardinality(A) + Cardinality(B)
  <2>1. Cardinality(A) \in Nat /\ Cardinality(B) \in Nat /\ Cardinality(A \cap B) = 0
    BY <1>2, <1>3, <1>4, <1>5
  <2>. QED  BY <1>6, <1>8, <2>1
<1>10. Cardinality(Below(tbl, i + 1)) = Cardinality(Below(tbl, i)) + Steps(tbl[i])
  BY <1>2, <1>5, <1>7, <1>9
<1>. QED  BY <1>6, <1>7, <1>10

LEMMA BelowFinite ==
  ASSUME NEW tbl, NEW n, Ranges(tbl, n), NEW i \in 1 .. n + 1
  PROVE  IsFiniteSet(Below(tbl, i)) /\ Cardinality(Below(tbl, i)) \in Nat
<1> DEFINE S == {k \in 1 .. n + 1 : IsFiniteSet(Below(tbl, k))}
<1>1. n \in Nat  BY DEF Ranges
<1>2. 1 \in S
  <2>1. 1 .. 1 - 1 = {}  OBVIOUS
  <2>2. Below(tbl, 1) = {}  BY <2>1 DEF Below
  <2>. QED  BY <1>1, <2>2, FS_EmptySet
<1>3. ASSUME NEW k \in 1 .. (n + 1) - 1, k \in S  PROVE k + 1 \in S
  <2>1. k \in 1 .. n /\ k + 1 \in 1 .. n + 1  BY <1>1
  <2>. QED  BY <1>3, <2>1, BelowCount
<1> HIDE DEF S
<1>4. n + 1 \in Nat  BY <1>1
<1>5. 1 .. n + 1 \subseteq S  BY <1>2, <1>3, <1>4, Climb
<1>6. IsFiniteSet(Below(tbl, i))  BY <1>5 DEF S
<1>. QED  BY <1>6, FS_CardinalityType

(* Base counts the voltages of the ranges below.                           *)
LEMMA BaseCounts ==
  ASSUME NEW tbl, NEW n, Ranges(tbl, n), NEW i \in 1 .. n + 1
  PROVE  Base(tbl, i) = Cardinality(Below(tbl, i))
<1> DEFINE IsBase(h) == h = [k \in 1 .. n + 1 |-> IF k = 1 THEN 0 ELSE h[k - 1] + Steps(tbl[k - 1])]
           c == [k \in 1 .. n + 1 |-> Cardinality(Below(tbl, k))]
<1>1. n \in Nat /\ Len(tbl) = n  BY DEF Ranges
<1>2. Cardinality(Below(tbl, 1)) = 0
  <2>1. 1 .. 1 - 1 = {}  OBVIOUS
  <2>2. Below(tbl, 1) = {}  BY <2>1 DEF Below
  <2>. QED  BY <2>2, FS_EmptySet
<1>3. ASSUME NEW k \in 1 .. n + 1, k # 1
      PROVE  /\ k - 1 \in 1 .. n + 1 /\ k - 1 \in 1 .. n
             /\ Cardinality(Below(tbl, k)) = Cardinality(Below(tbl, k - 1)) + Steps(tbl[k - 1])
  <2>1. PICK m \in 1 .. n : m = k - 1 /\ m + 1 = k /\ m \in 1 .. n + 1  BY <1>1, <1>3
  <2>2. IsFiniteSet(Below(tbl, m))  BY <2>1, BelowFinite
  <2>. QED  BY <2>1, <2>2, BelowCount
<1>4. IsBase(c)
  <2>1. ASSUME NEW k \in 1 .. n + 1
        PROVE  c[k] = IF k = 1 THEN 0 ELSE c[k - 1] + Steps(tbl[k - 1])
    BY <1>2, <1>3
  <2>. QED  BY <2>1
<1> HIDE DEF c
<1>5. PICK h : h = CHOOSE g : IsBase(g)  OBVIOUS
<1>6. IsBase(h)  BY <1>4, <1>5
<1>7. Base(tbl, i) = h[i]  BY <1>1, <1>5 DEF Base
<1>8. h[1] = 0 /\ \A k \in 1 .. n + 1 : k # 1 => h[k] = h[k - 1] + Steps(tbl[k - 1])
  <2>1. \A k \in 1 .. n + 1 : h[k] = IF k = 1 THEN 0 ELSE h[k - 1] + Steps(tbl[k - 1])  BY <1>6
  <2>2. 1 \in 1 .. n + 1  BY <1>1
  <2>. QED  BY <2>1, <2>2
<1> HIDE DEF IsBase
<1> DEFINE S == {k \in 1 .. n + 1 : h[k] = Cardinality(Below(tbl, k))}
<1>9. 1 \in S  BY <1>1, <1>2, <1>8
<1>10. ASSUME NEW k \in 1 .. (n + 1) - 1, k \in S  PROVE k + 1 \in S
  <2>1. k + 1 \in 1 .. n + 1 /\ k + 1 # 1 /\ (k + 1) - 1 = k  BY <1>1
  <2>2. h[k + 1] = h[k] + Steps(tbl[k])  BY <1>8, <2>1
  <2>3. Cardinality(Below(tbl, k + 1)) = Cardinality(Below(tbl, k)) + Steps(tbl[k])  BY <1>3, <2>1
  <2>. QED  BY <1>10, <2>1, <2>2, <2>3
<1>11. n + 1 \in Nat  BY <1>1
<1> HIDE DEF S
<1>12. 1 .. n + 1 \subseteq S  BY <1>9, <1>10, <1>11, Climb
<1>. QED  BY <1>7, <1>12 DEF S

LEMMA BaseFacts ==
  ASSUME NEW tbl, NEW n, Ranges(tbl, n)
  PROVE  /\ Base(tbl, 1) = 0
         /\ \A i \in 1 .. n + 1 : Base(tbl, i) \in Nat
         /\ \A i \in 1 .. n : Base(tbl, i + 1) = Base(tbl, i) + Steps(tbl[i])
         /\ \A i \in 1 .. n + 1 : Base(tbl, i) <= Base(tbl, n + 1)
<1>1. n \in Nat  BY DEF Ranges
<1>2. Base(tbl, 1) = 0
  <2>1. 1 .. 1 - 1 = {}  OBVIOUS
  <2>2. Below(tbl, 1) = {}  BY <2>1 DEF Below
  <2>3. 1 \in 1 .. n + 1  BY <1>1
  <2>. QED  BY <2>2, <2>3, BaseCounts, FS_EmptySet
<1>3. \A i \in 1 .. n + 1 : Base(tbl, i) \in Nat  BY BaseCounts, BelowFinite
<1>4. \A i \in 1 .. n : Base(tbl, i + 1) = Base(tbl, i) + Steps(tbl[i])
  <2> SUFFICES ASSUME NEW i \in 1 .. n  PROVE Base(tbl, i + 1) = Base(tbl, i) + Steps(tbl[i])
    OBVIOUS
  <2>1. i \in 1 .. n + 1 /\ i + 1 \in 1 .. n + 1  BY <1>1
  <2>. QED  BY <2>1, BaseCounts, BelowFinite, BelowCount
<1>5. ASSUME NEW i \in 1 .. n + 1  PROVE Base(tbl, i) <= Base(tbl, n + 1)
  <2>1. n + 1 \in 1 .. n + 1  BY <1>1
  <2>2. Below(tbl, i) \subseteq Below(tbl, n + 1)
    <3>1. 1 .. i - 1 \subseteq 1 .. (n + 1) - 1  BY <1>1
    <3>. QED  BY <3>1 DEF Below
  <2>. QED  BY <2>1, <2>2, BaseCounts, BelowFinite, FS_Subset
<1>. QED  BY <1>2, <1>3, <1>4, <1>5

-----------------------------------------------------------------------------
(* The place of a voltage counts the ranges below its own and its steps.   *)
LEMMA Places ==
  ASSUME NEW r, NEW n, Ranges(r.steps, n), NEW i \in 1 .. n,
         NEW k \in 0 .. Steps(r.steps[i]) - 1
  PROVE  /\ r.steps[i].min + k * r.steps[i].val \in Voltages(r)
         /\ Place(r, r.steps[i].min + k * r.steps[i].val) = Base(r.steps, i) + k
<1>1. PICK tbl, s : tbl = r.steps /\ s = tbl[i]  OBVIOUS
<1>2. /\ n \in Nat /\ DOMAIN tbl = 1 .. n /\ Ranges(tbl, n)
      /\ IsRange(s) /\ \A j \in 1 .. n : IsRange(tbl[j])
  BY <1>1 DEF Ranges
<1>3. PICK a \in Nat, v \in Nat : a = s.min /\ v = s.val /\ v > 0  BY <1>2 DEF IsRange
<1>4. PICK x : x = a + k * v  OBVIOUS
<1>5. k \in Nat /\ Steps(s) \in Nat /\ k \in 0 .. Steps(s) - 1  BY <1>1, <1>2, RungFacts
<1>6. x \in Nat /\ a <= x
  <2>1. k * v \in Nat  BY <1>5, <1>3, Multiples
  <2>. QED  BY <1>4, <2>1
<1>7. Voltages(r) = UNION {Rung(tbl[j]) : j \in 1 .. n}
  <2>1. Voltages(r) = UNION {Rung(t) : t \in {r.steps[j] : j \in DOMAIN r.steps}}
    BY DEF Voltages, Rung
  <2>2. {Rung(t) : t \in {tbl[j] : j \in 1 .. n}} = {Rung(tbl[j]) : j \in 1 .. n}  OBVIOUS
  <2>. QED  BY <1>1, <1>2, <2>1, <2>2
<1>8. Rung(s) = Lowest(s, Steps(s))  BY <1>2, RungFacts
<1>9. x \in Rung(s)  BY <1>3, <1>4, <1>5, <1>8 DEF Lowest
<1>10. x <= s.max  BY <1>2, <1>9, RungFacts
<1>11. ASSUME NEW m \in 0 .. Steps(s) - 1  PROVE a + m * v \in Nat /\ (a + m * v < x <=> m < k)
  <2>1. m \in Nat /\ m * v \in Nat /\ k * v \in Nat  BY <1>3, <1>5, Multiples
  <2>2. m < k => m * v < k * v  BY <1>3, <1>5, <2>1, Multiples
  <2>3. k < m => k * v < m * v  BY <1>3, <1>5, <2>1, Multiples
  <2>4. m = k => m * v = k * v  OBVIOUS
  <2>. QED  BY <1>4, <1>5, <2>1, <2>2, <2>3, <2>4
<1>12. {y \in Voltages(r) : y < x} = Below(tbl, i) \cup Lowest(s, k)
  <2>1. ASSUME NEW y \in Voltages(r), y < x  PROVE y \in Below(tbl, i) \cup Lowest(s, k)
    <3>1. PICK j \in 1 .. n : y \in Rung(tbl[j])  BY <1>7, <2>1
    <3>2. CASE j < i
      <4>1. j \in 1 .. i - 1  BY <3>1, <3>2
      <4>. QED  BY <3>1, <4>1 DEF Below
    <3>3. CASE j = i
      <4>1. PICK m \in 0 .. Steps(s) - 1 : y = a + m * v  BY <1>1, <1>3, <1>8, <3>1, <3>3 DEF Lowest
      <4>2. m < k  BY <1>11, <2>1, <4>1
      <4>3. m \in 0 .. k - 1  BY <1>5, <4>1, <4>2
      <4>. QED  BY <1>3, <4>1, <4>3 DEF Lowest
    <3>4. CASE i < j
      <4>1. s.max < tbl[j].min  BY <1>1, <1>2, <3>1, <3>4 DEF Ranges
      <4>2. y \in Nat /\ tbl[j].min <= y  BY <1>2, <3>1, RungFacts
      <4>3. s.max \in Nat /\ tbl[j].min \in Nat  BY <1>2, <3>1 DEF IsRange
      <4>. QED  BY <1>6, <1>10, <2>1, <4>1, <4>2, <4>3
    <3>. QED  BY <3>1, <3>2, <3>3, <3>4
  <2>2. ASSUME NEW y \in Below(tbl, i)  PROVE y \in Voltages(r) /\ y < x
    <3>1. PICK j \in 1 .. i - 1 : y \in Rung(tbl[j])  BY DEF Below
    <3>2. j \in 1 .. n  BY <1>2, <3>1
    <3>3. y \in Nat /\ y < s.min  BY <1>1, <1>2, BelowMore
    <3>. QED  BY <1>3, <1>6, <1>7, <3>1, <3>2, <3>3
  <2>3. ASSUME NEW y \in Lowest(s, k)  PROVE y \in Voltages(r) /\ y < x
    <3>1. PICK m \in 0 .. k - 1 : y = a + m * v  BY <1>3 DEF Lowest
    <3>2. m \in 0 .. Steps(s) - 1 /\ m < k  BY <1>5, <3>1
    <3>3. y \in Rung(s)  BY <1>3, <1>8, <3>1, <3>2 DEF Lowest
    <3>. QED  BY <1>1, <1>7, <1>11, <3>1, <3>2, <3>3
  <2>. QED  BY <2>1, <2>2, <2>3
<1>13. Below(tbl, i) \cap Lowest(s, k) = {}
  <2>1. ASSUME NEW y \in Lowest(s, k)  PROVE y \in Rung(s)
    <3>1. PICK m \in 0 .. k - 1 : y = a + m * v  BY <1>3 DEF Lowest
    <3>2. m \in 0 .. Steps(s) - 1  BY <1>5, <3>1
    <3>. QED  BY <1>3, <1>8, <3>1, <3>2 DEF Lowest
  <2>. QED  BY <1>1, <1>2, <2>1, BelowMore
<1>14. PICK A, B : A = Below(tbl, i) /\ B = Lowest(s, k)  OBVIOUS
<1>15. IsFiniteSet(A) /\ Cardinality(A) = Base(tbl, i) /\ Cardinality(A) \in Nat
  <2>1. i \in 1 .. n + 1  BY <1>2
  <2>. QED  BY <1>2, <1>14, <2>1, BaseCounts, BelowFinite
<1>16. IsFiniteSet(B) /\ Cardinality(B) = k  BY <1>2, <1>5, <1>14, LowestCount
<1>17. Cardinality(A \cap B) = 0  BY <1>13, <1>14, FS_EmptySet
<1>18. Cardinality(A \cup B) = Cardinality(A) + Cardinality(B) - Cardinality(A \cap B)
  BY <1>15, <1>16, FS_Union
<1>19. Cardinality(A \cup B) = Base(tbl, i) + k
  <2>1. \A p, q \in Nat : p + q - 0 = p + q  OBVIOUS
  <2>. QED  BY <1>5, <1>15, <1>16, <1>17, <1>18, <2>1
<1>20. Place(r, x) = Base(tbl, i) + k  BY <1>12, <1>14, <1>19 DEF Place
<1>21. x \in Voltages(r)  BY <1>1, <1>7, <1>9
<1>. QED  BY <1>1, <1>3, <1>4, <1>20, <1>21

(* Decode finds the range and the step of a code.                          *)
LEMMA DecodePlace ==
  ASSUME NEW r \in Rails, NEW code \in 0 .. 127, Decode(r, code) > 0
  PROVE  Decode(r, code) \in Voltages(r) /\ Place(r, Decode(r, code)) = code
<1>1. PICK tbl, n : tbl = r.steps /\ Ranges(tbl, n)  BY TableRanges
<1>2. n \in Nat /\ DOMAIN tbl = 1 .. n  BY <1>1 DEF Ranges
<1>3. PICK behind : behind = {i \in 1 .. n : code < Base(tbl, i + 1)}  OBVIOUS
<1>4. Decode(r, code) = IF behind = {} THEN -1
        ELSE (code - Base(tbl, Min(behind))) * tbl[Min(behind)].val + tbl[Min(behind)].min
  BY <1>1, <1>2, <1>3 DEF Decode
<1>5. behind # {}
  <2>1. ~(-1 > 0)  OBVIOUS
  <2>. QED  BY <1>4, <2>1
<1>6. PICK i : i = Min(behind)  OBVIOUS
<1>7. i \in behind /\ \A j \in behind : i <= j
  <2>1. behind \in SUBSET Nat  BY <1>2, <1>3
  <2>2. \E m \in behind : \A j \in behind : m <= j  BY <1>5, <2>1, Smallest
  <2>. QED  BY <1>6, <2>2 DEF Min
<1>8. i \in 1 .. n /\ code < Base(tbl, i + 1)  BY <1>3, <1>7
<1>9. PICK b \in Nat : b = Base(tbl, i)
  <2>1. i \in 1 .. n + 1  BY <1>2, <1>8
  <2>. QED  BY <1>1, <2>1, BaseFacts
<1>10. PICK s : s = tbl[i] /\ IsRange(s)  BY <1>1, <1>8 DEF Ranges
<1>11. Steps(s) \in Nat  BY <1>10, RungFacts
<1>12. code < b + Steps(s)  BY <1>1, <1>8, <1>9, <1>10, BaseFacts
<1>13. b <= code
  <2>1. CASE i = 1
    <3>1. b = 0  BY <1>1, <1>9, <2>1, BaseFacts
    <3>. QED  BY <3>1
  <2>2. CASE i # 1
    <3>1. PICK j \in 1 .. n : j = i - 1 /\ j + 1 = i /\ ~(i <= j)  BY <1>2, <1>8, <2>2
    <3>2. j \notin behind  BY <1>7, <3>1
    <3>3. ~(code < b)  BY <1>3, <1>9, <3>1, <3>2
    <3>. QED  BY <1>9, <3>3
  <2>. QED  BY <2>1, <2>2
<1>14. PICK k \in 0 .. Steps(s) - 1 : k = code - b /\ code = b + k  BY <1>9, <1>11, <1>12, <1>13
<1>15. Decode(r, code) = s.min + k * s.val
  <2>1. Decode(r, code) = k * s.val + s.min  BY <1>4, <1>5, <1>6, <1>9, <1>10, <1>14
  <2>2. PICK a \in Nat, v \in Nat : a = s.min /\ v = s.val  BY <1>10 DEF IsRange
  <2>3. k * v \in Nat  OBVIOUS
  <2>4. k * v + a = a + k * v  BY <2>3
  <2>. QED  BY <2>1, <2>2, <2>4
<1>16. Ranges(r.steps, n) /\ s = r.steps[i] /\ k \in 0 .. Steps(r.steps[i]) - 1
  BY <1>1, <1>10, <1>14
<1>17. s.min + k * s.val \in Voltages(r) /\ Place(r, s.min + k * s.val) = Base(r.steps, i) + k
  BY <1>8, <1>16, Places
<1>18. Base(r.steps, i) + k = code  BY <1>1, <1>9, <1>14
<1>. QED  BY <1>15, <1>17, <1>18

(* The range of a voltage.                                                 *)
LEMMA RangeIs ==
  ASSUME NEW tbl, NEW n, Ranges(tbl, n), NEW vol \in Nat,
         tbl[1].min <= vol, vol <= tbl[n].max
  PROVE  LET i == RangeOf(tbl, vol)
         IN  /\ i \in 1 .. n /\ tbl[i].min <= vol
             /\ \A j \in 1 .. n : i < j => vol < tbl[j].min
<1>1. /\ n \in Nat /\ n > 0 /\ Len(tbl) = n /\ DOMAIN tbl = 1 .. n
      /\ \A j \in 1 .. n : IsRange(tbl[j])
  BY DEF Ranges
<1>2. \A j \in 1 .. n : tbl[j].min \in Nat /\ tbl[j].max \in Nat /\ tbl[j].min <= tbl[j].max
  BY <1>1 DEF IsRange
<1>3. PICK S : S = {j \in 1 .. n : InRange(tbl, j, vol)}  OBVIOUS
<1>4. n \in S  BY <1>1, <1>2, <1>3 DEF InRange
<1>5. PICK m \in S : \A j \in S : m <= j
  <2>1. S \in SUBSET Nat  BY <1>1, <1>3
  <2>. QED  BY <1>4, <2>1, Smallest
<1>6. ASSUME NEW j \in 1 .. m - 1  PROVE ~InRange(tbl, j, vol)
  <2>1. j \in 1 .. n /\ ~(m <= j)  BY <1>1, <1>3, <1>5
  <2>. QED  BY <1>3, <1>5, <2>1
<1>7. PICK i : i = RangeOf(tbl, vol)  OBVIOUS
<1>8. i \in 1 .. n /\ InRange(tbl, i, vol) /\ \A j \in 1 .. i - 1 : ~InRange(tbl, j, vol)
  <2>1. m \in 1 .. n /\ InRange(tbl, m, vol)  BY <1>3, <1>5
  <2>. QED  BY <1>1, <1>6, <1>7, <2>1 DEF RangeOf
<1>9. tbl[i].min <= vol
  <2>1. CASE i = 1  BY <2>1
  <2>2. CASE i # 1
    <3>1. PICK j \in 1 .. i - 1 : j = i - 1 /\ j + 1 = i /\ j < n  BY <1>1, <1>8, <2>2
    <3>2. ~InRange(tbl, j, vol)  BY <1>8, <3>1
    <3>3. ~(vol < tbl[i].min)  BY <1>1, <3>1, <3>2 DEF InRange
    <3>. QED  BY <1>2, <1>8, <3>3
  <2>. QED  BY <2>1, <2>2
<1>10. ASSUME NEW j \in 1 .. n, i < j  PROVE vol < tbl[j].min
  <2>1. PICK k \in 1 .. n : k = i + 1 /\ k <= j  BY <1>1, <1>8, <1>10
  <2>2. tbl[i].max < tbl[j].min  BY <1>8, <1>10 DEF Ranges
  <2>3. tbl[k].min <= tbl[j].min
    <3>1. CASE k = j  BY <1>2, <3>1
    <3>2. CASE k # j
      <4>1. k < j  BY <2>1, <3>2
      <4>2. tbl[k].max < tbl[j].min  BY <4>1 DEF Ranges
      <4>. QED  BY <1>2, <4>2
    <3>. QED  BY <3>1, <3>2
  <2>4. tbl[i].max >= vol \/ vol < tbl[k].min  BY <1>8, <2>1 DEF InRange
  <2>. QED  BY <1>2, <1>8, <2>2, <2>3, <2>4
<1>. QED  BY <1>7, <1>8, <1>9, <1>10

(* Encode is the place of the greatest voltage that is not above vol.      *)
LEMMA EncodePlace ==
  ASSUME NEW r \in Rails, NEW v \in Int, v > 0
  PROVE  Encode(r, v) = Place(r, Nearest(r, v)) /\ Encode(r, v) \in 0 .. 127
<1>1. PICK tbl, n : tbl = r.steps /\ Ranges(tbl, n)  BY TableRanges
<1>2. /\ n \in Nat /\ n > 0 /\ Len(tbl) = n /\ DOMAIN tbl = 1 .. n
      /\ \A j \in 1 .. n : IsRange(tbl[j])
  BY <1>1 DEF Ranges
<1>3. 1 \in 1 .. n /\ n \in 1 .. n  BY <1>2
<1>4. /\ r.min = tbl[1].min /\ r.min \in Nat /\ r.max \in Nat /\ r.min <= r.max
      /\ r.max <= tbl[n].max /\ tbl[n].max \in Nat
  BY <1>1, <1>2, <1>3, TableRanges DEF IsRange
<1>5. PICK vol : vol = Clamped(r, v)  OBVIOUS
<1>6. /\ vol \in Nat /\ r.min <= vol /\ vol <= r.max
      /\ v <= r.min => vol = r.min
      /\ r.min < v => vol <= v /\ (v <= r.max => vol = v) /\ (r.max < v => vol = r.max)
  BY <1>4, <1>5 DEF Clamped
<1>7. PICK i : i = RangeOf(tbl, vol)  OBVIOUS
<1>8. /\ i \in 1 .. n /\ tbl[i].min <= vol
      /\ \A j \in 1 .. n : i < j => vol < tbl[j].min
  <2>1. vol <= tbl[n].max  BY <1>4, <1>6
  <2>. QED  BY <1>1, <1>4, <1>6, <1>7, <2>1, RangeIs
<1>9. PICK s : s = tbl[i] /\ IsRange(s)  BY <1>2, <1>8
<1>10. PICK a \in Nat, b \in Nat, d \in Nat : a = s.min /\ b = s.max /\ d = s.val /\ d > 0 /\ a <= b
  BY <1>9 DEF IsRange
<1>11. PICK w \in Nat : w = (IF vol > b THEN b ELSE vol) /\ a <= w /\ w <= vol /\ w <= b /\ (w = b \/ w = vol)
  BY <1>6, <1>8, <1>9, <1>10
<1>12. PICK q \in Nat : q = (w - a) \div d /\ q * d <= w - a /\ w - a < q * d + d
  <2>1. w - a \in Nat  BY <1>10, <1>11
  <2>. QED  BY <1>10, <2>1, Divided
<1>13. Encode(r, v) = Base(tbl, i) + q
  BY <1>1, <1>5, <1>7, <1>9, <1>10, <1>11, <1>12 DEF Encode
<1>14. q * d \in Nat  BY <1>10, Multiples
<1>15. q \in 0 .. Steps(s) - 1
  <2>1. PICK p \in Nat : p = (b - a) \div d /\ b - a < p * d + d
    <3>1. b - a \in Nat  BY <1>10
    <3>. QED  BY <1>10, <3>1, Divided
  <2>2. Steps(s) = p + 1  BY <1>9, <1>10, <2>1, RungFacts
  <2>3. ~(p < q)
    <3>1. ASSUME p < q  PROVE FALSE
      <4>1. p * d + d <= q * d /\ p * d \in Nat  BY <1>10, <3>1, Multiples
      <4>. QED  BY <1>10, <1>11, <1>12, <1>14, <2>1, <4>1
    <3>. QED  BY <3>1
  <2>. QED  BY <2>2, <2>3
<1>16. PICK x \in Nat : x = a + q * d /\ a <= x /\ x <= w  BY <1>10, <1>11, <1>12, <1>14
<1>17. x \in Voltages(r) /\ Place(r, x) = Base(tbl, i) + q
  <2>1. Ranges(r.steps, n) /\ s = r.steps[i] /\ q \in 0 .. Steps(r.steps[i]) - 1  BY <1>1, <1>9, <1>15
  <2>. QED  BY <1>1, <1>8, <1>10, <1>16, <2>1, Places
<1>18. Voltages(r) = UNION {Rung(tbl[j]) : j \in 1 .. n}
  <2>1. Voltages(r) = UNION {Rung(t) : t \in {r.steps[j] : j \in DOMAIN r.steps}}
    BY DEF Voltages, Rung
  <2>2. {Rung(t) : t \in {tbl[j] : j \in 1 .. n}} = {Rung(tbl[j]) : j \in 1 .. n}  OBVIOUS
  <2>. QED  BY <1>1, <1>2, <2>1, <2>2
<1>19. ASSUME NEW y \in Voltages(r)  PROVE y \in Nat /\ (y <= vol => y <= x)
  <2>1. PICK j \in 1 .. n : y \in Rung(tbl[j])  BY <1>18
  <2>2. /\ y \in Nat /\ tbl[j].min <= y /\ y <= tbl[j].max
        /\ tbl[j].min \in Nat /\ tbl[j].max \in Nat
    <3>1. IsRange(tbl[j])  BY <1>2, <2>1
    <3>2. tbl[j].min \in Nat /\ tbl[j].max \in Nat  BY <3>1 DEF IsRange
    <3>3. y \in Nat /\ tbl[j].min <= y /\ y <= tbl[j].max  BY <2>1, <3>1, RungFacts
    <3>. QED  BY <3>2, <3>3
  <2> SUFFICES ASSUME y <= vol  PROVE y <= x
    BY <2>2
  <2>3. CASE j < i
    <3>1. tbl[j].max < a  BY <1>1, <1>8, <1>9, <1>10, <2>1, <2>3 DEF Ranges
    <3>. QED  BY <1>10, <1>16, <2>2, <3>1
  <2>4. CASE j = i
    <3>1. Rung(s) = Lowest(s, Steps(s)) /\ y <= b  BY <1>9, <1>10, <2>1, <2>2, <2>4, RungFacts
    <3>2. PICK m \in 0 .. Steps(s) - 1 : y = a + m * d  BY <1>9, <1>10, <2>1, <2>4, <3>1 DEF Lowest
    <3>3. Steps(s) \in Nat  BY <1>9, RungFacts
    <3>4. m \in Nat /\ m * d \in Nat  BY <1>10, <3>2, <3>3, Multiples
    <3>5. y <= w  BY <1>6, <1>10, <1>11, <2>2, <3>1
    <3>6. ~(q < m)
      <4>1. ASSUME q < m  PROVE FALSE
        <5>1. q * d + d <= m * d  BY <1>10, <3>4, <4>1, Multiples
        <5>2. w < y  BY <1>10, <1>12, <1>14, <3>2, <3>4, <5>1
        <5>. QED  BY <2>2, <3>5, <5>2
      <4>. QED  BY <4>1
    <3>7. m * d <= q * d
      <4>1. CASE m = q  BY <1>14, <4>1
      <4>2. CASE m < q
        <5>1. m * d < q * d  BY <1>10, <3>4, <4>2, Multiples
        <5>. QED  BY <1>14, <3>4, <5>1
      <4>. QED  BY <3>4, <3>6, <4>1, <4>2
    <3>. QED  BY <1>14, <1>16, <3>2, <3>4, <3>7
  <2>5. CASE i < j
    <3>1. vol < tbl[j].min  BY <1>8, <2>1, <2>5
    <3>. QED  BY <1>6, <2>2, <3>1
  <2>. QED  BY <1>8, <2>1, <2>3, <2>4, <2>5
<1>20. x <= vol  BY <1>6, <1>11, <1>16
<1>21. r.min \in Voltages(r)
  <2>1. r.min \in Rung(tbl[1])  BY <1>2, <1>3, <1>4, RungFacts
  <2>. QED  BY <1>3, <1>18, <2>1
<1>22. Nearest(r, v) = x
  <2>1. CASE v <= r.min
    <3>1. r.min <= x  BY <1>4, <1>6, <1>19, <1>21, <2>1
    <3>2. x <= r.min  BY <1>6, <1>20, <2>1
    <3>3. x = r.min  BY <1>4, <3>1, <3>2
    <3>. QED  BY <2>1, <3>3 DEF Nearest
  <2>2. CASE ~(v <= r.min)
    <3>1. \A y \in Voltages(r) : y <= v /\ y <= r.max <=> y <= vol  BY <1>4, <1>6, <1>19, <2>2
    <3>2. PICK Y : Y = {y \in Voltages(r) : y <= v /\ y <= r.max}  OBVIOUS
    <3>3. x \in Y /\ \A y \in Y : y \in Nat /\ y <= x  BY <1>17, <1>19, <1>20, <3>1, <3>2
    <3>4. Max(Y) = x
      <4>1. PICK z : z = Max(Y)  OBVIOUS
      <4>2. \E u \in Y : \A y \in Y : u >= y
        <5>1. \A y \in Y : x >= y  BY <1>16, <3>3
        <5>. QED  BY <3>3, <5>1
      <4>3. z \in Y /\ \A y \in Y : z >= y  BY <4>1, <4>2 DEF Max
      <4>4. z \in Nat /\ z >= x /\ z <= x  BY <3>3, <4>3
      <4>. QED  BY <1>16, <4>1, <4>4
    <3>. QED  BY <2>2, <3>2, <3>4 DEF Nearest
  <2>. QED  BY <2>1, <2>2
<1>23. Base(tbl, i) + q \in 0 .. 127
  <2>1. i \in 1 .. n + 1 /\ i + 1 \in 1 .. n + 1 /\ n + 1 \in 1 .. n + 1  BY <1>2, <1>8
  <2>2. /\ Base(tbl, i) \in Nat /\ Base(tbl, i + 1) \in Nat /\ Base(tbl, n + 1) \in Nat
        /\ Base(tbl, i + 1) <= Base(tbl, n + 1)
    BY <1>1, <2>1, BaseFacts
  <2>3. Base(tbl, i + 1) = Base(tbl, i) + Steps(s)  BY <1>1, <1>8, <1>9, BaseFacts
  <2>4. Base(tbl, n + 1) <= 128  BY <1>1, <1>2, TableRanges
  <2>5. Steps(s) \in Nat  BY <1>9, RungFacts
  <2>. QED  BY <1>15, <2>2, <2>3, <2>4, <2>5
<1>. QED  BY <1>13, <1>17, <1>22, <1>23

(* axp_set_vol codes a voltage by its place among those that the rail      *)
(* gives, the next lower one if it has none such, and axp_get_vol decodes  *)
(* a code to the voltage at its place, for every table of ranges in order. *)
THEOREM PmuCodesArePlaces ==
  \A r \in Rails :
    /\ \A v \in Volts : v > 0 => /\ Encode(r, v) = Place(r, Nearest(r, v))
                                 /\ Encode(r, v) \in 0 .. 127
    /\ \A code \in 0 .. 127 :
         Decode(r, code) > 0 =>
           Decode(r, code) \in Voltages(r) /\ Place(r, Decode(r, code)) = code
BY EncodePlace, DecodePlace, TableAssumption

-----------------------------------------------------------------------------
(* The registers and chips of rails, and what may be read and written.     *)
LEMMA RailFacts ==
  ASSUME NEW r \in Rails
  PROVE  /\ r.chip \in Chips /\ r.cfg \in Registers /\ r.ctl \in Registers /\ r.cfg # r.ctl
         /\ r.bit \in 0 .. 7
         /\ Read(r.chip, r.cfg) \in Calls /\ Read(r.chip, r.ctl) \in Calls
         /\ \A b \in Bytes : Write(r.chip, r.cfg, b) \in Calls /\ Write(r.chip, r.ctl, b) \in Calls
BY PmuAssumption DEF Calls, Read, Write

(* The bytes that are written are bytes.                                   *)
LEMMA ByteFacts ==
  ASSUME NEW r \in Rails, NEW b \in Bytes
  PROVE  /\ \A v \in Volts : v > 0 => WithCode(r, v, b) \in Bytes
         /\ \A n \in OnOff : WithBit(r, n, b) \in Bytes
         /\ Byte(b.code, b.bits \cup {1}) \in Bytes
         /\ Byte(0, 1 .. 4) \in Bytes /\ Byte(0, {1}) \in Bytes /\ Byte(0, {1, 5}) \in Bytes
<1>1. b.code \in 0 .. 127 /\ b.bits \in SUBSET (0 .. 7)
  BY PmuAssumption
<1>2. \A n \in 0 .. 127 : \A s \in SUBSET (0 .. 7) : Byte(n, s) \in Bytes
  BY PmuAssumption DEF Byte
<1>3. \A v \in Volts : v > 0 => WithCode(r, v, b) \in Bytes
  BY <1>1, <1>2, PmuCodesArePlaces DEF WithCode
<1>4. \A n \in OnOff : WithBit(r, n, b) \in Bytes
  <2>1. b.bits \ {r.bit} \in SUBSET (0 .. 7) /\ b.bits \cup {r.bit} \in SUBSET (0 .. 7)
    BY <1>1, RailFacts
  <2>2. QED  BY <1>1, <1>2, <2>1 DEF WithBit
<1>5. Byte(b.code, b.bits \cup {1}) \in Bytes
  BY <1>1, <1>2
<1>6. 1 .. 4 \in SUBSET (0 .. 7) /\ {1} \in SUBSET (0 .. 7) /\ {1, 5} \in SUBSET (0 .. 7)
  OBVIOUS
<1>7. QED  BY <1>2, <1>3, <1>4, <1>5, <1>6

(* What a function that goes on with a call changes.                       *)
LEMMA DoFacts ==
  ASSUME NEW reg, NEW c, Do(reg, c)
  PROVE  call' = c /\ UNCHANGED <<regs, result>> /\ due' = (c.op = "write") /\ line' = reg
         /\ i2c_begin(c)
BY DEF Do, i2c_begin, Trigger

(* A call that has returned 0.                                             *)
LEMMA ReturnedOk ==
  ASSUME I2cInv, ret = "ok"
  PROVE  call.chip \in Present /\ ~due /\ value \in Bytes
         /\ (call.op = "read" => value = regs[call.chip][call.reg])
BY DEF I2cInv, I2cTypeOK, DriverOK

-----------------------------------------------------------------------------
(* A function that is called begins with a read, of one of its registers.  *)
LEMMA CalledStep ==
  ASSUME I2cInv, NEW f, NEW c, NEW reg, Called(f), Do(reg, c), c \in Calls, c.op = "read",
         f \in [f : {"init", "dual"}] \cup [f : {"set"}, rail : Rails, vol : Volts, onoff : OnOff]
               \cup [f : {"get"}, rail : Rails],
         f.f = "set" =>
           /\ c.chip = f.rail.chip /\ reg \in {"cfg", "ctl"}
           /\ c.reg = (IF reg = "cfg" THEN f.rail.cfg ELSE f.rail.ctl)
           /\ f.vol > 0 <=> reg = "cfg"
  PROVE  PmuInv'
<1>1. /\ fn' = f /\ old' = regs /\ regs' = regs /\ call' = c /\ line' = reg
  BY DoFacts DEF Called
<1>2. FnOK'
  BY <1>1 DEF FnOK
<1>3. LineOK'
  BY <1>1 DEF LineOK
<1>4. ElseKept'
  BY <1>1 DEF ElseKept
<1>5. SetOK'
  <2>1. SUFFICES ASSUME f.f = "set", f.rail.chip \in Present
                 PROVE  /\ c.reg = f.rail.cfg => CfgOK(f.rail, regs[f.rail.chip], regs[f.rail.chip])'
                        /\ c.reg = f.rail.ctl => CtlOK(f.rail, regs[f.rail.chip], regs[f.rail.chip])'
    BY <1>1 DEF SetOK
  <2>2. f.rail.cfg # f.rail.ctl
    BY <2>1, RailFacts
  <2>3. QED  BY <1>1, <2>1, <2>2 DEF CfgOK, CtlOK
<1>6. QED  BY <1>2, <1>3, <1>4, <1>5 DEF PmuInv

(* A function returns.                                                     *)
LEMMA ReturnStep ==
  ASSUME PmuInv, NEW n, Return(n), UNCHANGED <<fn, old, fns>>
  PROVE  PmuInv' /\ UNCHANGED i2cvars
<1>1. UNCHANGED <<fn, old, call, regs, due>> /\ UNCHANGED i2cvars /\ line' = "none"
  BY DEF Return, i2cvars, drivervars
<1>2. FnOK' /\ LineOK'
  BY <1>1 DEF PmuInv, FnOK, LineOK
<1>3. ElseKept' /\ SetOK'
  BY <1>1 DEF PmuInv, ElseKept, SetOK, CfgOK, CtlOK
<1>4. QED  BY <1>1, <1>2, <1>3 DEF PmuInv

(* A function other than axp_set_vol goes on with a register of its own.   *)
LEMMA OtherStep ==
  ASSUME PmuInv, NEW reg, NEW c, Do(reg, c), UNCHANGED <<fn, old, fns>>,
         fn.f \notin {"none", "set"}, c \in Calls,
         c.op = "write" => <<c.chip, c.reg>> \in Fields(fn)
  PROVE  PmuInv'
<1>1. UNCHANGED <<fn, old, regs>> /\ call' = c
  BY DoFacts
<1>2. FnOK'
  BY <1>1 DEF PmuInv, FnOK
<1>3. LineOK'
  BY <1>1 DEF PmuInv, LineOK
<1>4. ElseKept' /\ SetOK'
  BY <1>1 DEF PmuInv, ElseKept, SetOK
<1>5. QED  BY <1>2, <1>3, <1>4 DEF PmuInv

(* axp_set_vol goes on with one of the registers of its rail.              *)
LEMMA SetStep ==
  ASSUME PmuInv, NEW reg, NEW c, Do(reg, c), UNCHANGED <<fn, old, fns>>,
         fn.f = "set", c \in Calls, c.chip = fn.rail.chip, reg \in {"cfg", "ctl"},
         c.reg = (IF reg = "cfg" THEN fn.rail.cfg ELSE fn.rail.ctl),
         fn.rail.chip \in Present =>
           /\ reg = "cfg" => CfgOK(fn.rail, regs[fn.rail.chip], old[fn.rail.chip])'
           /\ reg = "ctl" => CtlOK(fn.rail, regs[fn.rail.chip], old[fn.rail.chip])'
  PROVE  PmuInv'
<1>1. UNCHANGED <<fn, old, regs>> /\ call' = c /\ line' = reg
  BY DoFacts
<1>2. fn.rail \in Rails /\ fn.rail.cfg # fn.rail.ctl
  BY RailFacts DEF PmuInv, FnOK
<1>3. FnOK'
  BY <1>1 DEF PmuInv, FnOK
<1>4. LineOK'
  BY <1>1, <1>2, FieldsFacts DEF PmuInv, LineOK
<1>5. ElseKept'
  BY <1>1 DEF PmuInv, ElseKept
<1>6. SetOK'
  BY <1>1, <1>2 DEF SetOK
<1>7. QED  BY <1>3, <1>4, <1>5, <1>6 DEF PmuInv

-----------------------------------------------------------------------------
(* The switch of a rail is read after its voltage has been set, or left.   *)
LEMMA SetActions ==
  ASSUME I2cInv, PmuInv, SetCfgRead \/ SetCfgWritten \/ SetCtlRead \/ SetCtlWritten
  PROVE  PmuInv' /\ [I2cNext]_i2cvars
<1> DEFINE r == fn.rail
           new == regs[r.chip]
           was == old[r.chip]
<1>1. /\ fn.f = "set" /\ at = "idle" /\ UNCHANGED <<fn, old, fns>>
  BY DEF SetCfgRead, SetCfgWritten, SetCtlRead, SetCtlWritten, Done
<1>2. r \in Rails /\ fn.vol \in Volts /\ fn.onoff \in OnOff /\ call \in Calls
  BY <1>1 DEF PmuInv, FnOK
<1>3. /\ r.cfg # r.ctl /\ r.cfg \in Registers /\ r.ctl \in Registers
      /\ Read(r.chip, r.cfg) \in Calls /\ Read(r.chip, r.ctl) \in Calls
      /\ \A b \in Bytes : Write(r.chip, r.cfg, b) \in Calls /\ Write(r.chip, r.ctl, b) \in Calls
  BY <1>2, RailFacts
<1>4. ASSUME NEW reg, NEW c \in Calls, Do(reg, c)
      PROVE  [I2cNext]_i2cvars
  BY <1>4, DoFacts DEF I2cNext
<1>5. ASSUME NEW n, Return(n)
      PROVE  PmuInv' /\ [I2cNext]_i2cvars
  BY <1>1, <1>5, ReturnStep
<1>6. CASE SetCfgRead
  <2>1. line = "cfg" /\ call.op = "read" /\ call.chip = r.chip /\ call.reg = r.cfg
    BY <1>1, <1>6 DEF SetCfgRead, Done, PmuInv, LineOK
  <2>2. CASE ret # "ok"
    BY <1>5, <1>6, <2>2 DEF SetCfgRead
  <2>3. CASE ret = "ok"
    <3> DEFINE b == WithCode(r, fn.vol, value)
    <3>1. r.chip \in Present /\ value \in Bytes /\ value = new[r.cfg] /\ CfgOK(r, new, was)
      BY <1>1, <2>1, <2>3, ReturnedOk DEF PmuInv, SetOK
    <3>2. value = was[r.cfg] /\ new[r.ctl] = was[r.ctl] /\ fn.vol > 0
      BY <2>1, <3>1 DEF CfgOK
    <3>3. b \in Bytes /\ b.bits = was[r.cfg].bits /\ b.code = Encode(r, fn.vol)
      BY <1>2, <3>1, <3>2, ByteFacts DEF WithCode, Byte
    <3>4. Do("cfg", Write(r.chip, r.cfg, b))
      BY <1>6, <2>3 DEF SetCfgRead
    <3>5. /\ call' = Write(r.chip, r.cfg, b) /\ due' = TRUE /\ UNCHANGED <<regs, fn, old>>
      <4>1. Write(r.chip, r.cfg, b).op = "write"
        BY DEF Write
      <4>2. QED  BY <1>1, <3>4, <4>1, DoFacts
    <3>6. CfgOK(r, new, was)'
      BY <1>1, <3>1, <3>2, <3>3, <3>5 DEF CfgOK, Write
    <3>7. Write(r.chip, r.cfg, b) \in Calls /\ Write(r.chip, r.cfg, b).chip = r.chip
          /\ Write(r.chip, r.cfg, b).reg = r.cfg
      BY <1>3, <3>3 DEF Write
    <3>8. PmuInv'
      BY <1>1, <3>4, <3>6, <3>7, SetStep
    <3>9. QED  BY <1>4, <3>4, <3>7, <3>8
  <2>4. QED  BY <2>2, <2>3
<1>7. CASE SetCfgWritten
  <2>1. line = "cfg" /\ call.op = "write" /\ call.chip = r.chip /\ call.reg = r.cfg
    BY <1>1, <1>7 DEF SetCfgWritten, Done, PmuInv, LineOK
  <2>2. CASE ret # "ok" \/ fn.onoff < 0
    BY <1>5, <1>7, <2>2 DEF SetCfgWritten, SwitchRail
  <2>3. CASE ret = "ok" /\ ~(fn.onoff < 0)
    <3>1. r.chip \in Present /\ ~due /\ CfgOK(r, new, was)
      BY <1>1, <2>1, <2>3, ReturnedOk DEF PmuInv, SetOK
    <3>2. /\ new[r.cfg].bits = was[r.cfg].bits /\ new[r.cfg].code = Encode(r, fn.vol)
          /\ new[r.ctl] = was[r.ctl]
      BY <2>1, <3>1 DEF CfgOK
    <3>3. Do("ctl", Read(r.chip, r.ctl))
      BY <1>7, <2>3 DEF SetCfgWritten, SwitchRail
    <3>4. call' = Read(r.chip, r.ctl) /\ UNCHANGED <<regs, fn, old>>
      BY <1>1, <3>3, DoFacts
    <3>5. CtlOK(r, new, was)'
      BY <3>2, <3>4 DEF CtlOK, Read
    <3>6. Read(r.chip, r.ctl).chip = r.chip /\ Read(r.chip, r.ctl).reg = r.ctl
      BY DEF Read
    <3>7. PmuInv'
      BY <1>1, <1>3, <3>3, <3>5, <3>6, SetStep
    <3>8. QED  BY <1>3, <1>4, <3>3, <3>7
  <2>4. QED  BY <2>2, <2>3
<1>8. CASE SetCtlRead
  <2>1. line = "ctl" /\ call.op = "read" /\ call.chip = r.chip /\ call.reg = r.ctl
    BY <1>1, <1>8 DEF SetCtlRead, Done, PmuInv, LineOK
  <2>2. CASE ret # "ok"
    BY <1>5, <1>8, <2>2 DEF SetCtlRead
  <2>3. CASE ret = "ok"
    <3> DEFINE b == WithBit(r, fn.onoff, value)
    <3>1. r.chip \in Present /\ value \in Bytes /\ value = new[r.ctl] /\ CtlOK(r, new, was)
      BY <1>1, <2>1, <2>3, ReturnedOk DEF PmuInv, SetOK
    <3>2. /\ value = was[r.ctl] /\ new[r.ctl] = was[r.ctl] /\ new[r.cfg].bits = was[r.cfg].bits
          /\ (fn.vol > 0 => new[r.cfg].code = Encode(r, fn.vol))
      BY <2>1, <3>1 DEF CtlOK
    <3>3. b \in Bytes /\ b.code = was[r.ctl].code /\ b.bits \ {r.bit} = was[r.ctl].bits \ {r.bit}
      <4>1. b \in Bytes
        BY <1>2, <3>1, ByteFacts
      <4>2. b.code = value.code /\ b.bits = (IF fn.onoff = 0 THEN value.bits \ {r.bit}
                                            ELSE value.bits \cup {r.bit})
        BY DEF WithBit, Byte
      <4>3. b.bits \ {r.bit} = value.bits \ {r.bit}
        BY <4>2
      <4>4. QED  BY <3>2, <4>1, <4>2, <4>3
    <3>4. Do("ctl", Write(r.chip, r.ctl, b))
      BY <1>8, <2>3 DEF SetCtlRead
    <3>5. call' = Write(r.chip, r.ctl, b) /\ UNCHANGED <<regs, fn, old>>
      BY <1>1, <3>4, DoFacts
    <3>6. CtlOK(r, new, was)'
      BY <3>2, <3>3, <3>5 DEF CtlOK, Write
    <3>7. Write(r.chip, r.ctl, b) \in Calls /\ Write(r.chip, r.ctl, b).chip = r.chip
          /\ Write(r.chip, r.ctl, b).reg = r.ctl
      BY <1>3, <3>3 DEF Write
    <3>8. PmuInv'
      BY <1>1, <3>4, <3>6, <3>7, SetStep
    <3>9. QED  BY <1>4, <3>4, <3>7, <3>8
  <2>4. QED  BY <2>2, <2>3
<1>9. CASE SetCtlWritten
  BY <1>5, <1>9 DEF SetCtlWritten
<1>10. QED  BY <1>6, <1>7, <1>8, <1>9

(* axp_get_vol only reads.                                                 *)
LEMMA GetActions ==
  ASSUME I2cInv, PmuInv, GetCtlRead \/ GetCfgRead
  PROVE  PmuInv' /\ [I2cNext]_i2cvars
<1>1. fn.f = "get" /\ at = "idle" /\ UNCHANGED <<fn, old, fns>>
  BY DEF GetCtlRead, GetCfgRead, Done
<1>2. Read(fn.rail.chip, fn.rail.cfg) \in Calls /\ Read(fn.rail.chip, fn.rail.cfg).op = "read"
  <2>1. fn.rail \in Rails
    BY <1>1 DEF PmuInv, FnOK
  <2>2. QED  BY <2>1, RailFacts DEF Read
<1>3. CASE \E n : Return(n)
  BY <1>1, <1>3, ReturnStep
<1>4. CASE Do("cfg", Read(fn.rail.chip, fn.rail.cfg))
  <2>1. PmuInv'
    BY <1>1, <1>2, <1>4, OtherStep
  <2>2. QED  BY <1>2, <1>4, <2>1, DoFacts DEF I2cNext
<1>5. QED  BY <1>3, <1>4 DEF GetCtlRead, GetCfgRead

(* The registers of the AXP1530 family that its own functions use.         *)
LEMMA ChipFacts ==
  /\ \A reg \in {AXP1530_VERSION, AXP1530_POWER_DOMN_SEQUENCE} :
       Read(AXP1530, reg) \in Calls /\ Read(AXP1530, reg).op = "read"
  /\ \A reg \in {AXP1530_OUTPUT_MONITOR_CONTROL, AXP1530_DCDC_MODE_CTRL2,
                 AXP1530_POWER_DOMN_SEQUENCE}, b \in Bytes :
       /\ Write(AXP1530, reg, b) \in Calls
       /\ Write(AXP1530, reg, b).chip = AXP1530 /\ Write(AXP1530, reg, b).reg = reg
BY PmuAssumption DEF Calls, Read, Write

(* pmu_axp1530_init and pmu_axp1530_set_dual_phase stay with registers of  *)
(* their own.                                                              *)
LEMMA ChipActions ==
  ASSUME I2cInv, PmuInv,
         \/ InitVersionRead \/ InitSequenceRead \/ InitSequenceWritten
         \/ DualVersionRead \/ DualMonitorWritten \/ DualModeWritten \/ DualSequenceWritten
  PROVE  PmuInv' /\ [I2cNext]_i2cvars
<1>1. fn.f \in {"init", "dual"} /\ at = "idle" /\ UNCHANGED <<fn, old, fns>>
  BY DEF InitVersionRead, InitSequenceRead, InitSequenceWritten,
         DualVersionRead, DualMonitorWritten, DualModeWritten, DualSequenceWritten, Done
<1>2. ASSUME NEW reg, NEW c \in Calls, Do(reg, c), c.op = "write" => <<c.chip, c.reg>> \in Fields(fn)
      PROVE  PmuInv' /\ [I2cNext]_i2cvars
  <2>1. PmuInv'
    BY <1>1, <1>2, OtherStep
  <2>2. QED  BY <1>2, <2>1, DoFacts DEF I2cNext
<1>3. ASSUME NEW n, Return(n)
      PROVE  PmuInv' /\ [I2cNext]_i2cvars
  BY <1>1, <1>3, ReturnStep
<1>4. value \in Bytes
  BY DEF I2cInv, I2cTypeOK
<1>5. CASE InitVersionRead
  BY <1>2, <1>3, <1>5, ChipFacts DEF InitVersionRead
<1>6. CASE InitSequenceRead
  <2> DEFINE b == Byte(value.code, value.bits \cup {1})
  <2>1. b \in Bytes
    <3>1. value.code \in 0 .. 127 /\ value.bits \cup {1} \in SUBSET (0 .. 7)
      BY <1>4, PmuAssumption
    <3>2. QED  BY <3>1, PmuAssumption DEF Byte
  <2>2. <<AXP1530, AXP1530_POWER_DOMN_SEQUENCE>> \in Fields(fn)
    BY <1>6, FieldsFacts DEF InitSequenceRead, Done
  <2>3. Return(-1) \/ Do("sequence", Write(AXP1530, AXP1530_POWER_DOMN_SEQUENCE, b))
    BY <1>6 DEF InitSequenceRead
  <2> HIDE DEF b
  <2>4. QED  BY <1>2, <1>3, <2>1, <2>2, <2>3, ChipFacts
<1>7. CASE InitSequenceWritten
  BY <1>3, <1>7 DEF InitSequenceWritten
<1>8. CASE DualSequenceWritten
  BY <1>3, <1>8 DEF DualSequenceWritten
<1>9. CASE DualVersionRead \/ DualMonitorWritten \/ DualModeWritten
  <2> DEFINE regs3 == {AXP1530_OUTPUT_MONITOR_CONTROL, AXP1530_DCDC_MODE_CTRL2,
                       AXP1530_POWER_DOMN_SEQUENCE}
  <2>1. fn.f = "dual"
    BY <1>9 DEF DualVersionRead, DualMonitorWritten, DualModeWritten, Done
  <2>2. \A reg \in regs3 : <<AXP1530, reg>> \in Fields(fn)
    BY <2>1, FieldsFacts
  <2>3. Byte(0, 1 .. 4) \in Bytes /\ Byte(0, {1}) \in Bytes /\ Byte(0, {1, 5}) \in Bytes
    <3>1. 1 .. 4 \in SUBSET (0 .. 7) /\ {1} \in SUBSET (0 .. 7) /\ {1, 5} \in SUBSET (0 .. 7)
      OBVIOUS
    <3>2. \A s \in SUBSET (0 .. 7) : Byte(0, s) \in Bytes
      BY PmuAssumption DEF Byte
    <3>3. QED  BY <3>1, <3>2
  <2>4. \/ Return(-1)
        \/ \E line1 : \E reg \in regs3, b \in Bytes : Do(line1, Write(AXP1530, reg, b))
    <3>1. CASE DualVersionRead
      BY <2>3, <3>1 DEF DualVersionRead
    <3>2. CASE DualMonitorWritten
      BY <2>3, <3>2 DEF DualMonitorWritten
    <3>3. CASE DualModeWritten
      BY <2>3, <3>3 DEF DualModeWritten
    <3>4. QED  BY <1>9, <3>1, <3>2, <3>3
  <2>5. CASE Return(-1)
    BY <1>3, <2>5
  <2>6. CASE \E line1 : \E reg \in regs3, b \in Bytes : Do(line1, Write(AXP1530, reg, b))
    <3>1. PICK line1 : \E reg \in regs3, b \in Bytes : Do(line1, Write(AXP1530, reg, b))
      BY <2>6
    <3>2. PICK reg \in regs3, b \in Bytes : Do(line1, Write(AXP1530, reg, b))
      BY <3>1
    <3>3. Write(AXP1530, reg, b) \in Calls /\ Write(AXP1530, reg, b).chip = AXP1530
          /\ Write(AXP1530, reg, b).reg = reg
      BY <3>2, ChipFacts
    <3>4. QED  BY <1>2, <2>2, <3>2, <3>3
  <2>7. QED  BY <2>4, <2>5, <2>6
<1>10. QED  BY <1>5, <1>6, <1>7, <1>8, <1>9

(* The driver polls, the controller works: a register changes only when    *)
(* the byte of the write arrives.                                          *)
LEMMA BusSteps ==
  ASSUME I2cInv, PmuInv, Driver \/ Hardware, UNCHANGED pmuvars
  PROVE  PmuInv'
<1>1. UNCHANGED <<fn, old, line>>
  BY DEF pmuvars
<1>2. UNCHANGED call
  BY DEF Driver, Hardware, Poll, Proceed, GiveUp, Stopped, Transfer, Stop, drivervars
<1>3. UNCHANGED <<regs, due>> \/ Bus!Land
  <2>1. CASE Driver
    BY <2>1 DEF Driver, Poll, Proceed, GiveUp, Stopped, Trigger
  <2>2. CASE Stop
    BY <2>2 DEF Stop
  <2>3. CASE Transfer
    BY <2>3, TransferStep DEF Bus!vars
  <2>4. QED  BY <2>1, <2>2, <2>3 DEF Hardware
<1>4. FnOK' /\ LineOK'
  BY <1>1, <1>2 DEF PmuInv, FnOK, LineOK
<1>5. CASE UNCHANGED <<regs, due>>
  BY <1>1, <1>2, <1>4, <1>5 DEF PmuInv, ElseKept, SetOK, CfgOK, CtlOK
<1>6. CASE Bus!Land
  <2>1. /\ due /\ due' = FALSE /\ call.chip \in Present
        /\ regs' = [regs EXCEPT ![call.chip][call.reg] = call.data]
    BY <1>6 DEF Bus!Land
  <2>2. call.op = "write" /\ <<call.chip, call.reg>> \in Fields(fn)
    BY <2>1 DEF I2cInv, DriverOK, PmuInv, LineOK
  <2>3. \A c \in Present : \A reg \in Registers :
          <<c, reg>> # <<call.chip, call.reg>> => regs'[c][reg] = regs[c][reg]
    BY <2>1 DEF I2cInv, I2cTypeOK
  <2>4. ElseKept'
    BY <1>1, <2>2, <2>3 DEF PmuInv, ElseKept
  <2>5. SetOK'
    <3>1. SUFFICES ASSUME fn.f = "set", fn.rail.chip \in Present
                   PROVE  /\ call.reg = fn.rail.cfg =>
                               CfgOK(fn.rail, regs[fn.rail.chip], old[fn.rail.chip])'
                          /\ call.reg = fn.rail.ctl =>
                               CtlOK(fn.rail, regs[fn.rail.chip], old[fn.rail.chip])'
      BY <1>1, <1>2 DEF SetOK
    <3> DEFINE r == fn.rail
    <3>2. /\ r \in Rails /\ r.cfg \in Registers /\ r.ctl \in Registers /\ r.cfg # r.ctl
          /\ call.chip = r.chip /\ call.reg \in {r.cfg, r.ctl}
      BY <3>1, RailFacts DEF PmuInv, FnOK, LineOK
    <3>3. /\ regs'[r.chip][call.reg] = call.data
          /\ \A reg \in Registers : reg # call.reg => regs'[r.chip][reg] = regs[r.chip][reg]
      BY <2>1, <2>3, <3>2 DEF I2cInv, I2cTypeOK
    <3>4. CASE call.reg = r.cfg
      <4>1. CfgOK(r, regs[r.chip], old[r.chip])
        BY <3>1, <3>4 DEF PmuInv, SetOK
      <4>2. QED  BY <1>1, <1>2, <2>1, <2>2, <3>2, <3>3, <3>4, <4>1 DEF CfgOK
    <3>5. CASE call.reg = r.ctl
      <4>1. CtlOK(r, regs[r.chip], old[r.chip])
        BY <3>1, <3>5 DEF PmuInv, SetOK
      <4>2. QED  BY <1>1, <1>2, <2>1, <2>2, <3>2, <3>3, <3>5, <4>1 DEF CtlOK
    <3>6. QED  BY <3>2, <3>4, <3>5
  <2>6. QED  BY <1>4, <2>4, <2>5 DEF PmuInv
<1>7. QED  BY <1>3, <1>5, <1>6

(* The functions are called.                                               *)
LEMMA CallStep ==
  ASSUME I2cInv, PmuInv, Call
  PROVE  PmuInv' /\ [I2cNext]_i2cvars
<1>1. ASSUME NEW f, NEW c \in Calls, NEW reg, Called(f), Do(reg, c), c.op = "read",
             f \in [f : {"init", "dual"}] \cup [f : {"set"}, rail : Rails, vol : Volts, onoff : OnOff]
                   \cup [f : {"get"}, rail : Rails],
             f.f = "set" =>
               /\ c.chip = f.rail.chip /\ reg \in {"cfg", "ctl"}
               /\ c.reg = (IF reg = "cfg" THEN f.rail.cfg ELSE f.rail.ctl)
               /\ f.vol > 0 <=> reg = "cfg"
      PROVE  PmuInv' /\ [I2cNext]_i2cvars
  <2>1. PmuInv'
    BY <1>1, CalledStep
  <2>2. QED  BY <1>1, <2>1, DoFacts DEF I2cNext
<1>2. CASE pmu_axp1530_init \/ pmu_axp1530_set_dual_phase
  <2>1. PICK f : f \in [f : {"init", "dual"}] /\ Called(f)
                   /\ Do("version", Read(AXP1530, AXP1530_VERSION))
    BY <1>2 DEF pmu_axp1530_init, pmu_axp1530_set_dual_phase
  <2>2. QED  BY <1>1, <2>1, ChipFacts
<1>3. ASSUME NEW r \in Rails, axp_get_vol(r)
      PROVE  PmuInv' /\ [I2cNext]_i2cvars
  <2>1. Read(r.chip, r.ctl) \in Calls /\ Read(r.chip, r.ctl).op = "read"
    BY RailFacts DEF Read
  <2>2. [f |-> "get", rail |-> r] \in [f : {"get"}, rail : Rails]
    OBVIOUS
  <2>3. Called([f |-> "get", rail |-> r]) /\ Do("ctl", Read(r.chip, r.ctl))
    BY <1>3 DEF axp_get_vol
  <2>4. QED  BY <1>1, <2>1, <2>2, <2>3
<1>4. ASSUME NEW r \in Rails, NEW v \in Volts, NEW n \in OnOff, v > 0 \/ n >= 0, axp_set_vol(r, v, n)
      PROVE  PmuInv' /\ [I2cNext]_i2cvars
  <2>1. PICK f : f = [f |-> "set", rail |-> r, vol |-> v, onoff |-> n]
    OBVIOUS
  <2>2. f \in [f : {"set"}, rail : Rails, vol : Volts, onoff : OnOff] /\ f.f = "set"
        /\ f.rail = r /\ f.vol = v
    BY <2>1
  <2>3. Called(f)
    BY <1>4, <2>1 DEF axp_set_vol
  <2>4. /\ Read(r.chip, r.cfg) \in Calls /\ Read(r.chip, r.cfg).op = "read"
        /\ Read(r.chip, r.cfg).chip = r.chip /\ Read(r.chip, r.cfg).reg = r.cfg
        /\ Read(r.chip, r.ctl) \in Calls /\ Read(r.chip, r.ctl).op = "read"
        /\ Read(r.chip, r.ctl).chip = r.chip /\ Read(r.chip, r.ctl).reg = r.ctl
    BY RailFacts DEF Read
  <2>5. CASE v > 0
    <3>1. Do("cfg", Read(r.chip, r.cfg))
      BY <1>4, <2>5 DEF axp_set_vol
    <3>2. QED  BY <1>1, <2>2, <2>3, <2>4, <2>5, <3>1
  <2>6. CASE ~(v > 0)
    <3>1. Do("ctl", Read(r.chip, r.ctl))
      <4>1. ~(n < 0)
        BY <1>4, <2>6, TableAssumption
      <4>2. QED  BY <1>4, <2>6, <4>1 DEF axp_set_vol, SwitchRail
    <3>2. QED  BY <1>1, <2>2, <2>3, <2>4, <2>6, <3>1
  <2>7. QED  BY <2>5, <2>6
<1>5. QED  BY <1>2, <1>3, <1>4 DEF Call

(* Every step of the program keeps the invariants and is one that the bus  *)
(* driver allows.                                                          *)
LEMMA PmuStep ==
  ASSUME I2cInv, PmuInv, [Next]_vars
  PROVE  I2cInv' /\ PmuInv' /\ [I2cNext]_i2cvars
<1>1. PmuInv' /\ [I2cNext]_i2cvars
  <2>1. CASE Call
    BY <2>1, CallStep
  <2>2. CASE Function
    BY <2>2, SetActions, GetActions, ChipActions DEF Function
  <2>3. CASE (Driver \/ Hardware) /\ UNCHANGED pmuvars
    BY <2>3, BusSteps DEF I2cNext
  <2>4. CASE UNCHANGED vars
    <3>1. UNCHANGED <<fn, line, old, call, regs, due>> /\ UNCHANGED i2cvars
      BY <2>4 DEF vars, pmuvars, i2cvars, drivervars
    <3>2. PmuInv'
      BY <3>1 DEF PmuInv, FnOK, LineOK, ElseKept, SetOK, CfgOK, CtlOK
    <3>3. QED  BY <3>1, <3>2
  <2>5. QED  BY <2>1, <2>2, <2>3, <2>4 DEF Next
<1>2. I2cInv'
  BY <1>1, I2cStep
<1>3. QED  BY <1>1, <1>2

(* Both invariants hold when the program starts.                           *)
LEMMA PmuInitInv == PmuInit => I2cInv /\ PmuInv
<1> SUFFICES ASSUME PmuInit PROVE I2cInv /\ PmuInv
  OBVIOUS
<1>1. I2cInit /\ fn = [f |-> "none"] /\ old = regs /\ call = NoCall
  BY DEF PmuInit, I2cInit
<1>2. FnOK /\ LineOK /\ ElseKept /\ SetOK
  BY <1>1 DEF FnOK, LineOK, ElseKept, SetOK, NoCall
<1>3. QED  BY <1>1, <1>2, I2cInitInv DEF PmuInv

(* The invariant of the functions, and of the bus under them.              *)
THEOREM PmuInvariant == Spec => [](I2cInv /\ PmuInv)
<1>1. PmuInit => I2cInv /\ PmuInv
  BY PmuInitInv
<1>2. I2cInv /\ PmuInv /\ [Next]_vars => (I2cInv /\ PmuInv)'
  BY PmuStep
<1>3. QED  BY <1>1, <1>2, PTL DEF Spec

(* The functions of the power chip use the driver as it may be used.       *)
THEOREM PmuImplementsI2c == Spec => I2cSpec
<1>1. PmuInit => I2cInit
  BY DEF PmuInit
<1>2. I2cInv /\ PmuInv /\ [Next]_vars => [I2cNext]_i2cvars
  BY PmuStep
<1>3. QED  BY <1>1, <1>2, PmuInvariant, PTL DEF Spec, I2cSpec

(* Under them each call of sunxi_i2c_read and sunxi_i2c_write is a call of *)
(* RegisterBus, late bytes included.                                       *)
THEOREM PmuImplementsBus == Spec => ImplementsBus
BY PmuImplementsI2c, I2cImplementsBus, PTL

(* How far the registers of a rail are tells what has changed in them.     *)
LEMMA InvRailsApart == I2cInv /\ PmuInv => RailsApart
<1> SUFFICES ASSUME I2cInv, PmuInv, NEW c \in Present
             PROVE  /\ \A reg \in Registers : <<c, reg>> \notin Fields(fn) => regs[c][reg] = old[c][reg]
                    /\ fn.f = "set" /\ c = fn.rail.chip =>
                         LET r == fn.rail IN
                         /\ regs[c][r.cfg].bits = old[c][r.cfg].bits
                         /\ regs[c][r.ctl].code = old[c][r.ctl].code
                         /\ regs[c][r.ctl].bits \ {r.bit} = old[c][r.ctl].bits \ {r.bit}
                         /\ fn.vol > 0 /\ r.bit \in regs[c][r.ctl].bits \ old[c][r.ctl].bits =>
                              regs[c][r.cfg].code = Encode(r, fn.vol)
  BY DEF RailsApart
<1>1. \A reg \in Registers : <<c, reg>> \notin Fields(fn) => regs[c][reg] = old[c][reg]
  BY DEF PmuInv, ElseKept
<1>2. ASSUME fn.f = "set", c = fn.rail.chip, NEW r, r = fn.rail, NEW new, new = regs[c],
             NEW was, was = old[c]
      PROVE  /\ new[r.cfg].bits = was[r.cfg].bits
             /\ new[r.ctl].code = was[r.ctl].code
             /\ new[r.ctl].bits \ {r.bit} = was[r.ctl].bits \ {r.bit}
             /\ fn.vol > 0 /\ r.bit \in new[r.ctl].bits \ was[r.ctl].bits =>
                  new[r.cfg].code = Encode(r, fn.vol)
  <2>1. call.op \in {"read", "write"} /\ call.reg \in {r.cfg, r.ctl}
    BY <1>2, Apart DEF PmuInv, FnOK, LineOK
  <2>2. CASE call.reg = r.cfg
    <3>1. CfgOK(r, new, was)
      BY <1>2, <2>2 DEF PmuInv, SetOK
    <3>2. QED  BY <2>1, <3>1 DEF CfgOK
  <2>3. CASE call.reg = r.ctl
    <3>1. CtlOK(r, new, was)
      BY <1>2, <2>3 DEF PmuInv, SetOK
    <3>2. QED  BY <2>1, <3>1 DEF CtlOK
  <2>4. QED  BY <2>1, <2>2, <2>3
<1>3. QED  BY <1>1, <1>2

(* Setting a rail changes its voltage and its switch and nothing else, and *)
(* does not switch it on before its voltage is set, for every table of     *)
(* rails and whatever fails on the bus.                                    *)
THEOREM PmuRailsApart == Spec => []RailsApart
BY PmuInvariant, InvRailsApart, PTL

-----------------------------------------------------------------------------
(* What axp_set_vol has done when it returns 0...                          *)
SetTells ==
  fn.f = "set" =>
    /\ call.reg = fn.rail.ctl =>
         /\ ~(fn.onoff < 0)
         /\ call.op = "write" =>
              /\ fn.rail.bit \in call.data.bits <=> fn.onoff # 0
              /\ ~due /\ fn.rail.chip \in Present => regs[fn.rail.chip][fn.rail.ctl] = call.data
    /\ line = "none" /\ result = 0 =>
         /\ ~due /\ fn.rail.chip \in Present /\ call.op = "write"
         /\ call.reg = (IF fn.onoff < 0 THEN fn.rail.cfg ELSE fn.rail.ctl)

(* ... and what axp_get_vol has seen, and found when it returns.           *)
GetTells ==
  fn.f = "get" =>
    /\ call.op = "read" /\ call.chip = fn.rail.chip /\ line \in {"ctl", "cfg", "none"}
    /\ line = "ctl" => call.reg = fn.rail.ctl
    /\ line = "cfg" =>
         /\ call.reg = fn.rail.cfg /\ fn.rail.chip \in Present
         /\ fn.rail.bit \in regs[fn.rail.chip][fn.rail.ctl].bits
    /\ line = "none" /\ result > 0 =>
         /\ fn.rail.chip \in Present
         /\ fn.rail.bit \in regs[fn.rail.chip][fn.rail.ctl].bits
         /\ result = Decode(fn.rail, regs[fn.rail.chip][fn.rail.cfg].code)

(* The functions called tell nothing yet.                                  *)
LEMMA CallTells ==
  ASSUME I2cInv, PmuInv, Call
  PROVE  SetTells' /\ GetTells'
<1>1. CASE pmu_axp1530_init \/ pmu_axp1530_set_dual_phase
  <2>1. fn'.f \in {"init", "dual"}
    BY <1>1 DEF pmu_axp1530_init, pmu_axp1530_set_dual_phase, Called
  <2>2. QED  BY <2>1 DEF SetTells, GetTells
<1>2. ASSUME NEW r \in Rails, axp_get_vol(r)
      PROVE  SetTells' /\ GetTells'
  <2>1. fn' = [f |-> "get", rail |-> r] /\ Do("ctl", Read(r.chip, r.ctl))
    BY <1>2 DEF axp_get_vol, Called
  <2>2. call' = Read(r.chip, r.ctl) /\ line' = "ctl"
    BY <2>1, DoFacts
  <2>3. QED  BY <2>1, <2>2 DEF SetTells, GetTells, Read
<1>3. ASSUME NEW r \in Rails, NEW v \in Volts, NEW n \in OnOff, v > 0 \/ n >= 0, axp_set_vol(r, v, n)
      PROVE  SetTells' /\ GetTells'
  <2>1. fn' = [f |-> "set", rail |-> r, vol |-> v, onoff |-> n] /\ r.cfg # r.ctl
    BY <1>3, RailFacts DEF axp_set_vol, Called
  <2>2. CASE v > 0
    <3>1. Do("cfg", Read(r.chip, r.cfg))
      BY <1>3, <2>2 DEF axp_set_vol
    <3>2. call' = Read(r.chip, r.cfg) /\ line' = "cfg"
      BY <3>1, DoFacts
    <3>3. QED  BY <2>1, <3>2 DEF SetTells, GetTells, Read
  <2>3. CASE ~(v > 0)
    <3>1. ~(n < 0)
      BY <1>3, <2>3, TableAssumption
    <3>2. Do("ctl", Read(r.chip, r.ctl))
      BY <1>3, <2>3, <3>1 DEF axp_set_vol, SwitchRail
    <3>3. call' = Read(r.chip, r.ctl) /\ line' = "ctl"
      BY <3>2, DoFacts
    <3>4. QED  BY <2>1, <3>1, <3>3 DEF SetTells, GetTells, Read
  <2>4. QED  BY <2>2, <2>3
<1>4. QED  BY <1>1, <1>2, <1>3 DEF Call

(* A function returns: nothing but its result changes.                     *)
LEMMA ReturnTells ==
  ASSUME NEW n, Return(n), UNCHANGED <<fn, old, fns>>
  PROVE  UNCHANGED <<fn, call, due, regs>> /\ line' = "none" /\ result' = n
BY DEF Return, i2cvars, drivervars

(* axp_set_vol returns 0 after its last write, and -1 otherwise.           *)
LEMMA SetActionsTell ==
  ASSUME I2cInv, PmuInv, SetTells, SetCfgRead \/ SetCfgWritten \/ SetCtlRead \/ SetCtlWritten
  PROVE  SetTells' /\ GetTells'
<1> DEFINE r == fn.rail
<1>1. fn.f = "set" /\ UNCHANGED <<fn, old, fns>>
  BY DEF SetCfgRead, SetCfgWritten, SetCtlRead, SetCtlWritten, Done
<1>2. r \in Rails /\ fn.onoff \in Int /\ r.cfg # r.ctl /\ GetTells'
  BY <1>1, RailFacts, TableAssumption DEF PmuInv, FnOK, GetTells
<1>3. CASE Return(-1)
  <2>1. UNCHANGED <<fn, call, due, regs>> /\ result' = -1
    BY <1>1, <1>3, ReturnTells
  <2>2. QED  BY <1>1, <1>2, <2>1 DEF SetTells
<1>4. CASE SetCfgRead /\ ret = "ok"
  <2>1. Do("cfg", Write(r.chip, r.cfg, WithCode(r, fn.vol, value)))
    BY <1>4 DEF SetCfgRead
  <2>2. line' = "cfg" /\ call'.reg = r.cfg
    BY <2>1, DoFacts DEF Write
  <2>3. QED  BY <1>1, <1>2, <2>2 DEF SetTells
<1>5. CASE SetCfgWritten /\ ret = "ok"
  <2>1. /\ call.reg = r.cfg /\ call.chip = r.chip /\ call.op = "write" /\ ~due /\ r.chip \in Present
    BY <1>1, <1>5, ReturnedOk DEF SetCfgWritten, Done, PmuInv, LineOK
  <2>2. CASE fn.onoff < 0
    <3>1. Return(0)
      BY <1>5, <2>2 DEF SetCfgWritten, SwitchRail
    <3>2. UNCHANGED <<fn, call, due, regs>>
      BY <1>1, <3>1, ReturnTells
    <3>3. QED  BY <1>2, <2>1, <2>2, <3>2 DEF SetTells
  <2>3. CASE ~(fn.onoff < 0)
    <3>1. Do("ctl", Read(r.chip, r.ctl))
      BY <1>5, <2>3 DEF SetCfgWritten, SwitchRail
    <3>2. line' = "ctl" /\ call'.reg = r.ctl /\ call'.op = "read"
      BY <3>1, DoFacts DEF Read
    <3>3. QED  BY <1>1, <1>2, <2>3, <3>2 DEF SetTells
  <2>4. QED  BY <2>2, <2>3
<1>6. CASE SetCtlRead /\ ret = "ok"
  <2> DEFINE b == WithBit(r, fn.onoff, value)
  <2>1. ~(fn.onoff < 0)
    BY <1>1, <1>6 DEF SetCtlRead, Done, PmuInv, LineOK, SetTells
  <2>2. Do("ctl", Write(r.chip, r.ctl, b))
    BY <1>6 DEF SetCtlRead
  <2>3. call' = Write(r.chip, r.ctl, b) /\ line' = "ctl" /\ due' = (Write(r.chip, r.ctl, b).op = "write")
    BY <2>2, DoFacts
  <2>4. /\ line' = "ctl" /\ call'.reg = r.ctl /\ due' = TRUE /\ call'.data = b
    BY <2>3 DEF Write
  <2>5. r.bit \in b.bits <=> fn.onoff # 0
    BY DEF WithBit, Byte
  <2>6. QED  BY <1>1, <1>2, <2>1, <2>4, <2>5 DEF SetTells
<1>7. CASE SetCtlWritten /\ ret = "ok"
  <2>1. /\ call.reg = r.ctl /\ call.chip = r.chip /\ call.op = "write" /\ ~due /\ r.chip \in Present
    BY <1>1, <1>7, ReturnedOk DEF SetCtlWritten, Done, PmuInv, LineOK
  <2>2. UNCHANGED <<fn, call, due, regs>>
    BY <1>1, <1>7, ReturnTells DEF SetCtlWritten
  <2>3. QED  BY <1>1, <1>2, <2>1, <2>2 DEF SetTells
<1>8. QED  BY <1>3, <1>4, <1>5, <1>6, <1>7 DEF SetCfgRead, SetCfgWritten, SetCtlRead, SetCtlWritten

(* axp_get_vol tells a voltage after both registers have been read.        *)
LEMMA GetActionsTell ==
  ASSUME I2cInv, PmuInv, GetTells, GetCtlRead \/ GetCfgRead
  PROVE  SetTells' /\ GetTells'
<1> DEFINE r == fn.rail
<1>1. fn.f = "get" /\ UNCHANGED <<fn, old, fns>> /\ SetTells'
  BY DEF GetCtlRead, GetCfgRead, Done, SetTells
<1>2. CASE Return(-1) \/ Return(0)
  <2>1. UNCHANGED <<fn, call, due, regs>> /\ line' = "none" /\ result' \in {-1, 0}
    BY <1>1, <1>2, ReturnTells
  <2>2. QED  BY <1>1, <2>1 DEF GetTells
<1>3. CASE GetCtlRead /\ ret = "ok" /\ fn.rail.bit \in value.bits
  <2>1. call.reg = r.ctl /\ call.chip = r.chip /\ call.op = "read"
    BY <1>1, <1>3 DEF GetCtlRead, Done, GetTells
  <2>2. r.chip \in Present /\ value = regs[r.chip][r.ctl]
    BY <1>3, <2>1, ReturnedOk
  <2>3. Do("cfg", Read(r.chip, r.cfg))
    BY <1>3 DEF GetCtlRead
  <2>4. call' = Read(r.chip, r.cfg) /\ line' = "cfg" /\ regs' = regs
    BY <2>3, DoFacts
  <2>5. call'.op = "read" /\ call'.chip = r.chip /\ call'.reg = r.cfg
    BY <2>4 DEF Read
  <2>6. QED  BY <1>1, <1>3, <2>2, <2>4, <2>5 DEF GetTells
<1>4. CASE GetCfgRead /\ ret = "ok"
  <2>1. /\ call.reg = r.cfg /\ call.chip = r.chip /\ call.op = "read"
        /\ r.chip \in Present /\ r.bit \in regs[r.chip][r.ctl].bits
    BY <1>1, <1>4 DEF GetCfgRead, Done, GetTells
  <2>2. value = regs[r.chip][r.cfg]
    BY <1>4, <2>1, ReturnedOk
  <2>3. Return(Decode(r, value.code))
    BY <1>4 DEF GetCfgRead
  <2>4. UNCHANGED <<fn, call, regs>> /\ line' = "none" /\ result' = Decode(r, value.code)
    BY <1>1, <2>3, ReturnTells
  <2>5. QED  BY <1>1, <2>1, <2>2, <2>4 DEF GetTells
<1>5. QED  BY <1>2, <1>3, <1>4 DEF GetCtlRead, GetCfgRead

(* The functions of the family tell nothing of a rail.                     *)
LEMMA ChipActionsTell ==
  ASSUME \/ InitVersionRead \/ InitSequenceRead \/ InitSequenceWritten
         \/ DualVersionRead \/ DualMonitorWritten \/ DualModeWritten \/ DualSequenceWritten
  PROVE  SetTells' /\ GetTells'
<1>1. fn'.f \in {"init", "dual"}
  BY DEF InitVersionRead, InitSequenceRead, InitSequenceWritten,
         DualVersionRead, DualMonitorWritten, DualModeWritten, DualSequenceWritten, Done
<1>2. QED  BY <1>1 DEF SetTells, GetTells

(* What has been told stays true: no byte arrives that could change it.    *)
LEMMA BusTells ==
  ASSUME I2cInv, PmuInv, SetTells, GetTells, Driver \/ Hardware, UNCHANGED pmuvars
  PROVE  SetTells' /\ GetTells'
<1>1. UNCHANGED <<fn, line, result>>
  BY DEF pmuvars
<1>2. UNCHANGED call
  BY DEF Driver, Hardware, Poll, Proceed, GiveUp, Stopped, Transfer, Stop, drivervars
<1>3. UNCHANGED <<regs, due>> \/ Bus!Land
  <2>1. CASE Driver
    BY <2>1 DEF Driver, Poll, Proceed, GiveUp, Stopped, Trigger
  <2>2. CASE Stop
    BY <2>2 DEF Stop
  <2>3. CASE Transfer
    BY <2>3, TransferStep DEF Bus!vars
  <2>4. QED  BY <2>1, <2>2, <2>3 DEF Hardware
<1>4. CASE UNCHANGED <<regs, due>>
  BY <1>1, <1>2, <1>4 DEF SetTells, GetTells
<1>5. CASE Bus!Land
  <2>1. /\ due /\ regs' = [regs EXCEPT ![call.chip][call.reg] = call.data] /\ call.chip \in Present
    BY <1>5 DEF Bus!Land
  <2>2. call.op = "write" /\ call \in Calls /\ call.reg \in Registers
    <3>1. call.op = "write" /\ (call = NoCall \/ call \in Calls)
      BY <2>1 DEF I2cInv, DriverOK
    <3>2. QED  BY <3>1 DEF NoCall, Calls
  <2>3. fn.f = "set" => call.chip = fn.rail.chip
    BY DEF PmuInv, LineOK
  <2>4. regs'[call.chip][call.reg] = call.data
    BY <2>1, <2>2 DEF I2cInv, I2cTypeOK
  <2>5. SetTells'
    BY <1>1, <1>2, <2>1, <2>3, <2>4 DEF SetTells
  <2>6. GetTells'
    BY <1>1, <2>2 DEF GetTells
  <2>7. QED  BY <2>5, <2>6
<1>6. QED  BY <1>3, <1>4, <1>5

(* Every step keeps what has been told.                                    *)
LEMMA TellStep ==
  ASSUME I2cInv, PmuInv, SetTells, GetTells, [Next]_vars
  PROVE  SetTells' /\ GetTells'
<1>1. CASE Call
  BY <1>1, CallTells
<1>2. CASE Function
  BY <1>2, SetActionsTell, GetActionsTell, ChipActionsTell DEF Function
<1>3. CASE (Driver \/ Hardware) /\ UNCHANGED pmuvars
  BY <1>3, BusTells
<1>4. CASE UNCHANGED vars
  <2>1. UNCHANGED <<fn, line, result, call, regs, due>>
    BY <1>4 DEF vars, pmuvars, i2cvars, drivervars
  <2>2. QED  BY <2>1 DEF SetTells, GetTells
<1>5. QED  BY <1>1, <1>2, <1>3, <1>4 DEF Next

(* What the functions tell is what the rail gives.                         *)
LEMMA InvVoltagesTold == I2cInv /\ PmuInv /\ SetTells /\ GetTells => VoltagesTold
<1> SUFFICES ASSUME I2cInv, PmuInv, SetTells, GetTells, line = "none" PROVE VoltagesTold
  BY DEF VoltagesTold
<1>1. ASSUME NEW r, fn.f = "set", result = 0, r = fn.rail
      PROVE  /\ fn.vol > 0 => regs[r.chip][r.cfg].code = Place(r, Nearest(r, fn.vol))
             /\ fn.onoff >= 0 => (r.bit \in regs[r.chip][r.ctl].bits <=> fn.onoff > 0)
  <2>1. /\ r \in Rails /\ fn.vol \in Volts /\ fn.onoff \in Int /\ r.cfg # r.ctl
    BY <1>1, RailFacts, TableAssumption DEF PmuInv, FnOK
  <2>2. /\ ~due /\ r.chip \in Present /\ call.op = "write"
        /\ call.reg = (IF fn.onoff < 0 THEN r.cfg ELSE r.ctl)
    BY <1>1 DEF SetTells
  <2>3. fn.vol > 0 => regs[r.chip][r.cfg].code = Encode(r, fn.vol)
    <3>1. CASE fn.onoff < 0
      <4>1. CfgOK(r, regs[r.chip], old[r.chip])
        BY <1>1, <2>2, <3>1 DEF PmuInv, SetOK
      <4>2. QED  BY <2>2, <4>1 DEF CfgOK
    <3>2. CASE ~(fn.onoff < 0)
      <4>1. CtlOK(r, regs[r.chip], old[r.chip])
        BY <1>1, <2>2, <3>2 DEF PmuInv, SetOK
      <4>2. QED  BY <4>1 DEF CtlOK
    <3>3. QED  BY <3>1, <3>2
  <2>4. fn.vol > 0 => Encode(r, fn.vol) = Place(r, Nearest(r, fn.vol))
    BY <2>1, PmuCodesArePlaces
  <2>5. ~(fn.onoff < 0) => (r.bit \in regs[r.chip][r.ctl].bits <=> fn.onoff # 0)
    BY <1>1, <2>2 DEF SetTells
  <2>6. fn.onoff >= 0 => ~(fn.onoff < 0) /\ (fn.onoff # 0 <=> fn.onoff > 0)
    BY <2>1
  <2>7. QED  BY <2>3, <2>4, <2>5, <2>6
<1>2. ASSUME NEW r, fn.f = "get", result > 0, r = fn.rail
      PROVE  /\ r.bit \in regs[r.chip][r.ctl].bits
             /\ result \in Voltages(r) /\ Place(r, result) = regs[r.chip][r.cfg].code
  <2>1. /\ r \in Rails /\ r.chip \in Present /\ r.cfg \in Registers
        /\ r.bit \in regs[r.chip][r.ctl].bits /\ result = Decode(r, regs[r.chip][r.cfg].code)
    BY <1>2, RailFacts DEF PmuInv, FnOK, GetTells
  <2>2. regs[r.chip][r.cfg].code \in 0 .. 127
    <3>1. regs[r.chip][r.cfg] \in Bytes
      BY <2>1 DEF I2cInv, I2cTypeOK
    <3>2. \A b \in Bytes : b.code \in 0 .. 127
      BY PmuAssumption
    <3>3. QED  BY <3>1, <3>2
  <2>3. QED  BY <1>2, <2>1, <2>2, PmuCodesArePlaces
<1>3. QED  BY <1>1, <1>2 DEF VoltagesTold

(* axp_set_vol that returns 0 has set what was asked for, and axp_get_vol  *)
(* tells what the rail gives: for every table of ranges in order, on a bus *)
(* that fails as it likes.                                                 *)
THEOREM PmuVoltagesTold == Spec => []VoltagesTold
<1>1. PmuInit => SetTells /\ GetTells
  BY DEF PmuInit, SetTells, GetTells
<1>2. I2cInv /\ PmuInv /\ SetTells /\ GetTells /\ [Next]_vars => (SetTells /\ GetTells)'
  BY TellStep
<1>3. Spec => [](SetTells /\ GetTells)
  BY <1>1, <1>2, PmuInvariant, PTL DEF Spec
<1>4. QED  BY <1>3, PmuInvariant, InvVoltagesTold, PTL

-----------------------------------------------------------------------------
(* sdmmc_init.                                                             *)
(* The place of the driver; a status poll counts as where it returns to.   *)
Where == IF stage = "status" THEN then ELSE stage

(* Before the card is selected; after, before the timing is switched;      *)
(* after that, before the host looks at what it can do itself; before the  *)
(* card is widened, and before the host is.                                *)
Identifying == {"clock", "go_idle", "op_idle", "if_cond", "app_op_cond", "op_cond", "op_query",
                "mmc_op_cond", "cid", "rca", "csd", "select"}
Selected == {"select_clock", "ext_csd", "change_freq"}
Switching == {"scr", "check", "switch", "sd_phase", "hs_cmd", "hs_phase", "hs_check"}
Widening == {"width_app", "sd_width", "width_cmd"}
Widened == {"width_phase", "host_width"}
Busy == Identifying \cup Selected \cup Switching \cup {"phase"} \cup Widening \cup Widened
        \cup {"tran_speed"}

Rcas == Addresses \cup {0, 1}
Widths == {SMHC_WIDTH_1BIT, SMHC_WIDTH_4BIT, SMHC_WIDTH_8BIT}
Speeds == {"DS26_SDR12", "HSSDR52_SDR25", "HSDDR52_DDR50"}

MmcType ==
  /\ board \in Boards /\ card \in CardStates
  /\ mmc \in [rca : Rcas, card_caps : SUBSET MmcModes, speed_mode : Speeds,
              bus_width : Widths, clock : Nat]
  /\ host \in [width : Widths, ddr : BOOLEAN, clock : Nat]
  /\ fatal_err \in BOOLEAN /\ online \in BOOLEAN /\ lost \in BOOLEAN
  /\ stage \in Busy \cup {"online", "off", "status"}
  /\ then \in {"off", "select", "hs_check", "host_width"}

(* Outside the transfer state a card is as it was powered up, but for its  *)
(* address, and it has only timings that it knows.                         *)
CardOK ==
  /\ card.st # "tran" => card.width = SMHC_WIDTH_1BIT /\ ~card.ddr /\ ~card.hs
  /\ card.hs => IF kind.sd THEN kind.fast ELSE kind.type # {}

(* From the selection on the card answers to the driver's address.         *)
AddressOK ==
  Where \notin Identifying \cup {"off"} => card.st = "tran" /\ card.rca = mmc.rca

(* The capabilities noted so far, and the timing they stand for.           *)
CapsOK ==
  /\ Where \in Identifying \cup Selected => mmc.card_caps = {}
  /\ Where \in Switching => mmc.card_caps \subseteq {"4BIT", "8BIT"}
  /\ kind.sd /\ Where # "off" => mmc.card_caps \subseteq {"4BIT", "HS"}
  /\ Where \in Identifying \cup Selected \cup Switching => mmc.speed_mode = "DS26_SDR12"
  /\ Where # "off" /\ mmc.card_caps \cap {"HS", "HS_52MHz"} # {} => card.hs
  /\ Where = "phase" /\ mmc.speed_mode = "HSDDR52_DDR50" => ~kind.sd
  /\ Where \in Widening \cup Widened \cup {"tran_speed", "online"} =>
       mmc.card_caps \subseteq host_caps /\ mmc.speed_mode # "HSDDR52_DDR50"
  /\ Where \in Widening \cup Widened => mmc.card_caps \cap {"4BIT", "8BIT"} # {}

(* Card and host have the narrow bus until they are widened, one after the *)
(* other.                                                                  *)
WidthOK ==
  /\ Where \in Busy \ {"tran_speed"} => mmc.bus_width = SMHC_WIDTH_1BIT
  /\ Where \in Selected \cup Switching \cup {"phase"} \cup Widening =>
       card.width = SMHC_WIDTH_1BIT /\ ~card.ddr
  /\ Where \in Widened /\ ~lost => card.width = Width /\ ~card.ddr
  /\ Where \in {"tran_speed", "online"} =>
       /\ mmc.bus_width <= board.width
       /\ ~lost => card.width = mmc.bus_width /\ ~card.ddr

(* A card is reported when the driver has come to its end, and then the    *)
(* controller has what the driver set last, unless that failed.            *)
RegOK ==
  /\ online => stage = "online"
  /\ stage = "online" /\ ~fatal_err =>
       host.width = mmc.bus_width /\ ~host.ddr /\ host.clock <= tran_speed

MmcInv == MmcType /\ CardOK /\ AddressOK /\ CapsOK /\ WidthOK /\ RegOK

-----------------------------------------------------------------------------
(* What a board is.                                                        *)
LEMMA BoardFacts ==
  ASSUME MmcType
  PROVE  /\ kind \in Descriptions /\ kind.sd \in BOOLEAN
         /\ kind.sd => kind.fast \in BOOLEAN
         /\ board.smhc0 \in BOOLEAN /\ board.width \in 0 .. 2 /\ board.max_clk \in Nat
<1>1. board \in [card : Descriptions, smhc0 : BOOLEAN, width : 0 .. 2, max_clk : Nat]
  BY MmcAssumption DEF MmcType
<1>2. kind \in Descriptions
  BY <1>1 DEF kind
<1>3. kind.sd \in BOOLEAN /\ (kind.sd => kind.fast \in BOOLEAN)
  BY <1>2 DEF Descriptions
<1>4. QED  BY <1>1, <1>2, <1>3

(* A command that is not about the bus leaves its width, clocking and      *)
(* timing alone, and a selected card selected.                             *)
Plain == {"SEND_IF_COND", "APP_CMD", "APP_OP_COND", "SEND_OP_COND", "ALL_SEND_CID",
          "RELATIVE_ADDR", "SEND_CSD", "SEND_STATUS", "SELECT_CARD", "APP_SEND_SCR",
          "CHECK_FUNC", "SEND_EXT_CSD"}
Kept(n, c) ==
  /\ n \in CardStates
  /\ n.width = c.width /\ n.ddr = c.ddr /\ n.hs = c.hs
  /\ c.st = "tran" => n.st = "tran" /\ n.rca = c.rca

LEMMA PlainReaction ==
  ASSUME NEW d \in Descriptions, NEW c \in CardStates, NEW cmd \in Plain, NEW arg \in Rcas,
         NEW n \in React(d, c, cmd, arg)
  PROVE  /\ Kept(n, c)
         /\ cmd = "SELECT_CARD" => c.st = "stby" /\ n.st = "tran" /\ n.rca = arg
         /\ cmd = "SEND_EXT_CSD" => ~d.sd
<1>1. Takes(d, c, cmd, arg)
  BY DEF React
<1>2. PICK b \in Becomes(d, c, cmd, arg) : n = [b EXCEPT !.app = (cmd = "APP_CMD")]
  BY <1>1 DEF React
<1>3. /\ c.st \in {"idle", "ready", "ident", "stby", "tran"} /\ c.rca \in Rcas
      /\ c.width \in Widths /\ c.ddr \in BOOLEAN /\ c.hs \in BOOLEAN /\ c.app \in BOOLEAN
  BY DEF CardStates, Rcas, Widths
<1>4. /\ b \in CardStates /\ b.width = c.width /\ b.ddr = c.ddr /\ b.hs = c.hs
      /\ c.st = "tran" => b.st = "tran" /\ b.rca = c.rca
      /\ cmd = "SELECT_CARD" => c.st = "stby" /\ b.st = "tran" /\ b.rca = arg
      /\ cmd = "SEND_EXT_CSD" => ~d.sd
  <2>1. CASE cmd = "APP_CMD"
    <3>1. b = [c EXCEPT !.app = TRUE]
      BY <2>1, <1>2 DEF Becomes
    <3>2. QED  BY <3>1, <2>1 DEF CardStates
  <2>2. CASE cmd \in {"APP_OP_COND", "SEND_OP_COND"}
    <3>1. b = c \/ b = [c EXCEPT !.st = "ready"]
      BY <2>2, <1>2 DEF Becomes
    <3>2. c.st \in {"idle", "ready"}
      BY <2>2, <1>1 DEF Takes
    <3>3. QED  BY <3>1, <3>2, <2>2 DEF CardStates
  <2>3. CASE cmd = "ALL_SEND_CID"
    <3>1. b = [c EXCEPT !.st = "ident"] /\ c.st = "ready"
      BY <2>3, <1>1, <1>2 DEF Becomes, Takes
    <3>2. QED  BY <3>1, <2>3 DEF CardStates
  <2>4. CASE cmd = "RELATIVE_ADDR"
    <3>1. PICK r \in Rcas : b = [c EXCEPT !.st = "stby", !.rca = r]
      BY <2>4, <1>2 DEF Becomes, Rcas
    <3>2. c.st = "ident"
      BY <2>4, <1>1 DEF Takes
    <3>3. QED  BY <3>1, <3>2, <2>4 DEF CardStates, Rcas
  <2>5. CASE cmd = "SELECT_CARD"
    <3>1. b = [c EXCEPT !.st = "tran"]
      BY <2>5, <1>2 DEF Becomes
    <3>2. c.st = "stby" /\ arg = c.rca
      BY <2>5, <1>1 DEF Takes, Addressed
    <3>3. QED  BY <3>1, <3>2, <2>5 DEF CardStates
  <2>6. CASE cmd \in {"SEND_IF_COND", "SEND_CSD", "SEND_STATUS", "APP_SEND_SCR", "CHECK_FUNC",
                      "SEND_EXT_CSD"}
    <3>1. b = c
      BY <2>6, <1>2 DEF Becomes
    <3>2. cmd = "SEND_EXT_CSD" => ~d.sd
      BY <1>1 DEF Takes
    <3>3. QED  BY <3>1, <3>2, <2>6
  <2>7. QED  BY <2>1, <2>2, <2>3, <2>4, <2>5, <2>6 DEF Plain
<1>5. /\ n \in CardStates /\ n.width = b.width /\ n.ddr = b.ddr /\ n.hs = b.hs
      /\ n.st = b.st /\ n.rca = b.rca
  BY <1>2, <1>4 DEF CardStates
<1>6. QED  BY <1>4, <1>5 DEF Kept

(* The commands about the bus: a card that takes one is selected and stays *)
(* so, with the width or with the timing that it was told.                 *)
LEMMA SwitchReaction ==
  ASSUME NEW d \in Descriptions, NEW c \in CardStates, NEW arg,
         NEW cmd \in {"SWITCH_FUNC", "SWITCH_HS", "APP_BUS_WIDTH", "SWITCH_WIDTH"},
         cmd = "APP_BUS_WIDTH" => arg \in Widths,
         cmd = "SWITCH_WIDTH" => arg \in Widths \X BOOLEAN,
         NEW n \in React(d, c, cmd, arg)
  PROVE  /\ n \in CardStates /\ c.st = "tran" /\ n.st = "tran" /\ n.rca = c.rca
         /\ cmd \in {"SWITCH_FUNC", "SWITCH_HS"} =>
              /\ n.width = c.width /\ n.ddr = c.ddr
              /\ n.hs => c.hs \/ (IF d.sd THEN d.fast ELSE d.type # {})
         /\ cmd = "APP_BUS_WIDTH" =>
              d.sd /\ n.hs = c.hs /\ n.ddr = c.ddr /\ n.width = arg
         /\ cmd = "SWITCH_WIDTH" => n.hs = c.hs /\ n.width = arg[1] /\ n.ddr = arg[2]
<1>1. Takes(d, c, cmd, arg)
  BY DEF React
<1>2. PICK b \in Becomes(d, c, cmd, arg) : n = [b EXCEPT !.app = (cmd = "APP_CMD")]
  BY <1>1 DEF React
<1>3. c.st = "tran" /\ (d.sd <=> cmd \in {"SWITCH_FUNC", "APP_BUS_WIDTH"})
  BY <1>1 DEF Takes, Descriptions
<1>4. /\ b \in CardStates /\ b.st = "tran" /\ b.rca = c.rca
      /\ cmd \in {"SWITCH_FUNC", "SWITCH_HS"} =>
           /\ b.width = c.width /\ b.ddr = c.ddr
           /\ b.hs => c.hs \/ (IF d.sd THEN d.fast ELSE d.type # {})
      /\ cmd = "APP_BUS_WIDTH" => b.hs = c.hs /\ b.ddr = c.ddr /\ b.width = arg
      /\ cmd = "SWITCH_WIDTH" => b.hs = c.hs /\ b.width = arg[1] /\ b.ddr = arg[2]
  <2>1. CASE cmd = "SWITCH_FUNC"
    <3>1. b = c \/ b = [c EXCEPT !.hs = d.fast]
      BY <2>1, <1>2 DEF Becomes
    <3>2. d.sd /\ d.fast \in BOOLEAN
      BY <2>1, <1>3 DEF Descriptions
    <3>3. QED  BY <3>1, <3>2, <2>1, <1>3 DEF CardStates
  <2>2. CASE cmd = "SWITCH_HS"
    <3>1. b = [c EXCEPT !.hs = (d.type # {})]
      BY <2>2, <1>2 DEF Becomes
    <3>2. QED  BY <3>1, <2>2, <1>3 DEF CardStates
  <2>3. CASE cmd = "APP_BUS_WIDTH"
    <3>1. b = [c EXCEPT !.width = arg]
      BY <2>3, <1>2 DEF Becomes
    <3>2. QED  BY <3>1, <2>3, <1>3 DEF CardStates, Widths
  <2>4. CASE cmd = "SWITCH_WIDTH"
    <3>1. b = [c EXCEPT !.width = arg[1], !.ddr = arg[2]]
      BY <2>4, <1>2 DEF Becomes
    <3>2. arg[1] \in Widths /\ arg[2] \in BOOLEAN
      BY <2>4
    <3>3. QED  BY <3>1, <3>2, <2>4, <1>3 DEF CardStates, Widths
  <2>5. QED  BY <2>1, <2>2, <2>3, <2>4
<1>5. /\ n \in CardStates /\ n.width = b.width /\ n.ddr = b.ddr /\ n.hs = b.hs
      /\ n.st = b.st /\ n.rca = b.rca
  BY <1>2, <1>4 DEF CardStates
<1>6. QED  BY <1>3, <1>4, <1>5

-----------------------------------------------------------------------------
(* A command, heard or not, and the reset of CMD0.                         *)
LEMMA PlainCommand ==
  ASSUME MmcInv, NEW cmd \in Plain, NEW arg \in Rcas,
         Succeeds(cmd, arg) \/ Fails(cmd, arg)
  PROVE  Kept(card', card)
<1>1. card \in CardStates /\ kind \in Descriptions
  BY BoardFacts DEF MmcInv, MmcType
<1>2. card' \in React(kind, card, cmd, arg) \/ card' = card
  BY DEF Succeeds, Fails, Heard
<1>3. Kept(card, card)
  BY <1>1 DEF Kept
<1>4. QED  BY <1>1, <1>2, <1>3, PlainReaction

LEMMA PlainSuccess ==
  ASSUME MmcInv, NEW cmd \in Plain, NEW arg \in Rcas, Succeeds(cmd, arg)
  PROVE  /\ Kept(card', card)
         /\ cmd = "SELECT_CARD" => card.st = "stby" /\ card'.st = "tran" /\ card'.rca = arg
         /\ cmd = "SEND_EXT_CSD" => ~kind.sd
<1>1. card \in CardStates /\ kind \in Descriptions
  BY BoardFacts DEF MmcInv, MmcType
<1>2. card' \in React(kind, card, cmd, arg)
  BY DEF Succeeds, Heard
<1>3. QED  BY <1>1, <1>2, PlainReaction

(* The places between which nothing about the bus is decided.              *)
Alike(p, q) ==
  \/ p = q
  \/ p \in Identifying /\ q \in Identifying
  \/ p \in Selected /\ q \in Selected
  \/ p \in Switching /\ q \in Switching
  \/ p \in Widening /\ q \in Widening
  \/ p \in Widened /\ q \in Widened

HeldBut(m, was) ==
  /\ m.card_caps = was.card_caps /\ m.speed_mode = was.speed_mode
  /\ m.bus_width = was.bus_width

(* The driver goes on within such places, or gives up, with a card that    *)
(* keeps its bus: only its address and the clock are new.                  *)
LEMMA MoveStep ==
  ASSUME MmcInv, MmcType', Kept(card', card) \/ (card' = PoweredUp /\ Where \in Identifying),
         HeldBut(mmc', mmc), mmc'.rca = mmc.rca \/ Where \in Identifying,
         Alike(Where, Where') \/ Where' = "off",
         UNCHANGED <<board, online, lost>>, stage # "online", stage' # "online"
  PROVE  MmcInv'
<1> USE DEF MmcInv
<1>1. kind' = kind /\ host_caps' = host_caps
  BY DEF kind, host_caps
<1>2. online = FALSE /\ online' = FALSE
  BY DEF RegOK, MmcType
<1>3. RegOK'
  BY <1>2 DEF RegOK
<1>4. card' = PoweredUp => /\ card'.width = SMHC_WIDTH_1BIT /\ card'.ddr = FALSE
                           /\ card'.hs = FALSE /\ card'.st # "tran"
  BY DEF PoweredUp
<1>5. CardOK'
  BY <1>1, <1>4 DEF CardOK, Kept
<1>6. AddressOK'
  BY DEF AddressOK, Kept, Alike, Identifying, Selected, Switching, Widening, Widened
<1>7. CapsOK'
  <2>1. CASE Where' = "off"
    BY <2>1 DEF CapsOK, Identifying, Selected, Switching, Widening, Widened
  <2>2. CASE Where' # "off"
    <3>1. /\ mmc'.card_caps = mmc.card_caps /\ mmc'.speed_mode = mmc.speed_mode
          /\ Alike(Where, Where')
      BY <2>2 DEF HeldBut
    <3>2. Where \in Identifying \/ card'.hs = card.hs
      BY DEF Kept
    <3>3. QED
      BY <2>2, <3>1, <3>2, <1>1
         DEF CapsOK, Alike, Identifying, Selected, Switching, Widening, Widened
  <2>3. QED  BY <2>1, <2>2
<1>8. WidthOK'
  <2>1. CASE Where' = "off"
    BY <2>1 DEF WidthOK, Busy, Identifying, Selected, Switching, Widening, Widened
  <2>2. CASE Where' # "off"
    <3>1. /\ mmc'.bus_width = mmc.bus_width /\ Alike(Where, Where') /\ board' = board
          /\ Width' = Width /\ lost' = lost
      BY <2>2 DEF HeldBut, Width
    <3>2. Where \in Identifying \/ (card'.width = card.width /\ card'.ddr = card.ddr)
      BY DEF Kept
    <3>3. QED
      BY <2>2, <3>1, <3>2
         DEF WidthOK, Busy, Alike, Identifying, Selected, Switching, Widening, Widened
  <2>3. QED  BY <2>1, <2>2
<1>9. QED  BY <1>3, <1>5, <1>6, <1>7, <1>8

-----------------------------------------------------------------------------
(* sunxi_sdhci_set_ios.                                                    *)
LEMMA ClampFacts ==
  ASSUME MmcType, NEW c \in Nat
  PROVE  Clamp(c) \in Nat /\ (c >= 4 => Clamp(c) <= c)
BY BoardFacts DEF Clamp

LEMMA SetIos ==
  ASSUME MmcType, NEW m, set_ios(m), m.bus_width \in Widths, m.clock \in Nat
  PROVE  /\ mmc' = m /\ host' \in [width : Widths, ddr : BOOLEAN, clock : Nat]
         /\ fatal_err' \in BOOLEAN
         /\ ~fatal_err' => /\ host'.width = m.bus_width /\ host'.clock = m.clock
                           /\ host'.ddr = (m.speed_mode = "HSDDR52_DDR50")
<1>1. mmc' = m
  BY DEF set_ios
<1>2. CASE fatal_err' = TRUE /\ UNCHANGED host
  BY <1>1, <1>2 DEF MmcType
<1>3. CASE /\ host' = [width |-> m.bus_width, ddr |-> (m.speed_mode = "HSDDR52_DDR50"),
                      clock |-> m.clock]
           /\ UNCHANGED fatal_err
  BY <1>1, <1>3 DEF MmcType
<1>4. QED  BY <1>2, <1>3 DEF set_ios

LEMMA SetClock ==
  ASSUME MmcType, NEW c \in Nat, set_clock(c)
  PROVE  /\ mmc' = [mmc EXCEPT !.clock = Clamp(c)]
         /\ mmc' \in [rca : Rcas, card_caps : SUBSET MmcModes, speed_mode : Speeds,
                      bus_width : Widths, clock : Nat]
         /\ HeldBut(mmc', mmc) /\ mmc'.rca = mmc.rca
         /\ host' \in [width : Widths, ddr : BOOLEAN, clock : Nat] /\ fatal_err' \in BOOLEAN
         /\ ~fatal_err' => /\ host'.width = mmc.bus_width /\ (c >= 4 => host'.clock <= c)
                           /\ host'.ddr = (mmc.speed_mode = "HSDDR52_DDR50")
<1>1. Clamp(c) \in Nat /\ (c >= 4 => Clamp(c) <= c)
  BY ClampFacts
<1> DEFINE m == [mmc EXCEPT !.clock = Clamp(c)]
<1>2. /\ m \in [rca : Rcas, card_caps : SUBSET MmcModes, speed_mode : Speeds,
                bus_width : Widths, clock : Nat]
      /\ m.rca = mmc.rca /\ m.card_caps = mmc.card_caps /\ m.speed_mode = mmc.speed_mode
      /\ m.bus_width = mmc.bus_width /\ m.clock = Clamp(c)
  BY <1>1 DEF MmcType
<1>3. set_ios(m)
  BY DEF set_clock
<1>4. m.bus_width \in Widths /\ m.clock \in Nat
  BY <1>1, <1>2 DEF MmcType
<1> HIDE DEF m
<1>5. /\ mmc' = m /\ host' \in [width : Widths, ddr : BOOLEAN, clock : Nat]
      /\ fatal_err' \in BOOLEAN
      /\ ~fatal_err' => /\ host'.width = m.bus_width /\ host'.clock = m.clock
                        /\ host'.ddr = (m.speed_mode = "HSDDR52_DDR50")
  BY <1>3, <1>4, SetIos
<1>6. ~fatal_err' => /\ host'.width = mmc.bus_width /\ (c >= 4 => host'.clock <= c)
                     /\ host'.ddr = (mmc.speed_mode = "HSDDR52_DDR50")
  BY <1>1, <1>2, <1>5
<1>7. HeldBut(mmc', mmc) /\ mmc'.rca = mmc.rca
  BY <1>2, <1>5 DEF HeldBut
<1>8. QED  BY <1>2, <1>5, <1>6, <1>7 DEF m

-----------------------------------------------------------------------------
LEMMA PoweredUpCard == PoweredUp \in CardStates
BY DEF PoweredUp, CardStates

(* The steps of the identification, from one place of it to another.       *)
Identify(cmd, arg, p, q) ==
  /\ stage = p /\ stage' \in {q, "off"}
  /\ Succeeds(cmd, arg) \/ Fails(cmd, arg)
  /\ UNCHANGED <<board, online, lost, host, fatal_err, then>>

LEMMA IdentifyStep ==
  ASSUME MmcInv, NEW cmd \in Plain, NEW arg \in Rcas, NEW p \in Identifying,
         NEW q \in Identifying, Identify(cmd, arg, p, q),
         mmc' = mmc \/ (\E r \in Rcas : mmc' = [mmc EXCEPT !.rca = r])
  PROVE  MmcInv'
<1>1. Kept(card', card)
  BY PlainCommand DEF Identify
<1>2. /\ mmc' \in [rca : Rcas, card_caps : SUBSET MmcModes, speed_mode : Speeds,
                   bus_width : Widths, clock : Nat]
      /\ HeldBut(mmc', mmc)
  BY DEF MmcInv, MmcType, HeldBut
<1>3. stage # "status" /\ stage' # "status" /\ stage # "online" /\ stage' # "online"
  BY DEF Identify, Identifying
<1>4. Where \in Identifying /\ (Where' \in Identifying \/ Where' = "off")
  BY <1>3 DEF Identify, Where
<1>5. MmcType'
  BY <1>1, <1>2 DEF MmcInv, MmcType, Identify, Kept, Busy
<1>6. QED  BY <1>1, <1>2, <1>3, <1>4, <1>5, MoveStep DEF Alike, Identify

LEMMA CommandSteps ==
  ASSUME MmcInv,
         \/ sd_send_if_cond \/ sd_app_op_cond \/ mmc_query \/ all_send_cid
         \/ send_relative_addr \/ sd_send_op_cond \/ mmc_send_op_cond
  PROVE  MmcInv'
<1>0. mmc.rca \in Rcas /\ 0 \in Rcas /\ 1 \in Rcas
  BY DEF MmcInv, MmcType, Rcas
<1>1. CASE sd_send_if_cond
  <2>1. Identify("SEND_IF_COND", 0, "if_cond", "app_op_cond") /\ mmc' = mmc
    BY <1>1 DEF sd_send_if_cond, Step, Goto, Identify, hostvars
  <2>2. QED  BY <1>0, <2>1, IdentifyStep DEF Plain, Identifying
<1>2. CASE sd_app_op_cond
  <2>1. Identify("APP_CMD", 0, "app_op_cond", "op_cond") /\ mmc' = mmc
    BY <1>2 DEF sd_app_op_cond, Step, Goto, Identify, hostvars, loopvars
  <2>2. QED  BY <1>0, <2>1, IdentifyStep DEF Plain, Identifying
<1>3. CASE mmc_query
  <2>1. Identify("SEND_OP_COND", 0, "op_query", "mmc_op_cond") /\ mmc' = mmc
    BY <1>3 DEF mmc_query, Step, Goto, Identify, hostvars
  <2>2. QED  BY <1>0, <2>1, IdentifyStep DEF Plain, Identifying
<1>4. CASE all_send_cid
  <2>1. Identify("ALL_SEND_CID", 0, "cid", "rca") /\ mmc' = mmc
    BY <1>4 DEF all_send_cid, Step, Goto, Identify, hostvars, loopvars
  <2>2. QED  BY <1>0, <2>1, IdentifyStep DEF Plain, Identifying
<1>5. CASE send_relative_addr
  <2>1. Identify("RELATIVE_ADDR", mmc.rca, "rca", "csd")
    BY <1>5 DEF send_relative_addr, Step, Goto, Identify, loopvars
  <2>2. card' \in CardStates
    BY <1>0, <2>1, PlainCommand DEF Identify, Kept, Plain
  <2>3. \E r \in Rcas : mmc' = [mmc EXCEPT !.rca = r]
    <3>1. card'.rca \in Rcas
      BY <2>2 DEF CardStates, Rcas
    <3>2. QED  BY <1>0, <1>5, <3>1 DEF send_relative_addr
  <2>4. QED  BY <1>0, <2>1, <2>3, IdentifyStep DEF Plain, Identifying
<1>6. ASSUME NEW cmd \in {"APP_OP_COND", "SEND_OP_COND"},
             NEW again \in {"app_op_cond", "mmc_op_cond"}, NEW r \in {0, 1},
             OpPoll(cmd, again, r), stage \in {"op_cond", "mmc_op_cond"}
      PROVE  MmcInv'
  <2>1. /\ (stage' = "off" \/ stage' = again \/ stage' = "cid")
        /\ Succeeds(cmd, 0) \/ Fails(cmd, 0)
        /\ mmc' = mmc \/ mmc' = [mmc EXCEPT !.rca = r]
        /\ UNCHANGED <<board, online, lost, host, fatal_err, then>>
    BY <1>6 DEF OpPoll, Goto
  <2>2. \/ Identify(cmd, 0, stage, again) \/ Identify(cmd, 0, stage, "cid")
    BY <2>1 DEF Identify
  <2>3. r \in Rcas
    BY DEF Rcas
  <2>4. QED  BY <1>0, <1>6, <2>1, <2>2, <2>3, IdentifyStep DEF Plain, Identifying
<1>7. CASE sd_send_op_cond
  BY <1>6, <1>7 DEF sd_send_op_cond
<1>8. CASE mmc_send_op_cond
  BY <1>6, <1>8 DEF mmc_send_op_cond
<1>9. QED  BY <1>1, <1>2, <1>3, <1>4, <1>5, <1>7, <1>8

LEMMA ResetSteps ==
  ASSUME MmcInv, go_idle \/ mmc_go_idle
  PROVE  MmcInv'
<1>1. /\ stage \in {"go_idle", "op_idle"} /\ stage' \in {"off", "if_cond", "op_idle", "op_query"}
      /\ card' = card \/ card' = PoweredUp
      /\ UNCHANGED <<board, mmc, host, fatal_err, online, then, lost>>
  BY DEF go_idle, mmc_go_idle, CardReset, Goto, hostvars, loopvars
<1>2. MmcType' /\ HeldBut(mmc', mmc)
  BY <1>1, PoweredUpCard DEF MmcInv, MmcType, HeldBut, Busy, Identifying
<1>3. Kept(card', card) \/ card' = PoweredUp
  BY <1>1 DEF MmcInv, MmcType, Kept
<1>4. Where \in Identifying /\ (Where' \in Identifying \/ Where' = "off")
  BY <1>1 DEF Where, Identifying
<1>5. stage # "online" /\ stage' # "online"
  BY <1>1
<1>6. QED  BY <1>1, <1>2, <1>3, <1>4, <1>5, MoveStep DEF Alike

LEMMA StatusSteps ==
  ASSUME MmcInv, send_csd \/ send_status
  PROVE  MmcInv'
<1>0. mmc.rca \in Rcas
  BY DEF MmcInv, MmcType
<1>1. \E cmd \in Plain : Succeeds(cmd, mmc.rca) \/ Fails(cmd, mmc.rca)
  BY DEF send_csd, send_status, Plain
<1>2. Kept(card', card)
  BY <1>0, <1>1, PlainCommand
<1>3. /\ UNCHANGED <<board, mmc, host, fatal_err, online, lost>>
      /\ \/ stage = "csd" /\ stage' = "status" /\ then' \in {"select", "off"}
         \/ stage = "status" /\ stage' \in {"status", then} /\ then' = then
  BY DEF send_csd, send_status, Goto, hostvars
<1>4. MmcType' /\ HeldBut(mmc', mmc) /\ stage # "online" /\ stage' # "online"
  BY <1>2, <1>3 DEF MmcInv, MmcType, HeldBut, Kept, Busy, Identifying, Switching, Widened
<1>5. Alike(Where, Where') \/ Where' = "off"
  BY <1>3, <1>4 DEF Where, Alike, Identifying, MmcInv, MmcType
<1>6. QED  BY <1>2, <1>3, <1>4, <1>5, MoveStep

LEMMA ClockSteps ==
  ASSUME MmcInv, identification_clock \/ transfer_clock
  PROVE  MmcInv'
<1>1. /\ \E c \in Nat : set_clock(c)
      /\ \/ stage = "clock" /\ stage' = "go_idle"
         \/ stage = "select_clock" /\ stage' \in {"ext_csd", "change_freq"}
      /\ UNCHANGED <<board, card, online, then, lost>>
  BY DEF identification_clock, transfer_clock, Goto, loopvars
<1>2. /\ mmc' \in [rca : Rcas, card_caps : SUBSET MmcModes, speed_mode : Speeds,
                   bus_width : Widths, clock : Nat]
      /\ HeldBut(mmc', mmc) /\ mmc'.rca = mmc.rca
      /\ host' \in [width : Widths, ddr : BOOLEAN, clock : Nat] /\ fatal_err' \in BOOLEAN
  BY <1>1, SetClock DEF MmcInv
<1>3. MmcType' /\ stage # "online" /\ stage' # "online"
  BY <1>1, <1>2 DEF MmcInv, MmcType, Busy, Identifying, Selected
<1>4. Kept(card', card)
  BY <1>1 DEF Kept, MmcInv, MmcType
<1>5. Alike(Where, Where')
  BY <1>1 DEF Where, Alike, Identifying, Selected
<1>6. QED  BY <1>1, <1>2, <1>3, <1>4, <1>5, MoveStep

LEMMA QuietSteps ==
  ASSUME MmcInv,
         \/ probe_ext_csd \/ sd_width_app
         \/ mmc_switched_hs \/ mmc_retry_hs \/ mmc_switched_width \/ mmc_width_failed
  PROVE  MmcInv'
<1>0. mmc.rca \in Rcas /\ 0 \in Rcas
  BY DEF MmcInv, MmcType, Rcas
<1>1. UNCHANGED <<board, mmc, host, fatal_err, online, lost>>
  BY DEF probe_ext_csd, sd_width_app, Step, mmc_switched_hs, SwitchPhase, mmc_retry_hs,
         mmc_switched_width, mmc_width_failed, hostvars
<1>2. Kept(card', card)
  <2>1. CASE probe_ext_csd
    BY <1>0, <2>1, PlainCommand DEF probe_ext_csd, Plain
  <2>2. CASE sd_width_app
    BY <1>0, <2>2, PlainCommand DEF sd_width_app, Step, Plain
  <2>3. CASE mmc_switched_hs \/ mmc_retry_hs \/ mmc_switched_width \/ mmc_width_failed
    <3>1. card' = card
      BY <2>3 DEF mmc_switched_hs, SwitchPhase, mmc_retry_hs, mmc_switched_width,
                  mmc_width_failed
    <3>2. QED  BY <3>1 DEF Kept, MmcInv, MmcType
  <2>4. QED  BY <2>1, <2>2, <2>3
<1>3. \/ stage = "ext_csd" /\ stage' = "change_freq" /\ then' = then
      \/ stage = "width_app" /\ stage' \in {"sd_width", "off"} /\ then' = then
      \/ stage = "hs_phase" /\ stage' = "status" /\ then' = "hs_check"
      \/ stage = "hs_phase" /\ stage' \in {"hs_cmd", "off"} /\ then' = then
      \/ stage = "width_phase" /\ stage' = "status" /\ then' = "host_width"
      \/ stage = "width_phase" /\ stage' = "off" /\ then' = then
  BY DEF probe_ext_csd, sd_width_app, Step, mmc_switched_hs, SwitchPhase, mmc_retry_hs,
         mmc_switched_width, mmc_width_failed, Goto, Loop, loopvars
<1>4. MmcType' /\ HeldBut(mmc', mmc) /\ stage # "online" /\ stage' # "online"
  BY <1>1, <1>2, <1>3 DEF MmcInv, MmcType, HeldBut, Kept, Busy, Selected, Switching, Widening
<1>5. Alike(Where, Where') \/ Where' = "off"
  BY <1>3 DEF Where, Alike, Selected, Switching, Widening, Widened
<1>6. QED  BY <1>1, <1>2, <1>4, <1>5, MoveStep

-----------------------------------------------------------------------------
(* A card that keeps its bus stays as CardOK says.                         *)
LEMMA KeptCard ==
  ASSUME MmcInv, Kept(card', card), board' = board
  PROVE  CardOK'
BY DEF MmcInv, CardOK, Kept, kind

(* An initialisation that is given up.                                     *)
LEMMA OffStep ==
  ASSUME MmcType', CardOK', stage' = "off", online' = FALSE
  PROVE  MmcInv'
<1>1. Where' = "off"
  BY DEF Where
<1>2. AddressOK'
  BY <1>1 DEF AddressOK
<1>3. CapsOK'
  BY <1>1 DEF CapsOK, Identifying, Selected, Switching, Widening, Widened
<1>4. WidthOK'
  BY <1>1 DEF WidthOK, Busy, Identifying, Selected, Switching, Widening, Widened
<1>5. RegOK'
  BY DEF RegOK
<1>6. QED  BY <1>2, <1>3, <1>4, <1>5 DEF MmcInv

LEMMA NotReported ==
  ASSUME MmcInv, stage # "online"
  PROVE  online = FALSE
BY DEF MmcInv, RegOK, MmcType

LEMMA SelectStep ==
  ASSUME MmcInv, select_card
  PROVE  MmcInv'
<1>0. mmc.rca \in Rcas /\ "SELECT_CARD" \in Plain
  BY DEF MmcInv, MmcType, Plain
<1>1. /\ stage = "select" /\ UNCHANGED <<board, mmc, host, fatal_err, online, then, lost>>
      /\ \/ Succeeds("SELECT_CARD", mmc.rca) /\ stage' = "select_clock"
         \/ Fails("SELECT_CARD", mmc.rca) /\ stage' = "off"
  BY DEF select_card, Step, Goto, hostvars, loopvars
<1>2. Kept(card', card)
  BY <1>0, <1>1, PlainCommand
<1>3. MmcType' /\ CardOK' /\ online' = FALSE
  BY <1>1, <1>2, KeptCard, NotReported DEF MmcInv, MmcType, Kept, Busy, Selected
<1>4. CASE stage' = "off"
  BY <1>3, <1>4, OffStep
<1>5. CASE stage' = "select_clock"
  <2>1. card.st = "stby" /\ card'.st = "tran" /\ card'.rca = mmc.rca
    BY <1>0, <1>1, <1>5, PlainSuccess
  <2>2. Where = "select" /\ Where' = "select_clock"
    BY <1>1, <1>5 DEF Where
  <2>3. AddressOK'
    BY <1>1, <2>1 DEF AddressOK
  <2>4. card'.width = SMHC_WIDTH_1BIT /\ ~card'.ddr
    BY <1>2, <2>1 DEF MmcInv, CardOK, Kept
  <2>5. mmc'.card_caps = {} /\ mmc'.speed_mode = "DS26_SDR12" /\ mmc'.bus_width = SMHC_WIDTH_1BIT
    BY <1>1, <2>2 DEF MmcInv, CapsOK, WidthOK, Busy, Identifying
  <2>6. CapsOK'
    BY <2>2, <2>5 DEF CapsOK, Widening, Widened
  <2>7. WidthOK'
    BY <2>2, <2>4, <2>5 DEF WidthOK, Widened
  <2>8. RegOK'
    BY <1>3, <1>5 DEF RegOK
  <2>9. QED  BY <1>3, <2>3, <2>6, <2>7, <2>8 DEF MmcInv
<1>6. QED  BY <1>1, <1>4, <1>5

(* sunxi_mmc_sd_change_freq and sunxi_mmc_mmc_change_freq begin with no    *)
(* capability, and end with what the card has told and switched to.        *)
CapsSet == [rca : Rcas, card_caps : SUBSET MmcModes, speed_mode : Speeds,
            bus_width : Widths, clock : Nat]

(* What the driver notes before the timing is switched, and after.         *)
Noted(m) ==
  /\ m \in CapsSet /\ m.rca = mmc.rca /\ m.bus_width = mmc.bus_width
  /\ kind.sd => m.card_caps \subseteq {"4BIT", "HS"}

LEMMA FreqStep ==
  ASSUME MmcInv, Where \in {"change_freq"} \cup Switching, stage # "status",
         CardOK', card' \in CardStates, card'.st = "tran", card'.rca = card.rca,
         card'.width = card.width, card'.ddr = card.ddr,
         Noted(mmc'), UNCHANGED <<board, host, fatal_err, online, then>>, lost' \in BOOLEAN,
         \/ stage' = "off"
         \/ /\ stage' \in Switching
            /\ mmc'.card_caps \subseteq {"4BIT", "8BIT"} /\ mmc'.speed_mode = "DS26_SDR12"
         \/ /\ stage' = "phase"
            /\ mmc'.card_caps \cap {"HS", "HS_52MHz"} # {} => card'.hs
            /\ mmc'.speed_mode = "HSDDR52_DDR50" => ~kind.sd
  PROVE  MmcInv'
<1>0. kind' = kind /\ stage = Where
  BY DEF kind, Where
<1>1. MmcType'
  BY DEF MmcInv, MmcType, Noted, CapsSet, Busy
<1>2. online' = FALSE
  BY <1>0, NotReported DEF Switching
<1>3. CASE stage' = "off"
  BY <1>1, <1>2, <1>3, OffStep
<1>4. CASE stage' \in Switching \cup {"phase"}
  <2>1. Where' = stage'
    BY <1>4 DEF Where, Switching
  <2>2. card.rca = mmc.rca /\ card.width = SMHC_WIDTH_1BIT /\ ~card.ddr
    BY DEF MmcInv, AddressOK, WidthOK, Selected, Switching, Identifying
  <2>3. AddressOK'
    BY <2>2 DEF AddressOK, Noted
  <2>4. mmc'.bus_width = SMHC_WIDTH_1BIT
    BY DEF MmcInv, WidthOK, Noted, Busy, Selected, Switching
  <2>5. CapsOK'
    <3>1. kind.sd => mmc'.card_caps \subseteq {"4BIT", "HS"}
      BY DEF Noted
    <3>2. CASE stage' = "phase"
      BY <2>1, <3>1, <3>2, <1>0
         DEF CapsOK, Identifying, Selected, Switching, Widening, Widened
    <3>3. CASE stage' \in Switching
      BY <2>1, <3>1, <3>3, <1>0
         DEF CapsOK, Identifying, Selected, Switching, Widening, Widened
    <3>4. QED  BY <1>4, <3>2, <3>3
  <2>6. WidthOK'
    BY <2>1, <2>2, <2>4, <1>4 DEF WidthOK, Switching, Widened
  <2>7. RegOK'
    BY <1>2, <1>4 DEF RegOK, Switching
  <2>8. QED  BY <1>1, <2>3, <2>5, <2>6, <2>7 DEF MmcInv
<1>5. QED  BY <1>3, <1>4

(* The record mmc with other capabilities and another timing.              *)
OnlyCaps(m, caps, speed) ==
  /\ m \in CapsSet /\ m.card_caps = caps /\ m.speed_mode = speed
  /\ m.rca = mmc.rca /\ m.bus_width = mmc.bus_width

LEMMA CapsFacts ==
  ASSUME mmc \in CapsSet, NEW caps \in SUBSET MmcModes, NEW sp \in Speeds
  PROVE  /\ OnlyCaps(mmc, mmc.card_caps, mmc.speed_mode)
         /\ OnlyCaps(NoCaps(mmc), {}, mmc.speed_mode)
         /\ OnlyCaps(AddCaps(mmc, caps), mmc.card_caps \cup caps, mmc.speed_mode)
         /\ OnlyCaps([AddCaps(mmc, caps) EXCEPT !.speed_mode = sp],
                     mmc.card_caps \cup caps, sp)
BY DEF NoCaps, AddCaps, CapsSet, OnlyCaps

(* The card at these places, and one that keeps its bus.                   *)
LEMMA FreqFacts ==
  ASSUME MmcInv, stage \in {"change_freq"} \cup Switching
  PROVE  /\ Where = stage /\ stage # "status" /\ mmc \in CapsSet /\ mmc.rca \in Rcas
         /\ card \in CardStates /\ card.st = "tran"
         /\ mmc.card_caps \subseteq {"4BIT", "8BIT"} /\ mmc.card_caps \in SUBSET MmcModes
         /\ stage = "change_freq" => mmc.card_caps = {}
         /\ kind.sd => mmc.card_caps \subseteq {"4BIT", "HS"}
         /\ mmc.speed_mode = "DS26_SDR12"
         /\ Kept(card', card) /\ board' = board =>
              /\ CardOK' /\ card' \in CardStates /\ card'.st = "tran" /\ card'.rca = card.rca
              /\ card'.width = card.width /\ card'.ddr = card.ddr
<1>1. Where = stage /\ stage # "status" /\ mmc \in CapsSet /\ mmc.rca \in Rcas
      /\ card \in CardStates /\ mmc.card_caps \in SUBSET MmcModes
  BY DEF Where, Switching, MmcInv, MmcType, CapsSet
<1>2. card.st = "tran"
  BY <1>1 DEF MmcInv, AddressOK, Identifying, Switching
<1>3. /\ mmc.card_caps \subseteq {"4BIT", "8BIT"}
      /\ stage = "change_freq" => mmc.card_caps = {}
      /\ kind.sd => mmc.card_caps \subseteq {"4BIT", "HS"}
      /\ mmc.speed_mode = "DS26_SDR12"
  BY <1>1 DEF MmcInv, CapsOK, Selected, Switching
<1>4. QED  BY <1>1, <1>2, <1>3, KeptCard DEF Kept

(* The SCR of an SD card, its check for the high-speed function and the    *)
(* switch to it.                                                           *)
LEMMA SdFreqSteps ==
  ASSUME MmcInv, sd_change_freq \/ send_scr \/ sd_check
  PROVE  MmcInv'
<1>1. CASE sd_change_freq
  <2>1. /\ stage = "change_freq" /\ stage' \in {"scr", "off"}
        /\ Succeeds("APP_CMD", mmc.rca) \/ Fails("APP_CMD", mmc.rca)
        /\ mmc' = NoCaps(mmc) /\ UNCHANGED <<board, host, fatal_err, online, then, lost>>
    BY <1>1 DEF sd_change_freq, Step, Goto
  <2>2. Kept(card', card)
    BY <2>1, FreqFacts, PlainCommand DEF Plain
  <2>3. Noted(mmc') /\ mmc'.card_caps = {} /\ mmc'.speed_mode = "DS26_SDR12"
    <3>1. mmc \in CapsSet /\ {} \in SUBSET MmcModes /\ "DS26_SDR12" \in Speeds
      BY <2>1, FreqFacts DEF Speeds
    <3>2. OnlyCaps(NoCaps(mmc), {}, mmc.speed_mode)
      BY <3>1, CapsFacts
    <3>3. QED  BY <2>1, <3>2, FreqFacts DEF OnlyCaps, Noted
  <2>4. lost' \in BOOLEAN
    BY <2>1 DEF MmcInv, MmcType
  <2>5. stage' = "off" \/ stage' \in Switching
    BY <2>1 DEF Switching
  <2>6. QED  BY <2>1, <2>2, <2>3, <2>4, <2>5, FreqFacts, FreqStep
<1>2. CASE send_scr
  <2>1. /\ stage = "scr" /\ stage' \in {"phase", "check", "scr", "off"}
        /\ Succeeds("APP_SEND_SCR", 0) \/ Fails("APP_SEND_SCR", 0)
        /\ mmc' = mmc \/ mmc' = AddCaps(mmc, {}) \/ mmc' = AddCaps(mmc, {"4BIT"})
        /\ UNCHANGED <<board, host, fatal_err, online, then, lost>>
    BY <1>2 DEF send_scr, Loop
  <2>2. stage \in {"change_freq"} \cup Switching
    BY <2>1 DEF Switching
  <2>3. Kept(card', card)
    BY <2>1, PlainCommand DEF Plain, Rcas
  <2>4. /\ Noted(mmc') /\ mmc'.card_caps \subseteq {"4BIT", "8BIT"}
        /\ mmc'.speed_mode = "DS26_SDR12"
    <3>1. {} \in SUBSET MmcModes /\ {"4BIT"} \in SUBSET MmcModes /\ "DS26_SDR12" \in Speeds
      BY DEF MmcModes, Speeds
    <3>2. mmc \in CapsSet
      BY <2>2, FreqFacts
    <3>3. /\ OnlyCaps(mmc, mmc.card_caps, mmc.speed_mode)
          /\ OnlyCaps(AddCaps(mmc, {}), mmc.card_caps \cup {}, mmc.speed_mode)
          /\ OnlyCaps(AddCaps(mmc, {"4BIT"}), mmc.card_caps \cup {"4BIT"}, mmc.speed_mode)
      BY <3>1, <3>2, CapsFacts
    <3>4. QED  BY <2>1, <2>2, <3>3, FreqFacts DEF OnlyCaps, Noted
  <2>5. lost' \in BOOLEAN
    BY <2>1 DEF MmcInv, MmcType
  <2>6. stage' = "off" \/ stage' \in Switching \/ stage' = "phase"
    BY <2>1 DEF Switching
  <2>7. QED  BY <2>1, <2>2, <2>3, <2>4, <2>5, <2>6, FreqFacts, FreqStep
<1>3. CASE sd_check
  <2>1. /\ stage = "check" /\ stage' \in {"switch", "phase", "check", "off"}
        /\ Succeeds("CHECK_FUNC", 0) \/ Fails("CHECK_FUNC", 0)
        /\ UNCHANGED <<board, mmc, host, fatal_err, online, then, lost>>
    BY <1>3 DEF sd_check, Loop, hostvars
  <2>2. stage \in {"change_freq"} \cup Switching
    BY <2>1 DEF Switching
  <2>3. Kept(card', card)
    BY <2>1, PlainCommand DEF Plain, Rcas
  <2>4. Noted(mmc')
    BY <2>1, <2>2, FreqFacts DEF Noted
  <2>5. lost' \in BOOLEAN
    BY <2>1 DEF MmcInv, MmcType
  <2>6. stage' = "off" \/ stage' \in Switching \/ stage' = "phase"
    BY <2>1 DEF Switching
  <2>7. QED  BY <2>1, <2>2, <2>3, <2>4, <2>5, <2>6, FreqFacts, FreqStep
<1>4. QED  BY <1>1, <1>2, <1>3

LEMMA SdSwitchSteps ==
  ASSUME MmcInv, sd_switch \/ sd_switched
  PROVE  MmcInv'
<1>1. CASE sd_switch
  <2>1. /\ stage = "switch" /\ stage' \in {"sd_phase", "off"}
        /\ Succeeds("SWITCH_FUNC", 1) \/ Fails("SWITCH_FUNC", 1)
        /\ UNCHANGED <<board, mmc, host, fatal_err, online, then, lost>>
    BY <1>1 DEF sd_switch, Step, Goto, hostvars, loopvars
  <2>2. stage \in {"change_freq"} \cup Switching
    BY <2>1 DEF Switching
  <2>3. card' = card \/ card' \in React(kind, card, "SWITCH_FUNC", 1)
    BY <2>1 DEF Succeeds, Fails, Heard
  <2>4. /\ card' \in CardStates /\ card'.st = "tran" /\ card'.rca = card.rca
        /\ card'.width = card.width /\ card'.ddr = card.ddr
        /\ card'.hs => card.hs \/ (IF kind.sd THEN kind.fast ELSE kind.type # {})
    BY <2>2, <2>3, FreqFacts, SwitchReaction, BoardFacts DEF MmcInv
  <2>5. CardOK'
    BY <2>1, <2>4 DEF MmcInv, CardOK, kind
  <2>6. Noted(mmc') /\ lost' \in BOOLEAN
    BY <2>1, <2>2, FreqFacts DEF Noted, MmcInv, MmcType
  <2>7. stage' = "off" \/ stage' \in Switching
    BY <2>1 DEF Switching
  <2>8. QED  BY <2>1, <2>2, <2>4, <2>5, <2>6, <2>7, FreqFacts, FreqStep
<1>2. CASE sd_switched
  <2>1. /\ stage = "sd_phase" /\ stage' \in {"phase", "off"}
        /\ UNCHANGED <<board, card, host, fatal_err, online, then, lost>>
        /\ \/ mmc' = mmc
           \/ /\ card.hs
              /\ mmc' = [AddCaps(mmc, {"HS"}) EXCEPT !.speed_mode = "HSSDR52_SDR25"]
    BY <1>2 DEF sd_switched, SdFast, Goto, loopvars
  <2>2. stage \in {"change_freq"} \cup Switching
    BY <2>1 DEF Switching
  <2>3. Kept(card', card)
    BY <2>1, <2>2, FreqFacts DEF Kept
  <2>4. /\ Noted(mmc') /\ mmc'.speed_mode # "HSDDR52_DDR50"
        /\ mmc'.card_caps \cap {"HS", "HS_52MHz"} # {} => card'.hs
    <3>1. {"HS"} \in SUBSET MmcModes /\ "HSSDR52_SDR25" \in Speeds
      BY DEF MmcModes, Speeds
    <3>2. mmc \in CapsSet
      BY <2>2, FreqFacts
    <3>3. /\ OnlyCaps(mmc, mmc.card_caps, mmc.speed_mode)
          /\ OnlyCaps([AddCaps(mmc, {"HS"}) EXCEPT !.speed_mode = "HSSDR52_SDR25"],
                      mmc.card_caps \cup {"HS"}, "HSSDR52_SDR25")
      BY <3>1, <3>2, CapsFacts
    <3>4. QED  BY <2>1, <2>2, <2>3, <3>3, FreqFacts DEF OnlyCaps, Noted, Kept
  <2>5. lost' \in BOOLEAN
    BY <2>1 DEF MmcInv, MmcType
  <2>6. QED  BY <2>1, <2>2, <2>3, <2>4, <2>5, FreqFacts, FreqStep
<1>3. QED  BY <1>1, <1>2

(* The EXT_CSD of an eMMC, its switch to high speed and the check of it.   *)
LEMMA EmmcFreqSteps ==
  ASSUME MmcInv, mmc_change_freq \/ mmc_no_change \/ mmc_check_hs
  PROVE  MmcInv'
<1>0. stage \in {"change_freq"} \cup Switching /\ UNCHANGED <<board, host, fatal_err, online, then, lost>>
  BY DEF mmc_change_freq, mmc_no_change, mmc_check_hs, Step, Switching, loopvars
<1>1. mmc \in CapsSet /\ lost' \in BOOLEAN
  BY <1>0, FreqFacts DEF MmcInv, MmcType
<1>2. CASE mmc_change_freq
  <2>1. /\ stage = "change_freq" /\ stage' \in {"hs_cmd", "off"} /\ kind.sd = FALSE
        /\ Succeeds("SEND_EXT_CSD", 0) \/ Fails("SEND_EXT_CSD", 0)
        /\ mmc' = AddCaps(NoCaps(mmc), {"4BIT", "8BIT"})
    BY <1>2, BoardFacts DEF mmc_change_freq, Step, Goto, v4, MmcInv
  <2>2. Kept(card', card)
    BY <2>1, PlainCommand DEF Plain, Rcas
  <2>3. AddCaps(NoCaps(mmc), {"4BIT", "8BIT"}) = AddCaps(mmc, {"4BIT", "8BIT"})
    BY <1>1, <2>1, FreqFacts DEF AddCaps, NoCaps, CapsSet
  <2>4. OnlyCaps(AddCaps(mmc, {"4BIT", "8BIT"}), mmc.card_caps \cup {"4BIT", "8BIT"},
                 mmc.speed_mode)
    <3>1. {"4BIT", "8BIT"} \in SUBSET MmcModes /\ "DS26_SDR12" \in Speeds
      BY DEF MmcModes, Speeds
    <3>2. QED  BY <1>1, <3>1, CapsFacts
  <2>5. /\ Noted(mmc') /\ mmc'.card_caps \subseteq {"4BIT", "8BIT"}
        /\ mmc'.speed_mode = "DS26_SDR12"
    BY <2>1, <2>3, <2>4, FreqFacts DEF OnlyCaps, Noted
  <2>6. stage' = "off" \/ stage' \in Switching
    BY <2>1 DEF Switching
  <2>7. QED  BY <1>0, <1>1, <2>1, <2>2, <2>5, <2>6, FreqFacts, FreqStep
<1>3. CASE mmc_no_change
  <2>1. /\ stage = "change_freq" /\ stage' = "phase" /\ mmc' = NoCaps(mmc) /\ card' = card
    BY <1>3 DEF mmc_no_change, Goto
  <2>2. Kept(card', card)
    BY <1>0, <2>1, FreqFacts DEF Kept
  <2>3. OnlyCaps(NoCaps(mmc), {}, mmc.speed_mode)
    <3>1. {} \in SUBSET MmcModes /\ "DS26_SDR12" \in Speeds
      BY DEF Speeds
    <3>2. QED  BY <1>1, <3>1, CapsFacts
  <2>4. /\ Noted(mmc') /\ mmc'.card_caps = {} /\ mmc'.speed_mode = "DS26_SDR12"
    BY <2>1, <2>3, FreqFacts DEF OnlyCaps, Noted
  <2>5. QED  BY <1>0, <1>1, <2>1, <2>2, <2>4, FreqFacts, FreqStep
<1>4. CASE mmc_check_hs
  <2>1. /\ stage = "hs_check"
        /\ \/ stage' = "phase" /\ Succeeds("SEND_EXT_CSD", 0)
           \/ stage' = "off" /\ Fails("SEND_EXT_CSD", 0) /\ mmc' = mmc
    BY <1>4 DEF mmc_check_hs, Step, Goto
  <2>2. Kept(card', card) /\ (stage' = "phase" => kind.sd = FALSE)
    BY <2>1, PlainCommand, PlainSuccess, BoardFacts DEF Plain, Rcas, MmcInv
  <2>3. \/ mmc' = mmc
        \/ card.hs /\ mmc' = [AddCaps(mmc, {"HS", "HS_52MHz", "DDR_52MHz"})
                              EXCEPT !.speed_mode = "HSDDR52_DDR50"]
        \/ card.hs /\ mmc' = [AddCaps(mmc, {"HS", "HS_52MHz"})
                              EXCEPT !.speed_mode = "HSSDR52_SDR25"]
    BY <1>4 DEF mmc_check_hs, HsTiming
  <2>4. /\ OnlyCaps(mmc, mmc.card_caps, mmc.speed_mode)
        /\ OnlyCaps([AddCaps(mmc, {"HS", "HS_52MHz", "DDR_52MHz"})
                     EXCEPT !.speed_mode = "HSDDR52_DDR50"],
                    mmc.card_caps \cup {"HS", "HS_52MHz", "DDR_52MHz"}, "HSDDR52_DDR50")
        /\ OnlyCaps([AddCaps(mmc, {"HS", "HS_52MHz"}) EXCEPT !.speed_mode = "HSSDR52_SDR25"],
                    mmc.card_caps \cup {"HS", "HS_52MHz"}, "HSSDR52_SDR25")
    <3>1. /\ {"HS", "HS_52MHz", "DDR_52MHz"} \in SUBSET MmcModes
          /\ {"HS", "HS_52MHz"} \in SUBSET MmcModes
          /\ "HSDDR52_DDR50" \in Speeds /\ "HSSDR52_SDR25" \in Speeds
      BY DEF MmcModes, Speeds
    <3>2. QED  BY <1>1, <3>1, CapsFacts
  <2>5. CASE stage' = "off"
    <3>1. mmc' = mmc
      BY <2>1, <2>5
    <3>2. Noted(mmc')
      BY <1>0, <3>1, <2>4, FreqFacts DEF OnlyCaps, Noted
    <3>3. QED  BY <1>0, <1>1, <2>2, <2>5, <3>2, FreqFacts, FreqStep
  <2>6. CASE stage' = "phase"
    <3>1. Noted(mmc')
      BY <1>0, <2>2, <2>3, <2>4, <2>6 DEF OnlyCaps, Noted
    <3>2. mmc'.card_caps \cap {"HS", "HS_52MHz"} # {} => card'.hs
      BY <1>0, <2>2, <2>3, <2>4, FreqFacts DEF OnlyCaps, Kept
    <3>3. QED  BY <1>0, <1>1, <2>2, <2>6, <3>1, <3>2, FreqFacts, FreqStep
  <2>7. QED  BY <2>1, <2>5, <2>6
<1>5. QED  BY <1>2, <1>3, <1>4

LEMMA EmmcSwitchStep ==
  ASSUME MmcInv, mmc_switch_hs
  PROVE  MmcInv'
<1>1. /\ stage = "hs_cmd" /\ stage' = "hs_phase"
      /\ Succeeds("SWITCH_HS", 1) \/ Fails("SWITCH_HS", 1)
      /\ UNCHANGED <<board, mmc, host, fatal_err, online, then>> /\ lost' \in {lost, TRUE}
  BY DEF mmc_switch_hs, SwitchCmd, Goto, hostvars, loopvars
<1>2. stage \in {"change_freq"} \cup Switching /\ stage' \in Switching
  BY <1>1 DEF Switching
<1>3. card' = card \/ card' \in React(kind, card, "SWITCH_HS", 1)
  BY <1>1 DEF Succeeds, Fails, Heard
<1>4. /\ card' \in CardStates /\ card'.st = "tran" /\ card'.rca = card.rca
      /\ card'.width = card.width /\ card'.ddr = card.ddr
      /\ card'.hs => card.hs \/ (IF kind.sd THEN kind.fast ELSE kind.type # {})
  BY <1>2, <1>3, FreqFacts, SwitchReaction, BoardFacts DEF MmcInv
<1>5. CardOK'
  BY <1>1, <1>4 DEF MmcInv, CardOK, kind
<1>6. Noted(mmc') /\ lost' \in BOOLEAN
  BY <1>1, <1>2, FreqFacts DEF Noted, MmcInv, MmcType
<1>7. QED  BY <1>1, <1>2, <1>4, <1>5, <1>6, FreqFacts, FreqStep

-----------------------------------------------------------------------------
(* What the host can do; it never does DDR.                                *)
LEMMA HostFacts ==
  ASSUME MmcType
  PROVE  /\ host_caps \subseteq MmcModes /\ "DDR_52MHz" \notin host_caps
         /\ "4BIT" \in host_caps => SMHC_WIDTH_4BIT <= board.width
         /\ "8BIT" \in host_caps => SMHC_WIDTH_8BIT <= board.width
         /\ host_caps' = host_caps \/ board' # board
BY BoardFacts DEF host_caps, MmcModes, SMHC_WIDTH_4BIT, SMHC_WIDTH_8BIT

LEMMA RestrictStep ==
  ASSUME MmcInv, restrict_caps
  PROVE  MmcInv'
<1>1. /\ stage = "phase" /\ UNCHANGED <<board, card, host, fatal_err, online, then, lost>>
  BY DEF restrict_caps, loopvars
<1>2. /\ Where = "phase" /\ online' = FALSE /\ kind' = kind /\ host_caps' = host_caps
      /\ card \in CardStates /\ Kept(card', card)
  BY <1>1, NotReported DEF Where, MmcInv, MmcType, kind, host_caps, Kept
<1>3. CardOK'
  BY <1>1, <1>2, KeptCard
<1>4. CASE stage' = "off" /\ UNCHANGED mmc
  <2>1. MmcType'
    BY <1>1, <1>4 DEF MmcInv, MmcType
  <2>2. QED  BY <1>2, <1>3, <1>4, <2>1, OffStep
<1>5. CASE stage' # "off" \/ mmc' # mmc
  <2> DEFINE caps == Restricted(mmc.card_caps)
  <2>1. /\ mmc' = [mmc EXCEPT !.card_caps = caps, !.speed_mode = SpeedMode(caps)]
        /\ \/ kind.sd /\ stage' = (IF "4BIT" \in caps THEN "width_app" ELSE "tran_speed")
           \/ ~kind.sd /\ stage' = (IF {"4BIT", "8BIT"} \cap caps # {} THEN "width_cmd"
                                    ELSE "tran_speed")
    BY <1>5 DEF restrict_caps, Goto
  <2>2. caps \subseteq mmc.card_caps /\ caps \subseteq host_caps /\ caps \in SUBSET MmcModes
    BY HostFacts DEF Restricted, MmcInv
  <2>3. "DDR_52MHz" \notin caps
    BY <2>2, HostFacts DEF MmcInv
  <2>4. SpeedMode(caps) \in Speeds /\ SpeedMode(caps) # "HSDDR52_DDR50"
    <3>1. mmc.speed_mode \in Speeds /\ (mmc.speed_mode = "HSDDR52_DDR50" => ~kind.sd)
      BY <1>2 DEF MmcInv, MmcType, CapsOK
    <3>2. QED  BY <2>3, <3>1 DEF SpeedMode, Speeds
  <2> HIDE DEF caps
  <2>5. /\ mmc' \in CapsSet /\ mmc'.card_caps = caps /\ mmc'.speed_mode = SpeedMode(caps)
        /\ mmc'.rca = mmc.rca /\ mmc'.bus_width = mmc.bus_width
    BY <2>1, <2>2, <2>4 DEF MmcInv, MmcType, CapsSet
  <2>6. /\ stage' \in {"width_app", "width_cmd", "tran_speed"} /\ Where' = stage'
        /\ stage' # "tran_speed" => caps \cap {"4BIT", "8BIT"} # {}
    BY <2>1 DEF Where
  <2>7. MmcType'
    BY <1>1, <2>5, <2>6 DEF MmcInv, MmcType, CapsSet, Busy, Widening
  <2>8. AddressOK'
    BY <1>1, <1>2, <2>5 DEF MmcInv, AddressOK, Identifying
  <2>9. /\ kind.sd => caps \subseteq {"4BIT", "HS"}
        /\ caps \cap {"HS", "HS_52MHz"} # {} => card.hs
    BY <1>2, <2>2 DEF MmcInv, CapsOK
  <2>10. CapsOK'
    BY <1>1, <1>2, <2>2, <2>4, <2>5, <2>6, <2>9
       DEF CapsOK, Identifying, Selected, Switching, Widening, Widened
  <2>11. WidthOK'
    <3>1. mmc'.bus_width = 0 /\ card'.width = 0 /\ ~card'.ddr /\ board'.width \in 0 .. 2
      BY <1>1, <1>2, <2>5, BoardFacts
         DEF MmcInv, WidthOK, Busy, SMHC_WIDTH_1BIT
    <3>2. QED
      BY <2>6, <3>1 DEF WidthOK, Busy, Identifying, Selected, Switching, Widening, Widened,
                        SMHC_WIDTH_1BIT
  <2>12. RegOK'
    BY <1>2, <2>6 DEF RegOK
  <2>13. QED  BY <1>3, <2>7, <2>8, <2>10, <2>11, <2>12 DEF MmcInv
<1>6. QED  BY <1>4, <1>5

(* The places where the widths are agreed on: the capabilities are those   *)
(* of the host and the card has been selected.                             *)
LEMMA WidthFacts ==
  ASSUME MmcInv, stage \in Widening \cup Widened \cup {"tran_speed"}
  PROVE  /\ Where = stage /\ online = FALSE /\ mmc \in CapsSet /\ mmc.rca \in Rcas
         /\ card \in CardStates /\ card.st = "tran" /\ card.rca = mmc.rca
         /\ mmc.card_caps \subseteq host_caps /\ mmc.speed_mode # "HSDDR52_DDR50"
         /\ kind.sd => mmc.card_caps \subseteq {"4BIT", "HS"}
         /\ "DDR_52MHz" \notin mmc.card_caps
         /\ Width \in {SMHC_WIDTH_4BIT, SMHC_WIDTH_8BIT} /\ Width \in Widths
         /\ kind.sd => Width = SMHC_WIDTH_4BIT
         /\ stage \in Widening \cup Widened =>
              /\ mmc.card_caps \cap {"4BIT", "8BIT"} # {}
              /\ mmc.bus_width = SMHC_WIDTH_1BIT /\ Width <= board.width
<1>1. Where = stage /\ online = FALSE /\ mmc \in CapsSet /\ mmc.rca \in Rcas
      /\ card \in CardStates
  BY NotReported DEF Where, Widening, Widened, MmcInv, MmcType, CapsSet
<1>2. card.st = "tran" /\ card.rca = mmc.rca
  BY <1>1 DEF MmcInv, AddressOK, Identifying, Widening, Widened
<1>3. /\ mmc.card_caps \subseteq host_caps /\ mmc.speed_mode # "HSDDR52_DDR50"
      /\ kind.sd => mmc.card_caps \subseteq {"4BIT", "HS"}
      /\ stage \in Widening \cup Widened => mmc.card_caps \cap {"4BIT", "8BIT"} # {}
  BY <1>1 DEF MmcInv, CapsOK, Widening, Widened
<1>4. "DDR_52MHz" \notin mmc.card_caps
  BY <1>3, HostFacts DEF MmcInv
<1>5. /\ Width \in {SMHC_WIDTH_4BIT, SMHC_WIDTH_8BIT} /\ Width \in Widths
      /\ kind.sd => Width = SMHC_WIDTH_4BIT
  BY <1>3 DEF Width, Widths
<1>6. stage \in Widening \cup Widened =>
        mmc.bus_width = SMHC_WIDTH_1BIT /\ Width <= board.width
  <2>1. SUFFICES ASSUME stage \in Widening \cup Widened
                 PROVE  mmc.bus_width = SMHC_WIDTH_1BIT /\ Width <= board.width
    OBVIOUS
  <2>2. mmc.bus_width = SMHC_WIDTH_1BIT
    BY <1>1, <2>1 DEF MmcInv, WidthOK, Busy, Widening, Widened
  <2>3. CASE "8BIT" \in mmc.card_caps
    BY <1>3, <2>2, <2>3, HostFacts DEF Width, MmcInv
  <2>4. CASE "8BIT" \notin mmc.card_caps
    <3>1. "4BIT" \in host_caps
      BY <1>3, <2>1, <2>4
    <3>2. QED  BY <2>2, <2>4, <3>1, HostFacts DEF Width, MmcInv
  <2>5. QED  BY <2>3, <2>4
<1>7. QED  BY <1>1, <1>2, <1>3, <1>4, <1>5, <1>6

(* The card is told its width.                                             *)
LEMMA CardWidthSteps ==
  ASSUME MmcInv, sd_width \/ mmc_width
  PROVE  MmcInv'
<1>0. /\ stage \in Widening /\ UNCHANGED <<board, mmc, host, fatal_err, online, then>>
      /\ lost' \in BOOLEAN /\ kind' = kind /\ Width' = Width /\ host_caps' = host_caps
  BY DEF sd_width, mmc_width, SwitchCmd, Step, Widening, hostvars, loopvars, MmcInv, MmcType,
         kind, Width, host_caps
<1>1. ASSUME card' \in CardStates, card'.st = "tran", card'.rca = card.rca,
             card'.hs = card.hs, stage' \in Widened,
             ~lost' => card'.width = Width /\ card'.ddr = FALSE
      PROVE  MmcInv'
  <2>1. Where = stage /\ Where' = stage'
    BY <1>0, <1>1 DEF Where, Widening, Widened
  <2>2. MmcType'
    BY <1>0, <1>1 DEF MmcInv, MmcType, Busy
  <2>3. CardOK'
    BY <1>0, <1>1 DEF MmcInv, CardOK
  <2>4. AddressOK'
    BY <1>0, <1>1, WidthFacts DEF AddressOK
  <2>5. CapsOK'
    <3>1. /\ mmc.card_caps \subseteq host_caps /\ mmc.speed_mode # "HSDDR52_DDR50"
          /\ kind.sd => mmc.card_caps \subseteq {"4BIT", "HS"}
          /\ mmc.card_caps \cap {"4BIT", "8BIT"} # {}
          /\ mmc.card_caps \cap {"HS", "HS_52MHz"} # {} => card.hs
      BY <1>0, <2>1, WidthFacts DEF MmcInv, CapsOK, Widening
    <3>2. QED
      BY <1>0, <1>1, <2>1, <3>1
         DEF CapsOK, Identifying, Selected, Switching, Widened
  <2>6. WidthOK'
    BY <1>0, <1>1, <2>1, WidthFacts
       DEF WidthOK, Busy, Selected, Switching, Widening, Widened
  <2>7. RegOK'
    BY <1>0, <1>1, WidthFacts DEF RegOK, Widened
  <2>8. QED  BY <2>2, <2>3, <2>4, <2>5, <2>6, <2>7 DEF MmcInv
<1>2. ASSUME card' = card, stage' = "off" PROVE MmcInv'
  <2>1. Kept(card', card)
    BY <1>0, <1>2, WidthFacts DEF Kept
  <2>2. MmcType' /\ CardOK' /\ online' = FALSE
    BY <1>0, <1>2, <2>1, KeptCard, WidthFacts DEF MmcInv, MmcType
  <2>3. QED  BY <1>2, <2>2, OffStep
<1>3. /\ card \in CardStates /\ card.st = "tran" /\ card.rca = mmc.rca /\ kind \in Descriptions
      /\ card.width = SMHC_WIDTH_1BIT /\ card.ddr = FALSE
  <2>1. card \in CardStates /\ card.ddr \in BOOLEAN /\ Where = stage
    BY <1>0, WidthFacts DEF CardStates
  <2>2. card.width = SMHC_WIDTH_1BIT /\ card.ddr = FALSE
    BY <1>0, <2>1 DEF MmcInv, WidthOK
  <2>3. QED  BY <1>0, <2>1, <2>2, WidthFacts, BoardFacts DEF MmcInv
<1>4. SMHC_WIDTH_4BIT \in Widths
  BY DEF Widths
<1>5. CASE sd_width
  <2>1. \/ stage' = "host_width" /\ card' \in React(kind, card, "APP_BUS_WIDTH", SMHC_WIDTH_4BIT)
        \/ /\ stage' = "off"
           /\ card' = card \/ card' \in React(kind, card, "APP_BUS_WIDTH", SMHC_WIDTH_4BIT)
    BY <1>5 DEF sd_width, Step, Succeeds, Fails, Heard, Goto
  <2>2. CASE card' \in React(kind, card, "APP_BUS_WIDTH", SMHC_WIDTH_4BIT)
    <3>1. /\ card' \in CardStates /\ card'.st = "tran" /\ card'.rca = card.rca /\ kind.sd
          /\ card'.hs = card.hs /\ card'.ddr = card.ddr /\ card'.width = SMHC_WIDTH_4BIT
      BY <1>3, <1>4, <2>2, SwitchReaction
    <3>2. CASE stage' = "host_width"
      <4>1. card'.width = Width /\ card'.ddr = FALSE
        BY <1>0, <1>3, <3>1, WidthFacts
      <4>2. QED  BY <1>1, <3>1, <3>2, <4>1 DEF Widened
    <3>3. CASE stage' = "off"
      <4>1. MmcType' /\ online' = FALSE
        BY <1>0, <3>1, <3>3, WidthFacts DEF MmcInv, MmcType
      <4>2. CardOK'
        BY <1>0, <3>1 DEF MmcInv, CardOK
      <4>3. QED  BY <3>3, <4>1, <4>2, OffStep
    <3>4. QED  BY <2>1, <3>2, <3>3
  <2>3. QED  BY <1>2, <2>1, <2>2
<1>6. CASE mmc_width
  <2>1. "DDR_52MHz" \notin mmc.card_caps /\ Width \in Widths
    BY <1>0, WidthFacts
  <2> DEFINE arg == <<Width, "DDR_52MHz" \in mmc.card_caps>>
  <2>2. arg \in Widths \X BOOLEAN /\ arg[1] = Width /\ arg[2] = FALSE
    <3>1. ("DDR_52MHz" \in mmc.card_caps) = FALSE
      BY <2>1
    <3>2. QED  BY <2>1, <3>1
  <2> HIDE DEF arg
  <2>3. /\ stage' = "width_phase"
        /\ \/ lost' = TRUE /\ card' = card
           \/ card' \in React(kind, card, "SWITCH_WIDTH", arg)
    BY <1>6 DEF mmc_width, SwitchCmd, Succeeds, Fails, Heard, Goto, arg
  <2>4. CASE card' = card /\ lost' = TRUE
    BY <1>1, <1>3, <2>3, <2>4 DEF Widened
  <2>5. CASE card' \in React(kind, card, "SWITCH_WIDTH", arg)
    <3>1. /\ card' \in CardStates /\ card'.st = "tran" /\ card'.rca = card.rca
          /\ card'.hs = card.hs /\ card'.width = Width /\ card'.ddr = FALSE
      BY <1>3, <2>2, <2>5, SwitchReaction
    <3>2. QED  BY <1>1, <2>3, <3>1 DEF Widened
  <2>6. QED  BY <2>3, <2>4, <2>5
<1>7. QED  BY <1>5, <1>6

(* The host takes the width that the card was told.                        *)
LEMMA HostWidthStep ==
  ASSUME MmcInv, set_bus_width
  PROVE  MmcInv'
<1> DEFINE m == [mmc EXCEPT !.bus_width = Width]
<1>1. /\ stage = "host_width" /\ stage' = "tran_speed" /\ set_ios(m)
      /\ UNCHANGED <<board, card, online, then, lost>>
  BY DEF set_bus_width, Goto, loopvars
<1>2. stage \in Widened
  BY <1>1 DEF Widened
<1>3. /\ m \in CapsSet /\ m.rca = mmc.rca /\ m.card_caps = mmc.card_caps
      /\ m.speed_mode = mmc.speed_mode /\ m.bus_width = Width /\ m.clock \in Nat
  BY <1>2, WidthFacts DEF CapsSet
<1> HIDE DEF m
<1>4. m.bus_width \in Widths
  BY <1>2, <1>3, WidthFacts
<1>5. /\ mmc' = m /\ host' \in [width : Widths, ddr : BOOLEAN, clock : Nat]
      /\ fatal_err' \in BOOLEAN
  BY <1>1, <1>3, <1>4, SetIos DEF MmcInv
<1>6. Where = "host_width" /\ Where' = "tran_speed" /\ online' = FALSE /\ kind' = kind
      /\ host_caps' = host_caps
  BY <1>1, <1>2, WidthFacts DEF Where, kind, host_caps
<1>7. MmcType'
  BY <1>1, <1>3, <1>5 DEF MmcInv, MmcType, CapsSet, Busy
<1>8. CardOK'
  BY <1>1, <1>6 DEF MmcInv, CardOK
<1>9. AddressOK'
  BY <1>1, <1>2, <1>3, <1>5, WidthFacts DEF AddressOK
<1>10. CapsOK'
  <2>1. /\ mmc.card_caps \subseteq host_caps /\ mmc.speed_mode # "HSDDR52_DDR50"
        /\ kind.sd => mmc.card_caps \subseteq {"4BIT", "HS"}
        /\ mmc.card_caps \cap {"HS", "HS_52MHz"} # {} => card.hs
    BY <1>2, <1>6, WidthFacts DEF MmcInv, CapsOK
  <2>2. QED
    BY <1>1, <1>3, <1>5, <1>6, <2>1
       DEF CapsOK, Identifying, Selected, Switching, Widening, Widened
<1>11. WidthOK'
  <2>1. ~lost => card.width = Width /\ ~card.ddr
    BY <1>6 DEF MmcInv, WidthOK, Widened
  <2>2. Width <= board.width
    BY <1>2, WidthFacts
  <2>3. mmc'.bus_width = Width
    BY <1>3, <1>5
  <2>4. QED
    BY <1>1, <1>6, <2>1, <2>2, <2>3
       DEF WidthOK, Busy, Identifying, Selected, Switching, Widening, Widened
<1>12. RegOK'
  BY <1>1, <1>6 DEF RegOK
<1>13. QED  BY <1>7, <1>8, <1>9, <1>10, <1>11, <1>12 DEF MmcInv

(* The final clock; the card is reported even when it could not be set.    *)
LEMMA TranSpeedStep ==
  ASSUME MmcInv, set_tran_speed
  PROVE  MmcInv'
<1>1. /\ stage = "tran_speed" /\ stage' = "online" /\ online' = TRUE
      /\ set_clock(tran_speed) /\ UNCHANGED <<board, card, then, lost>>
  BY DEF set_tran_speed, Goto, loopvars
<1>2. tran_speed \in Nat /\ tran_speed >= 4
  BY DEF tran_speed
<1>3. stage \in Widening \cup Widened \cup {"tran_speed"}
  BY <1>1
<1>4. /\ mmc' \in CapsSet /\ HeldBut(mmc', mmc) /\ mmc'.rca = mmc.rca
      /\ host' \in [width : Widths, ddr : BOOLEAN, clock : Nat] /\ fatal_err' \in BOOLEAN
      /\ ~fatal_err' => /\ host'.width = mmc.bus_width /\ host'.clock <= tran_speed
                        /\ host'.ddr = (mmc.speed_mode = "HSDDR52_DDR50")
  BY <1>1, <1>2, SetClock DEF MmcInv, CapsSet
<1>5. Where = "tran_speed" /\ Where' = "online" /\ kind' = kind /\ host_caps' = host_caps
  BY <1>1 DEF Where, kind, host_caps
<1>6. MmcType'
  BY <1>1, <1>4 DEF MmcInv, MmcType, CapsSet
<1>7. CardOK'
  BY <1>1, <1>5 DEF MmcInv, CardOK
<1>8. AddressOK'
  BY <1>1, <1>3, <1>4, WidthFacts DEF AddressOK
<1>9. CapsOK'
  <2>1. /\ mmc.card_caps \subseteq host_caps /\ mmc.speed_mode # "HSDDR52_DDR50"
        /\ kind.sd => mmc.card_caps \subseteq {"4BIT", "HS"}
        /\ mmc.card_caps \cap {"HS", "HS_52MHz"} # {} => card.hs
    BY <1>3, <1>5, WidthFacts DEF MmcInv, CapsOK
  <2>2. QED
    BY <1>1, <1>4, <1>5, <2>1
       DEF CapsOK, Identifying, Selected, Switching, Widening, Widened, HeldBut
<1>10. WidthOK'
  <2>1. /\ mmc.bus_width <= board.width
        /\ ~lost => card.width = mmc.bus_width /\ ~card.ddr
    BY <1>5 DEF MmcInv, WidthOK
  <2>2. QED
    BY <1>1, <1>4, <1>5, <2>1
       DEF WidthOK, Busy, Identifying, Selected, Switching, Widening, Widened, HeldBut
<1>11. RegOK'
  <2>1. tran_speed' = tran_speed /\ mmc'.bus_width = mmc.bus_width
    BY <1>4, <1>5 DEF tran_speed, HeldBut
  <2>2. ~fatal_err' => ~host'.ddr
    BY <1>3, <1>4, WidthFacts
  <2>3. QED  BY <1>1, <1>4, <2>1, <2>2 DEF RegOK
<1>12. QED  BY <1>6, <1>7, <1>8, <1>9, <1>10, <1>11 DEF MmcInv

(* A call of sdmmc_init, which clears what the driver knows and finds the  *)
(* card as it is.                                                          *)
LEMMA InitStep ==
  ASSUME MmcInv, sdmmc_init
  PROVE  MmcInv'
<1>1. /\ mmc' = Cleared /\ fatal_err' = FALSE /\ online' = FALSE /\ lost' = FALSE
      /\ host' = [width |-> SMHC_WIDTH_1BIT, ddr |-> FALSE, clock |-> 0]
      /\ stage' \in {"clock", "off"} /\ UNCHANGED <<board, card, then>>
  BY DEF sdmmc_init, Goto, loopvars
<1>2. /\ Cleared \in CapsSet /\ Cleared.card_caps = {} /\ Cleared.speed_mode = "DS26_SDR12"
      /\ Cleared.bus_width = SMHC_WIDTH_1BIT
  BY DEF Cleared, CapsSet, Rcas, Speeds, Widths
<1>3. Where' = stage' /\ kind' = kind
  BY <1>1 DEF Where, kind
<1>4. MmcType'
  BY <1>1, <1>2 DEF MmcInv, MmcType, CapsSet, Busy, Identifying, Widths
<1>5. CardOK'
  BY <1>1, <1>3 DEF MmcInv, CardOK
<1>6. AddressOK'
  BY <1>1, <1>3 DEF AddressOK, Identifying
<1>7. CapsOK'
  BY <1>1, <1>2, <1>3 DEF CapsOK, Widening, Widened, Switching, Selected, Identifying
<1>8. WidthOK'
  BY <1>1, <1>2, <1>3 DEF WidthOK, Busy, Widening, Widened, Switching, Selected
<1>9. RegOK'
  BY <1>1 DEF RegOK
<1>10. QED  BY <1>4, <1>5, <1>6, <1>7, <1>8, <1>9 DEF MmcInv

LEMMA MmcInitInv == MmcInit => MmcInv
<1> SUFFICES ASSUME MmcInit PROVE MmcInv
  OBVIOUS
<1>1. /\ Cleared \in CapsSet /\ Cleared.card_caps = {} /\ Cleared.speed_mode = "DS26_SDR12"
      /\ Cleared.bus_width = SMHC_WIDTH_1BIT
  BY DEF Cleared, CapsSet, Rcas, Speeds, Widths
<1>2. Where = "off"
  BY DEF MmcInit, Where
<1>3. MmcType
  BY <1>1, PoweredUpCard DEF MmcInit, MmcType, CapsSet, Widths
<1>4. CardOK
  BY DEF MmcInit, CardOK, PoweredUp
<1>5. AddressOK
  BY <1>2 DEF AddressOK
<1>6. CapsOK
  BY <1>2 DEF CapsOK, Identifying, Selected, Switching, Widening, Widened
<1>7. WidthOK
  BY <1>2 DEF WidthOK, Busy, Identifying, Selected, Switching, Widening, Widened
<1>8. RegOK
  BY DEF MmcInit, RegOK
<1>9. QED  BY <1>3, <1>4, <1>5, <1>6, <1>7, <1>8 DEF MmcInv

-----------------------------------------------------------------------------
LEMMA MmcStep == MmcInv /\ [MmcNext]_mmcvars => MmcInv'
<1> SUFFICES ASSUME MmcInv, [MmcNext]_mmcvars PROVE MmcInv'
  OBVIOUS
<1>1. CASE sdmmc_init
  BY <1>1, InitStep
<1>2. CASE MmcDriver
  BY <1>2, CommandSteps, ResetSteps, StatusSteps, ClockSteps, QuietSteps, SelectStep,
     SdFreqSteps, SdSwitchSteps, EmmcFreqSteps, EmmcSwitchStep, RestrictStep, CardWidthSteps,
     HostWidthStep, TranSpeedStep DEF MmcDriver
<1>3. CASE UNCHANGED mmcvars
  <2>1. /\ UNCHANGED <<board, card, mmc, host, fatal_err, online, stage, then, lost>>
        /\ Where' = Where /\ kind' = kind /\ host_caps' = host_caps /\ Width' = Width
        /\ tran_speed' = tran_speed
    BY <1>3 DEF mmcvars, hostvars, loopvars, Where, kind, host_caps, Width, tran_speed
  <2>2. MmcType' /\ CardOK' /\ AddressOK'
    BY <2>1 DEF MmcInv, MmcType, CardOK, AddressOK
  <2>3. CapsOK' /\ WidthOK' /\ RegOK'
    BY <2>1 DEF MmcInv, CapsOK, WidthOK, RegOK
  <2>4. QED  BY <2>2, <2>3 DEF MmcInv
<1>4. QED  BY <1>1, <1>2, <1>3 DEF MmcNext

(* The inductive invariant of sdmmc_init, for every board, card, number of *)
(* polls, retries, failures and initialisations.                           *)
THEOREM MmcInvariant == MmcSpec => []MmcInv
<1>1. MmcInit => MmcInv
  BY MmcInitInv
<1>2. MmcInv /\ [MmcNext]_mmcvars => MmcInv'
  BY MmcStep
<1>3. QED  BY <1>1, <1>2, PTL DEF MmcSpec

LEMMA InvBusAgreed == MmcInv => BusAgreed
<1> SUFFICES ASSUME MmcInv, Works PROVE BusAgreed
  BY DEF BusAgreed
<1>1. stage = "online" /\ Where = "online" /\ fatal_err = FALSE
  BY DEF MmcInv, RegOK, Works, Where, MmcType
<1>2. host.width = mmc.bus_width /\ ~host.ddr
  BY <1>1 DEF MmcInv, RegOK
<1>3. card.st = "tran" /\ card.rca = mmc.rca
  BY <1>1 DEF MmcInv, AddressOK, Identifying
<1>4. mmc.bus_width <= board.width /\ (~lost => card.width = mmc.bus_width /\ ~card.ddr)
  BY <1>1 DEF MmcInv, WidthOK
<1>5. card.ddr \in BOOLEAN /\ host.ddr \in BOOLEAN
  BY DEF MmcInv, MmcType, CardStates
<1>6. QED  BY <1>2, <1>3, <1>4, <1>5 DEF BusAgreed

(* BusAgreed: a card that sdmmc_init reports is selected under the address *)
(* that the driver uses, and has the width and clocking of the controller, *)
(* whichever commands failed on the way, also in earlier initialisations.  *)
THEOREM MmcBusAgreed == MmcSpec => []BusAgreed
<1>1. MmcInv => BusAgreed
  BY InvBusAgreed
<1>2. QED  BY <1>1, MmcInvariant, PTL

(* The cards that the driver takes for faster than they are: the switch to *)
(* high speed makes it clock them at 52 MHz.                               *)
Hs26Alone == ~kind.sd /\ kind.type = {"HS_26"}

LEMMA InvClockWithinCard == MmcInv => (~Hs26Alone => ClockWithinCard)
<1> SUFFICES ASSUME MmcInv, ~Hs26Alone, Works PROVE ClockWithinCard
  BY DEF ClockWithinCard
<1>1. stage = "online" /\ Where = "online" /\ fatal_err = FALSE
  BY DEF MmcInv, RegOK, Works, Where, MmcType
<1>2. host.clock <= tran_speed /\ host.clock \in Nat
  BY <1>1 DEF MmcInv, RegOK, MmcType
<1>3. mmc.card_caps \cap {"HS", "HS_52MHz"} # {} => card.hs
  BY <1>1 DEF MmcInv, CapsOK
<1>4. "DDR_52MHz" \notin mmc.card_caps
  BY <1>1, HostFacts DEF MmcInv, CapsOK
<1>5. tran_speed <= MaxClock(kind, card)
  <2>1. CASE kind.sd
    BY <1>3, <2>1 DEF tran_speed, MaxClock
  <2>2. CASE ~kind.sd
    <3>1. card.hs => kind.type # {}
      BY <2>2 DEF MmcInv, CardOK
    <3>2. kind.type \in CardTypes
      BY <2>2, BoardFacts DEF MmcInv, Descriptions
    <3>3. card.hs => "HS_52" \in kind.type
      BY <2>2, <3>1, <3>2 DEF CardTypes, Hs26Alone
    <3>4. QED  BY <1>3, <1>4, <2>2, <3>3 DEF tran_speed, MaxClock
  <2>3. QED  BY <2>1, <2>2
<1>6. tran_speed \in Nat /\ MaxClock(kind, card) \in Nat
  BY DEF tran_speed, MaxClock
<1>7. QED  BY <1>2, <1>5, <1>6 DEF ClockWithinCard

(* ClockWithinCard: a card that sdmmc_init reports is not clocked faster   *)
(* than the timing that it has switched to allows, whichever CMD6 was not  *)
(* obeyed, unless it is an eMMC whose card type is HS_26 alone.            *)
THEOREM MmcClockWithinCard == MmcSpec => [](~Hs26Alone => ClockWithinCard)
<1>1. MmcInv => (~Hs26Alone => ClockWithinCard)
  BY InvClockWithinCard
<1>2. QED  BY <1>1, MmcInvariant, PTL
=============================================================================

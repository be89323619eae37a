-------------------------------- MODULE Pmu --------------------------------
(***************************************************************************)
(* The rails of the AXP power chips (drivers/pmu/axp.c) and the functions  *)
(* of the AXP1530 family (axp1530.c), over sunxi_i2c_read and              *)
(* sunxi_i2c_write.                                                        *)
(*                                                                         *)
(* A register is the number in its voltage field, code, and its other bits.*)
(* line is the register that the function is at; call.op tells whether it  *)
(* is read or written.                                                     *)
(***************************************************************************)
EXTENDS I2c, Integers, Sequences, FiniteSetsExt

CONSTANTS
  Rails,        \* axp_ctrl_tbl, with the address of its chip
  Volts, OnOff, \* the arguments of set_vol
  AXP1530,      \* AXP1530_RUNTIME_ADDR
  MaxFns        \* bound: calls of the functions

AXP1530_VERSION == "VERSION"
AXP1530_POWER_DOMN_SEQUENCE == "SEQUENCE"
AXP1530_OUTPUT_MONITOR_CONTROL == "MONITOR"
AXP1530_DCDC_MODE_CTRL2 == "MODE2"
AXP323_CHIP_ID == 73
(* VERSION & 0xCF of the chips of the family.                              *)
CHIP_IDS == {72, 75, 76, AXP323_CHIP_ID}

Byte(code, bits) == [code |-> code, bits |-> bits]

ASSUME PmuAssumption ==
  /\ Bytes = [code : 0 .. 127, bits : SUBSET (0 .. 7)]
  /\ \A r \in Rails : r.chip \in Chips /\ {r.cfg, r.ctl} \subseteq Registers
                        /\ r.cfg # r.ctl /\ r.min > 0 /\ r.bit \in 0 .. 7
  /\ {AXP1530_VERSION, AXP1530_POWER_DOMN_SEQUENCE, AXP1530_OUTPUT_MONITOR_CONTROL,
      AXP1530_DCDC_MODE_CTRL2} \subseteq Registers
  /\ AXP1530 \in Chips /\ MaxFns \in Nat

VARIABLES
  fn,      \* the function at work or the last one, and its arguments
  line,    \* the register it is at, "none" when it has returned
  result,
  old,     \* history: the registers when it was called
  fns

pmuvars == <<fn, line, result, old, fns>>
vars == <<i2cvars, pmuvars>>

-----------------------------------------------------------------------------
(* The code of a voltage: the ranges below its range, whose voltages are   *)
(* counted, and the steps in its own.  A voltage between two ranges is the *)
(* last one of the lower range.                                            *)
Steps(s) == (s.max - s.min + s.val) \div s.val

Base(tbl, i) ==
  LET base_step[k \in 1 .. Len(tbl) + 1] ==
        IF k = 1 THEN 0 ELSE base_step[k - 1] + Steps(tbl[k - 1])
  IN  base_step[i]

Clamped(r, vol) == IF vol < r.min THEN r.min ELSE IF vol > r.max THEN r.max ELSE vol

InRange(tbl, i, vol) == tbl[i].max >= vol \/ (i < Len(tbl) /\ vol < tbl[i + 1].min)
RangeOf(tbl, vol) ==
  CHOOSE i \in DOMAIN tbl : InRange(tbl, i, vol) /\ \A j \in 1 .. i - 1 : ~InRange(tbl, j, vol)

Encode(r, set_vol) ==
  LET vol == Clamped(r, set_vol)
      i == RangeOf(r.steps, vol)
      s == r.steps[i]
  IN  Base(r.steps, i) + ((IF vol > s.max THEN s.max ELSE vol) - s.min) \div s.val

(* A table: ranges in ascending order, each with its voltages, that reach  *)
(* from the lowest voltage of the rail to its highest or beyond, and a     *)
(* register that takes a code for each.                                    *)
IsTable(r) ==
  LET tbl == r.steps
  IN  /\ tbl \in Seq([min : Nat, max : Nat, val : Nat \ {0}]) /\ tbl # <<>>
      /\ \A i \in DOMAIN tbl : tbl[i].min <= tbl[i].max
      /\ \A i \in 1 .. Len(tbl) - 1 : tbl[i].max < tbl[i + 1].min
      /\ r.min = tbl[1].min /\ r.max \in r.min .. tbl[Len(tbl)].max
      /\ Base(tbl, Len(tbl) + 1) <= 128

ASSUME TableAssumption ==
  /\ Volts \subseteq Int /\ OnOff \subseteq Int
  /\ \A r \in Rails : IsTable(r)

(* axp_get_vol: the first range whose codes end behind this one; -1 if     *)
(* there is none.                                                          *)
Decode(r, code) ==
  LET behind == {i \in DOMAIN r.steps : code < Base(r.steps, i + 1)}
      i == Min(behind)
  IN  IF behind = {} THEN -1 ELSE (code - Base(r.steps, i)) * r.steps[i].val + r.steps[i].min

-----------------------------------------------------------------------------
Read(chip, reg) == [op |-> "read", chip |-> chip, reg |-> reg]
Write(chip, reg, byte) == [op |-> "write", chip |-> chip, reg |-> reg, data |-> byte]

PmuInit ==
  /\ I2cInit
  /\ fn = [f |-> "none"] /\ line = "none" /\ result = 0 /\ old = regs /\ fns = 0

(* The function goes on with a call at a register, or returns.             *)
Do(reg, c) == i2c_begin(c) /\ line' = reg /\ UNCHANGED result
Return(n) == line' = "none" /\ result' = n /\ UNCHANGED i2cvars

Called(f) ==
  /\ line = "none" /\ at = "idle" /\ fns < MaxFns
  /\ fn' = f /\ fns' = fns + 1 /\ old' = regs

(* A call at a register of the function has returned.                      *)
Done(f, reg, op) ==
  /\ fn.f = f /\ line = reg /\ at = "idle" /\ call.op = op
  /\ UNCHANGED <<fn, old, fns>>

(* Mutant of WithCode: the other bits of the register are not kept.        *)
OnlyCode(r, vol, byte) == Byte(Encode(r, vol), {})

WithCode(r, vol, byte) == Byte(Encode(r, vol), byte.bits)

WithBit(r, onoff, byte) ==
  Byte(byte.code, IF onoff = 0 THEN byte.bits \ {r.bit} ELSE byte.bits \cup {r.bit})

SwitchRail(r, onoff) == IF onoff < 0 THEN Return(0) ELSE Do("ctl", Read(r.chip, r.ctl))

axp_set_vol(r, set_vol, onoff) ==
  /\ Called([f |-> "set", rail |-> r, vol |-> set_vol, onoff |-> onoff])
  /\ IF set_vol > 0 THEN Do("cfg", Read(r.chip, r.cfg)) ELSE SwitchRail(r, onoff)

SetCfgRead ==
  /\ Done("set", "cfg", "read")
  /\ IF ret # "ok" THEN Return(-1)
     ELSE Do("cfg", Write(fn.rail.chip, fn.rail.cfg, WithCode(fn.rail, fn.vol, value)))
SetCfgWritten ==
  /\ Done("set", "cfg", "write")
  /\ IF ret # "ok" THEN Return(-1) ELSE SwitchRail(fn.rail, fn.onoff)
SetCtlRead ==
  /\ Done("set", "ctl", "read")
  /\ IF ret # "ok" THEN Return(-1)
     ELSE Do("ctl", Write(fn.rail.chip, fn.rail.ctl, WithBit(fn.rail, fn.onoff, value)))
SetCtlWritten ==
  /\ Done("set", "ctl", "write") /\ Return(IF ret = "ok" THEN 0 ELSE -1)

axp_get_vol(r) ==
  Called([f |-> "get", rail |-> r]) /\ Do("ctl", Read(r.chip, r.ctl))
GetCtlRead ==
  /\ Done("get", "ctl", "read")
  /\ IF ret # "ok" THEN Return(-1)
     ELSE IF fn.rail.bit \notin value.bits THEN Return(0)
     ELSE Do("cfg", Read(fn.rail.chip, fn.rail.cfg))
GetCfgRead ==
  /\ Done("get", "cfg", "read")
  /\ Return(IF ret = "ok" THEN Decode(fn.rail, value.code) ELSE -1)

-----------------------------------------------------------------------------
pmu_axp1530_init ==
  Called([f |-> "init"]) /\ Do("version", Read(AXP1530, AXP1530_VERSION))
InitVersionRead ==
  /\ Done("init", "version", "read")
  /\ IF ret # "ok" \/ value.code \notin CHIP_IDS THEN Return(-1)
     ELSE Do("sequence", Read(AXP1530, AXP1530_POWER_DOMN_SEQUENCE))
InitSequenceRead ==
  /\ Done("init", "sequence", "read")
  /\ IF ret # "ok" THEN Return(-1)
     ELSE Do("sequence", Write(AXP1530, AXP1530_POWER_DOMN_SEQUENCE,
                               Byte(value.code, value.bits \cup {1})))
InitSequenceWritten ==
  /\ Done("init", "sequence", "write") /\ Return(IF ret = "ok" THEN 0 ELSE -1)

(* The results of the three writes are ignored.                            *)
pmu_axp1530_set_dual_phase ==
  Called([f |-> "dual"]) /\ Do("version", Read(AXP1530, AXP1530_VERSION))
DualVersionRead ==
  /\ Done("dual", "version", "read")
  /\ IF ret # "ok" \/ value.code # AXP323_CHIP_ID THEN Return(-1)
     ELSE Do("monitor", Write(AXP1530, AXP1530_OUTPUT_MONITOR_CONTROL, Byte(0, 1 .. 4)))
DualMonitorWritten ==
  /\ Done("dual", "monitor", "write")
  /\ Do("mode", Write(AXP1530, AXP1530_DCDC_MODE_CTRL2, Byte(0, {1})))
DualModeWritten ==
  /\ Done("dual", "mode", "write")
  /\ Do("sequence", Write(AXP1530, AXP1530_POWER_DOMN_SEQUENCE, Byte(0, {1, 5})))
DualSequenceWritten ==
  Done("dual", "sequence", "write") /\ Return(0)

Call ==
  \/ \E r \in Rails :
       \/ axp_get_vol(r)
       \/ \E v \in Volts, n \in OnOff : (v > 0 \/ n >= 0) /\ axp_set_vol(r, v, n)
  \/ pmu_axp1530_init
  \/ pmu_axp1530_set_dual_phase

Function ==
  \/ SetCfgRead \/ SetCfgWritten \/ SetCtlRead \/ SetCtlWritten
  \/ GetCtlRead \/ GetCfgRead
  \/ InitVersionRead \/ InitSequenceRead \/ InitSequenceWritten
  \/ DualVersionRead \/ DualMonitorWritten \/ DualModeWritten \/ DualSequenceWritten

Next == Call \/ Function \/ ((Driver \/ Hardware) /\ UNCHANGED pmuvars)

Spec == PmuInit /\ [][Next]_vars

-----------------------------------------------------------------------------
(* The registers that the function may write.                              *)
Fields(f) ==
  CASE f.f = "set"  -> {<<f.rail.chip, f.rail.cfg>>, <<f.rail.chip, f.rail.ctl>>}
    [] f.f = "init" -> {<<AXP1530, AXP1530_POWER_DOMN_SEQUENCE>>}
    [] f.f = "dual" -> {AXP1530} \X {AXP1530_OUTPUT_MONITOR_CONTROL, AXP1530_DCDC_MODE_CTRL2,
                                     AXP1530_POWER_DOMN_SEQUENCE}
    [] OTHER -> {}

(* Setting a rail changes its voltage and its switch, whatever fails on    *)
(* the way and whenever a byte arrives: no other register, no other bit of *)
(* these two, and the rail is not switched on before its voltage is set.   *)
RailsApart ==
  \A c \in Present :
    /\ \A reg \in Registers : <<c, reg>> \notin Fields(fn) => regs[c][reg] = old[c][reg]
    /\ fn.f = "set" /\ c = fn.rail.chip =>
         LET r == fn.rail IN
         /\ regs[c][r.cfg].bits = old[c][r.cfg].bits
         /\ regs[c][r.ctl].code = old[c][r.ctl].code
         /\ regs[c][r.ctl].bits \ {r.bit} = old[c][r.ctl].bits \ {r.bit}
         /\ fn.vol > 0 /\ r.bit \in regs[c][r.ctl].bits \ old[c][r.ctl].bits =>
              regs[c][r.cfg].code = Encode(r, fn.vol)

(* What a rail gives: the voltages of its table in order, and the place of *)
(* the one that is asked for, the next lower one if it has none such.      *)
Voltages(r) ==
  UNION {{s.min + k * s.val : k \in 0 .. (s.max - s.min) \div s.val} :
           s \in {r.steps[i] : i \in DOMAIN r.steps}}
Place(r, vol) == Cardinality({v \in Voltages(r) : v < vol})
Nearest(r, vol) ==
  IF vol <= r.min THEN r.min ELSE Max({v \in Voltages(r) : v <= vol /\ v <= r.max})

(* axp_set_vol that returns 0 has set what was asked for, and axp_get_vol  *)
(* tells what the rail gives.                                              *)
VoltagesTold ==
  line = "none" =>
    /\ fn.f = "set" /\ result = 0 =>
         LET r == fn.rail IN
         /\ fn.vol > 0 => regs[r.chip][r.cfg].code = Place(r, Nearest(r, fn.vol))
         /\ fn.onoff >= 0 => (r.bit \in regs[r.chip][r.ctl].bits <=> fn.onoff > 0)
    /\ fn.f = "get" /\ result > 0 =>
         LET r == fn.rail IN
         /\ r.bit \in regs[r.chip][r.ctl].bits
         /\ result \in Voltages(r) /\ Place(r, result) = regs[r.chip][r.cfg].code
=============================================================================

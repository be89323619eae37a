------------------------------- MODULE MCPmu -------------------------------
(* Two rails of the AXP1530 family, which share the register of their      *)
(* switches, on a bus where nobody answers to a second address.  The       *)
(* tables of all its rails, and of the AXP333, are checked voltage by      *)
(* voltage against Voltages.                                               *)
EXTENDS Pmu

CONSTANTS AXP717

Step(min, max, val) == [min |-> min, max |-> max, val |-> val]
Rail(chip, cfg, bit, min, max, steps) ==
  [chip |-> chip, cfg |-> cfg, ctl |-> "POWER", bit |-> bit, min |-> min, max |-> max,
   steps |-> steps]

dcdc1 == Rail(AXP1530, "DC1OUT", 0, 500, 3400,
              <<Step(500, 1200, 10), Step(1220, 1540, 20), Step(1600, 3400, 100)>>)
dcdc2 == Rail(AXP1530, "DC2OUT", 1, 500, 1540, <<Step(500, 1200, 10), Step(1220, 1540, 20)>>)
dcdc3 == Rail(AXP1530, "DC3OUT", 2, 500, 1840, <<Step(500, 1200, 10), Step(1220, 1840, 20)>>)
aldo1 == Rail(AXP1530, "ALDO1OUT", 3, 500, 3500, <<Step(500, 3500, 100)>>)
axp333_dcdc3 == Rail(AXP1530, "DC3OUT", 2, 500, 3400,
              <<Step(500, 1200, 10), Step(1220, 1840, 20), Step(3100, 3400, 100)>>)
bldo1 == Rail(AXP717, "BLDO1OUT", 4, 500, 3500, <<Step(500, 3500, 100)>>)

MCRails == {dcdc1, dcdc2, bldo1}

MCRegisters == {AXP1530_VERSION, AXP1530_POWER_DOMN_SEQUENCE, AXP1530_OUTPUT_MONITOR_CONTROL,
                AXP1530_DCDC_MODE_CTRL2, "DC1OUT", "DC2OUT", "BLDO1OUT", "POWER"}
MCOnOff == {-1, 0, 1}
MCBytes == [code : 0 .. 127, bits : SUBSET (0 .. 7)]

Tables == {dcdc1, dcdc2, dcdc3, aldo1, axp333_dcdc3}
ASSUME TablesAre == \A r \in Tables : IsTable(r)
ASSUME TablesCode ==
  \A r \in Tables, n \in 1 .. 380 :
    Encode(r, 10 * n + 5) = Place(r, Nearest(r, 10 * n + 5))
ASSUME TablesDecode ==
  \A r \in Tables :
    \A v \in Voltages(r) : Encode(r, v) = Place(r, v) /\ Decode(r, Encode(r, v)) = v

(* The registers as a chip may have them when main calls: an AXP323 with   *)
(* its rails off, or an AXP1530 with dcdc1 on; bits that the driver knows  *)
(* nothing of are set.                                                     *)
MCRegs(version, on) ==
  [reg \in MCRegisters |->
     CASE reg = AXP1530_VERSION -> Byte(version, {})
       [] reg = "DC1OUT" -> Byte(60, {7})
       [] reg = "DC2OUT" -> Byte(80, {})
       [] reg = "POWER" -> Byte(0, on)
       [] OTHER -> Byte(0, {2})]
MCPowerOn == {MCRegs(72, {0, 3}), MCRegs(AXP323_CHIP_ID, {})}
=============================================================================

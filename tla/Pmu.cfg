CONSTANTS
  AXP1530 = axp1530
  AXP717 = axp717
  Present = {axp1530}
  Chips = {axp1530, axp717}
  Registers <- MCRegisters
  Bytes <- MCBytes
  PowerOn <- MCPowerOn
  Polls = 2
  Rails <- MCRails
  Volts = {0, 1575}
  OnOff <- MCOnOff
  MaxFns = 2
SPECIFICATION Spec
INVARIANTS RailsApart VoltagesTold
PROPERTY ImplementsBus
CHECK_DEADLOCK FALSE

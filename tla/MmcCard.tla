------------------------------ MODULE MmcCard ------------------------------
(***************************************************************************)
(* What an SD card or an eMMC does with a command, as far as the driver of *)
(* src/drivers/mmc depends on it.  The card is not part of the repository. *)
(*                                                                         *)
(* A card is described by what it is (SCR, card type of EXT_CSD) and by    *)
(* its state: the state of the card state machine, its address, the width, *)
(* clocking and timing of its bus, and whether the next command is an      *)
(* application command.  Clocks are in units of 100 kHz.                   *)
(***************************************************************************)
EXTENDS Naturals

CONSTANT Addresses  \* bound: the addresses that an SD card chooses from

SMHC_WIDTH_1BIT == 0
SMHC_WIDTH_4BIT == 1
SMHC_WIDTH_8BIT == 2

(* An SD card has SCR.SD_SPEC > 0 and SD_DATA_4BIT or not, and high speed. *)
(* An eMMC has a CSD of version 4 or an older one, and a card type, whose  *)
(* bits come in this order.                                                *)
CardTypes == {{}, {"HS_26"}, {"HS_26", "HS_52"}, {"HS_26", "HS_52", "DDR_52"}}
Descriptions ==
  [sd : {TRUE}, v1 : BOOLEAN, bits4 : BOOLEAN, fast : BOOLEAN]
  \cup [sd : {FALSE}, v4 : BOOLEAN, type : CardTypes]

CardStates ==
  [st : {"idle", "ready", "ident", "stby", "tran"}, rca : Addresses \cup {0, 1},
   width : {SMHC_WIDTH_1BIT, SMHC_WIDTH_4BIT, SMHC_WIDTH_8BIT},
   ddr : BOOLEAN, hs : BOOLEAN, app : BOOLEAN]

PoweredUp == [st |-> "idle", rca |-> 0, width |-> SMHC_WIDTH_1BIT, ddr |-> FALSE,
              hs |-> FALSE, app |-> FALSE]

(* The fastest clock that the card takes on the bus timing it is in.       *)
MaxClock(d, c) ==
  IF d.sd THEN IF c.hs THEN 500 ELSE 250
          ELSE IF c.hs /\ "HS_52" \in d.type THEN 520 ELSE 260

-----------------------------------------------------------------------------
(* The states in which card d in state c may be after it has answered the  *)
(* command; none if it does not answer.  A command that is not an          *)
(* application command ends the effect of APP_CMD.                         *)
Addressed(c, states, arg) == c.st \in states /\ arg = c.rca

Takes(d, c, cmd, arg) ==
  CASE cmd = "SEND_IF_COND"  -> d.sd /\ c.st = "idle"
    [] cmd = "APP_CMD"       -> d.sd /\ arg = c.rca
    [] cmd = "APP_OP_COND"   -> d.sd /\ c.app /\ c.st = "idle"
    [] cmd = "SEND_OP_COND"  -> ~d.sd /\ c.st \in {"idle", "ready"}
    [] cmd = "ALL_SEND_CID"  -> c.st = "ready"
    [] cmd = "RELATIVE_ADDR" -> c.st = "ident"
    [] cmd = "SEND_CSD"      -> Addressed(c, {"stby"}, arg)
    [] cmd = "SEND_STATUS"   -> Addressed(c, {"stby", "tran"}, arg)
    [] cmd = "SELECT_CARD"   -> Addressed(c, {"stby"}, arg)
    [] cmd \in {"APP_SEND_SCR", "APP_BUS_WIDTH"} -> d.sd /\ c.app /\ c.st = "tran"
    [] cmd \in {"CHECK_FUNC", "SWITCH_FUNC"}     -> d.sd /\ c.st = "tran"
    [] cmd \in {"SEND_EXT_CSD", "SWITCH_HS", "SWITCH_WIDTH"} -> ~d.sd /\ c.st = "tran"

Becomes(d, c, cmd, arg) ==
  CASE cmd = "APP_CMD"       -> {[c EXCEPT !.app = TRUE]}
    [] cmd \in {"APP_OP_COND", "SEND_OP_COND"} -> {c, [c EXCEPT !.st = "ready"]}
    [] cmd = "ALL_SEND_CID"  -> {[c EXCEPT !.st = "ident"]}
    [] cmd = "RELATIVE_ADDR" ->
         {[c EXCEPT !.st = "stby", !.rca = r] : r \in IF d.sd THEN Addresses ELSE {arg}}
    [] cmd = "SELECT_CARD"   -> {[c EXCEPT !.st = "tran"]}
    [] cmd = "APP_BUS_WIDTH" -> {[c EXCEPT !.width = arg]}
    [] cmd = "SWITCH_FUNC"   -> {c, [c EXCEPT !.hs = d.fast]}
    [] cmd = "SWITCH_HS"     -> {[c EXCEPT !.hs = d.type # {}]}
    [] cmd = "SWITCH_WIDTH"  -> {[c EXCEPT !.width = arg[1], !.ddr = arg[2]]}
    [] OTHER -> {c}

React(d, c, cmd, arg) ==
  IF ~Takes(d, c, cmd, arg) THEN {}
  ELSE {[n EXCEPT !.app = (cmd = "APP_CMD")] : n \in Becomes(d, c, cmd, arg)}
=============================================================================

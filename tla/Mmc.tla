-------------------------------- MODULE Mmc --------------------------------
(***************************************************************************)
(* sdmmc_init of src/drivers/mmc: one step per command that identifies the *)
(* card, selects it and raises its bus, over sunxi_sdhci_xfer and          *)
(* sunxi_sdhci_set_ios of the host controller.                             *)
(*                                                                         *)
(* A command fails when the card does not answer, and at most Faults times *)
(* for another reason: the card may have obeyed it all the same.  The card *)
(* and the controller are powered once; every later initialisation meets   *)
(* them as the one before left them.                                       *)
(***************************************************************************)
EXTENDS MmcCard, FiniteSets

CONSTANTS
  Boards,     \* bound: the sunxi_sdhci_t with the card in its socket
  OpPolls,    \* polls of ACMD41 and CMD1 after the first (timeout = 1000)
  StatusPolls,\* polls of CMD13 after the first (timeout = 1000)
  ScrRetries, \* ACMD51 after the first (timeout = 3)
  Checks,     \* CMD6 checks of an SD card (timeout = 4)
  HsRetries,  \* CMD6 of an eMMC after the first (retry = 5)
  Faults,     \* bound: failures of the bus or of the controller
  Inits       \* bound: calls of sdmmc_init

MmcModes == {"HS", "HS_52MHz", "4BIT", "8BIT", "DDR_52MHz"}

(* A board: the card, whether the controller is SMHC0 (timing mode 1) or   *)
(* SMHC2 (mode 4), the width of its bus and max_clk.                       *)
ASSUME MmcAssumption ==
  /\ Addresses \subseteq Nat \ {0}
  /\ Boards \subseteq [card : Descriptions, smhc0 : BOOLEAN, width : 0 .. 2, max_clk : Nat]
  /\ \A n \in {OpPolls, StatusPolls, ScrRetries, HsRetries, Faults, Inits} : n \in Nat
  /\ Checks \in Nat \ {0}

VARIABLES
  board,      \* the member of Boards
  card,       \* state of the card
  mmc,        \* rca, card_caps, speed_mode, bus_width and clock of g_mmc
  host,        \* width, DDR mode and card clock of the controller
  fatal_err,  \* of the host
  online,     \* of sdmmc_pdata_t
  stage,      \* the next command or call; "off" between two initialisations
  left,       \* the counter of the loop around the command
  polls,      \* the timeout of sunxi_mmc_send_status
  then,       \* where sunxi_mmc_send_status returns to
  lost,       \* history: sunxi_mmc_switch returned 0 for a CMD6 that failed
  faults, inits

hostvars == <<mmc, host, fatal_err>>
loopvars == <<left, polls, then>>
boundvars == <<faults, inits>>
mmcvars == <<board, card, hostvars, online, stage, loopvars, lost, boundvars>>

kind == board.card
Cleared == [rca |-> 0, card_caps |-> {}, speed_mode |-> "DS26_SDR12",
            bus_width |-> SMHC_WIDTH_1BIT, clock |-> 0]

MmcInit ==
  /\ board \in Boards
  /\ card = PoweredUp /\ mmc = Cleared
  /\ host = [width |-> SMHC_WIDTH_1BIT, ddr |-> FALSE, clock |-> 0] /\ fatal_err = FALSE
  /\ online = FALSE /\ stage = "off" /\ left = 0 /\ polls = 0 /\ then = "off"
  /\ lost = FALSE /\ faults = 0 /\ inits = 0

-----------------------------------------------------------------------------
(* sunxi_sdhci_xfer.  A data transfer also needs both ends on one width.   *)
Reads(cmd) == cmd \in {"SEND_EXT_CSD", "APP_SEND_SCR", "CHECK_FUNC", "SWITCH_FUNC"}
Heard(cmd, arg) ==
  IF fatal_err \/ (Reads(cmd) /\ (card.width # host.width \/ card.ddr # host.ddr)) THEN {}
  ELSE React(kind, card, cmd, arg)

Fault == faults < Faults /\ faults' = faults + 1 /\ UNCHANGED inits
Succeeds(cmd, arg) == card' \in Heard(cmd, arg) /\ UNCHANGED boundvars
Fails(cmd, arg) ==
  IF Heard(cmd, arg) = {} THEN UNCHANGED <<card, boundvars>>
  ELSE Fault /\ card' \in Heard(cmd, arg) \cup {card}

Goto(p) == stage' = p
Loop(p, n) == stage' = p /\ left' = n /\ UNCHANGED <<polls, then>>

(* The command at p leads to q, or ends the initialisation.                *)
Step(p, cmd, arg, q) ==
  /\ stage = p
  /\ \/ Succeeds(cmd, arg) /\ Goto(q)
     \/ Fails(cmd, arg) /\ Goto("off")
  /\ UNCHANGED <<board, online, lost>>

(* sunxi_sdhci_set_ios with m: a clock that cannot be set is fatal_err.    *)
Clamp(c) == IF c > board.max_clk THEN board.max_clk ELSE IF c < 4 THEN 4 ELSE c
set_ios(m) ==
  /\ mmc' = m
  /\ \/ host' = [width |-> m.bus_width, ddr |-> (m.speed_mode = "HSDDR52_DDR50"),
                clock |-> m.clock] /\ UNCHANGED <<fatal_err, boundvars>>
     \/ Fault /\ fatal_err' = TRUE /\ UNCHANGED host
set_clock(c) == set_ios([mmc EXCEPT !.clock = Clamp(c)])

(* sunxi_sdhci_update_phase: only timing mode 1 updates, and may fail.     *)
PhaseFails == board.smhc0 /\ Fault
PhaseDone == UNCHANGED boundvars

-----------------------------------------------------------------------------
(* sunxi_sdhci_init and sdmmc_init up to the 400 kHz of sunxi_mmc_init;    *)
(* sunxi_sdhci_core_init may fail.                                         *)
sdmmc_init ==
  /\ stage \in {"off", "online"} /\ inits < Inits
  /\ mmc' = Cleared /\ fatal_err' = FALSE /\ online' = FALSE /\ lost' = FALSE
  /\ host' = [width |-> SMHC_WIDTH_1BIT, ddr |-> FALSE, clock |-> 0]
  /\ inits' = inits + 1
  /\ \/ Goto("clock") /\ UNCHANGED faults
     \/ Goto("off") /\ faults < Faults /\ faults' = faults + 1
  /\ UNCHANGED <<board, card, loopvars>>

identification_clock ==
  /\ stage = "clock" /\ set_clock(4) /\ Goto("go_idle")
  /\ UNCHANGED <<board, card, online, loopvars, lost>>

(* sunxi_mmc_go_idle: CMD0 has no answer, so that the controller does not  *)
(* see whether the card took it.  sunxi_mmc_mmc_send_op_cond sends it      *)
(* again and ignores the result.                                           *)
CardReset ==
  \/ card' = PoweredUp /\ UNCHANGED boundvars
  \/ card' = card /\ Fault
go_idle ==
  /\ stage = "go_idle"
  /\ IF fatal_err THEN UNCHANGED <<card, boundvars>> /\ Goto("off")
     ELSE CardReset /\ Goto(IF kind.sd THEN "if_cond" ELSE "op_idle")
  /\ UNCHANGED <<board, hostvars, online, loopvars, lost>>
mmc_go_idle ==
  /\ stage = "op_idle" /\ CardReset /\ Goto("op_query")
  /\ UNCHANGED <<board, hostvars, online, loopvars, lost>>

sd_send_if_cond ==
  /\ Step("if_cond", "SEND_IF_COND", 0, "app_op_cond")
  /\ left' = OpPolls /\ UNCHANGED <<hostvars, polls, then>>

(* Mutant of Less: the timeout is not counted down.                        *)
NotLess(n) == n

Less(n) == n - 1

(* do ACMD41 or CMD1 while (busy && timeout--), and if (timeout <= 0) the  *)
(* card is unusable, even when the last answer was ready.                  *)
OpPoll(cmd, again, rca) ==
  /\ \/ Fails(cmd, 0) /\ Goto("off") /\ UNCHANGED left
     \/ Succeeds(cmd, 0) /\ left = 0 /\ Goto("off") /\ UNCHANGED left
     \/ Succeeds(cmd, 0) /\ left > 0 /\ card'.st = "ready" /\ Goto("cid") /\ UNCHANGED left
     \/ Succeeds(cmd, 0) /\ left > 0 /\ card'.st # "ready" /\ Goto(again) /\ left' = Less(left)
  /\ mmc' = IF stage' = "cid" THEN [mmc EXCEPT !.rca = rca] ELSE mmc
  /\ UNCHANGED <<board, host, fatal_err, online, polls, then, lost>>

sd_app_op_cond ==
  Step("app_op_cond", "APP_CMD", 0, "op_cond") /\ UNCHANGED <<hostvars, loopvars>>
sd_send_op_cond ==
  stage = "op_cond" /\ OpPoll("APP_OP_COND", "app_op_cond", 0)

mmc_query ==
  /\ Step("op_query", "SEND_OP_COND", 0, "mmc_op_cond")
  /\ left' = OpPolls /\ UNCHANGED <<hostvars, polls, then>>
mmc_send_op_cond ==
  stage = "mmc_op_cond" /\ OpPoll("SEND_OP_COND", "mmc_op_cond", 1)

-----------------------------------------------------------------------------
(* sunxi_mmc_probe up to the selected card at 25 MHz.                      *)
all_send_cid ==
  Step("cid", "ALL_SEND_CID", 0, "rca") /\ UNCHANGED <<hostvars, loopvars>>

send_relative_addr ==
  /\ Step("rca", "RELATIVE_ADDR", mmc.rca, "csd")
  /\ mmc' = [mmc EXCEPT !.rca = IF kind.sd /\ stage' = "csd" THEN card'.rca ELSE @]
  /\ UNCHANGED <<host, fatal_err, loopvars>>

(* The error of CMD9 is looked at after the status poll.                   *)
send_csd ==
  /\ stage = "csd"
  /\ \/ Succeeds("SEND_CSD", mmc.rca) /\ then' = "select"
     \/ Fails("SEND_CSD", mmc.rca) /\ then' = "off"
  /\ Goto("status") /\ polls' = StatusPolls
  /\ UNCHANGED <<board, hostvars, online, left, lost>>

(* sunxi_mmc_send_status: all its callers ignore the result.               *)
send_status ==
  /\ stage = "status"
  /\ \/ Fails("SEND_STATUS", mmc.rca) /\ Goto(then) /\ UNCHANGED polls
     \/ Succeeds("SEND_STATUS", mmc.rca) /\ Goto(then) /\ UNCHANGED polls
     \/ /\ Succeeds("SEND_STATUS", mmc.rca)     \* not ready
        /\ polls > 0 /\ polls' = polls - 1 /\ UNCHANGED stage
  /\ UNCHANGED <<board, hostvars, online, left, then, lost>>

select_card ==
  Step("select", "SELECT_CARD", mmc.rca, "select_clock") /\ UNCHANGED <<hostvars, loopvars>>

v4 == ~kind.sd /\ kind.v4
transfer_clock ==
  /\ stage = "select_clock" /\ set_clock(250)
  /\ Goto(IF v4 THEN "ext_csd" ELSE "change_freq")
  /\ UNCHANGED <<board, card, online, loopvars, lost>>

(* The EXT_CSD with the revision and capacity; a failure is only logged.   *)
probe_ext_csd ==
  /\ stage = "ext_csd"
  /\ Succeeds("SEND_EXT_CSD", 0) \/ Fails("SEND_EXT_CSD", 0)
  /\ Goto("change_freq") /\ UNCHANGED <<board, hostvars, online, loopvars, lost>>

-----------------------------------------------------------------------------
(* sunxi_mmc_sd_change_freq.  A retry of ACMD51 is not preceded by another *)
(* APP_CMD.                                                                *)
AddCaps(m, caps) == [m EXCEPT !.card_caps = @ \cup caps]
NoCaps(m) == [m EXCEPT !.card_caps = {}]

sd_change_freq ==
  /\ kind.sd /\ Step("change_freq", "APP_CMD", mmc.rca, "scr")
  /\ mmc' = NoCaps(mmc) /\ left' = ScrRetries
  /\ UNCHANGED <<host, fatal_err, polls, then>>

send_scr ==
  /\ stage = "scr"
  /\ \/ /\ Succeeds("APP_SEND_SCR", 0)
        /\ mmc' = AddCaps(mmc, IF kind.bits4 THEN {"4BIT"} ELSE {})
        /\ Loop(IF kind.v1 THEN "phase" ELSE "check", Checks)
     \/ /\ Fails("APP_SEND_SCR", 0) /\ UNCHANGED mmc
        /\ IF left > 0 THEN Loop("scr", left - 1) ELSE Loop("off", 0)
  /\ UNCHANGED <<board, host, fatal_err, online, lost>>

(* while (timeout--) until the high-speed function is not busy.            *)
sd_check ==
  /\ stage = "check"
  /\ \/ Succeeds("CHECK_FUNC", 0) /\ Loop(IF kind.fast THEN "switch" ELSE "phase", 0)
     \/ Succeeds("CHECK_FUNC", 0) /\ left > 1 /\ Loop("check", left - 1)      \* busy
     \/ Fails("CHECK_FUNC", 0) /\ Loop("off", 0)
  /\ UNCHANGED <<board, hostvars, online, lost>>

sd_switch ==
  Step("switch", "SWITCH_FUNC", 1, "sd_phase") /\ UNCHANGED <<hostvars, loopvars>>

(* switch_status[4]: the function that the card has just switched to.      *)
SdFast == card.hs
sd_switched ==
  /\ stage = "sd_phase"
  /\ \/ PhaseFails /\ Goto("off") /\ UNCHANGED mmc
     \/ /\ PhaseDone /\ Goto("phase")
        /\ mmc' = IF SdFast THEN [AddCaps(mmc, {"HS"}) EXCEPT !.speed_mode = "HSSDR52_SDR25"]
                  ELSE mmc
  /\ UNCHANGED <<board, card, host, fatal_err, online, loopvars, lost>>

-----------------------------------------------------------------------------
(* sunxi_mmc_switch: the result of CMD6 is overwritten by that of the      *)
(* phase update.                                                           *)
SwitchCmd(p, cmd, arg, q) ==
  /\ stage = p /\ Goto(q)
  /\ \/ Succeeds(cmd, arg) /\ UNCHANGED lost
     \/ Fails(cmd, arg) /\ lost' = TRUE
  /\ UNCHANGED <<board, hostvars, online, loopvars>>

SwitchPhase(p, q) ==
  /\ stage = p /\ PhaseDone /\ Goto("status") /\ polls' = StatusPolls /\ then' = q
  /\ UNCHANGED <<board, card, hostvars, online, left, lost>>

(* sunxi_mmc_mmc_change_freq.                                              *)
mmc_change_freq ==
  /\ v4 /\ Step("change_freq", "SEND_EXT_CSD", 0, "hs_cmd")
  /\ mmc' = AddCaps(NoCaps(mmc), {"4BIT", "8BIT"}) /\ left' = HsRetries
  /\ UNCHANGED <<host, fatal_err, polls, then>>
mmc_no_change ==
  /\ stage = "change_freq" /\ ~kind.sd /\ ~v4
  /\ mmc' = NoCaps(mmc) /\ Goto("phase")
  /\ UNCHANGED <<board, card, host, fatal_err, online, loopvars, lost, boundvars>>

mmc_switch_hs == SwitchCmd("hs_cmd", "SWITCH_HS", 1, "hs_phase")
mmc_switched_hs == SwitchPhase("hs_phase", "hs_check")
mmc_retry_hs ==
  /\ stage = "hs_phase" /\ PhaseFails
  /\ IF left > 0 THEN Loop("hs_cmd", left - 1) ELSE Loop("off", 0)
  /\ UNCHANGED <<board, card, hostvars, online, lost>>

(* ext_csd[EXT_CSD_HS_TIMING] is read back, and the card type.             *)
(* Mutant of HsTiming: the switch is believed to have worked.              *)
Believed == TRUE

HsTiming == card.hs
mmc_check_hs ==
  /\ Step("hs_check", "SEND_EXT_CSD", 0, "phase")
  /\ mmc' =
       IF stage' = "off" \/ ~HsTiming THEN mmc
       ELSE IF "DDR_52" \in kind.type
       THEN [AddCaps(mmc, {"HS", "HS_52MHz", "DDR_52MHz"}) EXCEPT !.speed_mode = "HSDDR52_DDR50"]
       ELSE [AddCaps(mmc, {"HS", "HS_52MHz"}) EXCEPT !.speed_mode = "HSSDR52_SDR25"]
  /\ UNCHANGED <<host, fatal_err, loopvars>>

-----------------------------------------------------------------------------
(* sunxi_mmc_probe from the phase update: what the host can do, the width  *)
(* of the bus and its final clock.                                         *)
host_caps ==
  {"HS_52MHz", "HS"}
  \cup (IF board.width >= SMHC_WIDTH_4BIT THEN {"4BIT"} ELSE {})
  \cup (IF ~board.smhc0 /\ board.width = SMHC_WIDTH_8BIT THEN {"8BIT", "4BIT"} ELSE {})

(* Mutant of Restricted: what the card can do is taken for granted.        *)
Unrestricted(caps) == caps

Restricted(caps) == caps \cap host_caps

(* The timing of the host follows; one without DDR falls back a step.      *)
SpeedMode(caps) ==
  IF "DDR_52MHz" \in caps \/ kind.sd THEN mmc.speed_mode
  ELSE IF mmc.speed_mode = "HSDDR52_DDR50" THEN "HSSDR52_SDR25" ELSE "DS26_SDR12"

restrict_caps ==
  /\ stage = "phase"
  /\ \/ PhaseFails /\ Goto("off") /\ UNCHANGED mmc
     \/ /\ PhaseDone
        /\ LET caps == Restricted(mmc.card_caps) IN
             /\ mmc' = [mmc EXCEPT !.card_caps = caps, !.speed_mode = SpeedMode(caps)]
             /\ Goto(CASE kind.sd -> IF "4BIT" \in caps THEN "width_app" ELSE "tran_speed"
                       [] OTHER -> IF {"4BIT", "8BIT"} \cap caps # {} THEN "width_cmd"
                                   ELSE "tran_speed")
  /\ UNCHANGED <<board, card, host, fatal_err, online, loopvars, lost>>

sd_width_app ==
  Step("width_app", "APP_CMD", mmc.rca, "sd_width") /\ UNCHANGED <<hostvars, loopvars>>
sd_width ==
  /\ Step("sd_width", "APP_BUS_WIDTH", SMHC_WIDTH_4BIT, "host_width")
  /\ UNCHANGED <<hostvars, loopvars>>

Width == IF "8BIT" \in mmc.card_caps THEN SMHC_WIDTH_8BIT ELSE SMHC_WIDTH_4BIT
mmc_width ==
  SwitchCmd("width_cmd", "SWITCH_WIDTH", <<Width, "DDR_52MHz" \in mmc.card_caps>>, "width_phase")
mmc_switched_width == SwitchPhase("width_phase", "host_width")
mmc_width_failed ==
  /\ stage = "width_phase" /\ PhaseFails /\ Goto("off")
  /\ UNCHANGED <<board, card, hostvars, online, loopvars, lost>>

set_bus_width ==
  /\ stage = "host_width"
  /\ set_ios([mmc EXCEPT !.bus_width = Width]) /\ Goto("tran_speed")
  /\ UNCHANGED <<board, card, online, loopvars, lost>>

tran_speed ==
  IF kind.sd THEN IF "HS" \in mmc.card_caps THEN 500 ELSE 250
  ELSE IF "DDR_52MHz" \in mmc.card_caps \/ {"HS", "HS_52MHz"} \subseteq mmc.card_caps THEN 520
  ELSE 260

set_tran_speed ==
  /\ stage = "tran_speed" /\ set_clock(tran_speed)
  /\ Goto("online") /\ online' = TRUE
  /\ UNCHANGED <<board, card, loopvars, lost>>

-----------------------------------------------------------------------------
MmcDriver ==
  \/ identification_clock \/ go_idle \/ mmc_go_idle
  \/ sd_send_if_cond \/ sd_app_op_cond \/ sd_send_op_cond \/ mmc_query \/ mmc_send_op_cond
  \/ all_send_cid \/ send_relative_addr \/ send_csd \/ send_status \/ select_card
  \/ transfer_clock \/ probe_ext_csd
  \/ sd_change_freq \/ send_scr \/ sd_check \/ sd_switch \/ sd_switched
  \/ mmc_change_freq \/ mmc_no_change \/ mmc_switch_hs \/ mmc_switched_hs \/ mmc_retry_hs
  \/ mmc_check_hs \/ restrict_caps \/ sd_width_app \/ sd_width \/ mmc_width
  \/ mmc_switched_width \/ mmc_width_failed \/ set_bus_width \/ set_tran_speed

MmcNext == sdmmc_init \/ MmcDriver

(* Once called, the driver runs to its end.                                *)
MmcSpec == MmcInit /\ [][MmcNext]_mmcvars /\ WF_mmcvars(MmcDriver)

-----------------------------------------------------------------------------
Works == online /\ ~fatal_err

(* A card that sdmmc_init reports is selected, knows the address that the  *)
(* driver uses and has the width and the clocking of the controller, on    *)
(* lines that the board has.  After a CMD6 whose error sunxi_mmc_switch    *)
(* lost, the width may differ.                                             *)
BusAgreed ==
  Works =>
    /\ card.st = "tran" /\ card.rca = mmc.rca
    /\ host.width <= board.width
    /\ ~lost => card.width = host.width /\ card.ddr = host.ddr

(* A card that sdmmc_init reports is not clocked faster than the timing    *)
(* that it has switched to allows, whichever CMD6 was not obeyed.          *)
ClockWithinCard == Works => host.clock <= MaxClock(kind, card)

(* Every initialisation ends, with a card or without: no card keeps it     *)
(* polling or retrying.                                                    *)
InitEnds == []<>(stage \in {"off", "online"})
=============================================================================

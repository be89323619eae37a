------------------------------- MODULE MCMmc -------------------------------
(* The two controllers of the boards, with their max_clk of 50 and of      *)
(* 5.2 MHz, and the cards that the driver tells apart.  An eMMC whose card *)
(* type has HS_26 alone is left out: the driver clocks it at 52 MHz.       *)
EXTENDS Mmc

Sd == [card : {d \in Descriptions : d.sd}, smhc0 : {TRUE},
       width : {SMHC_WIDTH_1BIT, SMHC_WIDTH_4BIT}, max_clk : {500}]
Emmc(types, smhc0, clocks) ==
  [card : {d \in Descriptions : ~d.sd /\ d.type \in types}, smhc0 : smhc0,
   width : {SMHC_WIDTH_4BIT, SMHC_WIDTH_8BIT}, max_clk : clocks]

MCBoards == Sd \cup Emmc(CardTypes \ {{"HS_26"}}, {FALSE}, {52, 500})
               \cup Emmc({{"HS_26", "HS_52"}}, {TRUE}, {500})
=============================================================================

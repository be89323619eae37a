------------------------------- MODULE MCBoot -------------------------------
(* Both hosts have the files at the same sectors, so that a sector of one  *)
(* card is never told from the other's by its place.  The cache has 7      *)
(* sectors in chunks of 2 and a byte has 2 bits: of the 3 whole chunks the *)
(* bitmap covers 2, sectors 4 to 6 are not covered and the last chunk ends *)
(* behind the area.  Of the files the SCP, the splash and the beginning of *)
(* the kernel are not covered, and the rest of the kernel lies beyond the  *)
(* cache.  Cards: sound ones with every extlinux.conf or without one of    *)
(* the files, and ones that may fail at any call.                          *)
EXTENDS ExtlinuxBoot

MCCardSectors == [h \in Hosts |-> 14]
MCStart == [bl31 |-> 1, extlinux |-> 3, scp |-> 4, splash |-> 5, kernel |-> 6, dtbo |-> 10,
            fdt |-> 11, initrd |-> 12]
MCSize == [bl31 |-> 2, scp |-> 1, extlinux |-> 1, splash |-> 1, kernel |-> 4, fdt |-> 1,
           initrd |-> 2, dtbo |-> 1]
MCCards ==
  [files : {Files}, keys : SUBSET {"initrd", "dtbo"}, sound : BOOLEAN]
  \cup [files : {Files \ {f} : f \in {"extlinux", "splash", "kernel", "initrd"}},
        keys : {{"initrd"}}, sound : {TRUE}]
=============================================================================

---------------------------- MODULE ExtlinuxBoot ----------------------------
(***************************************************************************)
(* The boot application board/avaota-a1/extlinux_boot/main.c, from the     *)
(* first card controller to the jump to BL31 or the panic, over the cached *)
(* disk of DiskCache.                                                      *)
(*                                                                         *)
(* FatFs is not modelled beyond what main.c and diskio.c see of it: a      *)
(* mount and an open read the directory, an f_read of up to CHUNK_SIZE is  *)
(* one disk_read into the destination, and an error of disk_read is the    *)
(* result of the call.                                                     *)
(***************************************************************************)
EXTENDS DiskCache, FiniteSets

CONSTANTS
  SDC0, SDC2,   \* sdhci0.id and sdhci2.id
  Directory,    \* the sector that FatFs reads to mount and to open
  Start, Size,  \* first sector and length in sectors of every file
  Piece,        \* CHUNK_SIZE in sectors
  Cards         \* bound: the cards put into the hosts

Needed == {"bl31", "scp", "extlinux"}          \* load_sdcard gives up without
Kernel == {"kernel", "fdt"}                    \* load_extlinux gives up without
Files == Needed \cup Kernel \cup {"splash", "initrd", "dtbo"}

ASSUME BootAssumption ==
  /\ SDC0 \in Hosts /\ SDC2 \in Hosts
  /\ Start \in [Files -> Nat] /\ Size \in [Files -> Nat \ {0}]
  /\ Directory \in Nat /\ Piece \in Nat \ {0}
  /\ Cards \subseteq [files : SUBSET Files, keys : SUBSET {"initrd", "dtbo"}, sound : BOOLEAN]

VARIABLES
  card,     \* of every host: the files on it, the keys of its extlinux.conf, and if it may fail
  at,       \* where main is
  attempt,  \* 1, or 2 when load_sdcard is tried again from SDC2
  fs,       \* a FATFS is registered in FatFs
  file,     \* the file loaded: its name, total_read, and the call it waits for
  mem,      \* of every file: the sectors at its destination
  ramdisk   \* ramdisk_size > 0

bootvars == <<card, at, attempt, fs, file, mem, ramdisk>>
vars == <<diskvars, bootvars>>

None == [name |-> "none", read |-> 0, call |-> "none"]

Init ==
  /\ DiskInit
  /\ card \in [Hosts -> Cards]
  /\ at = "sdc0" /\ attempt = 1 /\ fs = FALSE /\ file = None
  /\ mem = [f \in Files |-> <<>>] /\ ramdisk = FALSE

-----------------------------------------------------------------------------
(* sunxi_sdhci_init, which accepts the ids of the board, and sdmmc_init.   *)
InitCard(h, found, lost) ==
  /\ SetHost(h)
  /\ \/ at' = found
     \/ ~card[h].sound /\ at' = lost
  /\ UNCHANGED <<card, fs, file, mem, ramdisk>>

Sdc0 == at = "sdc0" /\ InitCard(SDC0, "mount", "sdc2") /\ UNCHANGED attempt
Sdc2 == at = "sdc2" /\ InitCard(SDC2, "mount", "failed") /\ UNCHANGED attempt
Again == at = "again" /\ InitCard(SDC2, "mount", "failed") /\ attempt' = 2

(* Mutant of GiveUp: the second card is not tried once the first mounted. *)
GiveUpAlways == "failed"

GiveUp == IF attempt = 1 THEN "again" ELSE "failed"

-----------------------------------------------------------------------------
(* One disk_read of FatFs; a card that is sound does not fail a transfer   *)
(* that lies on it.                                                        *)
Read(s, n) == disk_read(0, s, n)
DiskRound ==
  /\ Round
  /\ (card[hci].sound /\ OnCard) => rd'.state # "RES_ERROR"
  /\ UNCHANGED bootvars
Ended == rd.state \notin {"idle", "loop"}
Ok == rd.state = "RES_OK"
Waits(call) == file' = [file EXCEPT !.call = call]

(* f_mount(&fs, "", 1): the file system is registered, whatever it reads.  *)
MountBegin ==
  /\ at \in {"mount", "xmount"} /\ file = None
  /\ Initialize(0)
  /\ fs' = TRUE /\ Waits("init")
  /\ UNCHANGED <<card, at, attempt, mem, ramdisk>>

MountRead ==
  /\ file.call = "init" /\ Read(Directory, 1) /\ Waits("mount")
  /\ UNCHANGED <<card, at, attempt, fs, mem, ramdisk>>

MountEnd ==
  /\ file.call = "mount" /\ Ended /\ UNCHANGED diskvars
  /\ file' = None
  /\ at' = CASE ~Ok -> IF at = "mount" THEN GiveUp ELSE "failed"
             [] Ok -> IF at = "mount" THEN "bl31" ELSE "kernel"
  /\ UNCHANGED <<card, attempt, fs, mem, ramdisk>>

-----------------------------------------------------------------------------
(* fatfs_loadimage_size.                                                   *)
(* The keys that parse_extlinux_data finds where extlinux.conf was loaded. *)
data == IF mem["extlinux"] = <<>> THEN {} ELSE card[mem["extlinux"][1][1]].keys

(* What follows the load of a file in load_sdcard and load_extlinux.       *)
After(f) == CASE f = "bl31" -> "scp" [] f = "scp" -> "extlinux" [] f = "extlinux" -> "splash"
              [] f = "splash" -> "umount" [] f = "kernel" -> "fdt"
              [] f = "fdt" -> IF "initrd" \in data THEN "initrd" ELSE "xumount"
              [] f = "initrd" -> "xumount"

LoadEnd(f, done) ==
  /\ file' = None
  /\ at' = CASE f \in Needed /\ ~done -> GiveUp
             [] f \in Kernel \cup {"dtbo"} /\ ~done -> "failed"
             [] OTHER -> After(f)
  /\ ramdisk' = IF f = "initrd" THEN done ELSE ramdisk

(* f_open fails when nothing is mounted: FR_NOT_ENABLED.                   *)
OpenBegin ==
  /\ at \in Files /\ file = None
  /\ IF fs THEN Read(Directory, 1) /\ file' = [name |-> at, read |-> 0, call |-> "open"]
                /\ UNCHANGED <<at, ramdisk>>
     ELSE LoadEnd(at, FALSE) /\ UNCHANGED diskvars
  /\ UNCHANGED <<card, attempt, fs, mem>>

(* The directory that has been read says if there is such a file.          *)
OpenEnd ==
  /\ file.call = "open" /\ Ended /\ UNCHANGED diskvars
  /\ IF Ok /\ file.name \in card[rd.buff[1][1]].files
     THEN Waits("read") /\ UNCHANGED <<at, ramdisk>>
     ELSE LoadEnd(file.name, FALSE)
  /\ UNCHANGED <<card, attempt, fs, mem>>

Wanted == IF Size[file.name] - file.read < Piece THEN Size[file.name] - file.read ELSE Piece

(* f_read; at the end of the file there is nothing to read from the disk.  *)
ReadBegin ==
  /\ file.call = "read" /\ Wanted > 0
  /\ Read(Start[file.name] + file.read, Wanted) /\ Waits("piece")
  /\ UNCHANGED <<card, at, attempt, fs, mem, ramdisk>>

(* Mutant of More: a short read does not end the loop. *)
MoreWhileOk(n, ok) == ok

(* The condition of the loop.                                              *)
More(n, ok) == n >= Piece /\ ok

(* Mutant of ReadOk: what was read of the file is good enough. *)
WhatThereIs(ok) == TRUE

ReadOk(ok) == ok

(* What n sectors at dest make of the memory there.                        *)
Stored(old, dest, new) ==
  [i \in 1 .. IF Len(old) > dest + Len(new) THEN Len(old) ELSE dest + Len(new) |->
     IF i > dest /\ i <= dest + Len(new) THEN new[i - dest] ELSE old[i]]

Loop(n, ok) ==
  IF More(n, ok) THEN file' = [file EXCEPT !.read = @ + n, !.call = "read"] /\ UNCHANGED <<at, ramdisk>>
  ELSE LoadEnd(file.name, ReadOk(ok))

ReadEnd ==
  /\ file.call = "piece" /\ Ended /\ UNCHANGED diskvars
  /\ mem' = [mem EXCEPT ![file.name] = Stored(@, file.read, rd.buff)]
  /\ Loop(IF Ok THEN Len(rd.buff) ELSE 0, Ok)
  /\ UNCHANGED <<card, attempt, fs>>

EndOfFile ==
  /\ file.call = "read" /\ Wanted = 0
  /\ Loop(0, TRUE)
  /\ UNCHANGED <<diskvars, card, attempt, fs, mem>>

-----------------------------------------------------------------------------
Goto(next) == at' = next /\ UNCHANGED <<diskvars, card, attempt, file, mem, ramdisk>>

Umount == /\ at \in {"umount", "xumount"} /\ fs' = FALSE
          /\ Goto(IF at = "umount" THEN "xmount" ELSE "fixup")

(* The edits of the device tree; they may fail on a card that is not sound.*)
Fixup == /\ at = "fixup"
         /\ \/ Goto(IF "dtbo" \in data THEN "dtbo" ELSE "jumped")
            \/ ~card[hci].sound /\ Goto("failed")
         /\ UNCHANGED fs

Over == at \in {"jumped", "failed"} /\ UNCHANGED vars

Load == OpenBegin \/ OpenEnd \/ ReadBegin \/ ReadEnd \/ EndOfFile
Main == Sdc0 \/ Sdc2 \/ Again \/ MountBegin \/ MountRead \/ MountEnd \/ Load \/ Umount \/ Fixup
Next == Main \/ DiskRound \/ Over

Spec == Init /\ [][Next]_vars /\ WF_vars(Main \/ DiskRound)

-----------------------------------------------------------------------------
(* All sectors of a file of the card in host h.  A directory that the      *)
(* bitmap does not cover may be an earlier card's, which then says what    *)
(* files there are.                                                        *)
Complete(f, h) ==
  /\ Directory \notin Uncovered => f \in card[h].files
  /\ Len(mem[f]) >= Size[f]
  /\ \A i \in 1 .. Size[f] : mem[f][i] \in SectorOf(Start[f] + i - 1, h)

(* When the board jumps to BL31 all that it needs is in memory, complete   *)
(* and from the card in use, except for sectors that the bitmap does not   *)
(* cover, and so is the initrd if the device tree announces one, whatever  *)
(* the attempt on the other card has left.                                 *)
BootsWhatItLoaded ==
  at = "jumped" => /\ \A f \in Needed \cup Kernel : Complete(f, hci)
                   /\ ramdisk => Complete("initrd", hci)

(* A sound SDC2 with all the files and no overlay boots, unless load_sdcard*)
(* has been through with the card in SDC0 already.  (If the bitmap did not *)
(* cover the directory or extlinux.conf, the first card's could be taken.) *)
EmmcBoots ==
  LET good == /\ card[SDC2].sound /\ Needed \cup Kernel \subseteq card[SDC2].files
              /\ "dtbo" \notin card[SDC2].keys
  IN  at = "failed" /\ good => hci = SDC0 /\ \A f \in Needed : Complete(f, SDC0)

(* The attempts end: main jumps to BL31 or gives up.                       *)
BootEnds == <>(at \in {"jumped", "failed"})
=============================================================================

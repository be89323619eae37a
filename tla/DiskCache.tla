----------------------------- MODULE DiskCache -----------------------------
(***************************************************************************)
(* The glue between FatFs and the card (lib/fatfs/diskio.c): a read cache  *)
(* in SDRAM, filled in chunks of sectors, with one bit for each chunk.     *)
(*                                                                         *)
(* The contents of a sector stand for where it was read: <<h, s>> is       *)
(* sector s of the card in host h.  rd is the call of disk_read that is at *)
(* work or was the last to return, one round of its loop per step.         *)
(*                                                                         *)
(* FATFS_CACHE_SIZE need not be a whole number of bitmap bytes, and on     *)
(* most boards it is not.  The divisions then leave the last sectors of    *)
(* the area without a bit in cache_bitmap (Uncovered): CACHE_IS_VALID and  *)
(* CACHE_SET_VALID use the byte behind the array for them, which the       *)
(* memset of a card change does not clear.  That byte is taken to be       *)
(* padding of .bss: clear at the start and written by nobody else.         *)
(***************************************************************************)
EXTENDS Integers, Sequences

CONSTANTS
  Hosts,            \* card0.hci->id of the controllers the board uses
  CardSectors,      \* sectors of the card in a host
  SectorsPerBit,    \* FATFS_CACHE_SECTORS_PER_BIT
  CacheSectors,     \* FATFS_CACHE_SECTORS
  ByteBits,         \* 8
  Garbage           \* what SDRAM holds before it is written

ASSUME CacheAssumption ==
  /\ Hosts \subseteq Nat
  /\ CardSectors \in [Hosts -> Nat]
  /\ SectorsPerBit \in Nat \ {0} /\ ByteBits \in Nat \ {0}
  /\ CacheSectors \in Nat
  /\ Garbage \notin Hosts \X Nat

VARIABLES
  Stat,          \* TRUE: STA_NOINIT is set
  cache_data, cache_bitmap, cache_pdrv, current_cache_sdhci_id,
  hci,           \* card0.hci->id
  rd

cachevars == <<cache_data, cache_bitmap, cache_pdrv, current_cache_sdhci_id>>
diskvars == <<Stat, cachevars, hci, rd>>

FATFS_CACHE_CHUNKS == CacheSectors \div SectorsPerBit
CACHE_BIT(s) == s \div SectorsPerBit

(* The bits of the array, and with those of the byte behind it.            *)
Bits == 0 .. (FATFS_CACHE_CHUNKS \div ByteBits) * ByteBits - 1
BitsUsed == 0 .. (FATFS_CACHE_CHUNKS \div ByteBits + 1) * ByteBits - 1

(* The sectors that are cached, and with those behind them that the last   *)
(* chunk may be loaded to.                                                 *)
CacheArea == 0 .. CacheSectors - 1
Slots == 0 .. CacheSectors + SectorsPerBit - 2

Uncovered == {s \in CacheArea : CACHE_BIT(s) \notin Bits}

DiskInit ==
  /\ Stat = TRUE
  /\ cache_data = [s \in Slots |-> Garbage] /\ cache_bitmap = {}
  /\ cache_pdrv = 255 /\ current_cache_sdhci_id = -1
  /\ hci \in Hosts
  /\ rd = [state |-> "idle", first |-> 0, count |-> 0, host |-> hci, buff |-> <<>>]

Idle == rd.state # "loop"

-----------------------------------------------------------------------------
(* sdmmc_blk_read of n sectors from s on: the card answers with all of     *)
(* them, or the transfer fails after k of them.                            *)
CanRead(s, n) == s + n <= CardSectors[hci]
Sectors(s, k) == [i \in 1 .. k |-> <<hci, s + i - 1>>]

disk_initialize(pdrv) == Stat' = (IF pdrv = 0 THEN FALSE ELSE Stat)

(* Mutant of Changed: the controller does not matter. *)
ChangedDrive(pdrv) == pdrv # cache_pdrv

Changed(pdrv) == pdrv # cache_pdrv \/ current_cache_sdhci_id # hci

(* disk_read up to its loop.  The memset clears the array and no more.     *)
(* cache_pdrv is a BYTE, which is never -1: the first call clears as well. *)
disk_read(pdrv, start, count) ==
  LET state == CASE pdrv # 0 \/ count = 0 -> "RES_PARERR"
                 [] pdrv = 0 /\ count # 0 /\ Stat -> "RES_NOTRDY"
                 [] OTHER -> "loop"
  IN  /\ Idle
      /\ rd' = [state |-> state, first |-> start, count |-> count, host |-> hci, buff |-> <<>>]
      /\ IF state # "loop" THEN UNCHANGED cachevars
         ELSE /\ cache_bitmap' = IF Changed(pdrv) THEN cache_bitmap \ Bits ELSE cache_bitmap
              /\ cache_pdrv' = pdrv
              /\ current_cache_sdhci_id' = hci
              /\ UNCHANGED cache_data
      /\ UNCHANGED <<Stat, hci>>

sector == rd.first + Len(rd.buff)
left == rd.count - Len(rd.buff)

Fails(k) == rd' = [rd EXCEPT !.state = "RES_ERROR", !.buff = @ \o Sectors(sector, k)]
Copied(buff) == rd' = [rd EXCEPT !.buff = buff,
                                 !.state = IF Len(buff) = rd.count THEN "RES_OK" ELSE "loop"]

(* The rest lies beyond the cache and is read straight into the buffer.    *)
Direct ==
  /\ rd.state = "loop" /\ sector >= CacheSectors
  /\ \/ CanRead(sector, left) /\ Copied(rd.buff \o Sectors(sector, left))
     \/ \E k \in 0 .. left - 1 : Fails(k)
  /\ UNCHANGED <<Stat, cachevars, hci>>

Hit ==
  /\ rd.state = "loop" /\ sector < CacheSectors /\ CACHE_BIT(sector) \in cache_bitmap
  /\ Copied(Append(rd.buff, cache_data[sector]))
  /\ UNCHANGED <<Stat, cachevars, hci>>

Chunk(s) == s - (s % SectorsPerBit)

(* cache_data after k sectors have been read to where the chunk of s goes. *)
Loaded(s, k) ==
  LET new == Chunk(s) .. Chunk(s) + k - 1
  IN  [t \in Slots \cup new |-> IF t \in new THEN <<hci, t>> ELSE cache_data[t]]

(* Mutant of ValidAfter: the bit is set before the chunk is read. *)
ValidBefore(s, ok) == cache_bitmap \cup {CACHE_BIT(s)}

ValidAfter(s, ok) == IF ok THEN cache_bitmap \cup {CACHE_BIT(s)} ELSE cache_bitmap

Miss ==
  /\ rd.state = "loop" /\ sector < CacheSectors /\ CACHE_BIT(sector) \notin cache_bitmap
  /\ \/ /\ CanRead(Chunk(sector), SectorsPerBit)
        /\ cache_data' = Loaded(sector, SectorsPerBit)
        /\ cache_bitmap' = ValidAfter(sector, TRUE)
        /\ Copied(Append(rd.buff, cache_data'[sector]))
     \/ \E k \in 0 .. SectorsPerBit - 1 :
          /\ cache_data' = Loaded(sector, k)
          /\ cache_bitmap' = ValidAfter(sector, FALSE)
          /\ Fails(0)
  /\ UNCHANGED <<Stat, cache_pdrv, current_cache_sdhci_id, hci>>

Round == Direct \/ Hit \/ Miss

(* What the round reads lies on the card.                                  *)
OnCard ==
  /\ sector >= CacheSectors => CanRead(sector, left)
  /\ sector < CacheSectors /\ CACHE_BIT(sector) \notin cache_bitmap
       => CanRead(Chunk(sector), SectorsPerBit)

(* sdmmc_init, between two calls: card0.hci is another controller.         *)
SetHost(h) == Idle /\ hci' = h /\ UNCHANGED <<Stat, cachevars, rd>>

Initialize(pdrv) == Idle /\ disk_initialize(pdrv) /\ UNCHANGED <<cachevars, hci, rd>>

DiskNext ==
  \/ \E pdrv \in {0, 1} : Initialize(pdrv) \/ \E s, n \in Nat : disk_read(pdrv, s, n)
  \/ Round
  \/ \E h \in Hosts : SetHost(h)

DiskSpec == DiskInit /\ [][DiskNext]_diskvars

-----------------------------------------------------------------------------
(* No read uses a bit further than one byte behind cache_bitmap, or writes *)
(* further behind the area than the end of the chunk that begins in it.    *)
DiskTypeOK ==
  /\ Stat \in BOOLEAN
  /\ cache_data \in [Slots -> (Hosts \X Nat) \cup {Garbage}]
  /\ cache_bitmap \subseteq BitsUsed
  /\ cache_pdrv \in {0, 255}
  /\ current_cache_sdhci_id \in Hosts \cup {-1}
  /\ hci \in Hosts
  /\ rd \in [state : {"idle", "loop", "RES_OK", "RES_ERROR", "RES_NOTRDY", "RES_PARERR"},
             first : Nat, count : Nat, host : Hosts, buff : Seq((Hosts \X Nat) \cup {Garbage})]

(* What may be had for sector s when the card in use is that of host h:    *)
(* this sector of this card, but if the array has no bit for it the sector *)
(* of any card that was ever in use.                                       *)
SectorOf(s, h) == IF s \in Uncovered THEN Hosts \X {s} ELSE {<<h, s>>}

(* A set bit says that all of its chunk is in the cache and of the card    *)
(* that the cache was last used for, after every transfer that failed half *)
(* way and every change of the card; a bit behind the array, that it is    *)
(* all there and of some card.                                             *)
ChunksWhole ==
  \A s \in CacheArea : CACHE_BIT(s) \in cache_bitmap
                          => cache_data[s] \in SectorOf(s, current_cache_sdhci_id)

(* A read that returns RES_OK has given every sector asked for, of the     *)
(* card that was in use when it was called: never one that a transfer that *)
(* failed left in the cache, and one of an earlier card only where the     *)
(* array has no bit.                                                       *)
ReadsCurrentCard ==
  rd.state = "RES_OK" =>
    /\ Len(rd.buff) = rd.count
    /\ \A i \in 1 .. rd.count : rd.buff[i] \in SectorOf(rd.first + i - 1, rd.host)
=============================================================================

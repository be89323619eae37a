-------------------------- MODULE DiskCacheProofs --------------------------
(***************************************************************************)
(* Proofs about the read cache of diskio.c, for every size of the cache,   *)
(* of the cards and of a request, and for the boot application over it.    *)
(***************************************************************************)
EXTENDS ExtlinuxBoot, SequenceTheorems, TLAPS

(* Division by a constant: n = q * (n \div q) + n % q.                     *)
LEMMA Division ==
  ASSUME NEW n \in Nat, NEW q \in Nat, q > 0
  PROVE  /\ n \div q \in Nat /\ n % q \in 0 .. q - 1
         /\ n = q * (n \div q) + (n % q)
  BY SMT

(* A product grows with its factor.                                        *)
LEMMA Multiples ==
  ASSUME NEW q \in Nat, NEW a \in Nat, NEW b \in Nat, a < b
  PROVE  q * a + q <= q * b
  BY SMT

(* Only one multiple of q is at most n and within q of it.                 *)
LEMMA Quotient ==
  ASSUME NEW n \in Nat, NEW q \in Nat, q > 0, NEW a \in Nat, q * a <= n, n < q * a + q
  PROVE  n \div q = a
<1> DEFINE d == n \div q
<1>1. d \in Nat /\ q * d <= n /\ n < q * d + q  BY Division, SMT
<1>2. CASE d < a
  <2>1. q * d + q <= q * a  BY <1>1, <1>2, Multiples
  <2> QED  BY <1>1, <2>1, SMT
<1>3. CASE a < d
  <2>1. q * a + q <= q * d  BY <1>1, <1>3, Multiples
  <2> QED  BY <1>1, <2>1, SMT
<1> QED  BY <1>1, <1>2, <1>3, SMT

(* A chunk is the sectors that share a bit.                                *)
LEMMA ChunkIsBit ==
  ASSUME NEW s \in Nat, NEW t \in Nat
  PROVE  /\ Chunk(s) \in Nat /\ CACHE_BIT(s) \in Nat
         /\ s \in Chunk(s) .. Chunk(s) + SectorsPerBit - 1
         /\ t \in Chunk(s) .. Chunk(s) + SectorsPerBit - 1 <=> CACHE_BIT(t) = CACHE_BIT(s)
<1> DEFINE P == SectorsPerBit
<1>0. P \in Nat /\ P > 0  BY CacheAssumption
<1>1. /\ CACHE_BIT(s) \in Nat /\ s % P \in 0 .. P - 1
      /\ s = P * CACHE_BIT(s) + (s % P)
  BY <1>0, Division DEF CACHE_BIT
<1>2. /\ CACHE_BIT(t) \in Nat /\ t % P \in 0 .. P - 1
      /\ t = P * CACHE_BIT(t) + (t % P)
  BY <1>0, Division DEF CACHE_BIT
<1>3. P * CACHE_BIT(s) \in Nat /\ Chunk(s) = P * CACHE_BIT(s)
  BY <1>0, <1>1, SMT DEF Chunk
<1>4. ASSUME t \in Chunk(s) .. Chunk(s) + P - 1  PROVE CACHE_BIT(t) = CACHE_BIT(s)
  <2>1. P * CACHE_BIT(s) <= t /\ t < P * CACHE_BIT(s) + P  BY <1>0, <1>3, <1>4
  <2> QED  BY <1>0, <1>1, <2>1, Quotient DEF CACHE_BIT
<1>5. ASSUME CACHE_BIT(t) = CACHE_BIT(s)  PROVE t \in Chunk(s) .. Chunk(s) + P - 1
  <2>1. t = Chunk(s) + (t % P)  BY <1>2, <1>3, <1>5
  <2> QED  BY <1>0, <1>2, <1>3, <2>1
<1>6. s \in Chunk(s) .. Chunk(s) + P - 1
  BY <1>0, <1>1, <1>3
<1> QED  BY <1>1, <1>3, <1>4, <1>5, <1>6

(* The chunk of a sector that is cached ends within the slots, and its bit *)
(* is at most one byte behind the array.                                   *)
LEMMA ChunkInSlots ==
  ASSUME NEW s \in Nat, s < CacheSectors
  PROVE  /\ CACHE_BIT(s) \in BitsUsed
         /\ Chunk(s) .. Chunk(s) + SectorsPerBit - 1 \subseteq Slots
<1> DEFINE P == SectorsPerBit
           chunks == CacheSectors \div P
           bytes == chunks \div ByteBits
<1>0. P \in Nat /\ P > 0 /\ ByteBits \in Nat /\ ByteBits > 0 /\ CacheSectors \in Nat
  BY CacheAssumption
<1>1. /\ chunks \in Nat /\ CacheSectors % P \in 0 .. P - 1
      /\ CacheSectors = P * chunks + (CacheSectors % P)
  BY <1>0, Division
<1>2. /\ bytes \in Nat /\ chunks % ByteBits \in 0 .. ByteBits - 1
      /\ chunks = ByteBits * bytes + (chunks % ByteBits)
  BY <1>0, <1>1, Division
<1>3. /\ CACHE_BIT(s) \in Nat /\ s % P \in 0 .. P - 1
      /\ s = P * CACHE_BIT(s) + (s % P)
  BY <1>0, Division DEF CACHE_BIT
<1>4. BitsUsed = 0 .. (bytes + 1) * ByteBits - 1
  BY DEF BitsUsed, FATFS_CACHE_CHUNKS
<1> HIDE DEF chunks, bytes
<1>5. P * CACHE_BIT(s) \in Nat /\ Chunk(s) = P * CACHE_BIT(s)
  BY <1>0, <1>3, SMT DEF Chunk
<1>6. CACHE_BIT(s) <= chunks
  <2> SUFFICES ASSUME chunks < CACHE_BIT(s)  PROVE FALSE
    BY <1>1, <1>3
  <2>1. P * chunks + P <= P * CACHE_BIT(s)  BY <1>0, <1>1, <1>3, Multiples
  <2>2. P * chunks \in Nat  BY <1>0, <1>1
  <2> QED  BY <1>0, <1>1, <1>3, <1>5, <2>1, <2>2
<1>7. (bytes + 1) * ByteBits = ByteBits * bytes + ByteBits /\ ByteBits * bytes \in Nat
  BY <1>0, <1>2
<1>8. CACHE_BIT(s) < (bytes + 1) * ByteBits  BY <1>0, <1>1, <1>2, <1>3, <1>6, <1>7
<1>9. CACHE_BIT(s) \in BitsUsed  BY <1>0, <1>2, <1>3, <1>4, <1>7, <1>8
<1>10. Chunk(s) <= s  BY <1>0, <1>3, <1>5
<1> QED  BY <1>0, <1>5, <1>9, <1>10 DEF Slots

(* Cached sectors have slots.                                              *)
LEMMA AreaInSlots == CacheArea \subseteq Slots /\ CacheArea \subseteq Nat /\ Slots \subseteq Nat
  BY CacheAssumption DEF CacheArea, Slots

(* The sector of the card in use is what is asked for; an earlier card's   *)
(* is as good where the array has no bit.                                  *)
LEMMA SectorOfFacts ==
  ASSUME NEW s \in Nat, NEW h \in Hosts
  PROVE  /\ <<h, s>> \in SectorOf(s, h) /\ SectorOf(s, h) \subseteq Hosts \X {s}
         /\ s \notin Uncovered => SectorOf(s, h) = {<<h, s>>}
         /\ s \in Uncovered => \A g : SectorOf(s, g) = SectorOf(s, h)
BY DEF SectorOf
-----------------------------------------------------------------------------
(* What a call that is at work has collected; with that, what the bits of  *)
(* the cache say is inductive.                                             *)
AtWork ==
  rd.state = "loop" => /\ current_cache_sdhci_id = hci /\ rd.host = hci
                       /\ Len(rd.buff) < rd.count
BuffTrue ==
  rd.state \in {"loop", "RES_OK"}
     => \A i \in 1 .. Len(rd.buff) : rd.buff[i] \in SectorOf(rd.first + i - 1, rd.host)
AllThere == rd.state = "RES_OK" => Len(rd.buff) = rd.count
DiskInv == DiskTypeOK /\ ChunksWhole /\ AtWork /\ BuffTrue /\ AllThere

Content == (Hosts \X Nat) \cup {Garbage}

(* The sectors a card answers with, one after the other.                   *)
LEMMA SectorsAre ==
  ASSUME NEW s \in Nat, NEW k \in Nat, hci \in Hosts
  PROVE  /\ Sectors(s, k) \in Seq(Content) /\ Len(Sectors(s, k)) = k
         /\ \A i \in 1 .. k : Sectors(s, k)[i] = <<hci, s + i - 1>>
<1>1. \A i \in 1 .. k : s + i - 1 \in Nat  OBVIOUS
<1>2. \A i \in 1 .. k : <<hci, s + i - 1>> \in Content  BY <1>1 DEF Content
<1> QED  BY <1>2 DEF Sectors

(* Loading a chunk changes the cache in its slots only, and gives the      *)
(* sectors of the chunk once all of it is there.                           *)
LEMMA LoadedIs ==
  ASSUME DiskTypeOK, NEW s \in Nat, s < CacheSectors, NEW k \in 0 .. SectorsPerBit
  PROVE  /\ Loaded(s, k) \in [Slots -> Content]
         /\ \A t \in CacheArea : CACHE_BIT(t) # CACHE_BIT(s) => Loaded(s, k)[t] = cache_data[t]
         /\ k = SectorsPerBit =>
              \A t \in CacheArea : CACHE_BIT(t) = CACHE_BIT(s) => Loaded(s, k)[t] = <<hci, t>>
<1> DEFINE new == Chunk(s) .. Chunk(s) + k - 1
<1>0. SectorsPerBit \in Nat  BY CacheAssumption
<1>1. Chunk(s) \in Nat  BY ChunkIsBit
<1>2. new \subseteq Chunk(s) .. Chunk(s) + SectorsPerBit - 1  BY <1>0, <1>1
<1>3. new \subseteq Slots  BY <1>2, ChunkInSlots
<1>4. CacheArea \subseteq Slots /\ Slots \subseteq Nat  BY AreaInSlots
<1> HIDE DEF new
<1>5. Loaded(s, k) = [t \in Slots |-> IF t \in new THEN <<hci, t>> ELSE cache_data[t]]
  <2>1. Slots \cup new = Slots  BY <1>3
  <2> QED  BY <2>1 DEF Loaded, new
<1>6. \A t \in Slots : <<hci, t>> \in Content /\ cache_data[t] \in Content
  BY <1>4 DEF DiskTypeOK, Content
<1>7. Loaded(s, k) \in [Slots -> Content]  BY <1>5, <1>6
<1>8. ASSUME NEW t \in CacheArea, CACHE_BIT(t) # CACHE_BIT(s)
      PROVE  Loaded(s, k)[t] = cache_data[t]
  <2>1. t \in Slots /\ t \in Nat  BY <1>4
  <2>2. t \notin new  BY <1>2, <1>8, <2>1, ChunkIsBit
  <2> QED  BY <1>5, <2>1, <2>2
<1>9. ASSUME k = SectorsPerBit, NEW t \in CacheArea, CACHE_BIT(t) = CACHE_BIT(s)
      PROVE  Loaded(s, k)[t] = <<hci, t>>
  <2>1. t \in Slots /\ t \in Nat  BY <1>4
  <2>2. t \in new  BY <1>9, <2>1, ChunkIsBit DEF new
  <2> QED  BY <1>5, <2>1, <2>2
<1> QED  BY <1>7, <1>8, <1>9

(* The invariant holds at the start: no bit is set.                        *)
LEMMA DiskInvInit == DiskInit => DiskInv
<1> SUFFICES ASSUME DiskInit PROVE DiskInv  OBVIOUS
<1> QED  BY DEF DiskInit, DiskInv, DiskTypeOK, ChunksWhole, AtWork, BuffTrue, AllThere

(* A call clears the cache when its contents are another card's.           *)
LEMMA ReadStarts ==
  ASSUME DiskInv, NEW pdrv \in {0, 1}, NEW s \in Nat, NEW n \in Nat, disk_read(pdrv, s, n)
  PROVE  DiskInv'
<1>1. /\ rd'.state \in {"RES_PARERR", "RES_NOTRDY", "loop"}
      /\ rd' = [state |-> rd'.state, first |-> s, count |-> n, host |-> hci, buff |-> <<>>]
      /\ UNCHANGED <<Stat, hci, cache_data>>
  BY DEF disk_read, cachevars
<1>2. <<>> \in Seq(Content) /\ Len(<<>>) = 0  OBVIOUS
<1>3. rd' \in [state : {"idle", "loop", "RES_OK", "RES_ERROR", "RES_NOTRDY", "RES_PARERR"},
               first : Nat, count : Nat, host : Hosts, buff : Seq(Content)]
  <2>1. hci \in Hosts  BY DEF DiskInv, DiskTypeOK
  <2>2. rd'.buff = <<>>  BY <1>1
  <2>3. rd'.buff \in Seq(Content)  BY <1>2, <2>2, Zenon
  <2>4. rd' = [state |-> rd'.state, first |-> s, count |-> n, host |-> hci, buff |-> rd'.buff]
    BY <1>1
  <2>5. rd'.state \in {"idle", "loop", "RES_OK", "RES_ERROR", "RES_NOTRDY", "RES_PARERR"}
    BY <1>1
  <2> QED  BY <2>1, <2>3, <2>4, <2>5
<1>4. CASE rd'.state # "loop"
  <2>1. UNCHANGED cachevars  BY <1>4 DEF disk_read
  <2> QED  BY <1>1, <1>2, <1>3, <1>4, <2>1
           DEF DiskInv, DiskTypeOK, ChunksWhole, AtWork, BuffTrue, AllThere, cachevars, Content
<1>5. CASE rd'.state = "loop"
  <2>1. /\ pdrv = 0 /\ n # 0
        /\ cache_bitmap' = IF Changed(pdrv) THEN cache_bitmap \ Bits ELSE cache_bitmap
        /\ cache_pdrv' = pdrv /\ current_cache_sdhci_id' = hci
    BY <1>5 DEF disk_read
  <2>2. DiskTypeOK'
    BY <1>1, <1>3, <2>1 DEF DiskInv, DiskTypeOK, Content
  <2>3. ChunksWhole'
    <3> SUFFICES ASSUME NEW t \in CacheArea, CACHE_BIT(t) \in cache_bitmap'
                 PROVE  cache_data[t] \in SectorOf(t, hci)
      BY <1>1, <2>1 DEF ChunksWhole
    <3>1. CACHE_BIT(t) \in cache_bitmap  BY <2>1
    <3>2. cache_data[t] \in SectorOf(t, current_cache_sdhci_id)
      BY <3>1 DEF DiskInv, ChunksWhole
    <3>3. CASE Changed(pdrv)
      <4>1. t \in Uncovered  BY <2>1, <3>3 DEF Uncovered
      <4> QED  BY <3>2, <4>1 DEF SectorOf
    <3>4. CASE ~Changed(pdrv)  BY <3>2, <3>4 DEF Changed
    <3> QED  BY <3>3, <3>4
  <2>4. AtWork' /\ BuffTrue' /\ AllThere'
    BY <1>1, <1>2, <1>5, <2>1 DEF AtWork, BuffTrue, AllThere
  <2> QED  BY <2>2, <2>3, <2>4 DEF DiskInv
<1> QED  BY <1>4, <1>5

(* Two sequences, one behind the other.                                    *)
LEMMA Joined ==
  ASSUME NEW S, NEW s1 \in Seq(S), NEW s2 \in Seq(S)
  PROVE  /\ s1 \o s2 \in Seq(S) /\ Len(s1 \o s2) = Len(s1) + Len(s2)
         /\ \A i \in 1 .. Len(s1 \o s2) :
              (s1 \o s2)[i] = IF i <= Len(s1) THEN s1[i] ELSE s2[i - Len(s1)]
<1>1. Len(s1 \o s2) = Len(s1) + Len(s2)  BY ConcatProperties
<1>2. \A i \in 1 .. Len(s1) + Len(s2) :
        (s1 \o s2)[i] = IF i <= Len(s1) THEN s1[i] ELSE s2[i - Len(s1)]
  BY ConcatProperties, Zenon
<1>3. s1 \o s2 \in Seq(S)  BY ConcatProperties, Zenon
<1> QED  BY <1>1, <1>2, <1>3, Zenon

(* Appending the next sectors of the card in use keeps the answer true.    *)
LEMMA CopiedTrue ==
  ASSUME DiskInv, rd.state = "loop", NEW k \in Nat, k > 0, k <= left,
         NEW new \in Seq(Content), Len(new) = k,
         \A i \in 1 .. k : new[i] \in SectorOf(sector + i - 1, hci),
         Copied(rd.buff \o new), UNCHANGED <<hci, current_cache_sdhci_id>>
  PROVE  /\ rd' \in [state : {"loop", "RES_OK"}, first : Nat, count : Nat, host : Hosts,
                      buff : Seq(Content)]
         /\ AtWork' /\ BuffTrue' /\ AllThere'
<1> DEFINE b == rd.buff
           both == b \o new
<1>0. /\ b \in Seq(Content) /\ rd.first \in Nat /\ rd.count \in Nat /\ rd.host \in Hosts
      /\ Len(b) \in Nat /\ Len(b) < rd.count /\ rd.host = hci /\ current_cache_sdhci_id = hci
  BY DEF DiskInv, DiskTypeOK, AtWork, Content
<1>1. /\ both \in Seq(Content) /\ Len(both) = Len(b) + k
      /\ \A i \in 1 .. Len(both) : both[i] = IF i <= Len(b) THEN b[i] ELSE new[i - Len(b)]
  <2>1. b \in Seq(Content) /\ new \in Seq(Content) /\ Len(new) = k  BY <1>0
  <2> HIDE DEF b
  <2>2. /\ b \o new \in Seq(Content) /\ Len(b \o new) = Len(b) + Len(new)
        /\ \A i \in 1 .. Len(b \o new) :
             (b \o new)[i] = IF i <= Len(b) THEN b[i] ELSE new[i - Len(b)]
    BY <2>1, Joined, Zenon
  <2> QED  BY <2>1, <2>2, Zenon
<1>2. \A i \in 1 .. Len(both) : both[i] = IF i <= Len(b) THEN b[i] ELSE new[i - Len(b)]
  BY <1>1
<1> HIDE DEF both
<1>3. /\ rd'.state = IF Len(both) = rd.count THEN "RES_OK" ELSE "loop"
      /\ rd'.first = rd.first /\ rd'.count = rd.count /\ rd'.host = rd.host /\ rd'.buff = both
      /\ rd' = [state |-> rd'.state, first |-> rd.first, count |-> rd.count, host |-> rd.host,
                buff |-> both]
  BY DEF Copied, both, DiskInv, DiskTypeOK
<1>4. Len(both) <= rd.count  BY <1>0, <1>1 DEF left
<1>5. ASSUME NEW i \in 1 .. Len(both)  PROVE both[i] \in SectorOf(rd.first + i - 1, rd.host)
  <2>1. CASE i <= Len(b)
    <3>1. i \in 1 .. Len(rd.buff)  BY <1>0, <1>1, <2>1
    <3>2. rd.buff[i] \in SectorOf(rd.first + i - 1, rd.host)  BY <3>1 DEF DiskInv, BuffTrue
    <3> QED  BY <1>2, <2>1, <3>2
  <2>2. CASE i > Len(b)
    <3>1. i - Len(b) \in 1 .. k  BY <1>0, <1>1, <2>2
    <3>2. both[i] = new[i - Len(b)]  BY <1>0, <1>2, <2>2
    <3>3. sector + (i - Len(b)) - 1 = rd.first + i - 1  BY <1>0, <3>1 DEF sector
    <3> QED  BY <1>0, <3>1, <3>2, <3>3
  <2> QED  BY <1>0, <2>1, <2>2
<1>6. rd' \in [state : {"loop", "RES_OK"}, first : Nat, count : Nat, host : Hosts,
               buff : Seq(Content)]
  BY <1>0, <1>1, <1>3
<1>7. AtWork' /\ AllThere'  BY <1>0, <1>1, <1>3, <1>4 DEF AtWork, AllThere
<1>8. BuffTrue'  BY <1>3, <1>5 DEF BuffTrue
<1> QED  BY <1>6, <1>7, <1>8

(* A transfer that fails promises nothing about the buffer.                *)
LEMMA FailsTyped ==
  ASSUME DiskInv, rd.state = "loop", NEW k \in Nat, Fails(k)
  PROVE  /\ rd'.state = "RES_ERROR"
         /\ rd' \in [state : {"RES_ERROR"}, first : Nat, count : Nat, host : Hosts,
                      buff : Seq(Content)]
         /\ AtWork' /\ BuffTrue' /\ AllThere'
<1>1. hci \in Hosts /\ rd.first \in Nat /\ rd.buff \in Seq(Content) /\ sector \in Nat
  BY DEF DiskInv, DiskTypeOK, sector, Content
<1>2. Sectors(sector, k) \in Seq(Content)  BY <1>1, SectorsAre
<1>3. rd.buff \o Sectors(sector, k) \in Seq(Content)  BY <1>1, <1>2
<1>4. rd' = [state |-> "RES_ERROR", first |-> rd.first, count |-> rd.count, host |-> rd.host,
            buff |-> rd.buff \o Sectors(sector, k)]
  BY DEF Fails, DiskInv, DiskTypeOK
<1> QED  BY <1>3, <1>4 DEF DiskInv, DiskTypeOK, AtWork, BuffTrue, AllThere

(* Reading beyond the cache.                                               *)
LEMMA DirectKeeps == ASSUME DiskInv, Direct PROVE DiskInv'
<1>1. /\ rd.state = "loop" /\ hci \in Hosts /\ sector \in Nat /\ left \in Nat /\ left > 0
      /\ UNCHANGED <<Stat, cachevars, hci>>
  BY DEF Direct, DiskInv, DiskTypeOK, AtWork, sector, left
<1>2. CASE Copied(rd.buff \o Sectors(sector, left))
  <2>1. /\ Sectors(sector, left) \in Seq(Content) /\ Len(Sectors(sector, left)) = left
        /\ \A i \in 1 .. left : Sectors(sector, left)[i] \in SectorOf(sector + i - 1, hci)
    <3>1. /\ Sectors(sector, left) \in Seq(Content) /\ Len(Sectors(sector, left)) = left
          /\ \A i \in 1 .. left : Sectors(sector, left)[i] = <<hci, sector + i - 1>>
      BY <1>1, SectorsAre
    <3>2. \A t \in Nat : <<hci, t>> \in SectorOf(t, hci)  BY <1>1, SectorOfFacts
    <3>3. \A i \in 1 .. left : sector + i - 1 \in Nat  BY <1>1
    <3>4. \A i \in 1 .. left : <<hci, sector + i - 1>> \in SectorOf(sector + i - 1, hci)
      BY <3>2, <3>3, Zenon
    <3> QED  BY <3>1, <3>4
  <2>2. /\ rd' \in [state : {"loop", "RES_OK"}, first : Nat, count : Nat, host : Hosts,
                     buff : Seq(Content)]
        /\ AtWork' /\ BuffTrue' /\ AllThere'
    BY <1>1, <1>2, <2>1, CopiedTrue DEF cachevars
  <2> QED  BY <1>1, <2>2 DEF DiskInv, DiskTypeOK, ChunksWhole, cachevars, Content
<1>3. CASE \E k \in 0 .. left - 1 : Fails(k)
  <2>1. PICK k \in Nat : Fails(k)  BY <1>1, <1>3
  <2>2. /\ rd' \in [state : {"RES_ERROR"}, first : Nat, count : Nat, host : Hosts,
                     buff : Seq(Content)]
        /\ AtWork' /\ BuffTrue' /\ AllThere'
    BY <1>1, <2>1, FailsTyped
  <2> QED  BY <1>1, <2>2 DEF DiskInv, DiskTypeOK, ChunksWhole, cachevars, Content
<1> QED  BY <1>2, <1>3 DEF Direct

(* The next sector, from the cache or from the chunk just loaded.          *)
LEMMA AppendedTrue ==
  ASSUME DiskInv, rd.state = "loop", NEW c, c \in SectorOf(sector, hci),
         Copied(Append(rd.buff, c)), UNCHANGED <<hci, current_cache_sdhci_id>>
  PROVE  /\ rd' \in [state : {"loop", "RES_OK"}, first : Nat, count : Nat, host : Hosts,
                      buff : Seq(Content)]
         /\ AtWork' /\ BuffTrue' /\ AllThere'
<1>1. /\ hci \in Hosts /\ sector \in Nat /\ left \in Nat /\ left > 0
      /\ rd.buff \in Seq(Content)
  BY DEF DiskInv, DiskTypeOK, AtWork, sector, left, Content
<1>2. c \in Content
  <2>1. SectorOf(sector, hci) \subseteq Hosts \X {sector}  BY <1>1, SectorOfFacts, Zenon
  <2>2. c \in Hosts \X {sector}  BY <2>1
  <2> QED  BY <1>1, <2>2 DEF Content
<1>3. /\ <<c>> \in Seq(Content) /\ Len(<<c>>) = 1
      /\ \A i \in 1 .. 1 : <<c>>[i] \in SectorOf(sector + i - 1, hci)
  <2>1. <<c>> \in Seq(Content) /\ Len(<<c>>) = 1 /\ <<c>>[1] = c  BY <1>2
  <2>2. \A i \in 1 .. 1 : i = 1  OBVIOUS
  <2>3. sector + 1 - 1 = sector  BY <1>1
  <2>4. <<c>>[1] \in SectorOf(sector + 1 - 1, hci)  BY <2>1, <2>3, Zenon
  <2> HIDE DEF Content
  <2> QED  BY <2>1, <2>2, <2>4, Zenon
<1>4. Append(rd.buff, c) = rd.buff \o <<c>>  BY <1>1, <1>2
<1>5. Copied(rd.buff \o <<c>>)  BY <1>4
<1>6. 1 \in Nat /\ 1 > 0 /\ 1 <= left  BY <1>1
<1> DEFINE new == <<c>>
<1>7. /\ new \in Seq(Content) /\ Len(new) = 1 /\ Copied(rd.buff \o new)
      /\ \A i \in 1 .. 1 : new[i] \in SectorOf(sector + i - 1, hci)
  BY <1>3, <1>5
<1> HIDE DEF new, Content
<1> QED  BY <1>6, <1>7, CopiedTrue

(* A hit gives the sector of the card in use.                              *)
LEMMA HitKeeps == ASSUME DiskInv, Hit PROVE DiskInv'
<1>1. /\ rd.state = "loop" /\ sector \in Nat /\ sector \in CacheArea
      /\ CACHE_BIT(sector) \in cache_bitmap /\ UNCHANGED <<Stat, cachevars, hci>>
  BY CacheAssumption DEF Hit, DiskInv, DiskTypeOK, sector, CacheArea
<1>2. cache_data[sector] \in SectorOf(sector, hci)
  BY <1>1 DEF DiskInv, ChunksWhole, AtWork
<1>3. Copied(Append(rd.buff, cache_data[sector]))  BY DEF Hit
<1>4. /\ rd' \in [state : {"loop", "RES_OK"}, first : Nat, count : Nat, host : Hosts,
                   buff : Seq(Content)]
      /\ AtWork' /\ BuffTrue' /\ AllThere'
  BY <1>1, <1>2, <1>3, AppendedTrue DEF cachevars
<1> QED  BY <1>1, <1>4 DEF DiskInv, DiskTypeOK, ChunksWhole, cachevars, Content

(* A miss loads the chunk, or leaves its bit clear.                        *)
LEMMA MissKeeps == ASSUME DiskInv, Miss PROVE DiskInv'
<1> DEFINE s == sector
<1>1. /\ rd.state = "loop" /\ s \in Nat /\ s < CacheSectors /\ s \in CacheArea
      /\ CACHE_BIT(s) \notin cache_bitmap /\ hci \in Hosts
      /\ UNCHANGED <<Stat, cache_pdrv, current_cache_sdhci_id, hci>>
      /\ current_cache_sdhci_id = hci
  BY CacheAssumption DEF Miss, DiskInv, DiskTypeOK, sector, CacheArea, AtWork
<1>0. SectorsPerBit \in Nat /\ SectorsPerBit > 0  BY CacheAssumption
<1>2. CACHE_BIT(s) \in BitsUsed  BY <1>1, ChunkInSlots
<1> HIDE DEF s
<1>3. CASE /\ cache_data' = Loaded(s, SectorsPerBit)
           /\ cache_bitmap' = ValidAfter(s, TRUE)
           /\ Copied(Append(rd.buff, cache_data'[s]))
  <2>1. /\ cache_data' \in [Slots -> Content]
        /\ \A t \in CacheArea : CACHE_BIT(t) # CACHE_BIT(s) => cache_data'[t] = cache_data[t]
        /\ \A t \in CacheArea : CACHE_BIT(t) = CACHE_BIT(s) => cache_data'[t] = <<hci, t>>
    BY <1>0, <1>1, <1>3, LoadedIs DEF DiskInv
  <2>2. cache_bitmap' = cache_bitmap \cup {CACHE_BIT(s)}  BY <1>3 DEF ValidAfter
  <2>3. ChunksWhole'
    <3> SUFFICES ASSUME NEW t \in CacheArea, CACHE_BIT(t) \in cache_bitmap'
                 PROVE  cache_data'[t] \in SectorOf(t, hci)
      BY <1>1 DEF ChunksWhole
    <3>1. CASE CACHE_BIT(t) = CACHE_BIT(s)
      <4>1. t \in Nat /\ cache_data'[t] = <<hci, t>>  BY <2>1, <3>1, AreaInSlots
      <4> QED  BY <1>1, <4>1, SectorOfFacts
    <3>2. CASE CACHE_BIT(t) # CACHE_BIT(s)
      BY <1>1, <2>1, <2>2, <3>2 DEF DiskInv, ChunksWhole
    <3> QED  BY <3>1, <3>2
  <2>4. cache_data'[s] \in SectorOf(s, hci)  BY <1>1, <2>1, SectorOfFacts
  <2>5. /\ rd' \in [state : {"loop", "RES_OK"}, first : Nat, count : Nat, host : Hosts,
                     buff : Seq(Content)]
        /\ AtWork' /\ BuffTrue' /\ AllThere'
    BY <1>1, <1>3, <2>4, AppendedTrue DEF s
  <2>6. DiskTypeOK'
    BY <1>1, <1>2, <2>1, <2>2, <2>5 DEF DiskInv, DiskTypeOK, Content
  <2> QED  BY <2>3, <2>5, <2>6 DEF DiskInv
<1>4. CASE \E k \in 0 .. SectorsPerBit - 1 :
             /\ cache_data' = Loaded(s, k)
             /\ cache_bitmap' = ValidAfter(s, FALSE)
             /\ Fails(0)
  <2>1. PICK k \in 0 .. SectorsPerBit - 1 :
             cache_data' = Loaded(s, k) /\ cache_bitmap' = cache_bitmap /\ Fails(0)
    BY <1>4 DEF ValidAfter
  <2>2. k \in 0 .. SectorsPerBit  BY <1>0, <2>1
  <2>3. /\ cache_data' \in [Slots -> Content]
        /\ \A t \in CacheArea : CACHE_BIT(t) # CACHE_BIT(s) => cache_data'[t] = cache_data[t]
    BY <1>1, <2>1, <2>2, LoadedIs DEF DiskInv
  <2>4. ChunksWhole'
    <3> SUFFICES ASSUME NEW t \in CacheArea, CACHE_BIT(t) \in cache_bitmap
                 PROVE  cache_data'[t] \in SectorOf(t, current_cache_sdhci_id)
      BY <1>1, <2>1 DEF ChunksWhole
    <3> QED  BY <1>1, <2>3 DEF DiskInv, ChunksWhole
  <2>5. /\ rd' \in [state : {"RES_ERROR"}, first : Nat, count : Nat, host : Hosts,
                     buff : Seq(Content)]
        /\ AtWork' /\ BuffTrue' /\ AllThere'
    BY <1>1, <2>1, FailsTyped
  <2>6. DiskTypeOK'
    BY <1>1, <2>1, <2>3, <2>5
       DEF DiskInv, DiskTypeOK, Content
  <2> QED  BY <2>4, <2>5, <2>6 DEF DiskInv
<1> QED  BY <1>3, <1>4 DEF Miss, s

(* Every step keeps the invariant.                                         *)
LEMMA DiskInvKept == DiskInv /\ [DiskNext]_diskvars => DiskInv'
<1> SUFFICES ASSUME DiskInv, [DiskNext]_diskvars PROVE DiskInv'  OBVIOUS
<1>1. CASE UNCHANGED diskvars
  BY <1>1 DEF diskvars, cachevars, DiskInv, DiskTypeOK, ChunksWhole, AtWork, BuffTrue, AllThere
<1>2. ASSUME NEW pdrv \in {0, 1}, Initialize(pdrv)  PROVE DiskInv'
  <2>1. Stat' \in BOOLEAN  BY <1>2 DEF Initialize, disk_initialize, DiskInv, DiskTypeOK
  <2> QED
    BY <1>2, <2>1 DEF Initialize, cachevars, DiskInv, DiskTypeOK, ChunksWhole, AtWork, BuffTrue,
       AllThere
<1>3. ASSUME NEW pdrv \in {0, 1}, NEW s \in Nat, NEW n \in Nat, disk_read(pdrv, s, n)
      PROVE  DiskInv'
  BY <1>3, ReadStarts
<1>4. CASE Round  BY <1>4, DirectKeeps, HitKeeps, MissKeeps DEF Round
<1>5. ASSUME NEW h \in Hosts, SetHost(h)  PROVE DiskInv'
  BY <1>5 DEF SetHost, Idle, cachevars, DiskInv, DiskTypeOK, ChunksWhole, AtWork, BuffTrue,
     AllThere
<1> QED  BY <1>1, <1>2, <1>3, <1>4, <1>5 DEF DiskNext

(* For every size of the area the loop of disk_read goes at most one byte  *)
(* beyond cache_bitmap and at most to the end of the last chunk.           *)
THEOREM DiskTypeCorrect == DiskSpec => []DiskTypeOK
<1>1. DiskInv => DiskTypeOK  BY DEF DiskInv
<1> QED  BY <1>1, DiskInvInit, DiskInvKept, PTL DEF DiskSpec

(* A set bit says that its chunk is in the cache as a whole, and from the  *)
(* card in use if it is a bit of the array, for every sequence of reads,   *)
(* failures and changes of the card.                                       *)
THEOREM DiskChunksWhole == DiskSpec => []ChunksWhole
<1>1. DiskInv => ChunksWhole  BY DEF DiskInv
<1> QED  BY <1>1, DiskInvInit, DiskInvKept, PTL DEF DiskSpec

(* What the invariant says of a call that has returned RES_OK.             *)
LEMMA InvReads == DiskInv => ReadsCurrentCard
  BY DEF DiskInv, BuffTrue, AllThere, ReadsCurrentCard

(* A read that returns RES_OK has given the sectors of the card in use,    *)
(* those that the bitmap does not cover excepted, for every size of the    *)
(* area and every sequence of reads, failures and changes of the card.     *)
THEOREM DiskReadsCurrentCard == DiskSpec => []ReadsCurrentCard
  BY DiskInvInit, DiskInvKept, InvReads, PTL DEF DiskSpec

-----------------------------------------------------------------------------
(* The file that is loaded: its name is one of a file while it is read.    *)
FileOK ==
  /\ file.read \in Nat
  /\ file.call \in {"open", "read", "piece"} => file.name \in Files
  /\ file = [name |-> file.name, read |-> file.read, call |-> file.call]

(* No file has the name that stands for none.                              *)
LEMMA FileNames == Files = {"bl31", "scp", "extlinux", "kernel", "fdt", "splash", "initrd", "dtbo"}
  BY DEF Files, Needed, Kernel

(* Every step of the boot is a step of the disk, or leaves it alone, and   *)
(* keeps the file it is loading well formed.                               *)
LEMMA BootStep ==
  ASSUME FileOK, DiskInv, [Next]_vars
  PROVE  [DiskNext]_diskvars /\ FileOK'
<1>0. BootAssumption  BY BootAssumption
<1>1. 0 \in {0, 1} /\ Directory \in Nat /\ 1 \in Nat /\ SDC0 \in Hosts /\ SDC2 \in Hosts
  BY BootAssumption
<1>2. rd.buff \in Seq(Content) /\ Len(rd.buff) \in Nat  BY DEF DiskInv, DiskTypeOK, Content
<1>3. FileOK /\ UNCHANGED file => FileOK'  BY FileNames DEF FileOK
<1>4. file' = None => FileOK'  BY FileNames DEF FileOK, None
<1>5. ASSUME NEW call \in {"init", "mount", "read", "piece"}, Waits(call),
             call \in {"read", "piece"} => file.name \in Files
      PROVE  FileOK'
  BY <1>5, FileNames DEF FileOK, Waits
<1>6. CASE UNCHANGED vars  BY <1>3, <1>6 DEF vars, bootvars
<1>7. CASE Sdc0 \/ Sdc2 \/ Again
  <2>1. \E h \in Hosts : SetHost(h)  BY <1>1, <1>7, Zenon DEF Sdc0, Sdc2, Again, InitCard
  <2>2. UNCHANGED file  BY <1>7 DEF Sdc0, Sdc2, Again, InitCard
  <2> QED  BY <1>3, <2>1, <2>2 DEF DiskNext
<1>8. CASE MountBegin
  <2>1. Initialize(0) /\ Waits("init")  BY <1>8 DEF MountBegin
  <2> QED  BY <1>1, <1>5, <2>1 DEF DiskNext
<1>9. CASE MountRead
  <2>1. disk_read(0, Directory, 1) /\ Waits("mount")  BY <1>9 DEF MountRead, Read
  <2> QED  BY <1>1, <1>5, <2>1 DEF DiskNext
<1>10. CASE MountEnd  BY <1>4, <1>10 DEF MountEnd
<1>11. CASE OpenBegin
  <2>1. CASE fs
    <3>1. disk_read(0, Directory, 1) /\ at \in Files
          /\ file' = [name |-> at, read |-> 0, call |-> "open"]
      BY <1>11, <2>1 DEF OpenBegin, Read
    <3> QED  BY <1>1, <3>1, FileNames DEF DiskNext, FileOK
  <2>2. CASE ~fs  BY <1>4, <1>11, <2>2 DEF OpenBegin, LoadEnd
  <2> QED  BY <2>1, <2>2
<1>12. CASE OpenEnd
  <2>1. UNCHANGED diskvars  BY <1>12 DEF OpenEnd
  <2>2. file.call = "open" /\ file.name \in Files  BY <1>12 DEF OpenEnd, FileOK
  <2>3. Waits("read") \/ file' = None  BY <1>12 DEF OpenEnd, LoadEnd
  <2> QED  BY <1>4, <1>5, <2>1, <2>2, <2>3
<1>13. CASE ReadBegin
  <2>1. /\ file.name \in Files /\ file.read \in Nat /\ Wanted > 0
        /\ disk_read(0, Start[file.name] + file.read, Wanted) /\ Waits("piece")
    BY <1>13 DEF ReadBegin, Read, FileOK
  <2>2. Start[file.name] \in Nat /\ Size[file.name] \in Nat /\ Piece \in Nat
    BY <1>0, <2>1 DEF BootAssumption
  <2>3. Start[file.name] + file.read \in Nat /\ Wanted \in Nat  BY <2>1, <2>2 DEF Wanted
  <2>4. DiskNext  BY <1>1, <2>1, <2>3 DEF DiskNext
  <2> QED  BY <1>5, <2>1, <2>4
<1>14. ASSUME NEW n \in Nat, NEW ok, file.name \in Files, Loop(n, ok)  PROVE FileOK'
  <2>1. CASE file' = [file EXCEPT !.read = @ + n, !.call = "read"]
    <3>1. file' = [name |-> file.name, read |-> file.read + n, call |-> "read"]
      BY <2>1 DEF FileOK
    <3>2. file.read + n \in Nat  BY <1>14 DEF FileOK
    <3> QED  BY <1>14, <3>1, <3>2 DEF FileOK
  <2>2. CASE file' = None  BY <1>4, <2>2
  <2> QED  BY <1>14, <2>1, <2>2 DEF Loop, LoadEnd
<1>15. CASE ReadEnd
  <2>1. /\ UNCHANGED diskvars /\ file.name \in Files
        /\ Loop(IF Ok THEN Len(rd.buff) ELSE 0, Ok)
    BY <1>15 DEF ReadEnd, FileOK
  <2>2. (IF Ok THEN Len(rd.buff) ELSE 0) \in Nat  BY <1>2
  <2>3. FileOK'  BY <1>14, <2>1, <2>2
  <2> QED  BY <2>1, <2>3
<1>16. CASE EndOfFile
  <2>1. UNCHANGED diskvars /\ file.name \in Files /\ Loop(0, TRUE)
    BY <1>16 DEF EndOfFile, FileOK
  <2> QED  BY <1>14, <2>1
<1>17. CASE Umount \/ Fixup
  <2>1. UNCHANGED diskvars /\ UNCHANGED file
    BY <1>17, Zenon DEF Umount, Fixup, Goto
  <2> QED  BY <1>3, <2>1
<1>18. CASE DiskRound  BY <1>3, <1>18 DEF DiskRound, DiskNext, bootvars
<1>19. CASE Over  BY <1>3, <1>19 DEF Over, vars, bootvars
<1> QED
  BY <1>6, <1>7, <1>8, <1>9, <1>10, <1>11, <1>12, <1>13, <1>15, <1>16, <1>17, <1>18, <1>19
     DEF Next, Main, Load, vars

(* The boot starts with the disk untouched and no file at work.            *)
LEMMA BootInit == Init => DiskInit /\ FileOK
  BY FileNames DEF Init, FileOK, None

(* The boot application uses the disk as DiskSpec says it may be used, so  *)
(* that what is proved of the cache holds of every boot.                   *)
THEOREM BootUsesDisk == Spec => DiskSpec
<1>1. FileOK /\ DiskInv /\ [Next]_vars => [DiskNext]_diskvars /\ FileOK' /\ DiskInv'
  BY BootStep, DiskInvKept
<1>2. Init => DiskInit /\ FileOK /\ DiskInv  BY BootInit, DiskInvInit
<1> QED  BY <1>1, <1>2, PTL DEF Spec, DiskSpec

(* In every boot, a read that returns RES_OK has given the sectors of the  *)
(* card in use, those that the bitmap does not cover excepted, which may   *)
(* be those of the card of the first attempt.                              *)
THEOREM BootReadsCurrentCard == Spec => []ReadsCurrentCard
  BY BootUsesDisk, DiskReadsCurrentCard, PTL

(* In every boot, a bit that is set stands for a chunk that is whole.      *)
THEOREM BootChunksWhole == Spec => []ChunksWhole
  BY BootUsesDisk, DiskChunksWhole, PTL

-----------------------------------------------------------------------------
(* The places of main behind the load of a file, back to the next attempt. *)
End == {"xumount", "fixup", "dtbo", "jumped"}
Past(f) ==
  CASE f = "bl31" -> {"scp", "extlinux", "splash", "umount", "xmount", "kernel", "fdt", "initrd"} \cup End
    [] f = "scp" -> {"extlinux", "splash", "umount", "xmount", "kernel", "fdt", "initrd"} \cup End
    [] f = "extlinux" -> {"splash", "umount", "xmount", "kernel", "fdt", "initrd"} \cup End
    [] f = "kernel" -> {"fdt", "initrd"} \cup End
    [] f = "fdt" -> {"initrd"} \cup End

(* Behind the load of a file that is needed the file is there, and so is   *)
(* the initrd when ramdisk_size says so.                                   *)
LoadedOK == \A f \in Needed \cup Kernel : at \in Past(f) => Complete(f, hci)
RamdiskOK ==
  ramdisk => at \in End \cup {"failed"} /\ (at \in End => Complete("initrd", hci))

(* A call of FatFs belongs to the place that main is at; the volume is     *)
(* released when the overlay is to be loaded.                              *)
CallOK ==
  /\ \/ file.call = "none"
     \/ file.call \in {"init", "mount"} /\ at \in {"mount", "xmount"}
     \/ /\ file.call \in {"open", "read", "piece"}
        /\ at = file.name /\ at \in Files \ {"dtbo"}
  /\ at \in {"fixup", "dtbo"} => ~fs

(* What has been read of the file at work is in memory, and a disk_read    *)
(* that it waits for is the one of its next piece.                         *)
Prefix ==
  /\ Directory \notin Uncovered => at \in card[hci].files
  /\ file.read \in 0 .. Size[at] /\ Len(mem[at]) >= file.read
  /\ \A i \in 1 .. file.read : mem[at][i] \in SectorOf(Start[at] + i - 1, hci)
ReadingOK ==
  /\ file.call = "open" => /\ rd.host = hci /\ rd.first = Directory /\ rd.count = 1
                           /\ file.read = 0
  /\ file.call \in {"read", "piece"} => Prefix
  /\ file.call = "piece" => rd.host = hci /\ rd.first = Start[at] + file.read /\ rd.count = Wanted

LoadInv ==
  /\ mem \in [Files -> Seq(Content)] /\ ramdisk \in BOOLEAN
  /\ LoadedOK /\ RamdiskOK /\ CallOK /\ ReadingOK

(* What a step that leaves memory, the cards and the file at work alone    *)
(* must show: that main goes to a place that needs nothing more.           *)
LEMMA PlaceKept ==
  ASSUME LoadInv, UNCHANGED <<card, mem, hci>>,
         \A f \in Needed \cup Kernel : at' \in Past(f) => at \in Past(f)
  PROVE  LoadedOK'
BY DEF LoadInv, LoadedOK, Complete

(* A step that leaves main where it is keeps the facts about places.       *)
LEMMA StaysKept ==
  ASSUME LoadInv, UNCHANGED <<card, mem, hci, at, ramdisk>>
  PROVE  /\ mem' \in [Files -> Seq(Content)] /\ ramdisk' \in BOOLEAN
         /\ LoadedOK' /\ RamdiskOK'
<1>1. LoadedOK'  BY PlaceKept
<1>2. RamdiskOK'  BY DEF LoadInv, RamdiskOK, Complete
<1> QED  BY <1>1, <1>2 DEF LoadInv

(* A step to a place where no file is at work and nothing is loaded.       *)
LEMMA StartsOver ==
  ASSUME LoadInv, UNCHANGED <<mem, ramdisk>>, file'.call = "none",
         at' \in {"sdc0", "sdc2", "again", "mount", "failed", "bl31"}, ~ramdisk \/ at' = "failed"
  PROVE  LoadInv'
<1>1. LoadedOK'  BY DEF LoadedOK, Past, Needed, Kernel, End
<1>2. RamdiskOK'  BY DEF LoadInv, RamdiskOK, End
<1>3. CallOK' /\ ReadingOK'  BY DEF CallOK, ReadingOK
<1> QED  BY <1>1, <1>2, <1>3 DEF LoadInv

(* The end of a load leads to a place where the files loaded before are    *)
(* needed, and the one just loaded if it is complete.                      *)
LEMMA AfterLoad ==
  ASSUME LoadInv, NEW f \in Files, f = at, NEW done \in BOOLEAN, LoadEnd(f, done),
         UNCHANGED <<card, hci, fs>>, mem' \in [Files -> Seq(Content)],
         at = "dtbo" => ~done,
         \A g \in Files : g # f => mem'[g] = mem[g],
         done => Complete(f, hci)'
  PROVE  LoadInv'
<1>1. \A g \in Needed \cup Kernel \cup {"initrd"} : g # f /\ Complete(g, hci) => Complete(g, hci)'
  BY DEF Complete, Files
<1>2. file'.call = "none"  BY DEF LoadEnd, None
<1>3. at' = CASE at \in Needed /\ ~done -> GiveUp
              [] at \in Kernel \cup {"dtbo"} /\ ~done -> "failed"
              [] OTHER -> After(at)
  BY DEF LoadEnd
<1>4. GiveUp \in {"again", "failed"}  BY DEF GiveUp
<1>5. ~ramdisk \/ at = "dtbo"
  BY FileNames DEF LoadInv, RamdiskOK, End
<1>6. at \in {"bl31", "scp", "extlinux", "kernel", "fdt", "splash", "initrd", "dtbo"}
  BY FileNames
<1>7. CASE at \in {"bl31", "scp", "extlinux", "kernel", "fdt", "dtbo"} /\ ~done
  <2>1. at' \in {"again", "failed"} /\ (at = "dtbo" => at' = "failed")
    BY <1>3, <1>4, <1>7 DEF Needed, Kernel
  <2>2. ramdisk' = ramdisk  BY <1>7 DEF LoadEnd
  <2>3. LoadedOK'  BY <2>1 DEF LoadedOK, Past, Needed, Kernel, End
  <2>4. RamdiskOK'  BY <1>5, <2>1, <2>2 DEF RamdiskOK, End
  <2>5. CallOK' /\ ReadingOK'  BY <1>2, <2>1 DEF CallOK, ReadingOK
  <2> QED  BY <2>2, <2>3, <2>4, <2>5 DEF LoadInv
<1>8. CASE at \in {"bl31", "scp", "extlinux", "kernel", "fdt", "splash"} /\ (done \/ at = "splash")
  <2>1. at' = After(at) /\ ramdisk' = ramdisk /\ ~ramdisk
    BY <1>3, <1>5, <1>8 DEF Needed, Kernel, LoadEnd
  <2>2. \A g \in Needed \cup Kernel : at' \in Past(g) => at \in Past(g) \/ (g = f /\ done)
    BY <1>8, <2>1 DEF After, Past, Needed, Kernel, End
  <2>3. LoadedOK'
    <3> SUFFICES ASSUME NEW g \in Needed \cup Kernel, at' \in Past(g)  PROVE Complete(g, hci)'
      BY DEF LoadedOK
    <3>1. CASE g = f /\ done  BY <3>1
    <3>2. CASE ~(g = f /\ done)
      <4>1. at \in Past(g) /\ Complete(g, hci)  BY <2>2, <3>2 DEF LoadInv, LoadedOK
      <4>2. g # f  BY <4>1 DEF Past, Needed, Kernel, End
      <4> QED  BY <1>1, <4>1, <4>2
    <3> QED  BY <3>1, <3>2
  <2>4. RamdiskOK'  BY <2>1 DEF RamdiskOK
  <2>5. at' \notin {"fixup", "dtbo"}  BY <1>8, <2>1 DEF After
  <2>6. CallOK' /\ ReadingOK'  BY <1>2, <2>5 DEF CallOK, ReadingOK
  <2> QED  BY <2>1, <2>3, <2>4, <2>6 DEF LoadInv
<1>9. CASE at = "initrd"
  <2>1. at' = "xumount" /\ ramdisk' = done
    BY <1>3, <1>9 DEF Needed, Kernel, LoadEnd, After
  <2>2. LoadedOK'  BY <1>1, <1>9, <2>1 DEF LoadInv, LoadedOK, Past, Needed, Kernel, End
  <2>3. RamdiskOK'
    <3>1. done => Complete("initrd", hci)'  BY <1>9
    <3> QED  BY <2>1, <3>1 DEF RamdiskOK, End
  <2>4. CallOK' /\ ReadingOK'  BY <1>2, <2>1 DEF CallOK, ReadingOK
  <2> QED  BY <2>1, <2>2, <2>3, <2>4 DEF LoadInv
<1> QED  BY <1>6, <1>7, <1>8, <1>9

(* A piece stored at the end of what is there already.                     *)
LEMMA StoredPiece ==
  ASSUME NEW old \in Seq(Content), NEW new \in Seq(Content), NEW dest \in 0 .. Len(old)
  PROVE  /\ Stored(old, dest, new) \in Seq(Content)
         /\ Len(Stored(old, dest, new)) >= dest + Len(new)
         /\ Len(Stored(old, dest, new)) >= Len(old)
         /\ \A i \in 1 .. dest : Stored(old, dest, new)[i] = old[i]
         /\ \A i \in dest + 1 .. dest + Len(new) : Stored(old, dest, new)[i] = new[i - dest]
<1> DEFINE m == IF Len(old) > dest + Len(new) THEN Len(old) ELSE dest + Len(new)
           e(i) == IF i > dest /\ i <= dest + Len(new) THEN new[i - dest] ELSE old[i]
<1>1. Len(old) \in Nat /\ Len(new) \in Nat /\ dest \in Nat /\ dest <= Len(old)  OBVIOUS
<1>2. m \in Nat /\ m >= Len(old) /\ m >= dest + Len(new)  BY <1>1
<1>3. \A i \in 1 .. m : e(i) \in Content
  <2> SUFFICES ASSUME NEW i \in 1 .. m  PROVE e(i) \in Content
    OBVIOUS
  <2>1. CASE i > dest /\ i <= dest + Len(new)
    <3>1. i - dest \in 1 .. Len(new)  BY <1>1, <1>2, <2>1
    <3> QED  BY <2>1, <3>1
  <2>2. CASE ~(i > dest /\ i <= dest + Len(new))
    <3>1. i \in 1 .. Len(old)  BY <1>1, <1>2, <2>2
    <3> QED  BY <2>2, <3>1
  <2> QED  BY <2>1, <2>2
<1>4. Stored(old, dest, new) = [i \in 1 .. m |-> e(i)]  BY DEF Stored
<1> HIDE DEF m, e
<1>5. Stored(old, dest, new) \in Seq(Content) /\ Len(Stored(old, dest, new)) = m
  BY <1>2, <1>3, <1>4, IsASeq
<1>6. \A i \in 1 .. dest : i \in 1 .. m /\ e(i) = old[i]  BY <1>1, <1>2 DEF e
<1>7. \A i \in dest + 1 .. dest + Len(new) : i \in 1 .. m /\ e(i) = new[i - dest]
  BY <1>1, <1>2 DEF e
<1> QED  BY <1>2, <1>4, <1>5, <1>6, <1>7

(* The end of a round of the read loop, successful or not.                 *)
LEMMA PieceKept ==
  ASSUME LoadInv, FileOK, DiskInv, ReadEnd
  PROVE  LoadInv'
<1>0. BootAssumption  BY BootAssumption
<1>a. PICK f \in Files : f = at
  BY DEF ReadEnd, LoadInv, CallOK
<1> DEFINE old == mem[f]
           new == rd.buff
<1>1. /\ f = at /\ f = file.name /\ at \in Files \ {"dtbo"} /\ UNCHANGED <<diskvars, card, attempt, fs>>
      /\ mem' = [mem EXCEPT ![f] = Stored(@, file.read, rd.buff)]
      /\ Loop(IF Ok THEN Len(rd.buff) ELSE 0, Ok)
      /\ file.call = "piece"
  BY <1>a DEF ReadEnd, LoadInv, CallOK
<1>2. old \in Seq(Content) /\ new \in Seq(Content) /\ mem \in [Files -> Seq(Content)]
  BY <1>1 DEF LoadInv, DiskInv, DiskTypeOK, Content
<1>3. /\ Prefix /\ rd.host = hci /\ rd.first = Start[at] + file.read /\ rd.count = Wanted
  BY <1>1 DEF LoadInv, ReadingOK
<1>4. /\ Start[at] \in Nat /\ Size[at] \in Nat /\ Piece \in Nat /\ Piece > 0
      /\ file.read \in Nat /\ file.read <= Size[at] /\ file.read <= Len(old)
  BY <1>0, <1>1, <1>3 DEF BootAssumption, Prefix, FileOK
<1>5. Wanted \in Nat /\ file.read + Wanted <= Size[at]
      /\ (Wanted < Piece => file.read + Wanted = Size[at])
  BY <1>1, <1>4 DEF Wanted
<1>6. mem'[f] = Stored(old, file.read, new)  BY <1>1, <1>2
<1>7. /\ mem'[f] \in Seq(Content)
      /\ Len(mem'[f]) >= file.read + Len(new)
      /\ \A i \in 1 .. file.read : mem'[f][i] = old[i]
      /\ \A i \in file.read + 1 .. file.read + Len(new) : mem'[f][i] = new[i - file.read]
  <2>1. file.read \in 0 .. Len(old)  BY <1>2, <1>4
  <2> HIDE DEF old, new
  <2>2. /\ Stored(old, file.read, new) \in Seq(Content)
        /\ Len(Stored(old, file.read, new)) >= file.read + Len(new)
        /\ \A i \in 1 .. file.read : Stored(old, file.read, new)[i] = old[i]
        /\ \A i \in file.read + 1 .. file.read + Len(new) :
             Stored(old, file.read, new)[i] = new[i - file.read]
    BY <1>2, <2>1, StoredPiece
  <2> QED  BY <1>6, <2>2
<1>8. mem' \in [Files -> Seq(Content)]  BY <1>1, <1>2, <1>6, <1>7
<1>9. \A g \in Files : g # f => mem'[g] = mem[g]  BY <1>1, <1>2
<1>10. ASSUME Ok
       PROVE  /\ Len(new) = Wanted
              /\ Len(mem'[f]) >= file.read + Wanted
              /\ \A i \in 1 .. file.read + Wanted :
                   mem'[f][i] \in SectorOf(Start[at] + i - 1, hci)
  <2>1. \A i \in 1 .. Wanted : new[i] \in SectorOf(Start[at] + file.read + i - 1, hci)
    BY <1>3, <1>10, InvReads DEF ReadsCurrentCard, Ok
  <2>2. Len(new) = Wanted  BY <1>3, <1>10, InvReads DEF ReadsCurrentCard, Ok
  <2>3. ASSUME NEW i \in 1 .. file.read + Wanted
        PROVE  mem'[f][i] \in SectorOf(Start[at] + i - 1, hci)
    <3>1. CASE i <= file.read
      <4>1. i \in 1 .. file.read  BY <1>4, <1>5, <3>1
      <4>2. mem'[f][i] = old[i]  BY <1>7, <4>1
      <4> QED  BY <1>1, <1>3, <4>1, <4>2 DEF Prefix
    <3>2. CASE i > file.read
      <4>1. /\ i - file.read \in 1 .. Wanted /\ i \in file.read + 1 .. file.read + Wanted
            /\ Start[at] + file.read + (i - file.read) - 1 = Start[at] + i - 1
        BY <1>4, <1>5, <3>2
      <4>2. mem'[f][i] = new[i - file.read]  BY <1>7, <2>2, <4>1
      <4>3. new[i - file.read] \in SectorOf(Start[at] + file.read + (i - file.read) - 1, hci)
        BY <2>1, <4>1
      <4> QED  BY <4>1, <4>2, <4>3
    <3> QED  BY <1>4, <3>1, <3>2
  <2> QED  BY <1>7, <2>2, <2>3
<1>11. UNCHANGED <<card, hci, fs>>  BY <1>1 DEF diskvars
<1>12. CASE More(IF Ok THEN Len(rd.buff) ELSE 0, Ok)
  <2>1. Ok /\ Len(new) >= Piece  BY <1>12 DEF More
  <2>2. /\ file' = [file EXCEPT !.read = @ + Len(new), !.call = "read"]
        /\ UNCHANGED <<at, ramdisk>>
    BY <1>1, <1>12, <2>1 DEF Loop
  <2>3. file'.read = file.read + Wanted /\ file'.call = "read" /\ file'.name = at
    BY <1>1, <1>10, <2>1, <2>2 DEF FileOK
  <2>4. Prefix'
    <3>1. Directory \notin Uncovered => f \in card[hci].files  BY <1>1, <1>3 DEF Prefix
    <3>2. /\ file.read + Wanted \in 0 .. Size[f]
          /\ Len(mem'[f]) >= file.read + Wanted
          /\ \A i \in 1 .. file.read + Wanted :
               mem'[f][i] \in SectorOf(Start[f] + i - 1, hci)
      BY <1>1, <1>4, <1>5, <1>10, <2>1
    <3>3. at' = f /\ hci' = hci /\ card' = card  BY <1>1, <1>11, <2>2
    <3> HIDE DEF old, new
    <3> QED  BY <2>3, <3>1, <3>2, <3>3 DEF Prefix
  <2>5. LoadedOK'
    <3> SUFFICES ASSUME NEW g \in Needed \cup Kernel, at \in Past(g)  PROVE Complete(g, hci)'
      BY <2>2 DEF LoadedOK
    <3>1. g # at /\ g \in Files /\ Complete(g, hci)
      BY DEF LoadInv, LoadedOK, Past, Needed, Kernel, End, Files
    <3>2. mem'[g] = mem[g]  BY <1>1, <1>9, <3>1
    <3>3. hci' = hci /\ card' = card  BY <1>11
    <3> HIDE DEF old, new
    <3> QED  BY <3>1, <3>2, <3>3 DEF Complete
  <2>6. at \notin End \cup {"failed"}  BY <1>1, FileNames DEF End
  <2>7. RamdiskOK'  BY <2>2, <2>6 DEF LoadInv, RamdiskOK
  <2>8. CallOK' /\ ReadingOK'
    <3>1. at' = at /\ fs' = fs  BY <1>11, <2>2
    <3>2. file'.call = "read" /\ file'.name = at  BY <2>3
    <3>3. at \in Files \ {"dtbo"} /\ (at \in {"fixup", "dtbo"} => ~fs)
      BY <1>1 DEF LoadInv, CallOK
    <3> QED  BY <2>4, <3>1, <3>2, <3>3 DEF CallOK, ReadingOK
  <2> QED  BY <1>8, <2>2, <2>5, <2>7, <2>8 DEF LoadInv
<1>13. CASE ~More(IF Ok THEN Len(rd.buff) ELSE 0, Ok)
  <2>1. PICK done \in BOOLEAN : done = Ok  BY DEF Ok
  <2>2. LoadEnd(f, done)  BY <1>1, <1>13, <2>1 DEF Loop, ReadOk
  <2>3. ASSUME done  PROVE Complete(f, hci)'
    <3>1. Ok /\ Wanted < Piece  BY <1>4, <1>5, <1>10, <1>13, <2>1, <2>3 DEF More
    <3>2. file.read + Wanted = Size[f]  BY <1>1, <1>5, <3>1
    <3>3. Directory \notin Uncovered => f \in card[hci].files  BY <1>1, <1>3 DEF Prefix
    <3>4. /\ Len(mem'[f]) >= Size[f]
          /\ \A i \in 1 .. Size[f] : mem'[f][i] \in SectorOf(Start[f] + i - 1, hci)
      BY <1>1, <1>10, <3>1, <3>2
    <3> QED  BY <1>11, <3>3, <3>4 DEF Complete
  <2>4. at = "dtbo" => ~done  BY <1>1
  <2> QED  BY <1>1, <1>8, <1>9, <1>11, <2>2, <2>3, <2>4, AfterLoad
<1> QED  BY <1>12, <1>13

(* A round of disk_read leaves the request as it is.                       *)
LEMMA RoundRequest ==
  ASSUME DiskInv, Round
  PROVE  rd'.host = rd.host /\ rd'.first = rd.first /\ rd'.count = rd.count /\ hci' = hci
<1>1. \A buff : Copied(buff) =>
         rd'.host = rd.host /\ rd'.first = rd.first /\ rd'.count = rd.count
  BY DEF DiskInv, DiskTypeOK, Copied
<1>2. \A k : Fails(k) =>
         rd'.host = rd.host /\ rd'.first = rd.first /\ rd'.count = rd.count
  BY DEF DiskInv, DiskTypeOK, Fails
<1>3. hci' = hci  BY DEF Round, Direct, Hit, Miss
<1>4. (\E buff : Copied(buff)) \/ (\E k : Fails(k))
  BY Zenon DEF Round, Direct, Hit, Miss
<1> QED  BY <1>1, <1>2, <1>3, <1>4

(* The steps that read, mount and open for the file at work.               *)
LEMMA CallKept ==
  ASSUME LoadInv, FileOK, DiskInv,
         MountBegin \/ MountRead \/ (OpenBegin /\ fs) \/ ReadBegin \/ DiskRound
  PROVE  LoadInv'
<1>1. UNCHANGED <<card, mem, hci, at, ramdisk>>
  BY RoundRequest
     DEF MountBegin, MountRead, OpenBegin, ReadBegin, DiskRound, Initialize, Read, disk_read,
         bootvars
<1>2. /\ mem' \in [Files -> Seq(Content)] /\ ramdisk' \in BOOLEAN
      /\ LoadedOK' /\ RamdiskOK'
  BY <1>1, StaysKept
<1>3. CallOK'
  <2>1. CASE MountBegin
    BY <1>1, <2>1 DEF MountBegin, Waits, FileOK, CallOK
  <2>2. CASE MountRead
    BY <1>1, <2>2 DEF MountRead, Waits, FileOK, CallOK, LoadInv
  <2>3. CASE OpenBegin /\ fs
    BY <1>1, <2>3 DEF OpenBegin, CallOK, LoadInv
  <2>4. CASE ReadBegin
    BY <1>1, <2>4 DEF ReadBegin, Waits, FileOK, CallOK, LoadInv
  <2>5. CASE DiskRound
    BY <1>1, <2>5 DEF DiskRound, bootvars, CallOK, LoadInv
  <2> QED  BY <2>1, <2>2, <2>3, <2>4, <2>5
<1>4. ReadingOK'
  <2>1. CASE MountBegin \/ MountRead
    <3>1. file'.call \in {"init", "mount"}  BY <2>1 DEF MountBegin, MountRead, Waits, FileOK
    <3> QED  BY <3>1 DEF ReadingOK
  <2>2. CASE OpenBegin /\ fs
    <3>1. /\ file'.call = "open" /\ file'.read = 0 /\ rd'.host = hci /\ rd'.count = 1
          /\ rd'.first = Directory
      BY <2>2 DEF OpenBegin, Read, disk_read
    <3> QED  BY <1>1, <3>1 DEF ReadingOK
  <2>3. CASE ReadBegin
    <3>1. /\ file.call = "read" /\ file.name = at /\ Prefix
          /\ file' = [file EXCEPT !.call = "piece"]
      BY <2>3 DEF ReadBegin, Waits, LoadInv, CallOK, ReadingOK
    <3>2. file'.call = "piece" /\ file'.name = file.name /\ file'.read = file.read
      BY <3>1 DEF FileOK
    <3>3. rd'.host = hci /\ rd'.first = Start[at] + file.read /\ rd'.count = Wanted
      BY <2>3, <3>1 DEF ReadBegin, Read, disk_read
    <3>4. Prefix'  BY <1>1, <3>1, <3>2 DEF Prefix
    <3>5. Wanted' = Wanted  BY <3>2 DEF Wanted
    <3> QED  BY <1>1, <3>2, <3>3, <3>4, <3>5 DEF ReadingOK
  <2>4. CASE DiskRound
    <3>1. /\ file' = file
          /\ rd'.host = rd.host /\ rd'.first = rd.first /\ rd'.count = rd.count
      BY <2>4, RoundRequest DEF DiskRound, bootvars
    <3>2. Prefix => Prefix'  BY <1>1, <3>1 DEF Prefix
    <3>3. Wanted' = Wanted  BY <3>1 DEF Wanted
    <3> QED  BY <1>1, <3>1, <3>2, <3>3 DEF LoadInv, ReadingOK
  <2> QED  BY <2>1, <2>2, <2>3, <2>4
<1> QED  BY <1>2, <1>3, <1>4 DEF LoadInv

(* The directory is the one of the card in use if it has a bit.            *)
LEMMA DirectoryRead ==
  ASSUME DiskInv, Ok, rd.host = hci, rd.first = Directory, rd.count = 1,
         Directory \notin Uncovered
  PROVE  rd.buff[1][1] = hci
<1>1. Directory \in Nat /\ Directory + 1 - 1 = Directory  BY BootAssumption DEF BootAssumption
<1>2. hci \in Hosts  BY DEF DiskInv, DiskTypeOK
<1>3. rd.buff[1] \in SectorOf(Directory + 1 - 1, hci)
  BY InvReads DEF ReadsCurrentCard, Ok
<1>4. SectorOf(Directory, hci) = {<<hci, Directory>>}  BY <1>1, <1>2, SectorOfFacts
<1>5. rd.buff[1] = <<hci, Directory>>  BY <1>1, <1>3, <1>4
<1> QED  BY <1>5

(* A file that is opened or not.                                           *)
LEMMA OpenKept ==
  ASSUME LoadInv, FileOK, DiskInv, OpenEnd \/ (OpenBegin /\ ~fs)
  PROVE  LoadInv'
<1>1. UNCHANGED <<card, mem, hci, fs>> /\ mem' \in [Files -> Seq(Content)]
  BY DEF OpenEnd, OpenBegin, diskvars, LoadInv
<1>2. PICK f \in Files : f = at
  BY DEF OpenEnd, OpenBegin, LoadInv, CallOK
<1>3. ASSUME LoadEnd(f, FALSE)  PROVE LoadInv'
  <2>1. FALSE \in BOOLEAN /\ \A g \in Files : g # f => mem'[g] = mem[g]  BY <1>1
  <2> QED  BY <1>1, <1>2, <1>3, <2>1, AfterLoad
<1>4. CASE OpenBegin /\ ~fs  BY <1>2, <1>3, <1>4 DEF OpenBegin
<1>5. CASE OpenEnd /\ ~(Ok /\ file.name \in card[rd.buff[1][1]].files)
  <2>1. file.name = at  BY <1>5 DEF OpenEnd, LoadInv, CallOK
  <2> QED  BY <1>2, <1>3, <1>5, <2>1 DEF OpenEnd
<1>6. CASE OpenEnd /\ Ok /\ file.name \in card[rd.buff[1][1]].files
  <2>1. /\ file.call = "open" /\ file.name = at /\ at \in Files \ {"dtbo"}
        /\ rd.host = hci /\ rd.first = Directory /\ rd.count = 1 /\ file.read = 0
        /\ file' = [file EXCEPT !.call = "read"] /\ UNCHANGED <<at, ramdisk>>
    BY <1>6 DEF OpenEnd, Waits, LoadInv, CallOK, ReadingOK
  <2>3. Directory \notin Uncovered => rd.buff[1][1] = hci  BY <1>6, <2>1, DirectoryRead
  <2>4. file'.call = "read" /\ file'.name = at /\ file'.read = 0  BY <2>1 DEF FileOK
  <2>5. mem[f] \in Seq(Content) /\ Size[f] \in Nat
    BY BootAssumption DEF BootAssumption, LoadInv
  <2>6. Prefix'
    <3>1. at' = f /\ (Directory \notin Uncovered => f \in card'[hci'].files)
      BY <1>1, <1>2, <1>6, <2>1, <2>3
    <3>2. 0 \in 0 .. Size[f] /\ Len(mem'[f]) >= 0  BY <1>1, <2>5
    <3> QED  BY <2>4, <3>1, <3>2 DEF Prefix
  <2>7. LoadedOK' /\ RamdiskOK' /\ ramdisk' \in BOOLEAN  BY <1>1, <2>1, StaysKept
  <2>8. CallOK' /\ ReadingOK'
    <3>1. at' = at /\ fs' = fs /\ (at \in {"fixup", "dtbo"} => ~fs)
      BY <1>1, <2>1 DEF LoadInv, CallOK
    <3> QED  BY <2>1, <2>4, <2>6, <3>1 DEF CallOK, ReadingOK
  <2> QED  BY <1>1, <2>7, <2>8 DEF LoadInv
<1> QED  BY <1>4, <1>5, <1>6

(* The last sector of the file was read in a whole piece.                  *)
LEMMA EndKept ==
  ASSUME LoadInv, FileOK, EndOfFile
  PROVE  LoadInv'
<1>0. BootAssumption  BY BootAssumption
<1>1. /\ file.call = "read" /\ Wanted = 0 /\ Loop(0, TRUE)
      /\ UNCHANGED <<mem, card, hci, fs>> /\ mem' \in [Files -> Seq(Content)]
  BY DEF EndOfFile, diskvars, LoadInv
<1>2. PICK f \in Files : f = at  BY <1>1 DEF LoadInv, CallOK
<1>3. file.name = f /\ f # "dtbo" /\ Prefix  BY <1>1, <1>2 DEF LoadInv, CallOK, ReadingOK
<1>4. Size[f] \in Nat /\ Piece \in Nat /\ Piece > 0  BY <1>0 DEF BootAssumption
<1>5. LoadEnd(f, TRUE)
  <2>1. ~More(0, TRUE)  BY <1>4 DEF More
  <2>2. LoadEnd(file.name, ReadOk(TRUE))  BY <1>1, <2>1 DEF Loop
  <2> QED  BY <1>3, <2>2 DEF ReadOk
<1>6. file.read = Size[f]  BY <1>1, <1>2, <1>3, <1>4 DEF Wanted, Prefix
<1>7. Complete(f, hci)  BY <1>2, <1>3, <1>6 DEF Prefix, Complete
<1>8. Complete(f, hci)'  BY <1>1, <1>7 DEF Complete
<1>9. TRUE \in BOOLEAN /\ \A g \in Files : g # f => mem'[g] = mem[g]  BY <1>1
<1> QED  BY <1>1, <1>2, <1>3, <1>5, <1>8, <1>9, AfterLoad

(* Every step of the boot keeps what is loaded.                            *)
LEMMA LoadStep ==
  ASSUME LoadInv, FileOK, DiskInv, [Next]_vars
  PROVE  LoadInv'
<1>1. CASE UNCHANGED vars
  <2>1. UNCHANGED <<card, mem, hci, at, ramdisk, file, fs, rd>>
    BY <1>1 DEF vars, diskvars, bootvars
  <2>2. LoadedOK' /\ RamdiskOK'  BY <2>1, StaysKept
  <2>3. CallOK'  BY <2>1 DEF CallOK, LoadInv
  <2>4. Prefix => Prefix'  BY <2>1 DEF Prefix
  <2>5. Wanted' = Wanted  BY <2>1 DEF Wanted
  <2>6. ReadingOK'  BY <2>1, <2>4, <2>5 DEF LoadInv, ReadingOK
  <2> QED  BY <2>1, <2>2, <2>3, <2>6 DEF LoadInv
<1>2. CASE Sdc0 \/ Sdc2 \/ Again
  <2>1. at \in {"sdc0", "sdc2", "again"} /\ at' \in {"mount", "sdc2", "failed"}
        /\ UNCHANGED <<file, mem, ramdisk>>
    BY <1>2 DEF Sdc0, Sdc2, Again, InitCard
  <2>2. ~ramdisk /\ file.call = "none"  BY <2>1, FileNames DEF LoadInv, RamdiskOK, CallOK, End
  <2> QED  BY <2>1, <2>2, StartsOver
<1>3. CASE MountEnd
  <2>1. /\ UNCHANGED <<card, mem, hci, ramdisk, fs>> /\ file'.call = "none"
        /\ at' = CASE ~Ok -> IF at = "mount" THEN GiveUp ELSE "failed"
                   [] Ok -> IF at = "mount" THEN "bl31" ELSE "kernel"
    BY <1>3 DEF MountEnd, diskvars, None
  <2>2. at \in {"mount", "xmount"}  BY <1>3, FileNames DEF MountEnd, LoadInv, CallOK
  <2>3. ~ramdisk  BY <2>2 DEF LoadInv, RamdiskOK, End
  <2>4. at' \in {"again", "failed", "bl31"} \/ (at' = "kernel" /\ at = "xmount")
    BY <2>1, <2>2 DEF GiveUp
  <2>5. CASE at' \in {"again", "failed", "bl31"}  BY <2>1, <2>3, <2>5, StartsOver
  <2>6. CASE at' = "kernel" /\ at = "xmount"
    <3>1. \A f \in Needed \cup Kernel : at' \in Past(f) => at \in Past(f)
      BY <2>6 DEF Past, Needed, Kernel, End
    <3>2. LoadedOK'  BY <2>1, <3>1, PlaceKept
    <3>3. RamdiskOK'  BY <2>1, <2>3 DEF RamdiskOK
    <3>4. CallOK' /\ ReadingOK'  BY <2>1, <2>6 DEF CallOK, ReadingOK
    <3> QED  BY <2>1, <3>2, <3>3, <3>4 DEF LoadInv
  <2> QED  BY <2>4, <2>5, <2>6
<1>4. CASE Umount \/ Fixup
  <2>1. /\ UNCHANGED <<card, mem, hci, ramdisk, file>>
        /\ \/ at = "umount" /\ at' = "xmount"
           \/ at = "xumount" /\ at' = "fixup" /\ ~fs'
           \/ at = "fixup" /\ at' \in {"dtbo", "jumped", "failed"} /\ fs' = fs
    BY <1>4 DEF Umount, Fixup, Goto, diskvars
  <2>2. file.call = "none"  BY <2>1, FileNames DEF LoadInv, CallOK
  <2>3. \A f \in Needed \cup Kernel : at' \in Past(f) => at \in Past(f)
    BY <2>1 DEF Past, Needed, Kernel, End
  <2>4. LoadedOK'  BY <2>1, <2>3, PlaceKept
  <2>5. RamdiskOK'
    <3>1. Complete("initrd", hci) => Complete("initrd", hci)'  BY <2>1 DEF Complete
    <3>2. ramdisk => at \in End /\ Complete("initrd", hci)
      BY <2>1 DEF LoadInv, RamdiskOK, End
    <3>3. ramdisk => at' \in End \cup {"failed"}  BY <2>1, <3>2 DEF End
    <3> QED  BY <2>1, <3>1, <3>2, <3>3 DEF RamdiskOK
  <2>6. CallOK' /\ ReadingOK'  BY <2>1, <2>2 DEF LoadInv, CallOK, ReadingOK
  <2> QED  BY <2>1, <2>4, <2>5, <2>6 DEF LoadInv
<1>5. CASE Load  BY <1>5, CallKept, OpenKept, PieceKept, EndKept DEF Load
<1>6. CASE MountBegin \/ MountRead \/ DiskRound  BY <1>6, CallKept
<1>7. CASE Over  BY <1>1, <1>7 DEF Over
<1> QED  BY <1>1, <1>2, <1>3, <1>4, <1>5, <1>6, <1>7 DEF Next, Main

(* The boot starts with nothing loaded.                                    *)
LEMMA LoadInit == Init => FileOK /\ DiskInv /\ LoadInv
<1> SUFFICES ASSUME Init  PROVE FileOK /\ DiskInv /\ LoadInv
OBVIOUS
<1>1. FileOK /\ DiskInv  BY BootInit, DiskInvInit
<1>2. /\ at = "sdc0" /\ file.call = "none" /\ ramdisk = FALSE
      /\ mem = [f \in Files |-> <<>>]
  BY DEF Init, None
<1>3. mem \in [Files -> Seq(Content)]  BY <1>2
<1>4. LoadedOK  BY <1>2 DEF LoadedOK, Past, Needed, Kernel, End
<1>5. RamdiskOK /\ CallOK /\ ReadingOK  BY <1>2 DEF RamdiskOK, CallOK, ReadingOK
<1> QED  BY <1>1, <1>2, <1>3, <1>4, <1>5 DEF LoadInv

(* Whatever cards are in the board, whichever calls fail and whatever the  *)
(* first attempt has left: a board that jumps to BL31 has all it needs in  *)
(* memory, every sector at its place and from the card in use, or from the *)
(* other card where the bitmap does not cover the sector.                  *)
THEOREM BootHasWhatItLoaded == Spec => []BootsWhatItLoaded
<1>1. Init => FileOK /\ DiskInv /\ LoadInv  BY LoadInit
<1>2. /\ FileOK /\ DiskInv /\ LoadInv /\ [Next]_vars
      => (FileOK /\ DiskInv /\ LoadInv)'
  BY BootStep, DiskInvKept, LoadStep
<1>3. LoadInv => BootsWhatItLoaded
  BY DEF LoadInv, LoadedOK, RamdiskOK, Past, Needed, Kernel, End, BootsWhatItLoaded
<1> QED  BY <1>1, <1>2, <1>3, PTL DEF Spec

-----------------------------------------------------------------------------
(* The directory and the files lie on the cards, which end with a chunk.   *)
CardsFit ==
  \A h \in Hosts :
    /\ Directory < CardSectors[h]
    /\ \A f \in Files : Start[f] + Size[f] <= CardSectors[h]
    /\ \A s \in 0 .. CardSectors[h] - 1 : Chunk(s) + SectorsPerBit <= CardSectors[h]

(* The bitmap covers the sectors that say which files there are.           *)
NamesCovered == Directory \notin Uncovered /\ Start["extlinux"] \notin Uncovered

(* The second card is one that should boot.                                *)
Good == /\ card[SDC2].sound /\ Needed \cup Kernel \subseteq card[SDC2].files
        /\ "dtbo" \notin card[SDC2].keys

HostOK ==
  /\ at # "sdc0" => hci \in {SDC0, SDC2}
  /\ attempt \in {1, 2}
  /\ attempt = 2 => hci = SDC2 /\ at \notin {"sdc0", "sdc2", "again"}

(* A file is opened on a volume that is mounted, and the drive is ready.   *)
VolumeOK ==
  /\ fs \/ file.call # "none" => ~Stat
  /\ file.call \in {"init", "mount"} => fs
  /\ at \in Files \ {"dtbo"} => fs

(* No read of a good second card fails.                                    *)
SoundOK ==
  Good /\ hci = SDC2 /\ file.call \in {"mount", "open", "piece"} =>
    rd.state \in {"loop", "RES_OK"} /\ rd.first + rd.count <= CardSectors[hci]

(* The boot has given up only with the first card, with its files loaded.  *)
FailedOK ==
  Good => /\ at = "failed" => hci = SDC0 /\ \A f \in Needed : Complete(f, SDC0)
          /\ hci = SDC2 => at # "dtbo"

EmmcInv == HostOK /\ VolumeOK /\ SoundOK /\ FailedOK

(* A step to a place where nothing can have failed yet.                    *)
LEMMA NotFailed ==
  ASSUME at' \notin {"failed", "dtbo"}
  PROVE  FailedOK'
BY DEF FailedOK

(* A step with no file at work needs no sound card.                        *)
LEMMA NothingRead == ASSUME file'.call \in {"none", "init", "read"}  PROVE SoundOK'
BY DEF SoundOK

(* A load that ends without the file makes the boot try the second card,   *)
(* or give up with what load_sdcard has loaded.                            *)
LEMMA EmmcAfterLoad ==
  ASSUME LoadInv, EmmcInv, NEW f \in Files, f = at, NEW done \in BOOLEAN, LoadEnd(f, done),
         UNCHANGED <<card, hci, fs, attempt, Stat>>,
         \A g \in Files : g # f => mem'[g] = mem[g],
         Good /\ hci = SDC2 /\ f \in Needed \cup Kernel => done,
         f = "dtbo" => ~done
  PROVE  EmmcInv'
<1>1. file'.call = "none"  BY DEF LoadEnd, None
<1>2. f \in {"bl31", "scp", "extlinux", "kernel", "fdt", "splash", "initrd", "dtbo"}
  BY FileNames
<1>3. at' = CASE f \in Needed /\ ~done -> GiveUp
              [] f \in Kernel \cup {"dtbo"} /\ ~done -> "failed"
              [] OTHER -> After(f)
  BY DEF LoadEnd
<1>4. SoundOK'  BY <1>1, NothingRead
<1>5. HostOK /\ VolumeOK /\ FailedOK /\ (fs \/ f = "dtbo")
  BY DEF EmmcInv, VolumeOK
<1>6. CASE f \in Needed /\ ~done
  <2>1. at' = GiveUp  BY <1>2, <1>3, <1>6 DEF Needed, Kernel
  <2>2. CASE attempt = 1
    <3>1. at' = "again"  BY <2>1, <2>2 DEF GiveUp
    <3>2. HostOK'  BY <1>2, <1>5, <1>6, <2>2, <3>1 DEF HostOK, Needed
    <3>3. VolumeOK'  BY <1>1, <1>5, <3>1, FileNames DEF VolumeOK
    <3>4. FailedOK'  BY <3>1, NotFailed
    <3> QED  BY <1>4, <3>2, <3>3, <3>4 DEF EmmcInv
  <2>3. CASE attempt = 2
    <3>1. at' = "failed"  BY <2>1, <2>3 DEF GiveUp
    <3>2. hci = SDC2 /\ ~Good  BY <1>5, <1>6, <2>3 DEF HostOK
    <3>3. HostOK'  BY <1>5, <2>3, <3>1 DEF HostOK
    <3>4. VolumeOK'  BY <1>1, <1>5, <3>1, FileNames DEF VolumeOK
    <3>5. FailedOK'  BY <3>2 DEF FailedOK, Good
    <3> QED  BY <1>4, <3>3, <3>4, <3>5 DEF EmmcInv
  <2> QED  BY <1>5, <2>2, <2>3 DEF HostOK
<1>7. CASE f \in Kernel \cup {"dtbo"} /\ ~done
  <2>1. at' = "failed"  BY <1>2, <1>3, <1>7 DEF Needed, Kernel
  <2>2. HostOK'  BY <1>2, <1>5, <1>7, <2>1 DEF HostOK, Kernel
  <2>3. VolumeOK'  BY <1>1, <1>5, <2>1, FileNames DEF VolumeOK
  <2>4. \A g \in Needed : Complete(g, hci) /\ g # f /\ g \in Files
    BY <1>2, <1>7 DEF LoadInv, LoadedOK, Past, Needed, Kernel, End, Files
  <2>5. \A g \in Needed : Complete(g, hci)'
    <3> SUFFICES ASSUME NEW g \in Needed  PROVE Complete(g, hci)'
      OBVIOUS
    <3>1. mem'[g] = mem[g] /\ card' = card /\ hci' = hci  BY <2>4
    <3> QED  BY <2>4, <3>1 DEF Complete
  <2>6. Good => hci = SDC0
    <3>1. Good => hci # SDC2  BY <1>5, <1>7 DEF FailedOK
    <3> QED  BY <1>2, <1>5, <1>7, <3>1 DEF HostOK, Kernel
  <2>7. FailedOK'
    <3>1. Good' = Good /\ hci' = hci  BY DEF Good
    <3>2. Good => \A g \in Needed : Complete(g, SDC0)'
      BY <2>5, <2>6, <3>1 DEF Complete
    <3> QED  BY <2>1, <2>6, <3>1, <3>2 DEF FailedOK
  <2> QED  BY <1>4, <2>2, <2>3, <2>7 DEF EmmcInv
<1>8. CASE f # "dtbo" /\ (done \/ f \in {"splash", "initrd"})
  <2>1. at' = After(f)  BY <1>2, <1>3, <1>8 DEF Needed, Kernel
  <2>2. at' \in {"scp", "extlinux", "splash", "umount", "fdt", "initrd", "xumount"}
    BY <1>2, <1>8, <2>1 DEF After
  <2>3. HostOK'  BY <1>2, <1>5, <1>8, <2>2 DEF HostOK
  <2>4. VolumeOK'  BY <1>1, <1>5, <1>8 DEF VolumeOK
  <2>5. FailedOK'  BY <2>2, NotFailed
  <2> QED  BY <1>4, <2>3, <2>4, <2>5 DEF EmmcInv
<1> QED  BY <1>2, <1>6, <1>7, <1>8 DEF Needed, Kernel

(* A read that has ended without an error.                                 *)
LEMMA SoundRead ==
  ASSUME EmmcInv, Good, hci = SDC2, file.call \in {"mount", "open", "piece"}, Ended
  PROVE  Ok
BY DEF EmmcInv, SoundOK, Ended, Ok

(* What a call of disk_read for a file on the cards starts with.           *)
LEMMA SoundStart ==
  ASSUME EmmcInv, NEW s \in Nat, NEW n \in Nat \ {0}, disk_read(0, s, n), ~Stat,
         s + n <= CardSectors[hci], card' = card
  PROVE  SoundOK'
<1>1. rd' = [state |-> "loop", first |-> s, count |-> n, host |-> hci, buff |-> <<>>]
      /\ hci' = hci
  BY DEF disk_read
<1> QED  BY <1>1 DEF SoundOK

(* The steps that read, mount and open.                                    *)
LEMMA EmmcCall ==
  ASSUME CardsFit, LoadInv, EmmcInv, FileOK, DiskInv,
         MountBegin \/ MountRead \/ (OpenBegin /\ fs) \/ ReadBegin \/ DiskRound
  PROVE  EmmcInv'
<1>0. BootAssumption /\ CacheAssumption  BY BootAssumption, CacheAssumption
<1>1. UNCHANGED <<card, mem, hci, at, attempt>>
  BY RoundRequest
     DEF MountBegin, MountRead, OpenBegin, ReadBegin, DiskRound, Initialize, Read, disk_read,
         bootvars
<1>2. HostOK'  BY <1>1 DEF EmmcInv, HostOK
<1>3. FailedOK'
  <2>1. \A f \in Needed : Complete(f, SDC0) => Complete(f, SDC0)'  BY <1>1 DEF Complete
  <2>2. Good' = Good  BY <1>1 DEF Good
  <2> QED  BY <1>1, <2>1, <2>2 DEF EmmcInv, FailedOK
<1>4. VolumeOK'
  <2>1. CASE MountBegin
    <3>1. fs' /\ ~Stat'  BY <2>1 DEF MountBegin, Initialize, disk_initialize
    <3> QED  BY <3>1 DEF VolumeOK
  <2>2. CASE MountRead
    <3>1. fs' = fs /\ Stat' = Stat /\ file.call = "init"
      BY <2>2 DEF MountRead, Read, disk_read
    <3> QED  BY <1>1, <3>1 DEF EmmcInv, VolumeOK
  <2>3. CASE OpenBegin /\ fs
    <3>1. fs' = fs /\ Stat' = Stat  BY <2>3 DEF OpenBegin, Read, disk_read
    <3>2. ~Stat  BY <2>3 DEF EmmcInv, VolumeOK
    <3>3. fs' /\ ~Stat'  BY <2>3, <3>1, <3>2, Zenon
    <3> QED  BY <3>3 DEF VolumeOK
  <2>5. CASE ReadBegin
    <3>1. fs' = fs /\ Stat' = Stat /\ file.call = "read" /\ file'.call = "piece"
      BY <2>5 DEF ReadBegin, Read, disk_read, Waits, FileOK
    <3> QED  BY <1>1, <3>1 DEF EmmcInv, VolumeOK
  <2>4. CASE DiskRound
    <3>1. fs' = fs /\ file' = file /\ at' = at  BY <2>4 DEF DiskRound, bootvars
    <3>2. Stat' = Stat  BY <2>4, Zenon DEF DiskRound, Round, Direct, Hit, Miss
    <3> QED  BY <3>1, <3>2 DEF EmmcInv, VolumeOK
  <2> QED  BY <2>1, <2>2, <2>3, <2>4, <2>5
<1>5. SoundOK'
  <2>1. CASE MountBegin
    <3>1. file'.call = "init"  BY <2>1 DEF MountBegin, Waits, FileOK
    <3> QED  BY <3>1, NothingRead
  <2>0. hci \in Hosts  BY DEF DiskInv, DiskTypeOK
  <2>2. CASE MountRead \/ (OpenBegin /\ fs)
    <3>1. disk_read(0, Directory, 1) /\ ~Stat
      BY <2>2 DEF MountRead, OpenBegin, Read, EmmcInv, VolumeOK
    <3>2. Directory \in Nat /\ CardSectors[hci] \in Nat /\ Directory < CardSectors[hci]
      BY <1>0, <2>0 DEF BootAssumption, CacheAssumption, CardsFit
    <3>3. Directory + 1 <= CardSectors[hci]  BY <3>2
    <3> QED  BY <1>1, <3>1, <3>2, <3>3, SoundStart
  <2>3. CASE ReadBegin
    <3>1. /\ disk_read(0, Start[file.name] + file.read, Wanted) /\ ~Stat /\ Wanted > 0
          /\ file.name \in Files /\ file.read \in Nat
      BY <2>3 DEF ReadBegin, Read, EmmcInv, VolumeOK, FileOK
    <3>2. /\ Start[file.name] \in Nat /\ Size[file.name] \in Nat /\ Piece \in Nat
          /\ CardSectors[hci] \in Nat /\ Start[file.name] + Size[file.name] <= CardSectors[hci]
      BY <1>0, <2>0, <3>1 DEF BootAssumption, CacheAssumption, CardsFit
    <3>3. /\ Wanted \in Nat \ {0} /\ Start[file.name] + file.read \in Nat
          /\ Start[file.name] + file.read + Wanted <= CardSectors[hci]
      BY <3>1, <3>2 DEF Wanted
    <3> QED  BY <1>1, <3>1, <3>3, SoundStart
  <2>4. CASE DiskRound
    <3> SUFFICES ASSUME Good, hci = SDC2, file.call \in {"mount", "open", "piece"}
                 PROVE  rd'.state \in {"loop", "RES_OK"} /\ rd'.first + rd'.count <= CardSectors[hci]
      BY <1>1, <2>4 DEF SoundOK, Good, DiskRound, bootvars
    <3>1. /\ rd.first + rd.count <= CardSectors[hci]
          /\ rd'.first = rd.first /\ rd'.count = rd.count
      BY <2>4, RoundRequest DEF EmmcInv, SoundOK, DiskRound
    <3>2. rd.state = "loop" /\ Len(rd.buff) < rd.count /\ rd.first \in Nat /\ rd.count \in Nat
          /\ Len(rd.buff) \in Nat
      <4>1. rd.state = "loop"  BY <2>4 DEF DiskRound, Round, Direct, Hit, Miss
      <4>2. rd.buff \in Seq(Content) /\ rd.first \in Nat /\ rd.count \in Nat
        BY DEF DiskInv, DiskTypeOK, Content
      <4> QED  BY <4>1, <4>2 DEF DiskInv, AtWork
    <3>3. CardSectors[hci] \in Nat  BY <1>0, <2>0 DEF CacheAssumption
    <3>4. /\ sector \in 0 .. CardSectors[hci] - 1
          /\ sector + left = rd.first + rd.count
      BY <3>1, <3>2, <3>3 DEF sector, left
    <3>9. Chunk(sector) + SectorsPerBit <= CardSectors[hci]  BY <2>0, <3>4 DEF CardsFit
    <3>10. OnCard  BY <3>1, <3>4, <3>9 DEF OnCard, CanRead
    <3>5. rd'.state # "RES_ERROR"  BY <2>4, <3>10 DEF DiskRound, Good
    <3>6. \A buff : Copied(buff) => rd'.state \in {"loop", "RES_OK"}
      BY DEF Copied, DiskInv, DiskTypeOK
    <3>7. \A k : Fails(k) => rd'.state = "RES_ERROR"
      BY DEF Fails, DiskInv, DiskTypeOK
    <3>8. (\E buff : Copied(buff)) \/ (\E k : Fails(k))
      BY <2>4, Zenon DEF DiskRound, Round, Direct, Hit, Miss
    <3> QED  BY <3>1, <3>5, <3>6, <3>7, <3>8
  <2> QED  BY <2>1, <2>2, <2>3, <2>4
<1> QED  BY <1>2, <1>3, <1>4, <1>5 DEF EmmcInv

(* The steps that end the load of a file, or go on with it.                *)
LEMMA EmmcFile ==
  ASSUME NamesCovered, LoadInv, EmmcInv, FileOK, DiskInv,
         OpenEnd \/ (OpenBegin /\ ~fs) \/ ReadEnd \/ EndOfFile
  PROVE  EmmcInv'
<1>0. BootAssumption  BY BootAssumption
<1>1. UNCHANGED <<card, hci, fs, attempt, Stat>>
  BY DEF OpenEnd, OpenBegin, ReadEnd, EndOfFile, diskvars
<1>2. PICK f \in Files : f = at
  BY DEF OpenEnd, OpenBegin, ReadEnd, EndOfFile, LoadInv, CallOK
<1>3. \A g \in Files : g # f => mem'[g] = mem[g]
  BY <1>2 DEF OpenEnd, OpenBegin, ReadEnd, EndOfFile, LoadInv, CallOK
<1>4. ASSUME NEW done \in BOOLEAN, LoadEnd(f, done),
             Good /\ hci = SDC2 /\ f \in Needed \cup Kernel => done,
             f = "dtbo" => ~done
      PROVE  EmmcInv'
  BY <1>1, <1>2, <1>3, <1>4, EmmcAfterLoad
<1>5. ASSUME file'.call = "read", at' = at, at \in Files \ {"dtbo"}  PROVE EmmcInv'
  <2>1. SoundOK'  BY <1>5, NothingRead
  <2>2. HostOK'  BY <1>1, <1>5 DEF EmmcInv, HostOK
  <2>3. VolumeOK'  BY <1>1, <1>5 DEF EmmcInv, VolumeOK
  <2>4. FailedOK'  BY <1>5, FileNames, NotFailed
  <2> QED  BY <2>1, <2>2, <2>3, <2>4 DEF EmmcInv
<1>6. CASE OpenBegin /\ ~fs
  <2>1. f = "dtbo"  BY <1>2, <1>6 DEF EmmcInv, VolumeOK
  <2>2. LoadEnd(f, FALSE)  BY <1>2, <1>6 DEF OpenBegin
  <2>3. f \notin Needed \cup Kernel /\ FALSE \in BOOLEAN  BY <2>1 DEF Needed, Kernel
  <2> QED  BY <1>4, <2>2, <2>3
<1>7. CASE OpenEnd /\ Ok /\ file.name \in card[rd.buff[1][1]].files
  <2>1. /\ file' = [file EXCEPT !.call = "read"] /\ at' = at /\ at \in Files \ {"dtbo"}
    BY <1>7 DEF OpenEnd, Waits, LoadInv, CallOK
  <2>2. file'.call = "read"  BY <2>1 DEF FileOK
  <2> QED  BY <1>5, <2>1, <2>2
<1>8. CASE OpenEnd /\ ~(Ok /\ file.name \in card[rd.buff[1][1]].files)
  <2>1. /\ file.call = "open" /\ file.name = f /\ Ended /\ LoadEnd(f, FALSE)
        /\ rd.host = hci /\ rd.first = Directory /\ rd.count = 1
    BY <1>2, <1>8 DEF OpenEnd, LoadInv, CallOK, ReadingOK
  <2>2. ASSUME Good, hci = SDC2, f \in Needed \cup Kernel  PROVE FALSE
    <3>1. Ok  BY <2>1, <2>2, SoundRead
    <3>3. rd.buff[1][1] = hci  BY <2>1, <3>1, DirectoryRead DEF NamesCovered
    <3> QED  BY <1>8, <2>1, <2>2, <3>1, <3>3 DEF Good
  <2> QED  BY <1>4, <2>1, <2>2
<1>9. CASE ReadEnd
  <2>1. /\ file.call = "piece" /\ Ended /\ at = file.name /\ at \in Files \ {"dtbo"}
        /\ Loop(IF Ok THEN Len(rd.buff) ELSE 0, Ok)
    BY <1>9 DEF ReadEnd, LoadInv, CallOK
  <2>2. CASE More(IF Ok THEN Len(rd.buff) ELSE 0, Ok)
    <3>1. file'.call = "read" /\ at' = at  BY <2>1, <2>2 DEF Loop, FileOK
    <3> QED  BY <1>5, <2>1, <3>1
  <2>3. CASE ~More(IF Ok THEN Len(rd.buff) ELSE 0, Ok)
    <3>1. PICK done \in BOOLEAN : done = Ok  BY DEF Ok
    <3>2. LoadEnd(f, done) /\ f # "dtbo"  BY <1>2, <2>1, <2>3, <3>1 DEF Loop, ReadOk
    <3>3. Good /\ hci = SDC2 => done  BY <2>1, <3>1, SoundRead
    <3> QED  BY <1>4, <3>2, <3>3
  <2> QED  BY <2>2, <2>3
<1>10. CASE EndOfFile
  <2>1. file.name = f /\ f # "dtbo" /\ Loop(0, TRUE)
    BY <1>2, <1>10 DEF EndOfFile, LoadInv, CallOK
  <2>2. Piece \in Nat /\ Piece > 0  BY <1>0 DEF BootAssumption
  <2>3. ~More(0, TRUE)  BY <2>2 DEF More
  <2>4. LoadEnd(f, TRUE)  BY <2>1, <2>3 DEF Loop, ReadOk
  <2> QED  BY <1>4, <2>1, <2>4
<1> QED  BY <1>6, <1>7, <1>8, <1>9, <1>10

(* Every step of the boot keeps what a good second card promises.          *)
LEMMA EmmcStep ==
  ASSUME CardsFit, NamesCovered, LoadInv, EmmcInv, FileOK, DiskInv, [Next]_vars
  PROVE  EmmcInv'
<1>0. BootAssumption  BY BootAssumption
<1>1. CASE UNCHANGED vars
  <2>1. UNCHANGED <<card, mem, hci, at, attempt, file, fs, rd, Stat>>
    BY <1>1 DEF vars, diskvars, bootvars
  <2>2. Good' = Good  BY <2>1 DEF Good
  <2>3. \A f \in Needed : Complete(f, SDC0) => Complete(f, SDC0)'  BY <2>1 DEF Complete
  <2>4. HostOK' /\ VolumeOK'  BY <2>1 DEF EmmcInv, HostOK, VolumeOK
  <2>5. SoundOK' /\ FailedOK'  BY <2>1, <2>2, <2>3 DEF EmmcInv, SoundOK, FailedOK
  <2> QED  BY <2>4, <2>5 DEF EmmcInv
<1>2. CASE Sdc0 \/ Sdc2 \/ Again
  <2>1. at \in {"sdc0", "sdc2", "again"}  BY <1>2 DEF Sdc0, Sdc2, Again
  <2>2. file.call = "none"  BY <2>1, FileNames DEF LoadInv, CallOK
  <2>3. UNCHANGED <<file, fs, Stat, card>>
    BY <1>2 DEF Sdc0, Sdc2, Again, InitCard, SetHost
  <2>4. SoundOK'  BY <2>2, <2>3, NothingRead
  <2>5. attempt = 1  BY <2>1 DEF EmmcInv, HostOK
  <2>6. CASE Sdc0
    <3>1. hci' = SDC0 /\ at' \in {"mount", "sdc2"} /\ attempt' = 1
      BY <2>5, <2>6 DEF Sdc0, InitCard, SetHost
    <3> QED  BY <2>2, <2>3, <2>4, <3>1, FileNames, NotFailed
             DEF EmmcInv, HostOK, VolumeOK
  <2>7. CASE Sdc2 \/ Again
    <3>1. hci' = SDC2 /\ attempt' \in {1, 2}
          /\ (at' = "mount" \/ (at' = "failed" /\ ~card[SDC2].sound))
      BY <2>5, <2>7 DEF Sdc2, Again, InitCard, SetHost
    <3>2. HostOK' /\ VolumeOK'
      BY <2>2, <2>3, <3>1, FileNames DEF EmmcInv, HostOK, VolumeOK
    <3>3. FailedOK'  BY <2>3, <3>1 DEF FailedOK, Good
    <3> QED  BY <2>4, <3>2, <3>3 DEF EmmcInv
  <2> QED  BY <1>2, <2>6, <2>7
<1>3. CASE MountEnd
  <2>1. /\ UNCHANGED <<card, mem, hci, fs, attempt, Stat>> /\ file'.call = "none"
        /\ file.call = "mount" /\ Ended
        /\ at' = CASE ~Ok -> IF at = "mount" THEN GiveUp ELSE "failed"
                   [] Ok -> IF at = "mount" THEN "bl31" ELSE "kernel"
    BY <1>3 DEF MountEnd, diskvars, None
  <2>2. at \in {"mount", "xmount"}  BY <1>3, FileNames DEF MountEnd, LoadInv, CallOK
  <2>3. SoundOK'  BY <2>1, NothingRead
  <2>4. Good /\ hci = SDC2 => Ok  BY <2>1, SoundRead
  <2>5. HostOK /\ VolumeOK  BY DEF EmmcInv
  <2>6. CASE Ok
    <3>1. at' \in {"bl31", "kernel"}  BY <2>1, <2>6
    <3>2. fs
      BY <1>3, <2>1 DEF EmmcInv, VolumeOK
    <3> QED  BY <2>1, <2>2, <2>3, <2>5, <3>1, <3>2, NotFailed DEF EmmcInv, HostOK, VolumeOK
  <2>7. CASE ~Ok /\ at = "mount" /\ attempt = 1
    <3>1. at' = "again"  BY <2>1, <2>7 DEF GiveUp
    <3> QED  BY <2>1, <2>3, <2>5, <2>7, <3>1, FileNames, NotFailed DEF EmmcInv, HostOK, VolumeOK
  <2>8. CASE ~Ok /\ ~(at = "mount" /\ attempt = 1)
    <3>1. at' = "failed"  BY <2>1, <2>2, <2>5, <2>8 DEF GiveUp, HostOK
    <3>2. hci \in {SDC0, SDC2} /\ (Good => hci # SDC2)
      BY <2>2, <2>4, <2>5, <2>8 DEF HostOK
    <3>3. at = "xmount" \/ ~Good  BY <2>2, <2>5, <2>8, <3>2 DEF HostOK
    <3>4. at = "xmount" => \A f \in Needed : Complete(f, hci)
      BY DEF LoadInv, LoadedOK, Past, Needed
    <3>5. \A f \in Needed : Complete(f, hci) => Complete(f, hci)'  BY <2>1 DEF Complete
    <3>6. FailedOK'
      <4>1. Good' = Good /\ hci' = hci  BY <2>1 DEF Good
      <4> QED  BY <3>1, <3>2, <3>3, <3>4, <3>5, <4>1 DEF FailedOK, Complete
    <3>7. HostOK' /\ VolumeOK'  BY <2>1, <2>5, <3>1, <3>2, FileNames DEF HostOK, VolumeOK
    <3> QED  BY <2>3, <3>6, <3>7 DEF EmmcInv
  <2> QED  BY <2>6, <2>7, <2>8
<1>4. CASE Umount
  <2>1. /\ UNCHANGED <<card, mem, hci, attempt, Stat, file>> /\ ~fs'
        /\ at \in {"umount", "xumount"} /\ at' \in {"xmount", "fixup"}
    BY <1>4 DEF Umount, Goto, diskvars
  <2>2. file.call = "none"  BY <2>1, FileNames DEF LoadInv, CallOK
  <2>3. SoundOK'  BY <2>1, <2>2, NothingRead
  <2> QED  BY <2>1, <2>2, <2>3, FileNames, NotFailed DEF EmmcInv, HostOK, VolumeOK
<1>5. CASE Fixup
  <2>1. /\ UNCHANGED <<card, mem, hci, attempt, Stat, file, fs>> /\ at = "fixup"
        /\ \/ at' = IF "dtbo" \in data THEN "dtbo" ELSE "jumped"
           \/ at' = "failed" /\ ~card[hci].sound
    BY <1>5 DEF Fixup, Goto, diskvars
  <2>2. file.call = "none"  BY <2>1, FileNames DEF LoadInv, CallOK
  <2>3. SoundOK'  BY <2>1, <2>2, NothingRead
  <2>4. at' \in {"dtbo", "jumped", "failed"}  BY <2>1
  <2>5. HostOK' /\ VolumeOK'
    BY <2>1, <2>2, <2>4, FileNames DEF EmmcInv, HostOK, VolumeOK
  <2>6. \A f \in Needed : Complete(f, hci)
    BY <2>1 DEF LoadInv, LoadedOK, Past, Needed, End
  <2>7. hci \in {SDC0, SDC2}  BY <2>1 DEF EmmcInv, HostOK
  <2>8. Good /\ hci = SDC2 => at' = "jumped"
    <3>1. Complete("extlinux", hci) /\ Size["extlinux"] \in Nat \ {0} /\ Start["extlinux"] \in Nat
      BY <1>0, <2>6 DEF BootAssumption, Needed, Files
    <3>5. /\ mem["extlinux"][1] \in SectorOf(Start["extlinux"] + 1 - 1, hci)
          /\ Len(mem["extlinux"]) >= 1
      BY <3>1 DEF Complete
    <3>6. Start["extlinux"] + 1 - 1 = Start["extlinux"]  BY <3>1
    <3>7. SectorOf(Start["extlinux"], hci) = {<<hci, Start["extlinux"]>>}
      BY <1>0, <2>7, <3>1, SectorOfFacts DEF NamesCovered, BootAssumption
    <3>2. mem["extlinux"][1] = <<hci, Start["extlinux"]>> /\ Len(mem["extlinux"]) >= 1
      BY <3>5, <3>6, <3>7
    <3>3. mem["extlinux"] # <<>>  BY <3>2
    <3>4. data = card[hci].keys  BY <3>2, <3>3 DEF data
    <3> QED  BY <2>1, <3>4 DEF Good
  <2>9. FailedOK'
    <3>1. Good' = Good /\ hci' = hci  BY <2>1 DEF Good
    <3>2. \A f \in Needed : Complete(f, hci)'  BY <2>1, <2>6 DEF Complete
    <3> QED  BY <2>4, <2>7, <2>8, <3>1, <3>2 DEF FailedOK, Complete
  <2> QED  BY <2>3, <2>5, <2>9 DEF EmmcInv
<1>6. CASE MountBegin \/ MountRead \/ DiskRound  BY <1>6, EmmcCall
<1>7. CASE Load  BY <1>7, EmmcCall, EmmcFile DEF Load
<1>8. CASE Over  BY <1>1, <1>8 DEF Over
<1> QED  BY <1>1, <1>2, <1>3, <1>4, <1>5, <1>6, <1>7, <1>8 DEF Next, Main

(* A board whose second card is sound, with all the files on it and no     *)
(* overlay, boots, unless the first card has got through load_sdcard; if   *)
(* the bitmap covers the directory and extlinux.conf.                      *)
THEOREM BootFallsBack == CardsFit /\ NamesCovered => (Spec => []EmmcBoots)
<1> SUFFICES ASSUME CardsFit, NamesCovered  PROVE Spec => []EmmcBoots
  OBVIOUS
<1>1. Init => FileOK /\ DiskInv /\ LoadInv /\ EmmcInv
  <2> SUFFICES ASSUME Init  PROVE EmmcInv
    BY LoadInit
  <2>1. at = "sdc0" /\ file.call = "none" /\ fs = FALSE /\ attempt = 1
    BY DEF Init, None
  <2> QED  BY <2>1, FileNames DEF EmmcInv, HostOK, VolumeOK, SoundOK, FailedOK
<1>2. /\ FileOK /\ DiskInv /\ LoadInv /\ EmmcInv /\ [Next]_vars
      => (FileOK /\ DiskInv /\ LoadInv /\ EmmcInv)'
  BY BootStep, DiskInvKept, LoadStep, EmmcStep
<1>3. EmmcInv => EmmcBoots  BY DEF EmmcInv, FailedOK, Good, EmmcBoots
<1> QED  BY <1>1, <1>2, <1>3, PTL DEF Spec

=============================================================================

# SyterKit: TLA+ models, checks and proofs

SyterKit is a bare-metal boot loader and board-support kit for Allwinner SoCs. It runs on one core,
without an operating system: a main loop, interrupt handlers that preempt it, and hardware (DMA,
USB controller, card, bus devices) that moves on its own. This directory models the parts of it
that carry state and can go wrong through an order of events nobody wrote a test for.

Source paths are relative to the repository's `src/`; `PROJECT.json` maps every definition to its lines
and lists the hazards, each at its line, with the properties that cover it.

## 1. Inventory

| component | source | state it keeps | operations | interacts with | hard behaviour | what makes it correct |
|---|---|---|---|---|---|---|
| Heap | `src/smalloc.c` | chain of blocks from `boot_heap_head` to `boot_heap_tail` | `smalloc`, `srealloc`, `sfree` | USB, image loading, commands allocate from it | long sequences of calls; gaps smaller than a header; realloc that moves a block | no two callers own the same bytes; every block held is on the chain; nothing leaks |
| Software timers | `src/os.c` | list of `timer_t`, elapsed time and run count of each | `timer_create`, `timer_start`, `timer_handle` | main loop; callbacks start timers | list edited while it is walked | running timers are the listed ones; they fire on time, as often as asked; the walk ends |
| DMA channels | `src/drivers/sys-dma.c` | `used` and descriptor of each channel, `dma_int_cnt`, interrupt registers | init, exit, request, release, start, stop, interrupt calls, `sunxi_dma_test` | SPI driver, test commands | pool at its limit, timeout racing completion, order of clean-up | a channel has one owner; an unused one neither runs nor interrupts; counters agree |
| Interrupt controller (arm32) | `src/drivers/intc/sys-gic.c` | handler table, enable mask, I bit | install, free, enable, disable, `do_irq` | USB registers its handler here | preemption between two stores | a handler runs with its own data; every acknowledge is ended; the caller's mask is kept |
| USB mass storage | `src/drivers/usb/` (`usb.c`, `module/usb_mass.c`, device, controller) | state of the transport, command buffer, flags, endpoint index register | state loop, PIO write, DMA receive, `sunxi_usb_irq` | GIC, USB DMA, the host, block device | handler preempts the loop anywhere; bus reset; two users of one index register | host sees answers in order; buffer intact; no packet stuck; no command left without status |
| SD/MMC, stack A | `src/drivers/mmc/` | `g_mmc`, the controller's width, timing and clock, `fatal_err`, `online` | `sdmmc_init`, every command of it | the card; the boot | polls and retries with counters of their own; errors overwritten; a card left as an earlier init left it | card and controller agree on bus and clock; the init ends |
| FatFs disk glue | `lib/fatfs/diskio.c` | sector cache and bitmap in SDRAM, whose card it is | `disk_initialize`, `disk_read` | card driver, FatFs | two cards under one drive number; chunks half read; ends of the cache | a read returns the sectors of the card in use |
| Boot application | `board/avaota-a1/extlinux_boot/main.c` | destinations in memory, FatFs volume, ramdisk size | mount, load of each file, retry from the second card, jump | disk glue, `sdmmc_init` | what the first attempt leaves for the second | it boots with everything loaded, from one card; it ends |
| I2C | `src/drivers/sys-i2c.c` | control register of the bus, result and counter of each phase | `sunxi_i2c_read`, `sunxi_i2c_write` | PMU drivers | a phase given up still ends; last poll | a call reads or writes its register or fails |
| PMU rails | `src/drivers/pmu/axp.c`, `axp1530.c` | registers of the power chip | `axp_set_vol`, `axp_get_vol`, AXP1530 init and dual phase | I2C; every board's start | one of four transfers fails; step tables with gaps | a rail changes alone, and as told |
| Command line | `src/cli/` | edit buffer, clipboard, history ring, argument buffer | every key, entering, splitting, running | UART, the boot's shell | full buffer, wrapped ring, recall of edited lines, several sentences per line | terminal, buffer and history agree; commands run in order |
| USB control endpoint, USB DMA, detect | `usb.c` (`ep0_recv_op`, `sunxi_usb_init`), `usb_dma.c` | `address`, control phase; channel flags | setup requests, SET_ADDRESS; request, start, query | mass storage | status stage; init failing half way | not modelled, see 6 |
| SD/MMC stack B, SPI, SPI NAND / NOR, UFS | `src/drivers/sdhci/`, `mtd/`, `sys-spi.c`, `ufs/` | transfer state; page cache; write-enable latch | identify, read, write, erase | boot | stale cache after a failed load | not modelled, see 6 |
| Image formats, FDT, other boot mains, remote processors | `src/image/`, `board/`, `src/drivers/chips/` | none beyond locals; reset registers | check, edit, jump, start | cards | fallbacks as in the boot application | not modelled, see 6 |
| Clocks, DRAM, GPIO, UART, RTC, TRNG, PWM, logging, strings | `src/drivers/`, `src/` | registers | - | - | numeric or straight register code | not modelled, see 6 |
| FatFs, libfdt, tools, Rust binding | `lib/`, `utils/`, `tools/`, `rust/` | - | - | - | - | vendored or not the firmware |

## 2. Modules

```
HeapContract   <-- implements -- Smalloc  <-- SmallocProofs <-- MCSmalloc
EditorContract <-- implements -- LineEdit <-- Shell <-- MCCli
                                 Shell    <-- CliProofs
RegisterBus    <-- implements -- I2c <-- Pmu <-- MCPmu
DiskCache <-- ExtlinuxBoot <-- MCBoot;         ExtlinuxBoot <-- DiskCacheProofs
MmcCard   <-- Mmc <-- MCMmc;                   Pmu, Mmc <-- BusProofs
Dma <-- DmaProofs      Gic <-- GicProofs      UsbMass <-- UsbMassProofs      OsTimer <-- OsTimerProofs
```

An unmarked arrow is EXTENDS. `ExtlinuxBoot` is composed with `DiskCache` (its calls of FatFs become `disk_read`s, one
round of the loop per step), `Pmu` with `I2c` (every access to a register is a call of the driver, interleaved
with the controller), `Shell` with `LineEdit`. The others stand on their own: USB sees the interrupt controller only
as the fact that the handler runs to its end once it is taken, which `Gic` shows for handlers
that do not free their interrupt, and `disk_read` sees the card driver as transfers that succeed or fail after some sectors.

**Smalloc** (`src/smalloc.c`). `list` is the chain between the two sentinels, in order; a block is its
address, rounded size and requested size. `held` maps each pointer a caller owns to the bytes it asked
for, which the code does not keep and which is what the properties are about. Each function is one
action (`Alloc`, `Free`, `Realloc`), because the heap is never used from an interrupt handler. Additions
are those of a `Word`-sized unsigned. `Spec` is the program without `srealloc`, `ReallocSpec` the
one with it. `srealloc` asks for `o_size + num_bytes` as the code does, although the header documents
`num_bytes` as "the new size in bytes". A call that fails leaves the old block alone.
**HeapContract** says what the header file promises, without a chain: an allocation grants memory that is
apart from every other holding, a free gives up one of them.

**UsbMass** (`usb.c`, `usb_mass.c` and the parts of `usb_device.c` they call). `pc` is where the state loop or
`sunxi_usb_write_fifo` or `sunxi_usb_start_recv_by_dma` is; it is cut at each access to what the interrupt handler also touches:
the transport status, the receive buffer and its flag, the write-enable flag, and the controller's
endpoint index. `Irq` is one execution of `sunxi_usb_irq`, with reset, disconnect, transmit, receive and
control branches in the code's order, including its save and restore of the index register: it saves into
`old_ep_index` and writes back `old_ep_idx`, which is 0. The host sends a command, its write data, takes
packets and resets the bus. Commands are of four kinds: without data, reading, writing, malformed. `Quiet`
keeps bus events to the times when the loop waits. A completion of the receive channel that is pending at a bus reset outlives it, as in the
code: the RESET branch returns before `usb_dma_int_clear`.

**Dma** (`sys-dma.c`). Sets of used, enabled, running and held channels, the pending bits of the shared register,
`dma_int_cnt`. Functions are actions; `sunxi_dma_test` is split around its polling loop, during which only the hardware and the
clock move. A transfer may end or hang.

**OsTimer** (`os.c`). The list is `task_list` and `next`, pointer by pointer, because the walk of `task_loop`
continues through a task that was just unlinked. A callback is a state in the middle of the walk in
which any number of timers may be started. An endless list is recognised when as many steps as there
are timers do not reach NULL; `at = "hung"` stands for `add_task` not returning.

**Gic** (`sys-gic.c`). The table is written in two stores, data and then function, and `do_irq` can come between any
two steps while the I bit is clear. `stack` holds the nested activations of `do_irq`.

**LineEdit** (`cli/lineedit.c`, `cli/history.c`). `buf` is the character array with whatever earlier edits left
behind its NUL; each edit is the code's `strcpy`s and its output, and `term` is where that output leaves the line of the
terminal. One action per key of `cursor_inputchar`. `entered`, the lines entered, is a history variable. The interrupt of a
line is `Discard`. **EditorContract** is a line before and after a cursor, a clipboard and the past lines; the contract
knows no array, no ring and no terminal. **Shell** (`parse.c`, `shell.c`, `commands.c`) adds `read_token`, the loop over the
sentences and the lookup in the two lists of commands. The loops of `read_token` and `msh_parse_line` are rounds (`ReadRound`, `ParseRound`) done once for
each character of the line and its NUL, which is as often as they can go round; a round after the end changes nothing. `Meaning` says what a line
means without a reader: a mode for every character (`Mode`), sentences between plain separators, words between plain blanks, each word its literal
characters. `CommandsInOrder` compares the calls with it: all of the line's once it is done, before that those of the sentences in front of `linebufp`.

**DiskCache** (`diskio.c`). A sector's contents stand for where it was read, `<<host, sector>>`, so that data of one
card cannot be taken for another's. `rd` is the call of `disk_read` at work, one round of its loop per step: `Direct` (behind
the cache), `Hit`, `Miss` (which reads a chunk, or part of it and fails). The size of the cache is any number, as in the code, whose divisions
round: `Bits` are those of `cache_bitmap`, `BitsUsed` include the byte behind it that the sectors without a bit (`Uncovered`) use, `Slots` the place
behind the area that the last chunk may be loaded to. A change of the card clears `Bits` only. `ReadsCurrentCard` and what rests on it say through `SectorOf`
what is left of the promise: an uncovered sector may come from an earlier card. The byte behind the array is taken to be padding,
and all of the area for memory. **ExtlinuxBoot** is `main` of one board: controllers, mount,
`load_sdcard` with its files, `load_extlinux`, the second attempt from SDC2, the edits of the device tree as one step that
may fail, and the jump. FatFs is modelled by what the two files see of it: a mount and an open read a directory sector,
`f_read` is one `disk_read` into the destination.

**MmcCard** is an SD card or an eMMC as the driver depends on it: which commands it answers in which state, and its width, clocking and
timing afterwards. It is external to the repository and states what the two card standards say of these commands.
**Mmc** (`sys-mmc.c`, `sys-sdhci.c`) is `sdmmc_init`, one step per command, with its polls and retries. A command fails if the
card does not answer, and up to `Faults` times for another reason, whether the card has obeyed or not. `lost` records
that `sunxi_mmc_switch` reported success for a CMD6 that failed. A second init meets the card as the first one left it.

**I2c** (`sys-i2c.c`) has the driver phase by phase and poll by poll, and a controller that works on its own: a condition or byte
that the driver has stopped waiting for can still end. **RegisterBus** is what its callers may believe: a call that returns 0 has read or
written the register; one that fails may have, and the byte may arrive until the next call begins. **Pmu** (`axp.c`, `axp1530.c`)
is a step per access to a register. `Encode` and `Decode` are the two loops over the step table; `Voltages` and `Place` say what
they should do without loops, as the set of voltages a rail has and the place of one in it. In `MCPmu` ASSUMEs
compare them over the tables of the AXP1530 and AXP333 for voltages in steps of 10 mV; that they agree for every table is proved (section 4).

## 3. Runs

| run | asks | bounds and why they are enough |
|---|---|---|
| `MCSmalloc` | holdings apart, on the chain; `HeapContract` implemented | thirteen 16-byte units: up to five blocks, gaps of zero, one and more headers; requests 0, 1, 16, 40 cover exact, rounded and multi-unit sizes |
| `MCSrealloc` | chain ordered, no leak and memory inside the heap, with `srealloc` | ten units: three blocks and every gap between them, enough for a block to move before or behind its old place |
| `MCSreallocLost` | violation, see 5 | thirteen units: the gap in front of a block must take a larger one |
| `UsbMassQuiet` | order of answers, command buffer, stranded packets, receive channel and `write_enable`, every command answered | three commands of every kind (one before, at and after a reset), reads of at most one packet, writes of two, two bus events of any kind; bus events come while the loop waits (see 5 for the other case) |
| `UsbMassTwoPackets` | violation, see 5 | the same instance with reads of two packets |
| `DmaChannels` | ownership, counters, quiet unused channels, the test's verdict and return | three channels (first, middle, last) instead of the source's count, the table being symmetric; timeout 2 so that completion falls before, at and after it; three inits and exits |
| `OsTimerLegal` | list, timing, run limits, return of the walk | three timers: a walk removes the head, a middle one and the tail; interval 2 so that a pass and a firing both occur; limits 1, 2 and always |
| `GicDrivers` | consistent calls, every interrupt ended, mask kept | two interrupts and two handlers, so that a handler can be replaced and another interrupt can be waiting |
| `Cli` | buffer, terminal and history agree; `EditorContract` implemented; the commands of a line, in order | an array of three (lines of two characters, every position of a cursor in them, full and not full) and a ring of two that wraps; one letter and the blank, which tells words; the parser on every line of up to five characters over letters, blank, separator, quote and escape |
| `ExtlinuxBoot` | whole chunks; sectors of the right card; boots only with everything; a sound second card boots; the boot ends | two cards of fourteen sectors with the same layout, a cache of seven in chunks of two and bytes of two bits, as on the modelled board no whole number of either: sectors 4 to 6 have no bit and the last chunk ends behind the area (both cards' sectors are met there, the exception of `ReadsCurrentCard` is used), the kernel half in the cache; pieces of two sectors, so that a file is one piece, ends on a piece or takes two; cards that fail at any call or lack a file |
| `MmcInit` | card and controller agree; clock within what the card has switched to; init ends | every kind of card on both controllers; three faults, because losing an error takes one, and hiding it two; two inits, so that a card is met in transfer state; polls and retries of 1 to 3 instead of 1000, 3, 4 and 5 keep the first, a middle and the last round apart |
| `Pmu` | `RegisterBus` implemented; a rail changes alone; voltages told | two functions, the second one started while the byte of the first is under way; two polls, so that a phase ends before, at and after the last; two rails that share the switch register, a third on an address where nobody answers |

Deadlock is not checked in the `UsbMass*`, `DmaChannels`, `MmcInit` and `Pmu` runs, where the bounds on commands, inits and functions end the
behaviour. It is checked in all others.

Interval 1 is left out of `OsTimerLegal`: callbacks that start one-shot timers of interval 1
on each other keep the walk from ending, because a task appended to the list is reached by the
walk that is on its way. For the same reason a timer started by a callback counts the tick it is
started in, and `OnTime` says that its first firing comes a tick early.

### Fairness

There is one thread, which never blocks, and the hardware: the main loop steps (`WF_vars(MainLoop)`), a pending
interrupt is taken, the DMA takes the packet it waits for, the host keeps asking for the data of the command it has
sent (the bulk-only transport; without this a device can never finish) - `EveryCommandAnswered`.
`TestReturns` needs the thread and the clock, not the end of the transfer. `FiniteTimersEnd` and
`HandleReturns` need `timer_handle` to be "called continuously in the main loop", as `os.h` demands,
and callbacks to return. `InitEnds` needs only the thread (`WF_vars(Driver)`): a card may stay busy for ever. `BootEnds` needs the thread, in `main` and in
`disk_read`. Nobody is obliged to send a command, start a timer, or raise an interrupt.

## 4. Proofs

All theorems hold for every value of the constants that satisfies the named assumptions. Liveness is out of the
prover's reach.

### The heap

`SmallocProofs`, for every heap position and size, every header size and every set of requests:

- `ReallocTypeCorrect`, `ReallocChainOrdered`: with all three functions, a block's footprint ends before the
  header of the next one begins, and all lie between the sentinels;
- `ReallocHeldInHeap`, `ReallocNoLeak`: with all three functions, memory handed out lies inside the heap even after `srealloc` has lost
  a block, and every block on the chain has an owner;
- `SpecHeldListed`, `SpecHeldDisjoint`: under `Spec`, every holding is on the chain with the bytes asked for, and
  holdings are apart;
- `SpecImplementsContract`: `Spec => Contract!Spec`, the refinement the run checks.

Assumptions: `HeapAssumption` (the heap lies below `Word`, the head's header fits) and `NoWrapAssumption` (a
request, rounded and with two headers, does not wrap when added to an address in the heap). The second one
is needed: `BYTE_ALIGN` of a request within 15 of 2^32 is 0.

Argument. `ChainOrdered` is not inductive without types, so `ChainInv` adds that every node is a block
with natural fields. The search condition `Fits` leaves room for two headers, the one of the new block and
the one of the node behind the gap, which gives the order of `Linked` (a block inserted); dropping a block
(`Skip`) keeps the order by transitivity. `srealloc` is a `Linked` followed by up to two `Skip`s, or a growth in place,
whose guard is the same inequality. `HeldDisjoint` is not inductive either: the code only looks at the
chain. `HeapInv` is `ChainInv`, `HeldListed` and the fact that the size of a held block is at least
what was asked; disjointness follows from the order of two listed blocks. With `srealloc` the `HeldListed` part is false,
which is why these theorems are about `Spec`. `NoLeak` needs that addresses on an ordered chain are unique: a move
takes the old block off and nothing else that has no owner stays. The refinement maps `Alloc` to `Grant` (the new block is apart from all
listed ones, hence from all held ones), `Free` to `Release` or a stutter.

### USB mass storage

`UsbMassProofs` proves `UsbAnswerInOrder`, `UsbCommandIntact`, `UsbNoPacketStranded` and `UsbDmaOfCommand` for any number and kinds of
commands, any length of writes and any bus events, under `Restricted`: a read takes one packet, and bus events find the loop at
rest. Without the first the code is wrong (`UsbMassTwoPackets`), and without the second too (section 5). None of the four is
inductive. `UsbInv` is the list of stages of a command - unasked, resetting, coming, received, decoding, dropped, writing,
reading, data sent, concluding, over - each with the whole of what loop, handler, endpoints, DMA and host hold in it. The pending completion
and the flag are left open in every stage but those of a write being received, since a completion outlives the reset that ends its write; `DmaOfCommand` is what holds
all the same: while a write is received the flag is of this write, because the state loop clears it before it
starts the channel (`usb_mass.c:759`) and a completion left by a reset has been taken before the loop goes on. The proof
has a lemma for every action and tells which stages it leads from and to.

### The DMA channels

`DmaProofs`, for every number of channels, every timeout and any number of inits and exits: `DmaTypeCorrect`,
`DmaUsedIsHeld`, `DmaCountIsEnabled`, `DmaUnusedIsQuiet`, `DmaDoneMeansOver`. `DmaAssumption`, that the table is
not empty and the bounds are naturals, is all they assume. The last three need each other: `dma_int_cnt` is right only if an enabled
channel is used (`Owned`), since `sunxi_dma_disable_int` ignores an unused one; a release leaves its channel quiet only because it
disables the interrupt while the channel is still marked used; and the test's verdict holds only while nobody else can start
its channel. Two facts of `IInv` are none of the properties: outside init and exit no channel is used, which makes the reset of the
count in `sunxi_dma_init` correct although `sunxi_dma_exit` leaves the count behind; and a test that polls still uses its
channel. Counting is done in one lemma about cardinalities, `DisableCounts`.

### The interrupt controller

`GicProofs`, for every set of interrupts and handlers: `GicTypeCorrect`; `GicCallIsConsistent` and
`GicNothingLeftActive`, whoever frees a handler and however deep `do_irq` nests; `GicMaskKept` and `GicNoNesting` under
`~FreeMasked`, that is, if no handler is freed while interrupts are masked (section 5 says why the condition is needed).
`GicAssumption` says that `NULL` and `default_isr` are not handlers of a driver.

`CallIsConsistent` is about the top of the stack and not inductive. `IInv` adds the state of a call in
progress (`CallOK`: it runs masked and outside `do_irq`, its arguments were checked), what the table holds when one of its two stores
has been done (`TableOK`, with `HalfWritten`), that an interrupt that is enabled or being served has had a handler (`NeverNull`), and what
each activation on the stack stands for (`StackOK`: only the innermost has anything left to do, and its interrupt is active until it
has written the end of interrupt). `MaskInv` adds, under `~FreeMasked`, that at most one activation exists
and that the I bit is as the caller wants it.

### The command line

`CliProofs`, for every alphabet (without the two control characters, `LineAssumption`) and every size of buffer and ring.

The ring: `RingSound` and `LineHistoryIsRecent`. The property relates the array, read backwards from `histlast` with a wrap, to the
sequence `entered`; `RingInv` says that slot by slot, once for a ring that has gone round and once for one that has not.

The line: `LineBufferSound`, `LineOnScreen`, and `LineImplementsEditor`, the refinement. `Holds(s, l, r)` says that the array, the position, the
length and the terminal of `s` stand for the texts `l` before the cursor and `r` behind it; `LineInv` is that some two texts exist, that clipboard,
`curline` and the lines of the ring fit a buffer, and that the history position is within the ring. What the terminal makes of an output is a fold
over its characters: its closed form for a text and for a row of backspaces, and for one output after another, is shown by induction
(`TypedText`, `TypedBack`, `TypedConcat`). With that each function of `lineedit.c` has a lemma that says which two texts it leaves
(`Inserted`, `Backspaced`, `Deleted`, `Killed`, `WasSet`, `Moved`, `TailKilled`, `Yanked`, `WordKilled`; the last two by induction over
their loops), and each key one that names the step of the contract it is, or that nothing happens (`TypeStep` to `DiscardStep`, joined in
`EveryStep`). `LineSpec` is the editor by itself; the run checks the same properties under the shell's `Spec`, which only decides
when keys are read: `ShellIsEditor` is `Spec => LineSpec`, so they hold there too.

The shell: `ShellCommandsInOrder`, for every line and every two lists of commands, if the six characters with a meaning differ (`ShellAssumption`).
`ShellInv` is that the loop stands at the start of a sentence, that the sentences before it are all complete and have a name, and that `ran` is what those mean;
it is inductive, the property alone is not, since it says nothing of whether the loop should have stopped. What a step does to it comes from two
loop invariants. `Reader`: where `read_token` stands its open quote is the mode of the character (`ModeIs`), the string so far is the literal characters from
where it began, and no plain blank or separator lies behind it; so `TokenRead` gives the word, or the error of an open quote or a dangling escape.
`Parser`: the words so far are those that start before its place; so `SentenceParsed` gives the words of the sentence, if any, and the start of the next one (`Understood`),
or an error, exactly when the sentence does not end (`Rejected`). The meaning of a line is given by sets of places, and its order by counting: `AlongMore` (one more place behind
all others appends its value) and `AlongNone` (no more places, nothing more) carry that through the reader, the parser and the loop over sentences.

### The disk cache

`DiskCacheProofs`, for every size of card, cache, chunk and byte; `CacheAssumption` says that they are numbers and no more.
`DiskTypeCorrect`: at most one byte behind the bitmap is used, and nothing behind the chunk that begins in the area. `DiskChunksWhole`: a set bit
stands for a whole chunk, of the card the cache was last used for if the bit is in the array. `DiskReadsCurrentCard`: so does a read, with the same exception for
`Uncovered` sectors; if the cache is a whole number of bytes' worth of chunks, there are none. `DiskInv`, the inductive invariant, is `ChunksWhole` with what a call
at work has collected (`BuffTrue`), the host it began on (`AtWork`), and that it returns `RES_OK` with all of it only (`AllThere`). `BootUsesDisk` shows
that every step of `ExtlinuxBoot` is a step of `DiskCache` or leaves it alone (with the fact that the host is changed only between reads), so
`BootChunksWhole` and `BootReadsCurrentCard` are the same theorems for the boot.

The boot itself: `BootHasWhatItLoaded` proves `BootsWhatItLoaded` for any sizes of files and cards and whatever is missing or fails. `LoadInv` says for
each place of `main` which files lie behind it, that these are whole and from the card in use but for uncovered sectors (a change of card goes back to a place with nothing
behind it), and that of the file at work everything up to `file.read` is in memory and the `disk_read` in progress is the one of its next piece.
`BootFallsBack` proves `EmmcBoots` under `CardsFit` (the directory and the files lie within their cards, and these end with a chunk) and `NamesCovered` (the bitmap
covers the directory and `extlinux.conf`; else the first card's could be taken), which the run's instance satisfies. `EmmcInv` adds that a file is opened only on a mounted volume and a ready drive, that no read of a good eMMC leaves the card or fails,
and which card is in use in which attempt.

### Software timers

`OsTimerProofs`, for any number of timers, limits and periods. `TimerTypeCorrect` and `TimerRunsBounded` hold whoever starts a timer
again; `TimerActiveListed` and `TimerOnTime` under `~Restart` (section 5 says what happens without it). The list is a chain of pointers and the properties
are about what can be reached from `task_list`: `OrderInv` says that there is a sequence `L` of the active timers, without
repetitions, that the pointers follow, and a place `p` in it that the walk of `timer_handle` has come to. A start appends to `L`
(behind the walk, which will still meet the new timer: its first call comes a tick early), a removal during the walk takes
`L[p]` out and moves what is behind it up. `Counted` relates the walks a timer has seen to the ticks it has counted, with a correction for a walk that has
not reached it yet. `Reach` and the walk are shown to agree with `L` by induction: the provers cannot instantiate the library's induction
theorems, but a least-element argument from the well-foundedness of `<` does (`Smallest`), and is used wherever a proof needs induction.

### I2C and the rails

`BusProofs` proves the refinement `I2cImplementsBus` for every set of chips, registers and bytes and any number of polls: a call changes the
chip by its one write or not at all, and a read returns what the chip has. `I2cInv` says what the driver may conclude in each phase (`Told`: a
success seen by the driver means the chip has taken it), what the controller can still be working on (`ShiftOK`), and when the flag is set
(`FlagOK`). Mapping functions keep `due` until the byte of a write has arrived.

On top of it: `PmuImplementsI2c` and with it `PmuImplementsBus` for the composition; `PmuRailsApart` for every table; `PmuVoltagesTold`, which
rests on `PmuCodesArePlaces`: the loops of `axp_set_vol` and `axp_get_vol` over a table compute the place of a voltage among all that the rail gives.
`TableAssumption` asks of a table that its ranges are in order and apart, start at the lowest voltage, reach the highest and have no more codes than
the register's field (`IsTable`); a range need not end on one of its voltages. The tables of all five chips are such. `base_step` counts the voltages of the
ranges below (`BaseCounts`, by induction over the table), so a code is that count and the step in its own range (`Places`).
`PmuInv` says, of a rail being set, how far its two registers are (`CfgOK`, `CtlOK`), late bytes
included.

### SD/MMC

`BusProofs` also has `Mmc`, for every board and card of `MmcCard`, any number of polls, retries, failures and initialisations.
The properties speak of the end of `sdmmc_init`; `MmcInvariant` says what holds at every command on the way. `Where` is
the command at work, or the one a status poll returns to. `CardOK`: outside its transfer state a card is as it was powered up (so that a card selected once
more has the narrow bus whatever the initialisation before left). `AddressOK`: from the selection on it answers to the driver's address.
`CapsOK`: high speed is noted only of a card that has switched to it, and after `restrict_caps` nothing is noted that the host cannot do, DDR
among it. `WidthOK` follows card and host as they are widened one after the other, with the CMD6 whose error is lost as the exception. `RegOK`: at the end the
controller has what was set last, unless that failed. A command that decides nothing about the bus (`MoveStep`) keeps all this.

From it follow `MmcBusAgreed` and `MmcClockWithinCard`. The latter excepts the eMMC of card type HS_26 alone (section 5), which the run leaves out:
that no other card is clocked too fast is a theorem, for every `Boards` that `MmcAssumption` allows.

### Only model-checked

Every safety property that a run checks is stated by a theorem. What stays with TLC is

- liveness, which is out of the prover's reach: `EveryCommandAnswered`, `TestReturns`, `FiniteTimersEnd`, `HandleReturns`, `BootEnds`, `InitEnds`;
- the assumptions on the constants, which TLC evaluates for each instance.

## 5. Where the code disagrees

Two of these have a run that finds them.

- `MCSreallocLost`: `srealloc` looks up the block and its predecessor, then calls `smalloc`; first fit may put the new
  block between the two. `prev->next = ptr->next` then unlinks both. The caller's memory is off the chain and
  is handed out again.
- `UsbMassTwoPackets`: the transmit interrupt of the first packet of a read leaves endpoint 0 selected, since
  the handler restores the wrong variable. The next packet is written to the FIFO and its `TxPktRdy` is set in the
  register of endpoint 0: the host never gets it.

The others were met while modelling; the properties are stated for the part of the behaviour they leave alone.

- USB: a bus reset between the switch on the state and the store of the next state is undone by
  that store, and the next command is answered with the status of the one before (`UsbMass` with `Quiet = FALSE`). A write command has no
  way out of `RECEIVE_DATA` but a bus reset, which the code marks as still to do. `sunxi_usb_init` keeps its buffers when a later
  step fails; `usb_index_check` compares with `>` for `>=`; `usb_dma_int_clear` clears completions that came after the query.
  The RESET branch (`usb.c:715-740`) returns before `usb_dma_int_clear` (`usb.c:802`): a completion that is pending is taken at the next entry of the
  handler and sets `sunxi_usb_mass_write_enable` (`usb_mass.c:479`) with no write under way. Nothing reads the flag as the code stands, and the next write clears it before it
  starts the channel; the properties do not say that the flag is clear without a write.
- DMA: `sunxi_dma_free_int` clears `7 << channel`; the flags are at `7 << 4 * channel`. `sunxi_dma_exit` marks channels unused before
  it disables their interrupts, so `dma_int_cnt` stays until the next init resets it.
- Timers: a limit of 0, documented as "indefinitely", stops after one run. A listed timer
  that is started again links the list to itself and `timer_handle` does not return (`OsTimer` with `Restart`).
- Interrupts: `irq_free_handler` opens interrupts whoever calls it, unlike `irq_install_handler`, which restores the mask: in a caller's
  critical section, and from a handler, where the next interrupt then gets in before `do_irq` has returned
  (`Gic` with `FreeMasked`). The line of an interrupt that is freed while enabled and level-sensitive is never cleared.
- Heap: `BYTE_ALIGN` of a request within 15 bytes of 2^32 is 0.
- SD/MMC: `sunxi_mmc_switch` overwrites the error of CMD6 with the result of the phase update. Card and controller may then differ in width, which `BusAgreed` excepts
  (`lost`); the clock stays within the card's limits all the same. A card whose type has HS_26 alone is clocked
  at 52 MHz. A failing `set_ios` does not keep the card from being reported. A 2 GB SDSC card never gets its block length set, and an SD card of version 1
  is never initialised. The buffer of EXT_CSD is used whether or not it was read. A block write whose status poll fails
  is reported as done, in both stacks.
- Boot: the overlay is loaded after `f_mount(0)`, so a configuration with `fdtoverlay` never boots (`EmmcBoots` excludes it). The result of
  `fdt_check_header` of the overlay is taken the wrong way round.
- Disk cache: `CONFIG_FATFS_CACHE_SIZE` is 0xFFFFFFF on the modelled board (`cmake/board/avaota-a1.cmake:16`) and on `avaota-m1`, `mcore-r818` and `radxa-cubie-a7a`
  (0xFFFFFF on `avaota-f1`, `avaota-f2`). That is 524287 sectors, 8191 chunks and, rounded down, 1023 bytes of bitmap. Sectors from 523776 on use
  `cache_bitmap[1023]`, which lies behind the array; the `memset` of `diskio.c:93` does not clear it, so after the fallback to the second card these sectors may be the first card's. The
  last chunk is loaded past the area, although "we can consume up to CONFIG_FATFS_CACHE_SIZE" (`diskio.c:20`). `DiskCache` does as the code does, and the properties except
  these sectors by name (`Uncovered`); without the exception TLC finds `ReadsCurrentCard` and `BootsWhatItLoaded` violated in `ExtlinuxBoot`.
  `CONFIG_FATFS_CACHE_ADDR` of `avaota-a1` and `mcore-r818` is 0x4400000, below the `SDRAM_BASE` of `include/drivers/sys-dram.h`; that of `avaota-m1` is 0x44000000.
- I2C: a poll that succeeds on the last try is a timeout; the result of the stop condition is dropped.
- PMU: `bldo2` of the AXP2101 uses the voltage register of `bldo1`; the AXP8191's table has `dldo5` and `eldo5` twice, and `eldo3`, `eldo4` share switch bits
  with `dldo1`, `dldo2`; `pmu_axp8191_init` passes a register where a device address is meant; `pmu_axp2202_init` ignores failed reads and writes back
  a stale value; the AXP1530 ignores the results of its dual-phase writes. The tables of the model are those of the AXP1530 and AXP333.
- Command line: nothing counts the words of a sentence against the 16 places of `argv`.
- SPI NAND: a page load that fails or stays busy leaves the previous page in the chip's cache, and it is read as the next one.

## 6. Not modelled, and the plan

Each component's status and reason is in `PROJECT.json`. What is left out falls into four groups.

- *Not this program's logic.* FatFs (`ff.c`, `ffunicode.c`), libfdt, the image tools and the Rust binding are vendored; the `reg-ccu.h` headers are lists of register
  addresses. Together with the per-board copies of the same `main.c` and device tables they are most of the repository's lines, which is why the models cover a small share of
  it: there is no state in a code page table or a register map to model.
- *Straight or numeric.* Clocks, DRAM training, GPIO, PWM, RTC, TRNG, UART, start-up assembly, formatting, SFDP decoding, image headers: no order of
  events to check.
- *The same shape as something modelled.* The riscv interrupt controller (a table without acknowledges), the other boot mains, the USB DMA's channel table, the other power chips
  (same table code).
- *Candidates.* The USB control endpoint (`ep0_recv_op`, SET_ADDRESS at the status stage, `sunxi_usb_init`'s failure paths); stack B of SD/MMC with its
  descriptor DMA; SPI NAND and NOR (page cache, write-enable latch); UFS; the init of the AXP2202 and AXP8191; I2C's bus set-up; block writes of
  stack A.

Order of further work: the control endpoint, composed with `UsbMass` (the handler's `ep0` branch is there); `SpiNand`, with the page
cache against the page asked for; stack B against `MmcCard`.

## 7. Running

    tlc -workers 2 -config MCSmalloc.cfg MCSmalloc
    tlc -workers 2 -config UsbMassQuiet.cfg UsbMass
    tlapm SmallocProofs.tla

`PROJECT.json` names the module of every configuration. Proof modules: `SmallocProofs`, `UsbMassProofs`, `DmaProofs`, `GicProofs`,
`CliProofs`, `DiskCacheProofs`, `BusProofs`, `OsTimerProofs`. Runs take from seconds to a few minutes, the proofs of all modules about half an hour.

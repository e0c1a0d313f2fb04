# levinboot in TLA+

levinboot is a bootloader for the RK3399. This directory models it in TLA+,
checks the models with TLC and proves theorems about them with TLAPS. Paths
below are relative to `src/`.

## The system

levinboot runs as two programs on one CPU at EL3.

- **sramstage** (`sramstage/`, `dram/`) runs from SRAM. It sets up clocks and the
  MMU, initializes DRAM with two cooperating threads (one per channel) driven by
  the controllers' interrupts, brings up SD, eMMC and PCIe in threads of their
  own, and then starts dramstage: the embedded one, or one that a host sends over
  USB.
- **dramstage** (`dramstage/`, `rk3399/spi.c`) runs from DRAM. One thread per boot
  medium (SD, eMMC, NVMe, SPI) initializes its device; the boot monitor cues them
  one after the other in boot order; the cued one finds its payload partition in a
  GPT, reads and decompresses the payload. When a payload is accepted and every
  thread has returned, `commit` loads BL31, transforms the device tree and leaves.

Both are built on the same parts: a scheduler of preemptible threads with
lock-free lists (`lib/sched.c`, `aarch64/context.S`), drivers that sleep on
conditions which interrupt handlers change (`lib/sdhci*.c`, `lib/dwmmc*.c`,
`lib/nvme*.c`, `lib/rkspi.c`, `lib/dwc3.c`), page tables (`lib/mmu.c`) and
decompressors (`compression/`).

### Inventory

| Part | What is hard | Modules |
| --- | --- | --- |
| runnable lists (`lib/sched.c:14-58`) | operations are preempted or interrupted anywhere and are lock-free | `RunListSpec`, `RunList`, `RunListPlaces`, `RunListSteps`, `RunListProofs` |
| threads (`lib/sched.c:60-125`, `aarch64/context.S`, the loops of both `main()`) | lost wakeups, a thread queued twice, a context resumed the wrong way, sleeping with work to do | `WaitSpec`, `Sched`, `SchedLoop`, `SchedProofs` |
| boot protocol (`dramstage/main.c:112-345`, the `boot_*` functions) | threads in any phase when the cue moves on, devices that fail in any phase, shared buffers | `Boot`, `BootProofs` |
| GPT scan and payload choice (`dramstage/boot_blockdev.c`) | off-by-one at block and buffer limits | `PayloadChoice`, `Gpt`, `PayloadProofs` |
| payload update scheme (`README.rst:286`) | an interrupted update must leave a bootable payload | `PayloadChoice`, `PayloadUpdate`, `PayloadProofs` |
| device tree transformation (`dramstage/transform_fdt.c`) | one length marks what is skipped, insertions and copies share a buffer | `Fdt` |
| DRAM training (`dram/ddrinit.c`, `dram/training.c`) | two threads and two interrupts in a barrier protocol | `DdrSpec`, `DdrInit` |
| DRAM geometry (`dram/memorymap.c`, `mirror.c`, `read_size.c`) | mirror tests under maps that do not fit the chip, a size split over fields of two registers | `Geometry` |
| page tables (`lib/mmu.c`, `aarch64/mmu_asm.S`) | ranges that cross blocks and tables, changes to tables in use | `PageTables` |
| NVMe (`lib/nvme.c`, `nvme_xfer.c`, `dramstage/blk_nvme.c`) | wrap-around, phase bits, late completions, requests on the stack | `Nvme`, `NvmeProofs` |
| eMMC (`lib/sdhci*.c`, `dramstage/blk_emmc.c`, `sramstage/emmc_init.c`) | interrupts against the waiting thread, timeouts, aborts | `Emmc` |
| SD (`lib/dwmmc*.c`, `lib/sd.c`, `dramstage/blk_sd.c`, `sramstage/sd_init.c`) | acknowledgements that one command leaves to the next, timeouts | `Sd` |
| SPI boot and decompression driver (`lib/rkspi.c`, `rk3399/spi.c`, `dramstage/decompression.c`) | chunk arithmetic, decoders called with any amount of data | `SpiBoot` |
| decompressors (`compression/`) | table construction, bit order, word-wise copies that overlap | `Codecs`, `Zstd` |
| USB loader (`sramstage/usb_loader.c`, `lib/dwc3.c`, `tools/usbtool.c`) | events, control transfers and a bulk protocol between three parties | `Usb` |
| SPI flashing (`sramstage/usb_loader-spi.c`) | erase blocks of several sizes | `FlashSpi` |
| PHYs, clocks, UART, timing tables, host tools | straight-line register writes, little control | not modelled |

## Modules

`RunList` has one step per memory access, `RunListSpec` the queues that the
header promises. `Sched` uses queues with atomic operations, which is what
`RunList` implements, and in turn is shown to implement `WaitSpec`: sleeping on a
condition and testing it is one atomic step, and a wake reaches every sleeper.
`Boot` and the drivers use sleep and wake of that kind. `Gpt` uses the contract of
a block device's `pump`, which is what `DataInOrder` of `Nvme`, `Emmc` and `Sd`
says; `Boot` uses that a request may be outstanding when `pump` returns, which the
same modules show. So each layer is checked with the interface of the one below it.

The `MC...` modules give the constants their values. Three of them put several
machines beside each other, of which one runs in each behaviour: `MCPayload` the
partition table, the updater and the device tree, `MCDdrInit` the training, the page tables and samples
for the geometry, `MCDecompress` the boot from SPI and samples for the algorithms.
A sample is one input of an algorithm, as an initial state; the invariant compares
the result with a reference definition.

### Scheduler: `RunList`, `Sched`

In `RunList` a context (thread, CPU loop or interrupt handler) is anywhere inside
`sched_queue_many` or `sched_queue_list`; `op[p]` holds its locals. The weak
compare-exchange may fail spuriously. `sched_unqueue` is one step because only
the CPU loop calls it, with interrupts masked.

In `Sched`, `pc` and `cur` say what the CPU executes. Threads are arbitrary programs over
yield, wait, store-and-notify and return; the tick preempts them between any two
steps. Interrupt handlers are one step each: all interrupts have one priority and
there is one CPU. `val[c]` is the variable of a wait condition; the conditions
`Emmc` and `Sd` are device registers too (`sdhci_wait_state` sleeps on `present_state`), which change without a
notification, and the tick wakes their waiters.

### Boot protocol: `Boot`

Each medium is a process whose `pc` is the place in its `boot_*` function; every
access to `boot_state` and `current_boot_cue` and every wake is a step. The
drivers, the partition table and the decompressors are reduced to the `iost` they
return, chosen freely. `buffer` and `desc` say whose data the payload memory and
`payload_descriptor` hold.

A block device's `pump` starts the next request before it returns, so a medium
may still be reading when its thread goes on: `reading` has the media with an
outstanding transfer. `ReadEnds` ends one at any time; `AwaitSd`, `AbortEmmc`,
`EndFlashRead` and `ShutDown` are where the threads stop theirs. Until then it writes
to `blob_buffer`, also when another medium has its payload there (`StrayWrite`);
`blob` says whose data is in it, and what is decompressed from mixed data may be
mixed. `PayloadIntact` says when that can happen to the payload that is committed:
only after an SD card was tried before it, or after the power button refused an
earlier payload.

### Partition table: `PayloadChoice`, `Gpt`

`Gpt` is `boot_blockdev` for one medium, with sizes in units of 128 bytes, one
entry. `base`, `consumed` and `filled` are the position of the buffer on the
medium, `consume_ptr` and `end_ptr`. Of `pump` only the contract is used: enough
data, or all up to the end of the buffer, or an error. Contents of the medium are
a constant set `Disks`; GUIDs are the types they stand for. `PayloadChoice` has
the three lines that pick one of the types A, B and C; two modules use it.

### Payload: `PayloadUpdate`, `Fdt`

The two-partition scheme of `README.rst:286`. The updater is not part of the
repository and is modelled from that text; what it relies on is `UsedIndex`. A
write takes two steps, the change of the type is one, and the power fails anywhere.

`Fdt` is `transform_fdt` with one action per kind of token. A token has its size
in bytes, as `fdt_token_size` gives it, and the output is counted in words, so the
guards are those of the code. `path` is the stack of names that the code keeps as
one string; `skip_len` is compared with its length. The checks of header fields
are one outcome, `sound`. What is promised is said of finished trees: everything
but `/memory` and the four properties of `/chosen` is as it was (`TreeKept`), and
these are the loader's (`OwnNodes`).

### Drivers: `Nvme`, `Emmc`, `Sd`

Each has the thread of its medium from the initialization to the end of its
`boot_*` function, the interrupt handler, the tick where the driver sleeps on a
register, and the controller with its card. The user of the block device (`Client`)
starts reads of the table or of a payload and pumps for any amounts. Addresses and
LBAs count blocks; `mem` has the LBA of the block that is at an address, and garbage
while the controller moves data there, so that a buffer that is handed out too
early, too late or from the wrong place shows (`DataInOrder`).

- `Nvme`: submission and completion queues with phases, the table of command ids,
  PRP lists, `nvme_wait_req`, reset and shutdown. The controller answers, refuses,
  fails, falls silent or posts completions for ids that it was never given. An id
  that is in use by another queue or was answered before is not among these: the
  driver could not tell such a completion from a good one. `start` keeps 32 bits of
  the LBA (`U32`), and `DataInOrder` is about reads from below that limit.
- `Emmc`: initialization in both stages, the wait loops with their two registers
  and timeouts, ADMA2 descriptors with 64 KiB segments, `active_xfer` against the
  interrupt handler, the abort.
- `Sd`: the early part with its polling, commands whose acknowledgements are bits
  of `int_st`, IDMAC descriptors, timeouts that race late answers. The data path, the
  IDMAC and the automatic CMD12 end one after the other in any order, each with an
  interrupt; the handler ends a transfer when it finds data path and IDMAC idle, or an
  error (`TransferDone`). Response and read timeouts are not among the bits of
  `DWMMC_ERROR_INT_MASK` (`dwmmc_regs.h:111`): `silent` marks a read that has ended in
  one. `overlap` marks a request that was made before the CMD12 of the last one had
  ended. The properties say what holds outside of these cases.

### SPI boot: `SpiBoot`, `Codecs`, `Zstd`

`SpiBoot` is `boot_spi`, the interrupt handler that fills the buffer in chunks and
`decompress_payload`, with `probe`, `init` and the chain of `decode` functions of
each format. How much has arrived when a decoder is called is arbitrary. A frame is
a sequence of elements with their sizes, of a Huffman block with the bits of each
symbol; `dec.skip` and `container` are `skip_bits` and the bit container. A frame may
be damaged, which its checksum shows. `LoadedIsPayload` then promises a refusal, but
for a zstd frame whose trailer was not there at once (`zstd.c:384`).

`Codecs` and `Zstd` have the algorithms as operators: the word-wise copies of
`lzcommon.c` on a memory of bytes, LZ4 sequences, Huffman tables and code lengths of
deflate; FSE distributions and tables, literal headers and streams, sequences with
repeated offsets, the expansion of a block whose literals lie at the end of its own
output, and which bytes go into which round of xxh64. The references are the
formats' definitions (RFC 1951, RFC 8878, the LZ4 block format). Their inputs are
sound: bits that begin with no code of an incomplete set (`inflate.c:445`, `495`), and
literals after a tree description that failed (`zstd.c:151`), are not among them.

### USB: `Usb`, `FlashSpi`

The bulk mode of `usbtool`, the controller with its event ring and the transfers
of EP0 and EP4, the interrupt handler event by event, and `main` waiting for the
order to start. The loader takes over the connection of the mask ROM or is
enumerated again. `FlashSpi` has the choice of erase operations and the effect of
erasing and programming on the flash; that `tx_cmd` does not overrun the FIFO of the
controller is taken for granted.

### DRAM and page tables: `DdrInit`, `Geometry`, `PageTables`

`DdrInit` has the interrupt handler of both channels and the two threads, with
every store to `sync` and every wake a step of its own. Training a channel is four
steps, any of which may fail. `DdrSpec` says what a training must be; `DdrInit`
implements it under a refinement mapping. There are no constants, and the model
is finite, so TLC's answer is about the whole model and nothing is proved.

`Geometry` has `channel_post_init` over every chip, and none, and the way of the size
through the two registers to `dram_size`. `PageTables` has `mmu_multimap` with a step per
entry, the loop over the initial mappings and `mmu_map_range`/`mmu_unmap_range`,
with what the TLB may still hold. The inputs (`Programs`) are lists of the shape of
those in `entry.S`, `vmmap.h` and the stages.

## Runs

| Run | Instance | Shows |
| --- | --- | --- |
| `runlist` | 3 runnables, 2 contexts, 2 lists | no runnable is lost or in two places, the tail pointer is right, and the lists implement the queues of `RunListSpec` |
| `sched` | 2 threads, 1 register, 1 variable, 2 values, fair | no wake-up is lost; no thread is in two places; a context is resumed the way it was saved; `wfi` only when there is nothing to do; a thread that owes a wake-up is runnable; no runnable thread starves, nobody sleeps through a change, `Sched` implements `WaitSpec` |
| `boot` | all sets of up to 2 media but SD with NVMe; 2 parts; 2 namespaces; fair | only the cued thread uses the buffers; the committed payload is of one medium, but for what a request left behind may overwrite; nothing but SD reads at the commit; without the power button the first payload in boot order wins; faulty eMMC and NVMe devices are shut down; dramstage commits or reports that there is no payload |
| `boot_override` | the same | expected to fail, see below |
| `payload` | tables of up to 17 entries, buffer of 3 blocks; 6 updates; 1368 device trees and rooms for them | the scan sees every entry once and chooses by the rules; an interrupted update leaves a complete payload, and the type change is the switch; the transformed tree is the old one with the loader's nodes, stays in its room, and is refused only for a cause |
| `ddr_init` | the whole of `DdrInit`; tables of 4 entries, 30 lists of calls; all chips | the barrier neither errs nor blocks; nobody touches the controllers while the bus is idle; training is as `DdrSpec` says; geometry and size are found and kept; the address space is the one asked for, and is never disturbed |
| `nvme` | queues of 2 slots, 2 namespaces of 5 blocks, of which the LBA holds 4, requests of up to 3 | completions meet their requests; data in order; no queue overflows; the controller is quiet when `boot_nvme` has returned; waits end |
| `emmc` | requests of 3 blocks in segments of 2, buffers of 4 and 7 blocks | data in order; requests do not meet; only ready cards are read; the controller is quiet at the end; `boot_emmc` returns |
| `sd` | 5 blocks, requests of 3 in descriptors of 2, buffers of 3 and 4 blocks | data in order; requests do not meet; no command is refused for bits that the last one left; the controller is quiet after a loaded payload; the driver returns; all but for the cases named in the module |
| `decompress` | 24 payloads of up to 2 frames in a buffer of 100 bytes; samples | decoders resume where they stopped; what is loaded is the payload; `boot_spi` ends; the algorithms compute what the formats say |
| `usb` | 4 command lines, event ring of 3 slots, 2 bus events | events once and in order; both sides agree on each transfer; memory and flash are as asked; the command line is worked off |
| `fixed_huffman` | the fixed codes of deflate | expected to fail, see below |

A run's properties are often conjunctions: `ThreadsSound`, `QueuesSound`,
`ZstdCorrect` and the like put together the invariants about one matter, each of which is a definition
with a comment of its own in the component's module. The type invariant is one of
the conjuncts, except in `PayloadUpdate`, where it is part of the invariant that is
proved.

Why these bounds: with three runnables a list can be taken while one is added and
one is queued; two threads give a waiter and a notifier that is preempted between
its store and its wake, while the CPU loop and the tick are further contexts. Two
parts give a payload that is half replaced, two media one that winds down while the
other is cued. A buffer of three blocks is refilled twice by 17 entries, once
exactly at its end. Six updates change each type twice. The rooms for a device tree
go from the fixed part upward and from 45 words below the need to the need, so that
every check of the space is the one that refuses once. Queues of two slots wrap in
every command; with more than one request's worth of buffer one is prefetched, one is
clipped by the end, and after the table the payload is read with the last request of
the table still going on. Tables of four entries on three levels have every
combination of a range's start and end in a block. A Huffman table of 3 of at most 5
bits has direct and long codes, an FSE table of 32 states symbols of probability 0, below 1 and above a half. Three event slots wrap during one control
transfer. Where there are proofs, they have no bounds.

Deadlock is checked in all runs; a stuttering step stands for the ends that the
system really has.

### Fairness

`Sched`: the CPU runs (weak fairness of the loop), a pending tick is taken once
interrupts are unmasked, and a time slice is long enough for a thread to finish
moving a list (strong fairness). Everywhere else a thread has weak fairness, which
is `NoStarvation` of `Sched`, interrupts are taken and time passes. Of the devices
only what they cannot withhold is fair: a transfer ends by the data timeout of the
controller (`Emmc`, `Sd`), the IDMAC writes what it has and the CMD12 ends (`Sd`), the flash delivers what is clocked out of it (`SpiBoot`),
the USB controller and the host go on (`Usb`). Cards may stay silent, and the drivers
must return by their timeouts. `nvme_wait_req` has no timeout: `WaitEnds` assumes
that the controller answers or reports its fatal status. `Boot` and `DdrInit` assume
that every device operation ends, which for the media is what `DriverReturns`,
`WaitEnds` and `Ends` say.

### Disagreements

`fixed_huffman` is expected to find a violation: `inflate.c:650-659` builds the
table of the fixed codes with limits that are one too small, and symbols 143, 279
and 285 are decoded to something else. `README.rst:171` promises gzip frames.

`boot_override` is expected to find a violation: `main.c:244` shifts a mask with four
bits per medium by one bit per medium, so the power button also refuses the payload of
the last medium (unless it is SD), against `README.rst:184`: "This can be prevented for
all except the last configured boot medium by holding the power button".

The following were met in the sources while modelling. They have no run; where
properties are affected, the module says how.

- `boot_blockdev.c:154` turns every failure of the payload into `IOST_INVALID`, so a
  broken SD controller stays on, against `iost.h:7`. `FaultsContained` is therefore
  stated for eMMC and NVMe.
- `blk_sd.c:169`: after a payload that failed, `boot_sd` reports its exit with a
  request outstanding; the next medium reads into the same buffer meanwhile, against
  `dramstage.h:28`. `CommitQuiet` excepts SD, `QuietWhenLoaded` is about the path of a
  loaded payload, and `PayloadIntact` has the case as an exception. The other media
  stop their requests only after their loaded bit, when a refusal by the power button
  may already have cued the next.
- `dwmmc_common.c:36` ends a transfer at any interrupt that finds data path and IDMAC
  idle. Nothing waits for the automatic CMD12 of a request before the next is made;
  its interrupt ends a transfer that has not started. All that lies between the two is
  the time it takes to invalidate the cache (`blk_sd.c:92`). `DataInOrder`, `NeverRefused` and
  `QuietWhenLoaded` except the case.
- `dwmmc_xfer.c:109` waits without a timeout, and a read timeout of the controller is
  not in `DWMMC_ERROR_INT_MASK`: a card that stops answering within a read stops
  `boot_sd`, or, when the IDMAC is suspended, lets it take the read for done.
- `blk_nvme.c:172` cuts the LBA to 32 bits after comparing all of it with the size.
  (SD and eMMC cards have no more than 2^32 blocks.)
- `boot_blockdev.c:85`: with 4096-byte blocks the scan starts at 512 + 4096 instead
  of 2 * 4096 and misses the last 28 of 128 entries. `PayloadProofs` assumes 512.
- `decompression.c:89` accepts only `res > NUM_DECODE_STATUS`, where `compression.c:111`
  and `embedded_dramstage.c:38` accept `>=`: a step that uses no whole byte fails, as
  the header of a fixed block inside a byte does. `FailsOnlyAtEdge` lists this and the
  decoders' answers that depend on how much data is at hand: `lz4.c:145` and `154` (an
  error with less than four bytes), `lz4.c:169` (block checksum not waited for),
  `zstd.c:384` (`decode` cleared before more data is asked for), `zstd.c:262` and `522`
  and `inflate.c:727` (`init` needs more than `probe` asked for). `inflate.c:701` has
  the assertion about FEXTRA the wrong way round.
- `zstd.c:384`: a trailer that is not there at once is never looked at again, and the
  frame is accepted whatever its checksum. `LoadedIsPayload` excepts it.
- `zstd_literals.c:144`: of 6 or 9 literals in four streams the last stream has none,
  and the decoder stops at an assertion (`LiteralsCorrect`). `zstd.c:151` does not test
  whether a tree description was decoded; `inflate.c:445` and `495` end the search for
  a code by a length of 4, where it starts at 12.
- `decompression.c:65`: at the end of the buffer the probe loop asks for more for ever.
  `Ends` is stated for payloads inside the buffer.
- `lzcommon.c:128`: copies of less than a block write one block, not only up to the
  next boundary; no caller is harmed (`CopyCorrect`, `InPlaceCorrect`).
- `zstd_sequences.c:34`: the longest lengths with offset codes above 25 need more bits
  than are loaded; `SequencesCorrect` is for matches up to 32 MiB back, and the
  buffers are smaller.
- `nvme.c:234` stores the reported shutdown time only if it is zero, against the
  comment at `nvme.c:88`; `dwmmc_xfer.c:18` and `nvme_xfer.c:17`, `24` loop while the weak exchange
  succeeds, so a spurious failure of the first attempt leaves the old status
  and an assertion stops the loader. The models have both outcomes.
- `dwc3.c` asserts a phase in `ep0_xfer_complete` that does not hold after
  `dwc3_ep0_restart`: a control request it does not know stops the loader.
  `usb_loader-spi.c:30` may find no room in the FIFO and goes on, with a count that
  wraps. `usb_loader-spi.c:106` loses larger erase operations while sorting (harmless:
  smaller ones do); `usbtool.c:226` writes the upper half of the stack address 4 bytes
  too far; data for the flash is staged over what was loaded at 0x100000; a flash
  operation may take longer than the 1000 ms of `usbtool.c:201`.
- `mmu_asm.S:176` goes on after the end of a mapping without the test for the end of
  the table that the C version (`mmu.c:152`) has; no list of the program has two
  mappings that meet there (`vmmap.h:33`), and the inputs have none. `mmu.c:201`
  computes in 32 bits, enough for what is unmapped.
- `memorymap.c:129`: with no channel the number of channels less one fills the upper
  bits of the register, which then claims 1280 MiB (`SizeKept`). `sched.c:107` keeps 8
  of 16 bits; nothing calls `sched_wait_u16`, and it is not modelled.
- `memorymap.c:96` shifts by a negative number for ranks below 32 MiB, and a rank of
  4 GiB with a second one wraps an address; both are outside of the chips modelled.
- `transform_fdt.c:43`: with an initcpio and a root without `#address-cells`,
  `addr_cells - 1` wraps and the loop does not end; `#address-cells` is there in every
  tree that is modelled with an initcpio. A tree without `/chosen` gets no initrd
  properties, and `memory@0` is not taken for `/memory`. `commit.c:109` copies whole
  words, so up to seven bytes behind a segment's file contents are not zero.

## Proofs

Each proof has an inductive invariant (`IInv`; `UpdateInv` for the update),
`Init => IInv`, `IInv /\ [Next]_vars => IInv'` with one step per action, and a
theorem for each property that follows. The larger ones are split: `RunListPlaces` has
the invariant, the sequences it is about and the steps that change no list,
`RunListSteps` those that do and the refinement of each step, `RunListProofs` the
functions that read the lists off the pointers and the theorems; `SchedLoop` has the
invariant and the steps of the CPU loop and of threads that yield, wait and store,
`SchedProofs` the notifiers, the interrupts, the theorems and the refinement.

- `RunListProofs`, for any finite set of runnables and any contexts and lists
  (`RunListAssumption`: null and the address of `rq->head` are no runnables, and the
  fresh list is not a list of waiters): `ListsAreSound` and `RunListImplementsQueues`.
  `ListsSound` is about sequences that `Chain` computes by following pointers and is
  far from inductive. `IInv` says that there are sequences `g`, one for each list, for
  the runqueue and for what each context is moving, and a place `loc` for each
  runnable, that the pointers represent: neighbours in a sequence are linked, the end
  of each sequence that can be reached is null, each runnable is once in the sequence
  of its place and in no other, and a context has arrived somewhere in the sequence it
  moves (`Moving`). A compare-exchange that succeeds puts what the context holds in
  front of a list because its last `next` then equals the head, whatever happened
  since the head was read; `sched_unqueue` appends the reversed fresh list to the
  runqueue. For the refinement the variables of `RunListSpec` are computed from `g`.
  That `Chain` returns `g` (`ChainIs`) is an induction along the list.
- `SchedProofs`, for any threads, conditions and values (`Threads` is a sequence
  without repetition, `Null` is not a thread): `TypeCorrect`, `WakeupsNotLost`,
  `ThreadsInOnePlace`, `ResumesMatchSaves`, `NotifiersStayRunnable`,
  `SleepsOnlyWhenIdle`, and all of these but `WakeupsNotLost` together as
  `ThreadsAreSound`. `NoLostWakeup` is
  not inductive: a wake-up is owed by somebody who has stored but not yet taken the
  list, or has taken it and not yet queued its threads. `IInv` therefore says what
  every holder of a list holds, and which status bits a thread has where it is.
- `SchedProofs`, under the same assumptions: `SchedImplementsWaits`. A thread counts
  as asleep while it is on the list of a condition and nobody is busy putting it
  there; taking the list of a condition is the wake of all its sleepers, and the tick
  wakes the sleepers of several conditions in one step. That each
  step of `Sched` is one of `WaitSpec` or none needs that a thread is on one list at
  most (`IInv`), and the thread `sched_finish_u32` is busy with on no other than the
  list it is being put on (`OnOneList`).
- `BootProofs`, for any configurations, parts and namespaces: `TypeCorrect`,
  `BuffersAreCued`, `PayloadStaysIntact`, `FirstIsTaken`, `QuietAtCommit`,
  `FaultsAreContained`, and the types, the cue and the quiet commit together as
  `BuffersHaveOneOwner`. The argument is an order of events: a medium uses the
  buffers only between its cue and its loaded or exit bit (`Bits`, `Cues`), and the
  monitor moves the cue only after it has seen one of these bits, in a copy of
  `boot_state` that is never ahead of it. `Data` says whose data is where in each
  of these phases: while a medium reads its payload `blob` is its own or mixed, and
  mixed only when a medium before it is SD or was refused (`StraySteps`); the requests
  of the others ended before their exit bit. `InOrder` that media the monitor has not come to have loaded
  nothing, `Devices` in which phases a transfer or a fault is possible.
- `PayloadProofs`, for any table, buffer and medium with 512-byte blocks:
  `EntriesInPlace`, `ScanFindsFirst`, both with the types as `ScanIsSound`, and
  `ChoiceIsByRules`. `IInv` relates the window to the entry number and says what
  `mask`, `first` and `last` have to do with the entries before it. For any number of
  updates: `UpdateIsAtomic`, `RetypeIsTheSwitch`. The two types always differ, and a
  written payload is the newest one.
- `NvmeProofs`, for queues of any depth, any number of command ids, namespaces and
  blocks and any buffers (`NvmeAssumption`): `QueuesAreSound`. The driver has at most
  one command under way in a queue pair, and `IInv` says in which of four states the
  pair is: quiet, with the controller, answered by the entry that is read next, or
  spoilt by a completion nobody asked for, which stays the next entry for good. The
  phase bits of the entries around the head follow from the round the ring is in. An
  admin request, which is on the stack, is in the table only while it is waited for or
  after the driver has decided to shut down; and the places where the controller has
  power are listed, so that it is off at the end.

The induction rules of the library have an operator as a parameter, which the provers
cannot instantiate. `RunListProofs` derives what it needs from the one about least
elements of sets of numbers, which has none (`Least`, `Induction`), and gives the
function that `Chain` defines by recursion explicitly.

Only model-checked:

- what the algorithms of `Codecs`, `Zstd`, `PageTables` and `FlashSpi` compute, which
  are recursive operators, of `Geometry`, which is bitwise arithmetic, and of `Fdt`,
  which folds over trees;
- everything under fairness (`ThreadsProgress`, `Decides`, `AllEnds`, `Ends`,
  `WaitEnds`, `DriverReturns`, `Finishes`): the prover handles neither fairness nor
  `ENABLED`;
- `DdrInit` with the refinement `ImplementsTraining`: there is one number of
  channels and of CPUs, so the run is exhaustive but for the bounds it names;
- the invariants of `Emmc`, `Sd`, `SpiBoot` and `Usb`, and `DataInOrder` of `Nvme`:
  within the prover's reach as far as no recursive operator is involved, but not
  proved.

## Not modelled

- Memory orders and caches: there is one CPU, and device memory is uncached or
  flushed where it matters; a missing flush would not be found.
- Register contents of PHYs, clocks, PCIe and the DRAM controller, the timing tables
  of `dramcfg.c`: values written in a straight line, whose meaning is outside of the
  repository.
- UART, GIC, I2C, PLL, the memory test, `dump_fdt` and the wording of messages:
  polling of one bit, or printing.
- `load_elf`, `pull_entropy`, `embedded_dramstage.c`: straight lines with assertions;
  the decoders that the last one calls are in `SpiBoot`.
- The arithmetic of CRC and xxh64 rounds.
- Host tools except the bulk mode of `usbtool`: programs that turn files into files.
- USB: detaching the cable, a bus reset inside a control transfer, and events that
  the controller writes to the mask ROM's buffer during the take-over.
- `rkspi.c`: an interrupt that is pending when the read is stopped.

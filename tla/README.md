# P3GO firmware: specifications and proofs

The P3GO is a USB gadget built on an Ingenic JZ4755 (MIPS). Its firmware
(`src/soc_src/`) is a small uC/OS-II system that shows its NAND flash and a
memory card to a USB host as two mass-storage LUNs. This directory holds TLA+
models of that storage path, the configurations that model-check them, and
proofs about them.

## 1. Inventory

The path of a sector, from the host down:

    USB host
      | bulk-only transport (CBW, data, CSW), bus resets, cable
    udc.c             USB device controller driver: ISRs, UDC task, endpoints
      | BusNotify (udcbus.c)            ^ StartTransfer, EnableDevice
    mass_storage.c    bulk-only protocol and UFI commands, pDev[] of LUNs
      | ReadDevSector, WriteDevSector, CheckDevState, FlushDev, Init/DeinitDev
    nand_dev.c                      mass_storage_dev_mmc.c
      | NAND_LB_*                     | MMC_*Block       mmc_hotplug.c
    lb_nand.c  sector cache         mmc_api.c            (g_card_state)
      | ssfdc_nftl_*                  | commands
    translation layer (binary)      mmc_core/protocol/controller

| component | state | operations | hard behaviour | what makes it correct |
|---|---|---|---|---|
| NAND sector cache, `nand/lb_nand.c` | lines (state, block, dirty, data), scan cursor, total_sec | NAND_LB_Init, Read, Write, MultiRead, MultiWrite, FLASHCACHE | multi-step evictions with the power failing in between; direct access behind the cache; failing flash; cursor off the end | one line per sector; reads return the last write; a flush is durable; write-back never goes back in time; every call ends |
| mass storage, `mass_storage.c` | mass_state, cbw, csw, g_start_sector, g_nr_sectors, iscardin, sector sizes, connection bits | one handler per UFI command; receive and send callbacks; reset, suspend, judge, remove | callbacks of transfers that finish later; resets in mid-transfer; a card that moves; stalls | device and host agree on the phase; a good status is true; every command is answered |
| UDC driver, `udc/udc.c` | epstat[], interrupt registers, udc_irq_type, udcEvent, cable_stat, protocool_stat | start_transfer, udc4755_proc, udc_reset, ISRs, gpio_ist, enable/disable | registers cleared by reading; ISR and task share udc_irq_type; time-outs; waits for the upper layer | no event is lost; no interrupt stays masked; the cable is where the driver believes; the LUNs have one owner |
| NAND LUN, `nanddisk/nand_dev.c`, `vmnanddisk/vmnand_dev.c` | InitStall, FlushDataState | the LUN interface; mounting and unmounting | when cached data becomes durable; who owns the device | idle host: everything is flushed; file system and host never both own it |
| card LUN, hot-plug, card interface (`mass_storage_dev_mmc.c`, `mmc_hotplug.c`, `mmc_api.c`) | g_card_state, mmc_detect_event, pSemMMC, mmcinfo | detection ISR and task, MMC_Initialize, block access | bouncing contacts, level interrupts, a card pulled out during a call | the reported state converges to the slot's |
| card sector cache, `drv/mmc/lb_mmc.c` | 128 lines | as lb_nand.c, other details | cards pulled out and exchanged; failed writes; a line that is never found | lines belong to the card in the slot and agree with it |
| driver heap, `kernel/DrvMemMgr.c` | doubly linked list of blocks | alloc, alignAlloc, deAlloc, Drv_realloc, Drv_calloc | long sequences of calls | blocks tile the heap; live blocks do not overlap; no two free neighbours |
| interrupt controller, power, devices (`kernel/*.c`) | handler table, wake-up list, level | request/enable/disable; PM levels | levels changed from several tasks | registered handlers run; a level change takes place once |
| display, touch, keys, audio, radio, chip drivers | registers | register programming | timing | out of a model's reach |

`mtv_50/` (loaders and payloads for another machine, with vendored lwip and
libfdt), `miniclib/`, the samples and the stubs for absent devices are not
modelled. `PROJECT.json` lists every component with its status, and under
"hazards" each place where this code can go wrong in a way a test would hardly
reach, with the property that watches it or the reason none does.

The parts interact by synchronous calls on the UDC task: `udc_task_entry` ->
`udc4755_proc` -> endpoint handler -> `BusNotify` -> `notify` -> LUN -> cache.
What is concurrent with that task are the controller (FIFOs, DMA, interrupt
latches), the host, the ISRs, the hot-plug task, and the power supply.

## 2. Modules

| module | models | rests on |
|---|---|---|
| `BlockData` | vocabulary: sectors, versions, results | |
| `BlockDevice` | what a sector cache promises (abstract specification) | `BlockData` |
| `SectorCache` | `lb_nand.c` over the translation layer | `BlockData` |
| `MCSectorCache` | the instances of it TLC checks | `SectorCache` |
| `SectorCacheProofs` | the inductive invariant, the safety theorems, the end of a call | `SectorCache`, TLAPS |
| `SectorCacheRefinement` | `SectorCache` implements `BlockDevice` | `SectorCacheProofs` |
| `UdcBulk` | bulk endpoints of `udc.c`: start_transfer, passes of udc4755_proc | |
| `MassStorage` | `mass_storage.c`, the LUNs below it, the host above | `UdcBulk`, `BlockData`, `HostDisk` |
| `HostDisk` | the disk that a USB host sees (abstract specification) | `BlockData` |
| `MassStorageProofs` | host and device stay in step; `MassStorage` implements `HostDisk` | `MassStorage`, `HostDisk`, TLAPS |
| `UdcDriver` | the control side of `udc.c`: interrupts, task, cable, upper layer | |
| `UdcDriverProofs` | its safety properties, and the bound on its posts | `UdcDriver`, TLAPS |
| `NandDisk` | `nand_dev.c` and `vmnand_dev.c` with the file system they take the cache from | `SectorCache` |
| `NandDiskProofs` | what is dirty, who has the cache, the device under it | `NandDisk`, `SectorCacheRefinement` |
| `MmcSectorCache` | `drv/mmc/lb_mmc.c` over cards that come and go | `BlockData` |
| `MmcSectorCacheProofs` | its shape, its contents, the end of a call | `MmcSectorCache`, TLAPS |
| `MmcHotplug` | `mmc_hotplug.c`, the lock and the checks of `mmc_api.c`, the tasks that use the card | |
| `MmcHotplugProofs` | types, mutual exclusion and who may meet an unknown card | `MmcHotplug`, TLAPS |
| `DrvHeap` | `kernel/DrvMemMgr.c` | |
| `DrvHeapProofs` | the invariant of the list, disjointness, no leak | `DrvHeap`, TLAPS |

Operators with a comment that begins "Mutated:" are deliberately wrong variants
of the definition that follows them. No specification uses them; substituted
for the original, each must make the property it is listed with under "mutants"
fail, which shows that the property looks at the code it is about.

Sector contents are version numbers everywhere: a write stores the successor of
what a read would have returned, so "stale" is `<`. `MaxVersion` bounds how
often a sector is written, `MaxCount` the length of one request, `TotalSec` the
device.

### SectorCache

`slot` is ssfdc_cache, `cur` is Cur_CacheCount, `ftl` what the translation layer
returns, `flash` what it has made durable, `pc` and `req` the call in progress
and its locals, `out` what the last call returned. A call that needs no
write-back is one action (`ReadHit`, `ReadMiss`, `WriteHit`, ...). A call
that drains lines is a sequence, one step per ssfdc_nftl_write
(`EvictPrewrite`, `EvictOften`, `MultiReadFlush`, `ClearCache`): the points
at which the power may fail, and at which a write may fail if `FtlFaults`.
`CloseCACHES` writes nothing: it frees the lines of a range, in the step of the
`MultiWrite` that goes past them. Calls do
not interleave: the interface has no lock of its own and is used by one owner
at a time, the file system or the UDC task (init_dev unmounts the one before it
serves the other). `FtlCommit` lets the layer persist a sector whenever it likes;
`PowerLoss` drops RAM and everything not durable.

`BlockDevice` has only `cur` (the contents), `dur` (what would survive) and the
result of the last call; the cache refines it with "the line if there is one,
else the layer" as contents.

Left out: UseCount, which steers only `_NAND_LB_OftenToNand`, and nothing calls
that; the wrap-around of `Sector + SectorCount` at 2^32, which no caller reaches.

### UdcBulk and MassStorage

`UdcBulk` has epstat[1] and epstat[2] (`epIn`, `epOut`), the FIFOs (`fifo`, `rx`), the
interrupt latches (`intr`), the enables (`enable`), and the pass in progress: `seen`
holds the registers as read so far and `upc` where udc4755_proc is. Each register
read, each handler and each DMA test is a step, and the hardware and the host
move between any two. Packets of one transfer are one packet; what matters is
whether data goes through the FIFO by CPU (less than a FIFO of it) or by DMA. Left out: the remainder that a DMA of no whole number
of packets leaves to the CPU (`udc.c:736`), since data is sent in whole sectors.

`MassStorage` adds the interface driver: one operator per command handler, put
together in `HandleCBW`; `ReceiveData` is handle_receive_data, `HandleSend`
handle_send with handle_send_data, `Stalled` the end of the busy wait in
start_transfer(0xff). `Inquiry` stands for the commands that answer with constants,
`Capacity` for READ_CAPACITY and READ_FORMAT_CAPACITY, `Other` for unknown
commands. `DeviceReset`, `Suspend`, `PlugIn` and `Removed` are mass_reset after
udc_reset, mass_suspend, and the two halves of mass_detect. `LoadDeferred` copies
the status when the FIFO gets empty, from `csw` as it is then: the struct is
static and its address was kept.

The host (external) sends one command at a time with alternating tags, asks for
the capacity before it transfers, asks for sense after a failure, resets the bus
or loses the cable at any time, and suspends a bus it has nothing to do on. It does not send a READ_10 of
no sectors; the handler does not refuse one. The
card leaves and comes back at any time.

`HostDisk` is what all this amounts to for the host: `disk` with `req`, the command it waits for, `left`,
the part of a write that is not stored yet, and `got`, what a read has delivered. `Asked`, `Remaining` and `Received`
read them off `host`, `bus`, `mass_state`, `cbw` and `xfer`. A part of a write is stored by the step in which
handle_receive_data calls WriteDevSector, a part of a read delivered when the host takes it out of the FIFO, many
steps after it was read. A LUN in `Removable` may lose a part of a write, and deliver junk, for lack
of a medium. A command given up by a reset or a pulled cable may still store what is left of it, for the device goes
on until mass_reset, but not once the host has attached again.

### UdcDriver

`pin` is the cable; `edge`, `latched` and `gpioMasked` are the change its GPIO latches,
the latch (PXFLG) and the mask; `dev`, `bus`, `suspendOn` and `udcMasked` the controller's clock and
soft-connect, the bits of INTRUSB and INTRIN, the suspend enable and its mask. udc_irq_type is
the set `Flag` names (0x01, 0x10, 0x20), `udcEvent` the count of the semaphore. `pc` is
where udc_task_entry is, `ret` where it goes after disable_device or an answer; `msg`, `res`, `view`
are the question to the upper layer (os_QueuePost, then a pend), its answer, and what it has
been told (history); `attached` is UDC_SW_CONNECT of the LUNs.

Each statement of the task that others can come between is a step: `udc_irq_type &= ~flag` is a
`Load` and a `Store`, disable_device is `Off1` to `Off4`, each check_gpio reads the pin anew, each
question is a post and an answer. An enabled interrupt comes before any task step, and may come
between any two. gpio_ist is `Ist`, `Arm`, then `FalseChange`, `CableIn` or `CableOut` ..., `IstEnd`; udc4755_proc
is `Proc`, `Suspend`, `Endpoints`, `Ask` ... `ProcEnd`. udc_disable_device_directly_global, which another
task runs, is `AppLoads` and `AppStores`. The build is that of `mtv_50/jz4755_cetus.mak`:
USE_MIDWARE, no DC_DETE_PIN. `SoftConnect` is connect_udc(1), which the application calls when it has started the
driver; that it does not come between the steps of disable_device is taken of the application, for `udc.c:1015` checks
nothing. The call itself, and one with 0, are outside the sources. `UdcBulk` has the data side of the same passes; the two share no
state but the interrupt and the soft-connect, which `UdcBulk` takes as given.

Two constants name circumstances. `FlagsAtomic`: no interrupt between the load and the store of
udc_irq_type; otherwise a flag is lost and its interrupt stays masked, which the sources
do not rule out and do not speak about. `CableStill`: the pin keeps still in `Deaf`, that is from the first
sample of gpio_ist to enable_irq, and where disable_device follows, for it clears the flags.
`MaxPosts` stops the environment from starting anything new while that many posts are unserved.

### NandDisk

The actions of `SectorCache` are the NAND_LB calls that the entries of the unit make; `op`, `at`
and `left` are the entry that runs and its loop. `lun` chooses nand_dev.c or vmnand_dev.c,
which a build takes in its place: it stops at the first error and flushes on every poll. The
file system (external) mounts, calls the cache, and leaves nothing in it when it is
unmounted. `init_dev` takes the cache from it, `deinit_dev` gives it back; `flush_dev` is the call on every
TEST_UNIT_READY. `Serving` lets the host call them between init_dev and deinit_dev only; the
entries do not look at InitStall themselves (`nand_dev.c:82`), so a host that goes on after mass_suspend without a reset
would reach a cache that the file system has again. `Crash` is the power failing. Left out: speed mode, get_dev_info, the partition table.

### MmcSectorCache

As `SectorCache`, with the differences of lb_mmc.c: the scan for a free line wraps before
the last one (`Scanned`), drains write only dirty lines, `MultiRead` writes all lines of its range,
a failed read is not cached, no sector is checked, and evictions run the second drain when the
first has freed nothing. `store` is what each card holds; `inserted` and `card` change between any two steps,
and `CardWrites` does nothing without a card, as MMC_WriteBlock, whose result nobody looks at; a write of several
blocks takes place or does not, and one that the card is pulled out of is not left half done. `of` in a
line is the card whose sector it is (history). The cache itself does not know cards: that lines
are not those of another rests on the file system mounting again, which is what the constant
`Remounts` says.

### MmcHotplug

`slot` is the card-detect pin; `armed` and `masked` are the level its GPIO
interrupts at and the interrupt's mask; `event` is the count of mmc_detect_event
and `seen` the pin as is_mmc_card_in found it. `identity` says whether the card now in
the slot has been through mmc_init_card ("new", "busy", "known"): mmcinfo
describes it only then. `sd2_0` is the variable of that name: whether blocks are addressed by number
or by byte. The cards are taken to want the former (SD 2.0); for one that wants the latter the reset of it is
harmless, and sd_unpack_csd repeats it. `pSemMMC` is the lock, named by the task that created it,
and `count` has the count of each lock, so that a lock created twice is two locks.
`pc`, `job` and `on` say where each task is, what it does with the card and what it
is blocked on.

`DetectIntr` is detect_intr_handler. detect_intr_task is `Pend`, `Sample`, `Record`,
MMC_Initialize, `Arm`, `Unmask`, then `Pend` again; the pin may change between
any two. MMC_Initialize is `FirstUse`, which resets sd2_0 before the lock is claimed, `Create`, `Enter`, `CheckFails` or
`BeginIdentify`, then `UnpackCsd`, where mmc_init_card sets sd2_0, and `EndIdentify`, or `InitFails`. It is run by that task or, from
MMC_LB_Init (`Mount`), by a client. `Access`, `CheckPasses`, `BeginTransfer` and `EndTransfer` are the block
functions; between the middle two, other tasks can come between mmc_check_status and the test of sd2_0. mmc_exit is part of the step by which a call leaves.

The scheduler is that of uC/OS-II: an interrupt comes before any task, and a client,
whose priority is lower, has the processor only while detect_intr_task waits for its
semaphore, a delay, the lock or the card. os_SemaphoreCreate is assumed to find a
free control block. Two constants name circumstances: `AloneAtFirstUse` (no
task comes between another's test of pSemMMC and its creation) and `DmaHangs` (the DMA of a
transfer does not end if its card goes). `quick`, chosen at the start, says whether the card
may leave and be back within one pass of the task, and `faulty` whether mmc_init_card may fail, or
its CSD be read with a CRC error, on a card that stays; `UnknownOnlyWhileInitializing` and
`CardIsInitialised` speak of cards that do neither. A card on which mmc_init_card has failed stays reported, and block
calls operate it with the mmcinfo of the card before.

Left out: the messages to the middleware, range checks of block addresses and the
commands on the card's bus. Of the variables that MMC_Initialize resets before mmc_enter, num_6 and
limit_41 are left out, for they are used within an identification only: a reset by another task gives SD_SEND_OP_COND
more retries, and, falling between `mmc_protocol.c:96` and its SET_BUS_WIDTH, makes that command wait for data that does not
come (`mmc_controller.c:607`). The identification would then end like a transfer of `DmaHangs`, a second way to the wait
that `hotplug_hang` shows.

### DrvHeap

`prev`, `next` and `status` are the headers, as functions of the blocks' addresses:
a header that a merge makes meaningless leaves their domain. Addresses and sizes are bytes,
with the code's header of 16 and rounding to 4. `live` has the pointers callers
hold, with the bytes they asked for and the offset that setalign stores before the
pointer. Every call is one step, for it runs with interrupts disabled, but for
Drv_realloc, which enables them before it frees the block it moved from:
`ReallocMove` leaves the old pointer in `doomed`, `ReallocFree` is the deAlloc, and other calls
come in between. The two splits of the code are `Cut`, the four cases of my_free `Join`. `intact`
becomes false if the memcpy of Drv_realloc runs past its block, after which the model says
nothing.

`ReallocAligned = FALSE` means that Drv_realloc gets no pointer that alignAlloc has
moved up. The copy then starts after the offset but counts it in its length, so with
such a pointer `CopyStaysInside` fails (TLC shows it with the constant
TRUE). The one user of Drv_realloc in the sources, the C library's _realloc_r, resizes what
malloc gave. The comment above MIN_FREE_BYTES wants 8 bytes left for a split
(`DrvMemMgr.c:56`); the constant is 4, and Drv_realloc leaves even blocks of no
bytes: the model follows the code. Left out: the high-water mark, requests that overflow 32 bits with a header added, and Drv_realloc(0, 0), which
frees the address 0. Alignments are powers of two, as the mask of `DrvMemMgr.c:221` needs.

## 3. Runs

| run | bounds | asks | size |
|---|---|---|---|
| `cache_fill` | 2 lines, 2 sectors written twice | structure of the lines; clean lines are current, flush is durable, write-back moves forward; refinement of `BlockDevice` | 217 k states |
| `nand_disk` | 1 line, 2 sectors, both variants, flush after 2 polls, failing flash and power | only device sectors are written back; every call ends; the cache changes hands clean and durable; an idle host's writes do not stay in it | 507 k states |
| `mmc_cache` | 3 lines (2 found), 3 sectors, 2 cards | the second scan finds a line; lines belong to the card and agree with it; nothing goes back | 1.44 M states |
| `mass_transfers` | NAND LUN, 2 sectors in parts of 1, requests of 0 to 2 | phases agree, good status is true, sector size known; refinement of `HostDisk` | 1.8 M states |
| `mass_live` | card LUN, 1 sector, fair | a change of medium is reported before ready; every command ends (`Answered`) | 1.37 M states |
| `mass_write_fails` | card LUN, 1 sector | finding: a write whose card was gone is reported as passed | violated |
| `udc` | 2 unserved posts, fair; `CableStill`, `FlagsAtomic` | no interrupt stays masked; triggers and cable state right; no pass without clock; one owner of the LUNs; resets and control transfers are served | 40 k states |
| `udc_replug` | without `CableStill` | finding: a change of the cable forgotten by enable_irq | violated |
| `hotplug` | 2 clients; `quick`, `faulty` or neither | one task at a time operates the card; an unknown card, or the wrong addressing mode, is met only while another task waits in MMC_Initialize; a card that stays is initialised; the reported state becomes the slot's | 165 k states |
| `hotplug_hang` | `DmaHangs` | finding: a card pulled out during a DMA stops detection | violated |
| `hotplug_first_use` | without `AloneAtFirstUse` | finding: two locks, two tasks at the card | violated |
| `heap` | 128 bytes of blocks, requests of 1, 8 and 36, alignment 32 | tiling, merging, disjointness, nothing lost, the copy | 213 k states |

Why the bounds are enough. Two lines for two sectors and the blocks past the
end, which reads cache too, give every relation a line can have to a sector
asked for (holds it, holds another, free) while the cache is full and something
must be evicted; the code treats lines uniformly, and the structural properties
are proved for any number. In `mass_transfers` a request of two sectors in parts
of one takes each of first part, next part and last part, in both directions;
more parts repeat the middle one. One outstanding command is all bulk-only
transport allows, and two tags tell a status from that of the command before.
Two writes of a sector, through the line or past it, leave line, layer and
medium at three different versions in every order; that more change nothing is
proved. In the `hotplug` runs two clients and the detection task give every pair
of contenders for the lock, and a third that waits while one of them is inside;
clients are alike. In `nand_disk` the one line is
always the wrong one for the other sector, requests of one sector go through the lines and of two past
them, and two polls stand for ten: below, at and past the limit. In `mmc_cache` two lines that can be found and
one that cannot hold three sectors, so both drains run, and a second card shows what is left
of the first. `udc` needs no sizes; two unserved posts let an interrupt of each kind be pending while the
task is in a pass. In `heap` up to six blocks lie side by side: each of a freed
block's neighbours is free, reserved or an end, first fit skips blocks that are
too small, requests fit exactly, with less than a header to spare, and with a
split. The theorems cover every other length and request.

### Fairness

No fairness makes a caller call, the translation layer commit, the power fail or a card move.
`MassStorage!FairSpec` has WF on `UdcTask` (the highest-priority user of an enabled
interrupt: the ISR posts a semaphore, the kernel runs the task), on `Hardware` (a started
DMA completes) and on `HostStep` (a host in a data or status phase polls the endpoint).
It has none on resets, suspends, the cable or the card.
`MmcHotplug!FairSpec` has WF on `DetectInit` (the boot goes on during the first delay of
the task), `DetectIntr` (a pending interrupt is taken), `Detect` and `Serve(c)` of each
client (a task that can run does: detect_intr_task has the higher priority, and clients are
enabled only while it waits). Nothing makes the card move or a client call.
`hotplug_hang` differs from `hotplug` in `DmaHangs`; there the system may stop.
`UdcDriver!FairSpec` has WF on `Interrupt` (a pending interrupt that is enabled is taken), `UdcTask` (it runs when
it can), `UpperAnswers` (the middleware answers what it is asked: the pends have no time-out, and it is
outside the sources) and `AppStores` (a task is not preempted for ever inside one statement). Cable, host and
application do as they like.
`NandDisk!DiskFairSpec` has WF on `Proceed` (an entry that was called runs on) and SF on
`flush_dev`: an attached host polls with TEST_UNIT_READY between its commands. Only `IdleFlushes` needs
the latter, and it allows for a host that keeps writing or is gone.

`Answered` needs three assumptions, each a constant, because TLC shows without it
a command that is never answered; the safety runs do without them.
- `EmptyWrites = FALSE`: no WRITE_10 of zero sectors. That command starts a receive
  of length zero and the status at once; a latched OUT interrupt then takes the next
  command for the data.
- `HostKeepsUp = TRUE`: the FIFO is empty when a part of a READ_10 is started.
  Otherwise start_transfer marks the endpoint DMA_WRITE and starts nothing.
- `ControlTraffic = FALSE`: no endpoint 0 interrupt during a bulk command. Such a pass
  reads, and so clears, INTROUT before the receive of the next command was started.

### Findings

- `mass_write_fails`: the comment on CSW calls status 00h "Command Passed";
  handle_receive_data sends it whatever WriteDevSector did. With the card pulled
  out between CBW and data, the write is dropped and reported as passed.
- `hotplug_first_use`: MMC_Initialize tests pSemMMC and creates the lock without
  protection (`mmc_api.c:80`). Two tasks that come there first create a lock each, and both
  are past mmc_enter. The runs that assume `AloneAtFirstUse`, and the theorem of
  mutual exclusion, speak of the time when this did not happen.
- `hotplug_hang`: the end of a DMA is waited for without a time-out, under the lock
  (`mmc_controller.c:315`). If the card is pulled out then, detect_intr_task waits for the lock
  for ever at the next card, and later changes of the slot are not reported.
- `udc_replug`: gpio_ist sets the trigger for the edge the cable can make next, but
  the enable_irq after it (`udc.c:958`) clears the latch of the pin (`intc.c:98`). A cable that moved since
  the last check_gpio is forgotten: the task sleeps, waiting for the edge that has
  passed, with cable_stat wrong, until the cable moves twice more.

Met on the way, with no statement in the repository to hold it against: a call preempted between
mmc_enter and mmc_check_status may transfer to a card that is not initialised, and MMC_Initialize
clears sd2_0 before it claims the lock (`mmc_api.c:77`), so that transfers of other tasks, under the lock, multiply block
addresses by 512 until the card has been initialised again
(`UnknownOnlyWhileInitializing` bounds both to the time another task waits for the lock in MMC_Initialize; with two clients TLC shows
that a mount by the one spoils the transfer of the other, that is, that the property fails if only detect_intr_task is
excepted); a request
of the application to disable a device that is not in use stays set and disables its next connection
(`udc.c:951`, `Test20`); an unplug leaves g_timeout set, so that POWER_IN may be told without a cable.

## 4. Proofs

Proved by TLAPS for every number of lines and sectors, every request length and
every number of versions:

- `SectorCacheProofs`: `Invariance` (`Spec => []CacheInv`) and from it type correctness,
  one line per sector (`OneLinePerSector`), the cursor and the second scan stay inside the array (`CursorSafe`,
  `RetryIsSafe`), and only sectors of the device are written back. These hold with failing flash too;
  `CleanLinesCurrent` (a clean line holds what the layer holds) says in its property that it is about flash that does not fail.
- `SectorCacheRefinement`, assuming `~FtlFaults`: the cache implements
  `BlockDevice`; write-back never takes the medium back; after a flush what every
  sector reads as is durable.

The argument. `TypeOK` and `LinesDistinct` are not inductive by themselves: that a
sector has one line survives a fill only because the fill follows a failed lookup,
and the evictions in between only free lines; that the second scan finds a line
depends on which drains have run. `CacheInv` therefore ties `pc` to what the
call has established so far: while `pc` is in a fill, the sector of `req` has no line; after
an eviction some line is free; in a drain of one class the other classes are as
they were; a dirty line is inside the device. Coherence adds the relation of
lines, layer and medium by version (clean equals the layer, layer at least the
medium). Each step of `Next` has its own lemma, one step per conjunct it can disturb; the
lines after a step are described once (lemmas on `Lookup`, `ClosestFree`, `WriteBack`) and the
actions use that. The refinement maps each action to a step of `BlockDevice` or to
a stutter.

`CallsAreShort` is what safety can say of the end of a call: `StepsLeft` counts the lines in use, each of which a drain can
still write back, and ranks the phases; every step of a call lowers it, with failing flash too, so that a call takes at most
`CACHE_MAX_NUM` + 5 steps. That a call goes on is the fairness of `CallReturns`, which TLC checks. The rank of the
phase that takes a line has to be two more than that of no call, for it raises the number of lines in use.

`FtlFaults` must be false there because the code caches the buffer of a failed read
and drops a line whose write-back failed: with faults the cache promises no more than
its structure.

- `MmcHotplugProofs`, for any number of clients: `TypeCorrect` (with at most one post
  pending in mmc_detect_event) and `Exclusion`: if `AloneAtFirstUse`, tasks operate the card
  one at a time; under the same assumption `UseAfterInitialize`: if cards are not exchanged within one pass of the task
  and answer, a card that is not known, or the wrong addressing mode, is met only while another task waits in MMC_Initialize.

Exclusion is not inductive: it needs the lock to be taken exactly when a task is
inside, and to be the only lock. `LockInv` adds `NoLockYet` (before the lock exists
nobody is inside, entering or blocked, at most one task is about to create it, and no card
is reported unless detect_intr_task is on its way to MMC_Initialize: that is
why `Access` by a reported card finds a lock) and `LockHeld` (afterwards nobody creates
it, its count is 0 or 1 and is 0 iff somebody is inside, and whoever is blocked waits for
this lock). The lemmas follow the kinds of step: one that leaves lock and tasks alone, a move
outside the card, a move inside it, taking the lock, leaving it. `AloneAtFirstUse` is
necessary, as `hotplug_first_use` shows. `KnownInv` adds, for `UseAfterInitialize`, that in a pass that has seen
a card it is the one being initialised (`PassOfTheCard`), that a card still reported after the pass is that one, with an interrupt
armed for its leaving (`ReportedIsKnown`), and that it is then known, with its mode set, or a client is about to see to that (`Known`,
`ModeIsSet`): a client that has reset the mode and is not inside yet is one the property excepts, and one that is inside keeps
the transfer out, by `OneAtATime`.

- `DrvHeapProofs`, for any heap, requests and alignments up to 256: `Invariance` (`HeapInv`), and
  from it `Tiling`, `Merged`, `Disjointness`, `CopySafe` and `NoLeak`, if not `ReallocAligned`.

`PointersApart` and `NothingLost` speak of pointers only; what makes them inductive is `Owned`
(every pointer in a reserved block of its own, every reserved block with a pointer)
together with the tiling. The lemmas on `Cut` and `Join` describe the list after any split or merge
of a stretch of blocks (`Between`); `Taken` and `FreeIsJoin` reduce currentNodeAlloc and the four cases of
my_free to them; each call then only says what becomes of its pointer. `CopySafe` is arithmetic: a block is moved
only when it and its free neighbour together are too small, so what is copied fits.

- `UdcDriverProofs`: `PassesNeedAClock` (if `FlagsAtomic`), `LunsHaveOneOwner` (if `CableStill`), with both
  `CableFollowed` and `NoInterruptForgotten`, and without assumption `PostsBounded` (type correctness, with at most
  three posts of udcEvent over the `MaxPosts` at which nothing new is started).

The three invariants grow from each other. `FlagsInv` has what disable_device establishes in its four
steps: once the bus is silent no interrupt can set the flag it clears, and a stopped device has neither flag nor
pass; it needs the read-modify-writes whole (`NothingOverwritten`). `AgreeInv` follows a connection:
allowed by the upper layer (`Allowance`), ended by the driver before it is told (`EndedBeforeTold`), its LUNs given
back on the way (`Ownership`). `CableInv` has both, and that the trigger is right while it is armed
(`Awaited`), that gpio_ist runs masked with a pin that keeps still (`IstAgrees`), that nothing pending is
wiped (`NoneWiped`), and that a flag has a post or a task about to test it (`PostOwed`). The steps are
grouped by what they leave alone, each group against each conjunct.
`PostsInv` counts the posts still to come of what has begun: one of a latched edge that is not masked
(`GpioDue`), one of an application inside its update (`AppDue`), and of the device one or, if its pass can be interrupted and leaves
something to its own enable_irq, two (`UdcDue`). A step that posts uses one of them up, and only a step that `MaxPosts` guards adds any.

- `MmcSectorCacheProofs`, for any lines, sectors and cards: `ScanAgain` (types, one line per sector, the second
  scan finds a line) and `CallsAreShort` without assumption; `LinesOfTheCard`, `CleanLines` and `OnlyNewer` if `Remounts`.

`RetryFindsALine` is surprising, since one line is never found: `FreedOne` has that it is never taken, so
that whatever a drain frees can be. `ContentInv` adds that dirty lines, and writes that wait for a line, are
newer than the card, also when the write was lost. The lemmas follow the kinds of step: write back a line (`WrittenBack`, for all five
loops), take one, change one, drop a range, begin or end a call.

- `NandDiskProofs`, with failing flash and for any cache: `ZeroTellsClean`, `HandOverIsDurable` and `EntriesAreShort` (each
  step of an entry takes a sector of its loop or shortens the call in progress, and nothing else comes in between);
  if `~FtlFaults`, `UnitKeepsTheDevice` (`BlockDevice` again, for all that goes on under the unit).

Every step of the unit is a step of the cache or forgets what the last call returned, so `CacheInv`
carries over (`CacheKept`), and with it the refinement. `DiskInv` adds who has the cache (`Owners`), where the loop of a request of several sectors
stands (`LoopInside`), that a hand-over or a flush by flush_dev drains line after line (`Flushing`), and that a counter of
0 means nothing to flush (`NothingToFlush`).

- `MassStorageProofs`, for any LUNs, sectors, part sizes, request lengths and versions: `CountersStayInside`, `PhasesAgree`,
  `SizeIsKnown`, `GoodStatusIsTrue` (for media that stay), `WritesStayInRange`, `ImplementsHostDisk`, and, for one LUN besides
  LUN 0 (`OneSlot`), `AttentionReachesTheHost`. None of the three assumptions of
  `Answered` is needed: a command may hang, but what was answered is true.

`PhaseAgreement` says little about the middle of a transfer, and `StatusTruthful` nothing before the status is out.
`MassInv` says what is true in between: what mass_state uses each endpoint for (`Endpoints`); that a DMA which has ended is
noticed once (`DmaLatches`) and an interrupt of an empty FIFO is never taken for that of the packet that waits (`InLatch`);
how the phase of the host, mass_state and the data on the way go together (`InStep`); and how
much of a request has been read, answered or written so far (`ReadSoFar`, `AnswerFirst`, `WrittenSoFar`). It is stated while
the bus is up or suspended: after a reset of the bus the host has forgotten a command the device is still
at, until mass_reset. The lemmas follow the actions; a pass of udc4755_proc is taken register by register.

`ImplementsHostDisk` needs `StoredInv` besides: the data of a write that are not stored yet are the successors of what is
(`StoresAhead`), and a part of a read that is in the endpoint or the FIFO is what the disk holds, at the place the
host has reached (`ReadsStored`). Storing and taking a part out of the FIFO are the two steps that move the abstract disk
within a command; the lemmas `Kept...` show that every other step maps to its begin, its end, giving it up,
or a stutter. `OnlyInRange`, which the theorem `WritesStayInRange` states, is what it says of sectors that do not change.

`AttentionReachesTheHost`: `AttentionInv` ties what the host was told (`absent`) to iscardin and to the answer
of TEST_UNIT_READY or REQUEST_SENSE that is on its way: while the host believes there is no medium, iscardin is set
(and the LUN therefore not ready) or the sense of the new medium is in the FIFO. `OneSlot` is true of the builds (NAND as LUN 0, card as LUN 1) and necessary: with two
removable LUNs TLC finds the sense of one used up by the other, since iscardin is one variable.

Only model-checked: `CallReturns`, `Answered`, `IdleFlushes`, `EventServed`, `CardStateSettles` and `CardIsInitialised`,
which are liveness under fairness, out of this prover's reach. `CallsShrink`, `EntriesShrink`, `StaysABlockDevice` and `OnlyInRange` are the
other way round: proved, and model-checked on instances like those of `cache_fill`, `mmc_cache`, `nand_disk` and `mass_transfers`, but in
none of the runs.

## 5. Not modelled, and plan

Not modelled because a model would add nothing to the code: the chip, display, touch, audio and
radio drivers, the card's protocol, clock and DMA set-up (register programming); the C library, lwip and libfdt (third
party); the loaders and payloads of `mtv_50` (another processor). The translation layer under
the NAND cache is a binary outside the sources, the file system and the middleware are libraries outside them:
they appear as what the code relies on. `PROJECT.json` has every part with its reason. In the modelled parts:
the set-up packets of endpoint 0, the descriptors, register_dev and the single-LUN switch of
`udcbus.c`.

What would come next:

1. `MassStorage` over `UdcDriver`: who owns the LUNs on a suspended bus.
2. Endpoint 0: set-up packets, and the class request "mass storage reset", which only prints (`mass_storage.c:968`).
3. `PowerManager`: the levels and the wake-up list of `kernel/pm.c`.

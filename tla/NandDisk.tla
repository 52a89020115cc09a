------------------------------- MODULE NandDisk --------------------------------
(***************************************************************************)
(* The NAND logical unit of the mass-storage interface, over the sector    *)
(* cache: src/soc_src/jz4755/drv/udc/udc_block/nanddisk/nand_dev.c, and    *)
(* its variant vmnanddisk/vmnand_dev.c, which a build takes instead.  The  *)
(* unit takes the cache from the file system when the host attaches        *)
(* (init_dev), serves the host, writes back when the host idles            *)
(* (flush_dev), and gives the cache back (deinit_dev).                     *)
(*                                                                         *)
(* The calls of the NAND_LB_* interface are the actions of SectorCache,    *)
(* one after another; the file system is a library outside the sources.    *)
(***************************************************************************)
EXTENDS SectorCache

CONSTANTS
    FlushAfter,       \* 10: the polls of an idle host before a flush
    SectorCountStep   \* sectors in 4 KB: longer transfers bypass the lines

ASSUME NandDiskAssumption ==
    /\ FlushAfter \in Nat
    /\ SectorCountStep \in Nat

VARIABLES
    lun,              \* the variant in the build: "nand" or "vmnand"
    InitStall,        \* the unit has the cache
    FlushDataState,
    IsUsbWirteNandValue,
    mounted,          \* the file system has it
    op,               \* the entry that runs, or "none"
    at, left          \* of its loop: the next sector, and how many are left

ownVars == <<lun, InitStall, FlushDataState, IsUsbWirteNandValue, mounted>>
loopVars == <<op, at, left>>
diskVars == <<ownVars, loopVars>>
allVars == <<vars, diskVars>>

Op == {"none", "init", "read", "write", "flush", "deinit"}

DiskInit ==
    /\ Init
    /\ lun \in {"nand", "vmnand"}
    /\ InitStall = FALSE /\ FlushDataState = 0 /\ IsUsbWirteNandValue = FALSE
    /\ mounted = FALSE
    /\ op = "none" /\ at = 0 /\ left = 0

Free == op = "none" /\ pc = "idle"

\* The entries do not look at InitStall: that the host calls them only between
\* init_dev and deinit_dev is mass_storage.c's, except after a suspend that ends
\* without a reset.
Serving == Free /\ InitStall

(***************************************************************************)
(* The file system (external).                                             *)
(***************************************************************************)
Mount ==
    /\ op = "none" /\ ~InitStall /\ ~mounted
    /\ IF pc = "off" THEN Boot ELSE UNCHANGED vars
    /\ mounted' = TRUE
    /\ UNCHANGED <<lun, InitStall, FlushDataState, IsUsbWirteNandValue, loopVars>>

FileSystemCalls ==
    /\ mounted /\ Free
    /\ Call
    /\ UNCHANGED diskVars

(***************************************************************************)
(* init_dev and deinit_dev.                                                *)
(***************************************************************************)

\* A file system that is unmounted leaves nothing in the cache.
Unmount ==
    IF mounted THEN FlashCache ELSE UNCHANGED vars

init_dev ==
    /\ op = "none" /\ pc \in {"off", "idle"} /\ ~InitStall
    /\ Unmount
    /\ op' = "init"
    /\ mounted' = FALSE
    /\ IsUsbWirteNandValue' = (lun = "vmnand" /\ IsUsbWirteNandValue)
    /\ UNCHANGED <<lun, InitStall, FlushDataState, at, left>>

EndInit ==
    /\ op = "init" /\ pc \in {"off", "idle"}
    /\ IF pc = "off" THEN Boot ELSE UNCHANGED vars
    /\ InitStall' = TRUE
    /\ FlushDataState' = 0
    /\ op' = "none"
    /\ UNCHANGED <<lun, IsUsbWirteNandValue, mounted, at, left>>

\* Mutated: the file system is mounted on what is in the cache.
deinit_devKeeps ==
    /\ Serving
    /\ UNCHANGED vars
    /\ op' = "deinit"
    /\ UNCHANGED <<ownVars, at, left>>

deinit_dev ==
    /\ Serving
    /\ FlashCache
    /\ op' = "deinit"
    /\ UNCHANGED <<ownVars, at, left>>

EndDeinit ==
    /\ op = "deinit" /\ pc = "idle"
    /\ mounted' = TRUE
    /\ InitStall' = FALSE
    /\ op' = "none"
    /\ UNCHANGED <<vars, lun, FlushDataState, IsUsbWirteNandValue, at, left>>

(***************************************************************************)
(* read_dev_sector and write_dev_sector.                                   *)
(***************************************************************************)
Loop(o, s, c) ==
    /\ op' = o /\ at' = s /\ left' = c
    /\ out' = Silent
    /\ UNCHANGED <<slot, cur, pc, req, ftl, flash>>

read_dev_sector(s, c) ==
    /\ Serving
    /\ IF c <= SectorCountStep
       THEN Loop("read", s, c)
       ELSE MultiRead(s, c) /\ UNCHANGED loopVars
    /\ UNCHANGED ownVars

\* The versions must suffice for the loop to end.
write_dev_sector(s, c) ==
    /\ Serving
    /\ \A t \in Extent(s, c) \cap Sector : Value(t) < MaxVersion
    /\ IF c <= SectorCountStep
       THEN Loop("write", s, c)
       ELSE (MultiWriteRefused(s, c) \/ MultiWrite(s, c)) /\ UNCHANGED loopVars
    /\ IsUsbWirteNandValue' = (lun = "nand" \/ IsUsbWirteNandValue)
    /\ UNCHANGED <<lun, InitStall, FlushDataState, mounted>>

\* The variant gives up when a call has returned an error.
Broken == lun = "vmnand" /\ out = Refused

Advance == at' = at + 1 /\ left' = left - 1 /\ UNCHANGED op

ReadSector ==
    /\ op = "read" /\ pc = "idle" /\ left > 0 /\ ~Broken
    /\ ReadHit(at) \/ ReadMiss(at)
    /\ Advance
    /\ UNCHANGED ownVars

\* Mutated: a write does not count as one.
WriteSectorSilent ==
    /\ op = "write" /\ pc = "idle" /\ left > 0 /\ ~Broken
    /\ WriteRefused(at) \/ WriteHit(at) \/ WriteMiss(at)
    /\ Advance
    /\ UNCHANGED ownVars

WriteSector ==
    /\ op = "write" /\ pc = "idle" /\ left > 0 /\ ~Broken
    /\ WriteRefused(at) \/ WriteHit(at) \/ WriteMiss(at)
    /\ Advance
    /\ FlushDataState' = (IF lun = "vmnand" /\ out' = Refused THEN FlushDataState ELSE 1)
    /\ UNCHANGED <<lun, InitStall, IsUsbWirteNandValue, mounted>>

LoopEnds ==
    /\ op \in {"read", "write"} /\ pc = "idle"
    /\ left = 0 \/ Broken
    /\ op' = "none"
    /\ UNCHANGED <<vars, ownVars, at, left>>

(***************************************************************************)
(* flush_dev, on every TEST_UNIT_READY of the host.                        *)
(***************************************************************************)

\* Mutated: the counter stops before it reaches the limit.
flush_devStuck ==
    /\ Serving
    /\ IF lun = "vmnand"
       THEN FlashCache /\ op' = "flush" /\ UNCHANGED FlushDataState
       ELSE /\ FlushDataState' = (IF FlushDataState \in 1 .. FlushAfter - 1
                                  THEN FlushDataState + 1 ELSE FlushDataState)
            /\ UNCHANGED <<vars, op>>
    /\ UNCHANGED <<lun, InitStall, IsUsbWirteNandValue, mounted, at, left>>

Flushes == lun = "vmnand" \/ FlushDataState >= FlushAfter

flush_dev ==
    /\ Serving
    /\ IF Flushes
       THEN FlashCache /\ op' = "flush" /\ UNCHANGED FlushDataState
       ELSE /\ FlushDataState' = (IF FlushDataState = 0 THEN 0 ELSE FlushDataState + 1)
            /\ UNCHANGED <<vars, op>>
    /\ UNCHANGED <<lun, InitStall, IsUsbWirteNandValue, mounted, at, left>>

EndFlush ==
    /\ op = "flush" /\ pc = "idle"
    /\ FlushDataState' = (IF lun = "nand" THEN 0 ELSE FlushDataState)
    /\ op' = "none"
    /\ UNCHANGED <<vars, lun, InitStall, IsUsbWirteNandValue, mounted, at, left>>

(***************************************************************************)
(* The power goes.                                                         *)
(***************************************************************************)
Crash ==
    /\ PowerLoss
    /\ InitStall' = FALSE /\ FlushDataState' = 0 /\ IsUsbWirteNandValue' = FALSE
    /\ mounted' = FALSE
    /\ op' = "none" /\ at' = 0 /\ left' = 0
    /\ UNCHANGED lun

HostCommands ==
    \/ \E s \in Block, c \in Count :
        /\ s + c - 1 \in Block
        /\ read_dev_sector(s, c) \/ write_dev_sector(s, c)
    \/ flush_dev

\* What an entry that was called does until it returns.
Proceed ==
    \/ Continue /\ UNCHANGED diskVars
    \/ EndInit \/ EndDeinit \/ EndFlush
    \/ ReadSector \/ WriteSector
    \/ LoopEnds

DiskNext ==
    \/ Mount \/ FileSystemCalls
    \/ init_dev \/ deinit_dev \/ HostCommands
    \/ Proceed
    \/ \E s \in Sector : FtlCommit(s) /\ UNCHANGED diskVars
    \/ Crash

DiskSpec == DiskInit /\ [][DiskNext]_allVars

\* An entry that was called runs on, and an attached host polls between its
\* commands.
DiskFairSpec ==
    /\ DiskSpec
    /\ WF_allVars(Proceed)
    /\ SF_allVars(flush_dev)

(***************************************************************************)
(* Properties.                                                             *)
(***************************************************************************)
Clean == \A i \in Slot : ~slot[i].dirty

\* FlushDataState tells whether there may be something to flush: when it is 0 no
\* line is dirty, through failed writes, evictions and repeated init_dev.
ZeroMeansClean == Serving /\ lun = "nand" /\ FlushDataState = 0 => Clean

\* The file system gets the medium with everything that the host has written, and
\* the host gets it with everything that the file system has: nothing is left in
\* the lines, and what the translation layer holds is durable.
HandedOverDurable ==
    [][InitStall # InitStall' /\ pc' # "off" => Clean' /\ flash' = ftl']_allVars

\* What the host has written sector by sector does not stay in the lines of an
\* idle host: again and again they are clean, unless the host is writing or gone.
IdleFlushes == []<>(Clean \/ op = "write" \/ ~InitStall)

\* Nothing comes between the steps of an entry that was called, and each of them takes
\* a sector of its loop or brings the call of the cache in progress nearer to its
\* return (the loops of read_dev_sector and write_dev_sector).
EntriesShrink ==
    [][op # "none" /\ op' # "none" /\ <<loopVars, pc, slot>>' # <<loopVars, pc, slot>> =>
          \/ left > 0 /\ left' = left - 1
          \/ left' = left /\ StepsLeft' < StepsLeft]_allVars

\* Whoever calls it, and however it changes hands, what is under the unit stays the block
\* device of SectorCache: every sector reads as last written, a sync makes that durable.
\* A loop of the unit only forgets what the call before it has returned.
Forgets == out' = Silent /\ UNCHANGED <<[s \in Sector |-> Value(s)], flash>>
StaysABlockDevice == Device!Init /\ [][Device!Next \/ Forgets]_(Device!vars)

(***************************************************************************)
(* The inductive invariant behind ZeroMeansClean and HandedOverDurable.    *)
(***************************************************************************)

\* The file system or the unit has the cache, and who calls it has it.
Owners ==
    /\ ~(mounted /\ InitStall)
    /\ op \in {"read", "write", "flush", "deinit"} => InitStall
    /\ op = "init" => ~InitStall /\ ~mounted
    /\ op = "none" /\ ~mounted /\ ~InitStall => pc = "off"
    /\ pc = "off" => op \in {"none", "init"} /\ ~InitStall /\ ~mounted /\ flash = ftl

\* A loop ends with its last sector, one past the end at most.
LoopInside ==
    op \in {"read", "write"} => at \in Nat /\ left \in Nat /\ at + left <= TotalSec + 1

\* An entry that flushes finds the cache clean and durable when it goes on.
Flushing ==
    op \in {"init", "flush", "deinit"} =>
        /\ pc \in {"off", "idle", "clearPrewrite", "clearOften", "commit"}
        /\ pc = "idle" => Clean /\ flash = ftl

\* Nothing is dirty, or about to be, before the next write counts.
NothingToFlush ==
    InitStall /\ lun = "nand" /\ FlushDataState = 0 => Clean /\ ~(pc \in Filling /\ req.rw)

DiskInv ==
    /\ CacheInv /\ FlushDataState \in Nat
    /\ Owners /\ LoopInside /\ Flushing /\ NothingToFlush
================================================================================

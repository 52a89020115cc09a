---------------------------- MODULE NandDiskProofs -----------------------------
(***************************************************************************)
(* The NAND logical unit over the sector cache.  Every step of the unit is *)
(* a step of the cache, or the start of a loop that only forgets the last  *)
(* result, so the invariant of the cache carries over (CacheKept); what is *)
(* left to prove is who has the cache, what is dirty in it, and that the   *)
(* loops end.  The refinement of BlockDevice carries over the same way.    *)
(***************************************************************************)
EXTENDS NandDisk, SectorCacheRefinement

Clearing == {"clearPrewrite", "clearOften", "commit"}

WritePending == pc \in Filling /\ req.rw

\* A call that runs on writes no line that was not going to be dirty, and a flush
\* goes through its phases and leaves the lines clean and the medium durable.
LEMMA ContinueEffect ==
    ASSUME CacheInv, Continue
    PROVE  /\ pc \notin {"idle", "off"} /\ pc' # "off"
           /\ pc \in Clearing => pc' \in Clearing \cup {"idle"}
           /\ pc \in Clearing /\ pc' = "idle" => Clean' /\ flash' = ftl'
           /\ Clean /\ ~WritePending => Clean' /\ ~WritePending'
  <1> USE DEF Clearing, WritePending, Filling, Clean
  <1>1. slot \in [Slot -> Line] /\ req \in Request
    BY DEF CacheInv, TypeOK
  <1>2. ASSUME NEW i \in Slot, WriteBack(i)
        PROVE  Clean => Clean'
    BY <1>1, <1>2 DEF WriteBack, FreeLine
  <1>3. ASSUME NEW st, DrainOne(st)
        PROVE  Clean => Clean'
    BY <1>2, <1>3 DEF DrainOne, InState
  <1>4. ASSUME TakeFreeLine
        PROVE  pc \in {"copy", "retry"} /\ pc' = "idle" /\ (~req.rw /\ Clean => Clean')
    <2>1. PICK i \in InState("FREE") : Fill(i)
      BY <1>4 DEF TakeFreeLine
    <2>2. slot' = [slot EXCEPT ![i] = [state |-> "PREWRITE", block |-> req.sec,
                                       dirty |-> req.rw, data |-> req.data]]
      BY <2>1 DEF Fill
    <2>3. ~req.rw /\ Clean => Clean'
      BY <1>1, <2>2 DEF InState
    <2> QED
      BY <1>4, <2>1, <2>3 DEF TakeFreeLine, Fill, Return
  <1>5. CASE TakeFreeLine
    BY <1>4, <1>5
  <1>6. CASE CacheFull
    BY <1>6 DEF CacheFull
  <1>7. CASE EvictPrewrite
    <2>1. pc = "evict" /\ pc' \in Filling /\ req'.rw = req.rw
      BY <1>1, <1>7 DEF EvictPrewrite, Request
    <2>2. Clean => Clean'
      BY <1>3, <1>7 DEF EvictPrewrite, Drained
    <2> QED
      BY <2>1, <2>2
  <1>8. CASE EvictOften
    <2>1. pc = "evictOften" /\ pc' \in Filling /\ req' = req
      BY <1>8 DEF EvictOften
    <2>2. Clean => Clean'
      BY <1>3, <1>8 DEF EvictOften, Drained
    <2> QED
      BY <2>1, <2>2
  <1>9. CASE MultiReadFlush
    BY <1>2, <1>9 DEF MultiReadFlush, InRange
  <1>10. CASE MultiReadMedium
    BY <1>10 DEF MultiReadMedium, Return
  <1>11. CASE ClearCache
    <2>1. /\ pc \in {"clearPrewrite", "clearOften"}
          /\ pc' \in Clearing /\ req' = req
      BY <1>11 DEF ClearCache
    <2>2. Clean => Clean'
      BY <1>3, <1>11 DEF ClearCache, Drained
    <2> QED
      BY <2>1, <2>2
  <1>12. CASE FlushFtl
    <2>1. Clean
      BY <1>12 DEF FlushFtl, CacheInv, CallPhase, DirtyInside, InState, InUse
    <2> QED
      BY <1>12, <2>1 DEF FlushFtl, Return
  <1> QED
    BY <1>5, <1>6, <1>7, <1>8, <1>9, <1>10, <1>11, <1>12 DEF Continue

\* A call leaves the cache initialised.
LEMMA CallEffect == ASSUME Call PROVE pc' # "off"
  BY DEF Call, Boot, ReadHit, ReadMiss, WriteRefused, WriteHit, WriteMiss, MultiRead,
     MultiWriteRefused, MultiWrite, FlashCache

\* What a step of the unit is to the cache.
CacheStep == [Next]_vars \/ (out' = Silent /\ UNCHANGED <<slot, cur, pc, req, ftl, flash>>)

\* Every step of the unit calls the cache as its interface allows.
LEMMA StepsOfTheCache == DiskInv /\ [DiskNext]_allVars => CacheStep
  <1> SUFFICES ASSUME DiskInv, [DiskNext]_allVars PROVE CacheStep
    OBVIOUS
  <1> USE DEF CacheStep, Next, Call
  <1>1. CASE Mount
    BY <1>1 DEF Mount
  <1>2. CASE FileSystemCalls
    BY <1>2 DEF FileSystemCalls
  <1>3. CASE init_dev
    BY <1>3 DEF init_dev, Unmount
  <1>4. CASE deinit_dev
    BY <1>4 DEF deinit_dev
  <1>5. CASE \E s \in Block, c \in Count :
                /\ s + c - 1 \in Block
                /\ read_dev_sector(s, c) \/ write_dev_sector(s, c)
    BY <1>5 DEF read_dev_sector, write_dev_sector, Loop
  <1>6. CASE flush_dev
    BY <1>6 DEF flush_dev
  <1>7. CASE Continue
    BY <1>7
  <1>8. CASE EndInit
    BY <1>8 DEF EndInit
  <1>9. CASE EndDeinit \/ EndFlush \/ LoopEnds
    BY <1>9 DEF EndDeinit, EndFlush, LoopEnds
  <1>10. ASSUME op \in {"read", "write"}, left > 0
         PROVE  at \in Block
    BY <1>10, DeviceAssumption DEF DiskInv, LoopInside, Block
  <1>11. CASE ReadSector
    BY <1>10, <1>11 DEF ReadSector
  <1>12. CASE WriteSector
    BY <1>10, <1>12 DEF WriteSector
  <1>13. CASE \E s \in Sector : FtlCommit(s)
    BY <1>13
  <1>14. CASE Crash
    BY <1>14 DEF Crash
  <1>15. CASE UNCHANGED allVars
    BY <1>15 DEF allVars
  <1> QED
    BY <1>1, <1>2, <1>3, <1>4, <1>5, <1>6, <1>7, <1>8, <1>9, <1>11, <1>12, <1>13, <1>14, <1>15
       DEF DiskNext, HostCommands, Proceed

\* The invariant of the cache holds under the unit.
LEMMA CacheKept == DiskInv /\ [DiskNext]_allVars => CacheInv'
  <1>1. ASSUME CacheInv, out' = Silent /\ UNCHANGED <<slot, cur, pc, req, ftl, flash>>
        PROVE  CacheInv'
    BY <1>1 DEF CacheInv, TypeOK, LinesDistinct, DirtyInside, CursorBound, RetryFindsALine,
       FillPending, CallPhase, CleanIsCurrent, VersionsOrdered, NothingSinceSync, InUse,
       OnMedium, InState, Silent, Synced
  <1> QED
    BY <1>1, StepInv, StepsOfTheCache DEF CacheStep, DiskInv

\* What Flushing and NothingToFlush say of the cache, for its own steps.
DiskRest == Owners /\ LoopInside /\ Flushing /\ NothingToFlush /\ FlushDataState \in Nat

LEMMA DiskInitInv == DiskInit => DiskInv
  <1> SUFFICES ASSUME DiskInit PROVE DiskInv
    OBVIOUS
  <1>1. CacheInv
    BY InitInv DEF DiskInit
  <1> QED
    BY <1>1 DEF DiskInit, Init, DiskInv, Owners, LoopInside, Flushing, NothingToFlush

\* The file system's steps keep the unit's part of the invariant.
LEMMA FileSystemInv == ASSUME DiskInv, Mount \/ FileSystemCalls PROVE DiskRest'
  <1> USE DEF DiskInv, DiskRest, Owners, LoopInside, Flushing, NothingToFlush
  <1>1. CASE Mount
    BY <1>1 DEF Mount, Boot, loopVars, vars
  <1>2. CASE FileSystemCalls
    BY <1>2, CallEffect DEF FileSystemCalls, diskVars, ownVars, loopVars, Free
  <1> QED
    BY <1>1, <1>2

\* Attaching and detaching: the cache is flushed before it changes hands.
LEMMA HandOverInv ==
    ASSUME DiskInv, init_dev \/ EndInit \/ deinit_dev \/ EndDeinit
    PROVE  DiskRest'
  <1> USE DEF DiskInv, DiskRest, Owners, LoopInside, Flushing, NothingToFlush
  <1>1. CASE init_dev
    BY <1>1 DEF init_dev, Unmount, FlashCache, vars
  <1>2. CASE EndInit
    BY <1>2 DEF EndInit, Boot, vars, Clean, Filling, FreeLine
  <1>3. CASE deinit_dev
    BY <1>3 DEF deinit_dev, Serving, Free, FlashCache, Clean, Filling, ownVars
  <1>4. CASE EndDeinit
    BY <1>4 DEF EndDeinit, vars
  <1> QED
    BY <1>1, <1>2, <1>3, <1>4

\* The commands of the host: a loop starts inside the device, and only a write in a
\* loop leaves something dirty.
LEMMA CommandInv ==
    ASSUME DiskInv, NEW s \in Block, NEW c \in Count, s + c - 1 \in Block,
           read_dev_sector(s, c) \/ write_dev_sector(s, c)
    PROVE  DiskRest'
  <1> USE DEF DiskInv, DiskRest, Owners, LoopInside, Flushing, NothingToFlush
  <1>1. s \in Nat /\ c \in Nat /\ s + c <= TotalSec + 1
    BY DeviceAssumption DEF Block, Count
  <1>2. CASE read_dev_sector(s, c)
    BY <1>1, <1>2 DEF read_dev_sector, Loop, MultiRead, Serving, Free, ownVars, loopVars, Clean,
       Filling
  <1>3. CASE write_dev_sector(s, c)
    <2>1. CASE c <= SectorCountStep
      BY <1>1, <1>3, <2>1 DEF write_dev_sector, Loop, Serving, Free, Clean, Filling
    <2>2. CASE ~(c <= SectorCountStep)
      <3>1. slot' = slot \/ slot' = CloseCACHES(s, c)
        BY <1>3, <2>2 DEF write_dev_sector, MultiWriteRefused, MultiWrite
      <3>2. Clean => Clean'
        BY <3>1 DEF Clean, CloseCACHES, FreeLine
      <3>3. pc' = pc /\ UNCHANGED <<loopVars, lun, InitStall, FlushDataState, mounted>>
        BY <1>3, <2>2 DEF write_dev_sector, MultiWriteRefused, MultiWrite
      <3> QED
        BY <1>3, <3>2, <3>3 DEF write_dev_sector, Serving, Free, loopVars, Filling
    <2> QED
      BY <2>1, <2>2
  <1> QED
    BY <1>2, <1>3

\* A turn of a loop takes a sector; a write counts before the next flush_dev.
LEMMA LoopInv == ASSUME DiskInv, ReadSector \/ WriteSector \/ LoopEnds PROVE DiskRest'
  <1> USE DEF DiskInv, DiskRest, Owners, LoopInside, Flushing, NothingToFlush, Advance
  <1>1. slot \in [Slot -> Line]
    BY DEF CacheInv, TypeOK
  <1>2. CASE ReadSector
    <2>1. pc' \in {"idle", "copy"} /\ (Clean => Clean') /\ (pc' = "copy" => ~req'.rw)
      <3>1. CASE ReadHit(at)
        BY <1>1, <3>1 DEF ReadHit, Lookup, Clean
      <3>2. CASE ReadMiss(at)
        BY <3>2 DEF ReadMiss, NoReq, Clean
      <3> QED
        BY <1>2, <3>1, <3>2 DEF ReadSector
    <2> QED
      BY <1>2, <2>1 DEF ReadSector, ownVars, Filling
  <1>3. CASE WriteSector
    <2>1. pc' # "off"
      BY <1>3 DEF WriteSector, WriteRefused, WriteHit, WriteMiss
    <2>2. lun' = "nand" => FlushDataState' = 1
      BY <1>3 DEF WriteSector
    <2>3. /\ op' = "write" /\ at' = at + 1 /\ left' = left - 1 /\ op = "write" /\ left > 0
          /\ UNCHANGED <<lun, InitStall, mounted>>
          /\ FlushDataState' \in {FlushDataState, 1}
      BY <1>3 DEF WriteSector
    <2> QED
      BY <2>1, <2>2, <2>3
  <1>4. CASE LoopEnds
    BY <1>4 DEF LoopEnds, vars, ownVars, Clean
  <1> QED
    BY <1>2, <1>3, <1>4

\* Polls of an idle host: the counter is only reset when the flush has returned.
LEMMA FlushInv == ASSUME DiskInv, flush_dev \/ EndFlush PROVE DiskRest'
  <1> USE DEF DiskInv, DiskRest, Owners, LoopInside, Flushing, NothingToFlush
  <1>1. CASE flush_dev
    BY <1>1 DEF flush_dev, Serving, Free, FlashCache, vars, Clean, Filling
  <1>2. CASE EndFlush
    BY <1>2 DEF EndFlush, vars, Clean, Filling
  <1> QED
    BY <1>1, <1>2

\* What the cache does by itself, and a power loss.
LEMMA CacheStepsInv ==
    ASSUME DiskInv,
           \/ Continue /\ UNCHANGED diskVars
           \/ \E s \in Sector : FtlCommit(s) /\ UNCHANGED diskVars
           \/ Crash
    PROVE  DiskRest'
  <1> USE DEF DiskInv, DiskRest, Owners, LoopInside, Flushing, NothingToFlush
  <1>1. CASE Continue /\ UNCHANGED diskVars
    BY <1>1, ContinueEffect DEF diskVars, ownVars, loopVars, Clearing, WritePending
  <1>2. CASE \E s \in Sector : FtlCommit(s) /\ UNCHANGED diskVars
    <2>1. PICK s \in Sector : FtlCommit(s) /\ UNCHANGED diskVars
      BY <1>2
    <2> QED
      BY <2>1 DEF FtlCommit, diskVars, ownVars, loopVars, Clean
  <1>3. CASE Crash
    BY <1>3 DEF Crash, PowerLoss
  <1> QED
    BY <1>1, <1>2, <1>3

\* Every step of the unit keeps the invariant.
LEMMA DiskStepInv == DiskInv /\ [DiskNext]_allVars => DiskInv'
  <1> SUFFICES ASSUME DiskInv, [DiskNext]_allVars PROVE DiskInv'
    OBVIOUS
  <1>1. ASSUME DiskNext
        PROVE  DiskRest'
    <2>1. CASE Mount \/ FileSystemCalls
      BY <2>1, FileSystemInv
    <2>2. CASE init_dev \/ EndInit \/ deinit_dev \/ EndDeinit
      BY <2>2, HandOverInv
    <2>3. CASE \E s \in Block, c \in Count :
                  /\ s + c - 1 \in Block
                  /\ read_dev_sector(s, c) \/ write_dev_sector(s, c)
      BY <2>3, CommandInv
    <2>4. CASE ReadSector \/ WriteSector \/ LoopEnds
      BY <2>4, LoopInv
    <2>5. CASE flush_dev \/ EndFlush
      BY <2>5, FlushInv
    <2>6. CASE \/ Continue /\ UNCHANGED diskVars
               \/ \E s \in Sector : FtlCommit(s) /\ UNCHANGED diskVars
               \/ Crash
      BY <2>6, CacheStepsInv
    <2> QED
      BY <1>1, <2>1, <2>2, <2>3, <2>4, <2>5, <2>6 DEF DiskNext, HostCommands, Proceed
  <1>2. ASSUME UNCHANGED allVars
        PROVE  DiskRest'
    BY <1>2 DEF DiskInv, DiskRest, Owners, LoopInside, Flushing, NothingToFlush, allVars, vars,
       diskVars, ownVars, loopVars, Clean
  <1>3. DiskRest'
    BY <1>1, <1>2
  <1> QED
    BY <1>3, CacheKept DEF DiskInv, DiskRest

\* The invariant of the unit and its cache holds in every reachable state.
THEOREM DiskInvariance == DiskSpec => []DiskInv
  BY DiskInitInv, DiskStepInv, PTL DEF DiskSpec

\* flush_dev does nothing only when no line is dirty: its counter is 0 for no other
\* reason, whatever was written, evicted or attached before.
THEOREM ZeroTellsClean == DiskSpec => []ZeroMeansClean
  <1>1. DiskInv => ZeroMeansClean
    BY DEF DiskInv, NothingToFlush, ZeroMeansClean, Serving
  <1> QED
    BY <1>1, DiskInvariance, PTL

\* init_dev and deinit_dev hand the medium over with nothing left in the lines and
\* all of it durable.
THEOREM HandOverIsDurable == DiskSpec => HandedOverDurable
  <1>1. ASSUME DiskInv, DiskNext, InitStall # InitStall', pc' # "off"
        PROVE  Clean' /\ flash' = ftl'
    <2>1. EndInit \/ EndDeinit
      BY <1>1 DEF DiskNext, HostCommands, Proceed, Mount, FileSystemCalls, init_dev, deinit_dev,
         read_dev_sector, write_dev_sector, flush_dev, EndFlush, ReadSector, WriteSector, LoopEnds,
         Crash, PowerLoss, diskVars, ownVars
    <2>2. CASE EndInit
      BY <1>1, <2>2 DEF EndInit, Boot, vars, DiskInv, Owners, Flushing, Clean, FreeLine
    <2>3. CASE EndDeinit
      BY <1>1, <2>3 DEF EndDeinit, vars, DiskInv, Flushing, Clean
    <2> QED
      BY <2>1, <2>2, <2>3
  <1>2. DiskInv /\ [DiskNext]_allVars
          => [InitStall # InitStall' /\ pc' # "off" => Clean' /\ flash' = ftl']_allVars
    BY <1>1
  <1> QED
    BY <1>2, DiskInvariance, PTL DEF DiskSpec, HandedOverDurable

\* An entry of the unit ends, if it runs on: after as many sectors as it was called for, and
\* for each after as many steps as the cache has lines and phases, for any cache and with
\* failing flash.
THEOREM EntriesAreShort == DiskSpec => EntriesShrink
  <1>1. ASSUME DiskInv, DiskNext, op # "none", op' # "none",
               <<loopVars, pc, slot>>' # <<loopVars, pc, slot>>
        PROVE  \/ left > 0 /\ left' = left - 1
               \/ left' = left /\ StepsLeft' < StepsLeft
    <2>1. ~(Mount \/ FileSystemCalls \/ init_dev \/ deinit_dev \/ flush_dev)
      BY <1>1 DEF Mount, FileSystemCalls, init_dev, deinit_dev, flush_dev, Serving, Free
    <2>2. ~\E s \in Block, c \in Count : read_dev_sector(s, c) \/ write_dev_sector(s, c)
      BY <1>1 DEF read_dev_sector, write_dev_sector, Serving, Free
    <2>3. ~(EndInit \/ EndDeinit \/ EndFlush \/ LoopEnds \/ Crash)
      BY <1>1 DEF EndInit, EndDeinit, EndFlush, LoopEnds, Crash
    <2>4. ~\E s \in Sector : FtlCommit(s) /\ UNCHANGED diskVars
      BY <1>1 DEF FtlCommit, diskVars
    <2>5. CASE Continue /\ UNCHANGED diskVars
      BY <1>1, <2>5, ContinueShrinks DEF DiskInv, diskVars, loopVars
    <2>6. CASE ReadSector \/ WriteSector
      BY <2>6 DEF ReadSector, WriteSector, Advance
    <2> QED
      BY <1>1, <2>1, <2>2, <2>3, <2>4, <2>5, <2>6 DEF DiskNext, HostCommands, Proceed
  <1>2. DiskInv /\ [DiskNext]_allVars =>
          [op # "none" /\ op' # "none" /\ <<loopVars, pc, slot>>' # <<loopVars, pc, slot>> =>
               \/ left > 0 /\ left' = left - 1
               \/ left' = left /\ StepsLeft' < StepsLeft]_allVars
    BY <1>1
  <1> QED
    BY <1>2, DiskInvariance, PTL DEF DiskSpec, EntriesShrink

\* With a translation layer that does not fail, the unit and the file system together use
\* the cache as the block device that BlockDevice describes, through loops of sectors,
\* transfers past the cache, hand-overs, polls and power losses.
THEOREM UnitKeepsTheDevice == ASSUME ~FtlFaults PROVE DiskSpec => StaysABlockDevice
  <1>1. DiskInit => Device!Init
    BY InitRefines DEF DiskInit
  <1>2. ASSUME DiskInv, DiskInv', [DiskNext]_allVars
        PROVE  [Device!Next \/ Forgets]_(Device!vars)
    <2>1. CASE [Next]_vars
      BY <1>2, <2>1, StepRefines DEF DiskInv
    <2>2. CASE out' = Silent /\ UNCHANGED <<slot, cur, pc, req, ftl, flash>>
      BY <2>2, IdleInvisible DEF Forgets, Disk
    <2> QED
      BY <1>2, <2>1, <2>2, StepsOfTheCache DEF CacheStep
  <1>3. DiskInv /\ DiskInv' /\ [DiskNext]_allVars => [Device!Next \/ Forgets]_(Device!vars)
    BY <1>2
  <1> QED
    BY <1>1, <1>3, DiskInvariance, PTL DEF DiskSpec, StaysABlockDevice
================================================================================

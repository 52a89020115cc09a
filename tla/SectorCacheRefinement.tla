------------------------- MODULE SectorCacheRefinement -------------------------
(***************************************************************************)
(* SectorCache implements BlockDevice when the translation layer does not  *)
(* fail: the invariant of SectorCacheProofs fixes what every sector reads  *)
(* as, and each step is a step of the device or leaves the device alone.   *)
(***************************************************************************)
EXTENDS SectorCacheProofs

\* A sector without a line reads as the medium.
LEMMA ValueOnMedium ==
    ASSUME NEW s \in Sector, \A i \in Slot : InUse(i) => slot[i].block # s
    PROVE  Value(s) = ftl[s]
  BY DEF Value, Lookup, OnMedium

\* The same two facts of the next state.
LEMMA NextValueOfLine ==
    ASSUME CacheInv', NEW s \in Sector, NEW i \in Slot, slot'[i].state # "FREE", slot'[i].block = s
    PROVE  Value(s)' = slot'[i].data
  <1>1. Lookup(s)' = {i}
    BY DEF CacheInv, LinesDistinct, Lookup, InUse
  <1> QED
    BY <1>1 DEF Value

\* After a step that leaves sector s without a line, s reads as what the medium holds.
LEMMA NextValueOnMedium ==
    ASSUME NEW s \in Sector, \A i \in Slot : slot'[i].state # "FREE" => slot'[i].block # s
    PROVE  Value(s)' = ftl'[s]
  BY DEF Value, Lookup, OnMedium, InUse

\* A sector whose lines and medium a step leaves alone reads the same after it.
LEMMA SameValue ==
    ASSUME CacheInv, CacheInv', NEW s \in Sector, ftl'[s] = ftl[s],
           \A i \in Slot : slot[i].state # "FREE" /\ slot[i].block = s =>
              slot'[i].state # "FREE" /\ slot'[i].block = s /\ slot'[i].data = slot[i].data,
           \A i \in Slot : slot'[i].state # "FREE" /\ slot'[i].block = s =>
              slot[i].state # "FREE" /\ slot[i].block = s
    PROVE  Value(s)' = Value(s)
  <1>1. CASE \E i \in Slot : InUse(i) /\ slot[i].block = s
    <2>1. PICK i \in Slot : InUse(i) /\ slot[i].block = s
      BY <1>1
    <2>2. Value(s) = slot[i].data
      BY <2>1, ValueOfLine
    <2>3. Value(s)' = slot'[i].data
      BY <2>1, NextValueOfLine DEF InUse
    <2> QED
      BY <2>1, <2>2, <2>3 DEF InUse
  <1>2. CASE \A i \in Slot : InUse(i) => slot[i].block # s
    BY <1>2, ValueOnMedium, NextValueOnMedium DEF InUse
  <1> QED
    BY <1>1, <1>2

\* Writing a line back moves its data to the medium and changes no sector.
LEMMA WriteBackSame ==
    ASSUME ~FtlFaults, CacheInv, CacheInv', NEW i \in Slot, InUse(i), WriteBack(i),
           NEW s \in Sector
    PROVE  Value(s)' = Value(s)
  <1>1. WrittenBack(i)
    BY WriteBackEffect
  <1>2. slot'[i].state = "FREE"
    BY <1>1 DEF WrittenBack, FreeLine
  <1>3. CASE slot[i].block = s
    <2>1. \A j \in Slot : slot'[j].state # "FREE" => slot'[j].block # s
      BY <1>1, <1>2, <1>3 DEF WrittenBack, CacheInv, LinesDistinct, InUse
    <2>2. Value(s)' = ftl'[s]
      BY <2>1, NextValueOnMedium
    <2>3. ftl'[s] = slot[i].data
      BY <1>1, <1>3 DEF WrittenBack, CacheInv, CleanIsCurrent, OnMedium
    <2> QED
      BY <1>3, <2>2, <2>3, ValueOfLine
  <1>4. CASE slot[i].block # s
    BY <1>1, <1>2, <1>4, SameValue DEF WrittenBack
  <1> QED
    BY <1>3, <1>4

\* The state of the device that the cache implements.
Disk == [s \in Sector |-> Value(s)]

\* The abstract disk is the value of every sector: if no value changes, neither does the disk.
LEMMA SameDisk ==
    ASSUME \A s \in Sector : Value(s)' = Value(s)
    PROVE  Disk' = Disk
  BY DEF Disk

\* A drain turn is invisible.
LEMMA DrainInvisible ==
    ASSUME ~FtlFaults, CacheInv, CacheInv', NEW st \in {"PREWRITE", "OFTEN"}, DrainOne(st)
    PROVE  UNCHANGED <<Disk, flash, out>>
  <1>1. PICK i \in InState(st) : WriteBack(i)
    BY DEF DrainOne
  <1>2. i \in Slot /\ InUse(i)
    BY <1>1 DEF InState, InUse
  <1>3. \A s \in Sector : Value(s)' = Value(s)
    BY <1>1, <1>2, WriteBackSame
  <1> QED
    BY <1>3, SameDisk DEF DrainOne

\* So is a step that leaves lines and medium alone.
LEMMA IdleInvisible ==
    ASSUME UNCHANGED <<slot, ftl>> PROVE Disk' = Disk
  BY DEF Disk, Value, Lookup, InUse, OnMedium

\* An access of one sector is an access of an extent of one.
LEMMA OneSector ==
    ASSUME NEW s \in Block
    PROVE  /\ Extent(s, 1) = {s} /\ Device!Extent(s, 1) = {s} /\ 1 \in Count
           /\ Inside(s, 1) <=> s \in Sector
  BY DeviceAssumption DEF Extent, Device!Extent, Count, Inside, Block, Sector

\* The device's names denote what the cache's do.
LEMMA SameNames ==
    /\ Device!Sector = Sector /\ Device!Block = Block /\ Device!Count = Count
    /\ \A s, c : Device!Extent(s, c) = Extent(s, c)
    /\ \A s, c : Device!Inside(s, c) <=> Inside(s, c)
    /\ Device!Refused = Refused /\ Device!Wrote = Wrote /\ Device!Synced = Synced
    /\ Device!Silent = Silent /\ Device!Junk = Junk
    /\ \A f : Device!Got(f) = Got(f)
  BY DEF Device!Sector, Sector, Device!Block, Block, Device!Count, Count, Device!Extent, Extent,
     Device!Inside, Inside, Device!Refused, Refused, Device!Wrote, Wrote, Device!Synced, Synced,
     Device!Silent, Silent, Device!Junk, Junk, Device!Got, Got

\* The end of a fill: a read returns what the sector reads as, a write adds one
\* to it.
LEMMA TakeFreeLineRefines ==
    ASSUME ~FtlFaults, CacheInv, CacheInv', TakeFreeLine
    PROVE  \E s \in Block : Device!Read(s, 1) \/ Device!Outside(s, 1) \/ Device!Write(s, 1)
  <1>0. PICK s \in Block : s = req.sec
    BY DEF CacheInv, TypeOK, Request
  <1>1. PICK i \in InState("FREE") :
          slot' = [slot EXCEPT ![i] = [state |-> "PREWRITE", block |-> req.sec,
                                       dirty |-> req.rw, data |-> req.data]]
    BY DEF TakeFreeLine, Fill
  <1>2. i \in Slot /\ slot[i].state = "FREE"
    BY <1>1 DEF InState
  <1>3. /\ slot'[i] = [state |-> "PREWRITE", block |-> s, dirty |-> req.rw, data |-> req.data]
        /\ \A j \in Slot : j # i => slot'[j] = slot[j]
    BY <1>0, <1>1, <1>2 DEF CacheInv, TypeOK
  <1>4. /\ UNCHANGED <<ftl, flash>>
        /\ out' = IF req.rw THEN Wrote
                  ELSE IF req.data = Junk THEN Refused ELSE Got([t \in {s} |-> req.data])
    BY <1>0 DEF TakeFreeLine, Fill, Return
  <1>5. req.rw \in BOOLEAN
    BY DEF CacheInv, TypeOK, Request
  <1>6. /\ \A j \in Slot : InUse(j) => slot[j].block # s
        /\ req.rw => s \in Sector
        /\ req.data = IF req.rw THEN ftl[s] + 1 ELSE OnMedium(s)
    BY <1>0 DEF CacheInv, FillPending, Filling, TakeFreeLine
  <1>7. \A t \in Sector : t # s => Value(t)' = Value(t)
    <2> SUFFICES ASSUME NEW t \in Sector, t # s PROVE Value(t)' = Value(t)
      OBVIOUS
    <2> QED
      BY <1>2, <1>3, <1>4, SameValue
  <1>8. s \in Sector => Value(s) = ftl[s] /\ Value(s)' = req.data
    BY <1>2, <1>3, <1>6, ValueOnMedium, NextValueOfLine
  <1>9. CASE req.rw
    <2>1. Disk' = [t \in Sector |-> IF t \in Extent(s, 1) THEN Disk[t] + 1 ELSE Disk[t]]
      BY <1>5, <1>6, <1>7, <1>8, <1>9, OneSector DEF Disk
    <2> QED
      BY <1>4, <1>5, <1>6, <1>9, <2>1, OneSector, SameNames DEF Disk, Device!Write
  <1>10. CASE ~req.rw /\ s \in Sector
    <2>1. Disk' = Disk
      BY <1>6, <1>7, <1>8, <1>10, SameDisk DEF OnMedium
    <2>2. req.data = Disk[s] /\ req.data # Junk
      BY <1>6, <1>8, <1>10 DEF Disk, OnMedium, CacheInv, VersionsOrdered, TypeOK, Junk, Data
    <2>3. out' = Got([t \in Extent(s, 1) |-> Disk[t]])
      BY <1>4, <1>5, <1>10, <2>2, OneSector DEF Got
    <2> QED
      BY <1>4, <1>5, <1>10, <2>1, <2>3, OneSector, SameNames DEF Disk, Device!Read
  <1>11. CASE ~req.rw /\ s \notin Sector
    <2>1. Disk' = Disk
      BY <1>7, <1>11, SameDisk
    <2>2. out' = Refused
      BY <1>4, <1>6, <1>11 DEF OnMedium
    <2> QED
      BY <1>4, <1>5, <1>11, <2>1, <2>2, OneSector, SameNames DEF Disk, Device!Outside
  <1> QED
    BY <1>5, <1>9, <1>10, <1>11

\* NAND_LB_Read of a cached sector is the device's read: it returns the line, which is the
\* sector's value, and moving the line to OFTEN changes no value.
LEMMA ReadHitRefines ==
    ASSUME ~FtlFaults, CacheInv, CacheInv', NEW s \in Block, ReadHit(s)
    PROVE  Device!Read(s, 1) \/ Device!Outside(s, 1)
  <1>1. PICK i \in Slot :
          /\ InUse(i) /\ slot[i].block = s
          /\ slot' = [slot EXCEPT ![i].state = "OFTEN"]
          /\ out' = Got([t \in {s} |-> slot[i].data])
    BY DEF ReadHit, Lookup
  <1>2. UNCHANGED <<ftl, flash>>
    BY DEF ReadHit
  <1>3. \A j \in Slot : /\ slot'[j].block = slot[j].block /\ slot'[j].data = slot[j].data
                        /\ slot'[j].state = "FREE" <=> slot[j].state = "FREE"
    BY <1>1 DEF CacheInv, TypeOK, Line, InUse
  <1>4. \A t \in Sector : Value(t)' = Value(t)
    <2> SUFFICES ASSUME NEW t \in Sector PROVE Value(t)' = Value(t)
      OBVIOUS
    <2>1. ftl'[t] = ftl[t]
      BY <1>2
    <2> QED
      BY <1>3, <2>1, SameValue
  <1>5. Disk' = Disk
    BY <1>4, SameDisk
  <1>6. CASE s \in Sector
    <2>1. Disk[s] = slot[i].data
      BY <1>1, <1>6, ValueOfLine DEF Disk
    <2>2. out' = Got([t \in Extent(s, 1) |-> Disk[t]])
      BY <1>1, <2>1, OneSector DEF Got
    <2> QED
      BY <1>2, <1>5, <1>6, <2>2, OneSector, SameNames DEF Disk, Device!Read
  <1>7. CASE s \notin Sector
    <2>1. ~slot[i].dirty
      BY <1>1, <1>7 DEF CacheInv, DirtyInside
    <2>2. slot[i].data = Junk
      BY <1>1, <1>7, <2>1 DEF CacheInv, CleanIsCurrent, OnMedium
    <2>3. out' = Got([t \in Extent(s, 1) |-> Junk])
      BY <1>1, <2>2, OneSector DEF Got
    <2> QED
      BY <1>2, <1>5, <1>7, <2>3, OneSector, SameNames DEF Disk, Device!Outside
  <1> QED
    BY <1>6, <1>7

\* NAND_LB_Write of a cached sector is the device's write of it.
LEMMA WriteHitRefines ==
    ASSUME ~FtlFaults, CacheInv, CacheInv', NEW s \in Block, WriteHit(s)
    PROVE  Device!Write(s, 1)
  <1>1. PICK i \in Slot :
          /\ InUse(i) /\ slot[i].block = s
          /\ slot' = [slot EXCEPT ![i] = Overwritten(slot[i])]
    BY DEF WriteHit, Lookup
  <1>2. UNCHANGED <<ftl, flash>> /\ out' = Wrote
    BY DEF WriteHit
  <1>3. s < TotalSec
    BY DEF WriteHit
  <1>4. s \in Sector
    BY <1>3, DeviceAssumption DEF Block, Sector
  <1>5. /\ slot'[i] = [state |-> "OFTEN", block |-> s, dirty |-> TRUE, data |-> slot[i].data + 1]
        /\ \A j \in Slot : j # i => slot'[j] = slot[j]
    BY <1>1 DEF CacheInv, TypeOK, Line, Overwritten
  <1>6. Value(s) = slot[i].data /\ Value(s)' = slot[i].data + 1
    <2>1. Value(s) = slot[i].data
      BY <1>1, ValueOfLine
    <2>2. slot'[i].state # "FREE" /\ slot'[i].block = s /\ slot'[i].data = slot[i].data + 1
      BY <1>5
    <2> QED
      BY <1>4, <2>1, <2>2, NextValueOfLine
  <1>7. \A t \in Sector : t # s => Value(t)' = Value(t)
    <2> SUFFICES ASSUME NEW t \in Sector, t # s PROVE Value(t)' = Value(t)
      OBVIOUS
    <2>1. slot[i].block # t /\ ftl'[t] = ftl[t]
      BY <1>1, <1>2
    <2> QED
      BY <1>5, <2>1, SameValue
  <1>8. Disk' = [t \in Sector |-> IF t \in Extent(s, 1) THEN Disk[t] + 1 ELSE Disk[t]]
    BY <1>4, <1>6, <1>7, OneSector DEF Disk
  <1> QED
    BY <1>2, <1>4, <1>8, OneSector, SameNames DEF Disk, Device!Write

\* NAND_LB_MultiRead, once its range is written back, returns the values of the range although
\* it reads the medium behind the cache.
LEMMA MultiReadRefines ==
    ASSUME ~FtlFaults, CacheInv, CacheInv', MultiReadMedium
    PROVE  \E s \in Block, c \in Count : Device!Read(s, c) \/ Device!Outside(s, c)
  <1>1. PICK s \in Block, c \in Count : s = req.sec /\ c = req.count
    BY DEF CacheInv, TypeOK, Request, CallPhase, MultiReadMedium
  <1>2. UNCHANGED <<slot, ftl, flash>>
    BY DEF MultiReadMedium
  <1>3. Disk' = Disk
    BY <1>2, IdleInvisible
  <1>4. CASE Inside(s, c)
    <2>1. out' = Got([t \in Extent(s, c) |-> ftl[t]])
      BY <1>1, <1>4 DEF MultiReadMedium, Return
    <2>2. ASSUME NEW t \in Extent(s, c)
          PROVE  ftl[t] = Disk[t]
      <3>1. t \in Sector
        BY <1>1, <1>4, <2>2, DeviceAssumption DEF Extent, Inside, Sector, Block, Count
      <3>2. \A i \in Slot : InUse(i) => slot[i].block # t
        BY <1>1, <2>2 DEF MultiReadMedium, InRange
      <3> QED
        BY <3>1, <3>2, ValueOnMedium DEF Disk
    <2>3. out' = Got([t \in Extent(s, c) |-> Disk[t]])
      BY <2>1, <2>2 DEF Got
    <2> QED
      BY <1>1, <1>2, <1>3, <1>4, <2>3, SameNames DEF Disk, Device!Read
  <1>5. CASE ~Inside(s, c)
    <2>1. out' = Refused
      BY <1>1, <1>5 DEF MultiReadMedium, Return
    <2> QED
      BY <1>1, <1>2, <1>3, <1>5, <2>1, SameNames DEF Disk, Device!Outside
  <1> QED
    BY <1>4, <1>5

\* NAND_LB_MultiWrite is the device's write of its range although it writes behind the cache.
LEMMA MultiWriteRefines ==
    ASSUME ~FtlFaults, CacheInv, CacheInv', NEW s \in Block, NEW c \in Count, MultiWrite(s, c)
    PROVE  Device!Write(s, c)
  <1>1. /\ Inside(s, c) /\ out' = Wrote /\ UNCHANGED flash
        /\ ftl' = [t \in Sector |-> IF t \in Extent(s, c) THEN Value(t) + 1 ELSE ftl[t]]
    BY DEF MultiWrite, FtlWrite, FtlFails
  <1>2. \A i \in Slot : slot'[i] = IF i \in InRange(s, c) THEN FreeLine ELSE slot[i]
    BY DEF MultiWrite, CloseCACHES
  <1>3. ASSUME NEW t \in Sector, t \in Extent(s, c)
        PROVE  Value(t)' = Value(t) + 1
    <2>1. \A i \in Slot : slot'[i].state # "FREE" => slot'[i].block # t
      BY <1>2, <1>3 DEF InRange, InUse, FreeLine
    <2> QED
      BY <1>1, <1>3, <2>1, NextValueOnMedium
  <1>4. ASSUME NEW t \in Sector, t \notin Extent(s, c)
        PROVE  Value(t)' = Value(t)
    <2>1. ftl'[t] = ftl[t]
      BY <1>1, <1>4
    <2>2. \A i \in Slot : slot[i].block = t => slot'[i] = slot[i]
      BY <1>2, <1>4 DEF InRange
    <2>3. \A i \in Slot : slot'[i].state # "FREE" => slot'[i] = slot[i]
      BY <1>2 DEF FreeLine
    <2> QED
      BY <2>1, <2>2, <2>3, SameValue
  <1>5. Disk' = [t \in Sector |-> IF t \in Extent(s, c) THEN Disk[t] + 1 ELSE Disk[t]]
    BY <1>3, <1>4 DEF Disk
  <1> QED
    BY <1>1, <1>5, SameNames DEF Disk, Device!Write

\* NAND_LB_Init is invisible, a power loss is the device's, and ssfdc_nftl_flush_cache after
\* the drains is the device's sync.
LEMMA PowerRefines ==
    ASSUME CacheInv, CacheInv'
    PROVE  /\ Boot => UNCHANGED <<Disk, flash, out>>
           /\ PowerLoss => Device!PowerLoss
           /\ FlushFtl => Device!Sync
  <1>1. ASSUME InState("FREE") = Slot
        PROVE  \A s \in Sector : Value(s) = ftl[s]
    BY <1>1, ValueOnMedium DEF InState, InUse
  <1>2. ASSUME \A i \in Slot : slot'[i].state = "FREE"
        PROVE  \A s \in Sector : Value(s)' = ftl'[s]
    BY <1>2, NextValueOnMedium
  <1>3. ASSUME Boot PROVE UNCHANGED <<Disk, flash, out>>
    <2>1. InState("FREE") = Slot
      BY <1>3 DEF Boot, CacheInv, CallPhase
    <2>2. \A i \in Slot : slot'[i].state = "FREE"
      BY <1>3 DEF Boot, FreeLine
    <2> QED
      BY <1>1, <1>2, <1>3, <2>1, <2>2, SameDisk DEF Boot
  <1>4. ASSUME PowerLoss PROVE Device!PowerLoss
    <2>1. \A i \in Slot : slot'[i].state = "FREE"
      BY <1>4 DEF PowerLoss, FreeLine
    <2>2. Disk' = [s \in Sector |-> ftl'[s]]
      BY <1>2, <2>1 DEF Disk
    <2>3. ftl' = flash /\ flash' = flash /\ out' = Silent
      BY <1>4 DEF PowerLoss
    <2>4. flash = [s \in Sector |-> flash[s]]
      BY DEF CacheInv, TypeOK
    <2> QED
      BY <2>2, <2>3, <2>4, SameNames DEF Disk, Device!PowerLoss
  <1>5. ASSUME FlushFtl PROVE Device!Sync
    <2>1. InState("FREE") = Slot
      BY <1>5 DEF FlushFtl, CacheInv, CallPhase
    <2>2. Disk = [s \in Sector |-> ftl[s]]
      BY <1>1, <2>1 DEF Disk
    <2>3. ftl = [s \in Sector |-> ftl[s]]
      BY DEF CacheInv, TypeOK
    <2>4. flash' = Disk /\ out' = Synced /\ Disk' = Disk
      BY <1>5, <2>2, <2>3, IdleInvisible DEF FlushFtl, Return
    <2> QED
      BY <2>4, SameNames DEF Disk, Device!Sync
  <1> QED
    BY <1>3, <1>4, <1>5

\* A sector the translation layer makes durable persists on the device.
LEMMA FtlCommitRefines ==
    ASSUME ~FtlFaults, CacheInv, NEW s \in Sector, FtlCommit(s)
    PROVE  Device!Persist(s)
  <1>1. flash' = [flash EXCEPT ![s] = ftl[s]] /\ UNCHANGED <<slot, ftl, out>>
    BY DEF FtlCommit
  <1>2. Disk' = Disk
    BY <1>1, IdleInvisible
  <1>3. flash[s] \in Int /\ ftl[s] \in Int /\ Disk[s] \in Int
    BY ValueBounds DEF CacheInv, TypeOK, Disk, Data, Junk
  <1>4. flash[s] <= ftl[s] /\ ftl[s] <= Disk[s]
    BY ValueBounds DEF CacheInv, VersionsOrdered, Disk
  <1>5. ftl[s] \in flash[s] .. Disk[s]
    BY <1>3, <1>4
  <1> QED
    BY <1>1, <1>2, <1>5 DEF Disk, Device!Persist

\* Every step of the cache is a step of the device, or does not change it.
LEMMA StepRefines ==
    ASSUME ~FtlFaults, CacheInv, CacheInv', [Next]_vars
    PROVE  [Device!Next]_(Device!vars)
  <1> DEFINE Stutter == UNCHANGED <<Disk, flash, out>>
  <1>1. Stutter => UNCHANGED Device!vars
    BY DEF Disk, Device!vars
  <1>2. CASE Boot \/ PowerLoss \/ FlushFtl
    BY <1>1, <1>2, PowerRefines DEF Device!Next
  <1>3. CASE \E s \in Block : ReadHit(s) \/ WriteHit(s)
    BY <1>3, ReadHitRefines, WriteHitRefines, OneSector, SameNames DEF Device!Next
  <1>4. CASE \E s \in Block : WriteRefused(s)
    <2>1. PICK s \in Block : s >= TotalSec /\ UNCHANGED <<slot, ftl, flash>> /\ out' = Refused
      BY <1>4 DEF WriteRefused
    <2>2. s \notin Sector /\ Disk' = Disk
      BY <2>1, IdleInvisible, DeviceAssumption DEF Sector, Block
    <2>3. Device!Outside(s, 1)
      BY <2>1, <2>2, OneSector, SameNames DEF Disk, Device!Outside
    <2> QED
      BY <2>3, OneSector, SameNames DEF Device!Next
  <1>5. CASE \E s \in Block, c \in Count : MultiWriteRefused(s, c) \/ MultiWrite(s, c)
    <2>1. PICK s \in Block, c \in Count : MultiWriteRefused(s, c) \/ MultiWrite(s, c)
      BY <1>5
    <2>2. CASE MultiWriteRefused(s, c)
      <3>1. ~Inside(s, c) /\ UNCHANGED <<slot, ftl, flash>> /\ out' = Refused
        BY <2>2 DEF MultiWriteRefused
      <3>2. Disk' = Disk
        BY <3>1, IdleInvisible
      <3> QED
        BY <3>1, <3>2, SameNames DEF Disk, Device!Outside, Device!Next
    <2>3. CASE MultiWrite(s, c)
      BY <2>3, MultiWriteRefines, SameNames DEF Device!Next
    <2> QED
      BY <2>1, <2>2, <2>3
  <1>6. CASE \/ \E s \in Block : ReadMiss(s) \/ WriteMiss(s)
             \/ \E s \in Block, c \in Count : MultiRead(s, c)
             \/ FlashCache \/ CacheFull
    <2>1. UNCHANGED <<slot, ftl, flash, out>>
      BY <1>6 DEF ReadMiss, WriteMiss, MultiRead, FlashCache, CacheFull
    <2> QED
      BY <1>1, <2>1, IdleInvisible
  <1>7. CASE TakeFreeLine
    BY <1>7, TakeFreeLineRefines, OneSector, SameNames DEF Device!Next
  <1>8. CASE EvictPrewrite \/ EvictOften \/ ClearCache
    <2>1. \E st \in {"PREWRITE", "OFTEN"} : DrainOne(st) \/ Drained(st)
      BY <1>8 DEF EvictPrewrite, EvictOften, ClearCache
    <2> QED
      BY <1>1, <2>1, DrainInvisible, IdleInvisible DEF Drained
  <1>9. CASE MultiReadFlush
    <2>1. PICK i \in InRange(req.sec, req.count) : WriteBack(i)
      BY <1>9 DEF MultiReadFlush
    <2>2. \A s \in Sector : Value(s)' = Value(s)
      BY <2>1, WriteBackSame DEF InRange
    <2> QED
      BY <1>1, <1>9, <2>2, SameDisk DEF MultiReadFlush
  <1>10. CASE MultiReadMedium
    BY <1>10, MultiReadRefines, SameNames DEF Device!Next
  <1>11. CASE \E s \in Sector : FtlCommit(s)
    BY <1>11, FtlCommitRefines, SameNames DEF Device!Next
  <1>12. CASE UNCHANGED vars
    BY <1>1, <1>12, IdleInvisible DEF vars
  <1> QED
    BY <1>2, <1>3, <1>4, <1>5, <1>6, <1>7, <1>8, <1>9, <1>10, <1>11, <1>12
       DEF Next, Call, Continue

\* An empty cache over a blank medium is the device's initial state.
LEMMA InitRefines == Init => Device!Init
  <1> SUFFICES ASSUME Init PROVE Device!Init
    OBVIOUS
  <1>1. \A s \in Sector : Value(s) = 0
    BY DEF Init, Value, Lookup, InUse, FreeLine, OnMedium
  <1> QED
    BY <1>1, SameNames DEF Init, Device!Init

\* With a translation layer that does not fail, the cache is the block device its
\* callers think it is: reads return the last write, a completed
\* NAND_LB_FLASHCACHE makes everything durable, and a power loss takes a sector
\* back no further than to what was durable.
THEOREM CacheIsABlockDevice == ASSUME ~FtlFaults PROVE Spec => IsABlockDevice
  <1>1. CacheInv /\ CacheInv' /\ [Next]_vars => [Device!Next]_(Device!vars)
    BY StepRefines
  <1> QED
    BY <1>1, InitRefines, Invariance, PTL DEF Spec, Device!Spec, IsABlockDevice

\* Write-back never takes the medium to an older version.
LEMMA StepForward ==
    ASSUME ~FtlFaults, CacheInv, [Next]_vars
    PROVE  [pc' # "off" => \A s \in Sector : ftl'[s] >= ftl[s]]_vars
  <1> SUFFICES ASSUME pc' # "off", Next, NEW s \in Sector PROVE ftl'[s] >= ftl[s]
    BY DEF vars
  <1>1. ftl[s] \in Int
    BY DEF CacheInv, TypeOK, Data, Junk
  <1>2. ASSUME NEW i \in Slot, WriteBack(i) PROVE ftl'[s] >= ftl[s]
    <2>1. WrittenBack(i)
      BY <1>2, WriteBackEffect
    <2>2. slot[i].data \in Int
      BY DEF CacheInv, TypeOK, Line, Data, Junk
    <2>3. CASE slot[i].block = s /\ slot[i].dirty
      <3>1. ftl'[s] = slot[i].data
        BY <2>1, <2>3 DEF WrittenBack
      <3>2. ftl[s] < slot[i].data
        BY <2>3 DEF CacheInv, VersionsOrdered
      <3> QED
        BY <1>1, <2>2, <3>1, <3>2
    <2>4. CASE ~(slot[i].block = s /\ slot[i].dirty)
      BY <1>1, <2>1, <2>4 DEF WrittenBack
    <2> QED
      BY <2>3, <2>4
  <1>3. CASE EvictPrewrite \/ EvictOften \/ ClearCache \/ MultiReadFlush
    <2>1. (\E i \in Slot : WriteBack(i)) \/ UNCHANGED ftl
      BY <1>3 DEF EvictPrewrite, EvictOften, ClearCache, MultiReadFlush, DrainOne, Drained,
         InState, InRange
    <2> QED
      BY <1>1, <1>2, <2>1
  <1>4. CASE \E t \in Block, c \in Count : MultiWrite(t, c)
    <2>1. PICK t \in Block, c \in Count : MultiWrite(t, c)
      BY <1>4
    <2>2. ftl'[s] = IF s \in Extent(t, c) THEN Value(s) + 1 ELSE ftl[s]
      BY <2>1 DEF MultiWrite, FtlWrite, FtlFails
    <2> QED
      BY <1>1, <2>2, ValueBounds DEF Data, Junk
  <1>5. CASE ftl' = ftl
    BY <1>1, <1>5
  <1>6. ~PowerLoss
    BY DEF PowerLoss
  <1>7. \/ EvictPrewrite \/ EvictOften \/ ClearCache \/ MultiReadFlush
        \/ (\E t \in Block, c \in Count : MultiWrite(t, c))
        \/ ftl' = ftl
    BY <1>6 DEF Next, Call, Continue, Boot, ReadHit, ReadMiss, WriteRefused, WriteHit, WriteMiss,
       MultiRead, MultiWriteRefused, FlashCache, TakeFreeLine, Fill, CacheFull, MultiReadMedium,
       FlushFtl, FtlCommit
  <1> QED
    BY <1>3, <1>4, <1>5, <1>7

\* Only a power loss takes a sector of the medium back to an earlier version.
THEOREM MediumMovesForward == ASSUME ~FtlFaults PROVE Spec => NoStaleWriteBack
  <1>1. CacheInv /\ [Next]_vars => [pc' # "off" => \A s \in Sector : ftl'[s] >= ftl[s]]_vars
    BY StepForward
  <1> QED
    BY <1>1, Invariance, PTL DEF Spec, NoStaleWriteBack

\* After a sync that no other call has followed, everything read is durable.
THEOREM SyncIsDurable == Spec => []SyncedIsDurable
  <1>1. CacheInv => SyncedIsDurable
    <2> SUFFICES ASSUME CacheInv, ~FtlFaults, out = Synced, NEW s \in Sector
                 PROVE  flash[s] = Value(s)
      BY DEF SyncedIsDurable
    <2>1. flash = ftl /\ \A i \in Slot : ~slot[i].dirty
      BY DEF CacheInv, NothingSinceSync
    <2>2. CASE \E i \in Slot : InUse(i) /\ slot[i].block = s
      <3>1. PICK i \in Slot : InUse(i) /\ slot[i].block = s
        BY <2>2
      <3>2. slot[i].data = ftl[s]
        BY <2>1, <3>1 DEF CacheInv, CleanIsCurrent, OnMedium
      <3> QED
        BY <2>1, <3>1, <3>2, ValueOfLine
    <2>3. CASE \A i \in Slot : InUse(i) => slot[i].block # s
      BY <2>1, <2>3, ValueOnMedium
    <2> QED
      BY <2>2, <2>3
  <1> QED
    BY <1>1, Invariance, PTL
================================================================================

--------------------------- MODULE SectorCacheProofs ---------------------------
(***************************************************************************)
(* SectorCache keeps CacheInv, and its calls end, for every number of      *)
(* lines and sectors.                                                      *)
(***************************************************************************)
EXTENDS SectorCache, FiniteSetTheorems, TLAPS

\* The initial state: an empty cache over a blank device.
LEMMA InitInv == Init => CacheInv
  <1> SUFFICES ASSUME Init PROVE CacheInv
    OBVIOUS
  <1> USE CacheAssumption, DeviceAssumption DEF Init, Slot, Sector, Block, Junk, Data,
        FreeLine, NoReq, Silent, InUse, InState
  <1>1. TypeOK
    BY DEF TypeOK, Line, Request
  <1>2. LinesDistinct /\ DirtyInside
    BY DEF LinesDistinct, DirtyInside
  <1>3. CursorBound /\ RetryFindsALine /\ FillPending /\ CallPhase
    BY DEF CursorBound, RetryFindsALine, FillPending, Filling, CallPhase
  <1>4. CleanIsCurrent /\ VersionsOrdered /\ NothingSinceSync
    BY DEF CleanIsCurrent, VersionsOrdered, NothingSinceSync, Synced
  <1> QED
    BY <1>1, <1>2, <1>3, <1>4 DEF CacheInv

\* What writing a line back and freeing it does: the other lines stay, the
\* medium changes at most at the sector of the line.
WrittenBack(i) ==
    /\ slot' \in [Slot -> Line]
    /\ slot'[i] = FreeLine
    /\ \A j \in Slot : j # i => slot'[j] = slot[j]
    /\ ftl' \in [Sector -> Data]
    /\ \A s \in Sector : s # slot[i].block => ftl'[s] = ftl[s]
    /\ ~FtlFaults /\ slot[i].dirty => ftl'[slot[i].block] = slot[i].data
    /\ ~slot[i].dirty => ftl' = ftl

\* WriteBack does exactly that.
LEMMA WriteBackEffect ==
    ASSUME CacheInv, NEW i \in Slot, WriteBack(i)
    PROVE  WrittenBack(i)
  <1> USE CacheAssumption, DeviceAssumption DEF CacheInv, TypeOK, WriteBack, WrittenBack
  <1>1. FreeLine \in Line
    BY DEF FreeLine, Line, Block, Data, Junk
  <1>2. slot[i].data \in Data /\ slot[i].block \in Block
    BY DEF Line
  <1>3. CASE slot[i].dirty
    <2>1. slot[i].block \in Sector
      BY <1>3 DEF DirtyInside
    <2>2. CASE FtlWrite([s \in {slot[i].block} |-> slot[i].data])
      BY <1>1, <1>2, <1>3, <2>1, <2>2 DEF FtlWrite
    <2>3. CASE FtlFails
      BY <1>1, <1>2, <1>3, <2>1, <2>3 DEF FtlFails
    <2> QED
      BY <1>3, <2>2, <2>3
  <1>4. CASE ~slot[i].dirty
    BY <1>1, <1>4
  <1> QED
    BY <1>3, <1>4

\* The parts of CacheInv about lines and media, whatever the call in progress.
LineInv == LinesDistinct /\ DirtyInside /\ CleanIsCurrent /\ VersionsOrdered /\ NothingSinceSync

\* Writing back and freeing any line in use keeps those parts.
LEMMA WriteBackKeepsLines ==
    ASSUME CacheInv, NEW i \in Slot, InUse(i), WriteBack(i), UNCHANGED <<flash, out>>
    PROVE  LineInv'
  <1> WrittenBack(i)
    BY WriteBackEffect
  <1> USE DEF InUse, WrittenBack
  <1>1. ~slot'[i].dirty /\ slot'[i].state = "FREE"
    BY DEF FreeLine
  <1>2. LinesDistinct' /\ DirtyInside'
    BY <1>1 DEF CacheInv, LinesDistinct, DirtyInside
  <1>3. CleanIsCurrent'
    <2> SUFFICES ASSUME ~FtlFaults, NEW j \in Slot, slot'[j].state # "FREE", ~slot'[j].dirty
                 PROVE  slot'[j].data = IF slot'[j].block \in Sector THEN ftl'[slot'[j].block] ELSE Junk
      BY DEF CleanIsCurrent, OnMedium
    <2>1. j # i /\ slot'[j] = slot[j] /\ slot[j].block # slot[i].block
      BY <1>1 DEF CacheInv, LinesDistinct
    <2>2. slot[j].data = OnMedium(slot[j].block)
      BY <2>1 DEF CacheInv, CleanIsCurrent
    <2> QED
      BY <2>1, <2>2 DEF OnMedium
  <1>4. VersionsOrdered'
    <2> SUFFICES ASSUME ~FtlFaults
                 PROVE  VersionsOrdered'
      BY DEF VersionsOrdered
    <2>1. ASSUME NEW s \in Sector
          PROVE  0 <= flash'[s] /\ flash'[s] <= ftl'[s]
      BY DEF CacheInv, TypeOK, VersionsOrdered, Line, Data, Junk
    <2>2. ASSUME NEW j \in Slot, slot'[j].dirty
          PROVE  ftl'[slot'[j].block] < slot'[j].data
      <3>1. j # i /\ slot'[j] = slot[j] /\ slot[j].block # slot[i].block /\ slot[j].block \in Sector
        BY <1>1, <2>2 DEF CacheInv, LinesDistinct, DirtyInside
      <3> QED
        BY <3>1, <2>2 DEF CacheInv, VersionsOrdered
    <2> QED
      BY <2>1, <2>2 DEF VersionsOrdered
  <1>5. NothingSinceSync'
    BY <1>1 DEF CacheInv, NothingSinceSync
  <1> QED
    BY <1>2, <1>3, <1>4, <1>5 DEF LineInv

\* A step that leaves lines, media and result alone keeps them.
LEMMA UnchangedKeepsLines ==
    ASSUME CacheInv, UNCHANGED <<slot, ftl, flash, out>>
    PROVE  LineInv'
  BY DEF CacheInv, LineInv, LinesDistinct, DirtyInside, CleanIsCurrent, VersionsOrdered,
         NothingSinceSync, InUse, OnMedium

\* The parts of CacheInv that depend on the call in progress.
CallInv == CursorBound /\ RetryFindsALine /\ FillPending /\ CallPhase

\* A call that starts a fill is one that found no line for its sector.
LEMMA StartFill ==
    ASSUME CacheInv, NEW s \in Block, pc = "idle", Lookup(s) = {},
           pc' = "copy", req' \in Request, req'.sec = s, req'.rw => s \in Sector,
           ~req'.freed,
           ~FtlFaults => req'.data = IF req'.rw THEN ftl[s] + 1 ELSE OnMedium(s),
           UNCHANGED <<slot, cur, out, ftl, flash>>
    PROVE  CacheInv'
  <1>1. TypeOK'
    BY DEF CacheInv, TypeOK
  <1>2. LineInv'
    BY UnchangedKeepsLines
  <1>3. CallInv'
    BY DEF CacheInv, CallInv, CursorBound, RetryFindsALine, FillPending, CallPhase, Filling,
           Lookup, InUse, OnMedium, InState
  <1> QED
    BY <1>1, <1>2, <1>3 DEF CacheInv, LineInv, CallInv

\* One turn of a drain loop inside an eviction keeps the fill pending: the
\* sector of the call has no line, so the medium does not change there.
LEMMA DrainKeepsFill ==
    ASSUME CacheInv, pc \in Filling, NEW i \in Slot, InUse(i), WriteBack(i),
           req'.sec = req.sec, req'.rw = req.rw, req'.data = req.data
    PROVE  FillPending'
  <1>1. WrittenBack(i)
    BY WriteBackEffect
  <1>2. slot[i].block # req.sec
    BY DEF CacheInv, FillPending
  <1>3. \A j \in Slot : slot'[j].state # "FREE" => slot'[j].block # req.sec
    BY <1>1 DEF CacheInv, FillPending, InUse, WrittenBack, FreeLine
  <1>4. OnMedium(req.sec)' = OnMedium(req.sec) /\ (req.rw => ftl'[req.sec] = ftl[req.sec])
    BY <1>1, <1>2 DEF CacheInv, FillPending, OnMedium, WrittenBack
  <1> QED
    BY <1>3, <1>4 DEF CacheInv, FillPending, InUse, OnMedium

\* Filling the line _NAND_LB_GetFreeCache returns keeps the invariant: the sector of the
\* call has no other line (FillPending), and a read fills in what the medium holds.
LEMMA TakeFreeLineInv == ASSUME CacheInv, TakeFreeLine PROVE CacheInv'
  <1> USE CacheAssumption, DeviceAssumption
  <1>1. PICK i \in InState("FREE") :
          /\ cur' = i
          /\ slot' = [slot EXCEPT ![i] = [state |-> "PREWRITE", block |-> req.sec,
                                         dirty |-> req.rw, data |-> req.data]]
    BY DEF TakeFreeLine, Fill
  <1>2. i \in Slot /\ pc' = "idle" /\ req' = NoReq /\ UNCHANGED <<ftl, flash>>
    BY <1>1 DEF TakeFreeLine, Fill, Return, InState
  <1>3. out' # Synced
    BY DEF TakeFreeLine, Fill, Return, Synced, Wrote, Refused, Got
  <1>4. \A j \in Slot : InUse(j) => slot[j].block # req.sec
    BY DEF TakeFreeLine, CacheInv, FillPending, Filling
  <1>5. /\ slot'[i] = [state |-> "PREWRITE", block |-> req.sec, dirty |-> req.rw, data |-> req.data]
        /\ \A j \in Slot : j # i => slot'[j] = slot[j]
        /\ slot' \in [Slot -> Line]
    BY <1>1, <1>2 DEF CacheInv, TypeOK, Line, Request
  <1>6. TypeOK'
    BY <1>1, <1>2, <1>5 DEF CacheInv, TypeOK, NoReq, Request, Slot, Block, Data, Junk
  <1>7. LinesDistinct'
    BY <1>4, <1>5 DEF CacheInv, LinesDistinct, InUse
  <1>8. DirtyInside'
    BY <1>5 DEF CacheInv, DirtyInside, InUse, FillPending, Filling, TakeFreeLine
  <1>9. CleanIsCurrent' /\ VersionsOrdered'
    BY <1>2, <1>5 DEF CacheInv, CleanIsCurrent, VersionsOrdered, InUse, OnMedium, FillPending,
       Filling, TakeFreeLine, TypeOK, Data, Junk
  <1>10. NothingSinceSync'
    BY <1>3 DEF NothingSinceSync
  <1>11. CallInv'
    BY <1>1, <1>2 DEF CallInv, CursorBound, RetryFindsALine, FillPending, CallPhase, Filling
  <1> QED
    BY <1>6, <1>7, <1>8, <1>9, <1>10, <1>11 DEF CacheInv, CallInv

\* A scan of _NAND_LB_GetFreeCache that fails may leave the cursor past the last line, which
\* the invariant allows only until the eviction is over.
LEMMA CacheFullInv == ASSUME CacheInv, CacheFull PROVE CacheInv'
  <1>1. LineInv'
    BY UnchangedKeepsLines DEF CacheFull
  <1>2. TypeOK'
    BY CacheAssumption DEF CacheInv, TypeOK, CacheFull
  <1>3. CallInv'
    BY DEF CacheInv, CallInv, CursorBound, RetryFindsALine, FillPending, CallPhase, Filling,
           CacheFull, InUse, OnMedium
  <1> QED
    BY <1>1, <1>2, <1>3 DEF CacheInv, LineInv, CallInv

\* A turn of the first loop of _NAND_LB_FreeCache keeps the invariant: once one line was freed,
\* a free one remains whatever the second loop does.
LEMMA EvictPrewriteInv == ASSUME CacheInv, EvictPrewrite PROVE CacheInv'
  <1>1. CASE DrainOne("PREWRITE")
    <2>1. PICK i \in InState("PREWRITE") : WriteBack(i)
      BY <1>1 DEF DrainOne
    <2>2. i \in Slot /\ InUse(i) /\ WrittenBack(i)
      BY <2>1, WriteBackEffect DEF InState, InUse
    <2>3. pc = "evict" /\ pc' = pc /\ UNCHANGED <<cur, out, flash>>
          /\ req' = [req EXCEPT !.freed = TRUE]
      BY <1>1 DEF EvictPrewrite, DrainOne, Drained
    <2>4. LineInv'
      BY <2>1, <2>2, <2>3, WriteBackKeepsLines
    <2>5. TypeOK'
      BY <2>2, <2>3 DEF CacheInv, TypeOK, Request, WrittenBack
    <2>6. FillPending'
      BY <2>1, <2>2, <2>3, DrainKeepsFill DEF Filling, CacheInv, TypeOK, Request
    <2>7. CursorBound' /\ RetryFindsALine' /\ CallPhase'
      BY <2>2, <2>3 DEF CursorBound, RetryFindsALine, CallPhase, InState, FreeLine, WrittenBack
    <2> QED
      BY <2>4, <2>5, <2>6, <2>7 DEF CacheInv, LineInv
  <1>2. CASE Drained("PREWRITE")
    <2>1. LineInv'
      BY <1>2, UnchangedKeepsLines DEF Drained
    <2>2. UNCHANGED <<slot, cur, out, ftl, flash>> /\ InState("PREWRITE") = {} /\ pc = "evict"
      BY <1>2 DEF Drained, EvictPrewrite
    <2>3. req' = req
      BY <1>2 DEF EvictPrewrite, DrainOne, Drained
    <2>4. pc' = "evictOften" \/ (pc' = "retry" /\ req.freed)
      BY <1>2, <2>2 DEF EvictPrewrite, EvictMore, DrainOne, Drained, CacheInv, TypeOK, Request
    <2>5. TypeOK'
      BY <2>2, <2>3, <2>4 DEF CacheInv, TypeOK
    <2>6. CallInv'
      BY <2>2, <2>3, <2>4 DEF CacheInv, CallInv, CursorBound, RetryFindsALine, FillPending,
         CallPhase, Filling, InState, InUse, OnMedium
    <2> QED
      BY <2>1, <2>5, <2>6 DEF CacheInv, LineInv, CallInv
  <1> QED
    BY <1>1, <1>2 DEF EvictPrewrite

\* A turn of the second loop of _NAND_LB_FreeCache keeps the invariant: when both classes are
\* drained every line is free, so the scan that follows finds one.
LEMMA EvictOftenInv == ASSUME CacheInv, EvictOften PROVE CacheInv'
  <1>1. CASE DrainOne("OFTEN")
    <2>1. PICK i \in InState("OFTEN") : WriteBack(i)
      BY <1>1 DEF DrainOne
    <2>2. i \in Slot /\ InUse(i) /\ WrittenBack(i)
      BY <2>1, WriteBackEffect DEF InState, InUse
    <2>3. pc = "evictOften" /\ pc' \in {pc, "retry"} /\ UNCHANGED <<cur, out, flash, req>>
      BY <1>1 DEF EvictOften, DrainOne
    <2>4. LineInv'
      BY <2>1, <2>2, <2>3, WriteBackKeepsLines
    <2>5. TypeOK'
      BY <2>2, <2>3 DEF CacheInv, TypeOK, WrittenBack
    <2>6. FillPending'
      BY <2>1, <2>2, <2>3, DrainKeepsFill DEF Filling
    <2>7. CursorBound' /\ RetryFindsALine' /\ CallPhase'
      BY <2>2, <2>3 DEF CacheInv, CursorBound, RetryFindsALine, CallPhase, InState, FreeLine,
         WrittenBack
    <2> QED
      BY <2>4, <2>5, <2>6, <2>7 DEF CacheInv, LineInv
  <1>2. CASE Drained("OFTEN")
    <2>1. LineInv'
      BY <1>2, UnchangedKeepsLines DEF Drained
    <2>2. /\ UNCHANGED <<slot, cur, out, ftl, flash, req>> /\ InState("OFTEN") = {}
          /\ pc = "evictOften" /\ pc' \in {pc, "retry"}
      BY <1>2 DEF Drained, EvictOften
    <2>3. TypeOK'
      BY <2>2 DEF CacheInv, TypeOK
    <2>4. InState("FREE") # {}
      <3>1. 0 \in Slot
        BY CacheAssumption DEF Slot
      <3>2. slot[0].state = "FREE"
        BY <2>2, <3>1 DEF CacheInv, CallPhase, InState, TypeOK, Line
      <3> QED
        BY <3>1, <3>2 DEF InState
    <2>5. CallInv'
      BY <2>2, <2>4 DEF CacheInv, CallInv, CursorBound, RetryFindsALine, FillPending,
         CallPhase, Filling, InState, InUse, OnMedium
    <2> QED
      BY <2>1, <2>3, <2>5 DEF CacheInv, LineInv, CallInv
  <1> QED
    BY <1>1, <1>2 DEF EvictOften

\* Writing back the range of NAND_LB_MultiRead and reading the medium keep the invariant.
LEMMA MultiReadInv ==
    ASSUME CacheInv, MultiReadFlush \/ MultiReadMedium PROVE CacheInv'
  <1>1. CASE MultiReadFlush
    <2>1. PICK i \in InRange(req.sec, req.count) : WriteBack(i)
      BY <1>1 DEF MultiReadFlush
    <2>2. i \in Slot /\ InUse(i) /\ WrittenBack(i)
      BY <2>1, WriteBackEffect DEF InRange
    <2>3. pc = "range" /\ UNCHANGED <<cur, pc, req, out, flash>>
      BY <1>1 DEF MultiReadFlush
    <2>4. LineInv'
      BY <2>1, <2>2, <2>3, WriteBackKeepsLines
    <2>5. TypeOK' /\ CallInv'
      BY <2>2, <2>3 DEF CacheInv, TypeOK, CallInv, CursorBound, RetryFindsALine, FillPending,
         CallPhase, Filling, WrittenBack
    <2> QED
      BY <2>4, <2>5 DEF CacheInv, LineInv, CallInv
  <1>2. CASE MultiReadMedium
    <2>1. pc = "range" /\ pc' = "idle" /\ req' = NoReq /\ UNCHANGED <<slot, cur, ftl, flash>>
          /\ out' # Synced
      BY <1>2 DEF MultiReadMedium, Return, Got, Refused, Synced
    <2>2. LinesDistinct' /\ DirtyInside' /\ CleanIsCurrent' /\ VersionsOrdered'
      BY <2>1 DEF CacheInv, LinesDistinct, DirtyInside, CleanIsCurrent, VersionsOrdered, InUse,
         OnMedium
    <2>3. TypeOK' /\ CallInv' /\ NothingSinceSync'
      BY <2>1, DeviceAssumption DEF CacheInv, TypeOK, CallInv, CursorBound, RetryFindsALine,
         FillPending, CallPhase, Filling, NothingSinceSync, NoReq, Request, Block, Data, Junk
    <2> QED
      BY <2>2, <2>3 DEF CacheInv, CallInv
  <1> QED
    BY <1>1, <1>2

\* Entering NAND_LB_MultiRead keeps the invariant.
LEMMA MultiReadBegins ==
    ASSUME CacheInv, NEW s \in Block, NEW c \in Count, MultiRead(s, c) PROVE CacheInv'
  <1>1. LineInv'
    BY UnchangedKeepsLines DEF MultiRead
  <1>2. TypeOK'
    <2>1. c \in Nat /\ 0 \in Data
      BY DeviceAssumption DEF Count, Data, Junk
    <2>2. req' = [sec |-> s, count |-> c, data |-> 0, rw |-> FALSE, freed |-> FALSE]
      BY DEF MultiRead, NoReq
    <2>3. req' \in Request
      BY <2>1, <2>2 DEF Request
    <2> QED
      BY <2>3 DEF MultiRead, CacheInv, TypeOK
  <1>3. CallInv'
    BY DEF MultiRead, CacheInv, CallInv, CursorBound, RetryFindsALine, FillPending, CallPhase,
       Filling
  <1> QED
    BY <1>1, <1>2, <1>3 DEF CacheInv, LineInv, CallInv

\* NAND_LB_Read up to the fill keeps the invariant: a hit only moves the line to OFTEN, a miss
\* leaves the sector without a line and the medium's version in the buffer.
LEMMA ReadInv ==
    ASSUME CacheInv, NEW s \in Block, ReadHit(s) \/ ReadMiss(s) PROVE CacheInv'
  <1>1. CASE ReadHit(s)
    <2>1. PICK i \in Slot : InUse(i) /\ slot' = [slot EXCEPT ![i].state = "OFTEN"]
      BY <1>1 DEF ReadHit, Lookup
    <2>2. pc = "idle" /\ UNCHANGED <<cur, pc, req, ftl, flash>> /\ out' # Synced
      BY <1>1 DEF ReadHit, Got, Synced
    <2>3. /\ slot' \in [Slot -> Line]
          /\ \A j \in Slot : /\ slot'[j].block = slot[j].block
                             /\ slot'[j].dirty = slot[j].dirty
                             /\ slot'[j].data = slot[j].data
                             /\ slot'[j].state = "FREE" <=> slot[j].state = "FREE"
      BY <2>1 DEF CacheInv, TypeOK, Line, InUse
    <2>4. LinesDistinct' /\ DirtyInside' /\ CleanIsCurrent' /\ VersionsOrdered'
      BY <2>2, <2>3 DEF CacheInv, LinesDistinct, DirtyInside, CleanIsCurrent, VersionsOrdered,
         InUse, OnMedium
    <2>5. TypeOK' /\ CallInv' /\ NothingSinceSync'
      BY <2>2, <2>3 DEF CacheInv, TypeOK, CallInv, CursorBound, RetryFindsALine, FillPending,
         CallPhase, Filling, NothingSinceSync
    <2> QED
      BY <2>4, <2>5 DEF CacheInv, CallInv
  <1>2. CASE ReadMiss(s)
    <2>1. PICK v \in FtlRead(s) : req' = [NoReq EXCEPT !.sec = s, !.data = v]
      BY <1>2 DEF ReadMiss
    <2>2. v \in Data /\ (~FtlFaults => v = OnMedium(s))
      BY <2>1, DeviceAssumption DEF FtlRead, OnMedium, CacheInv, TypeOK, Data, Junk
    <2> QED
      BY <1>2, <2>1, <2>2, StartFill DEF ReadMiss, NoReq, Request
  <1> QED
    BY <1>1, <1>2

\* NAND_LB_Write up to the fill keeps the invariant: the check against total_sec comes before
\* the lookup, so no line past the end becomes dirty.
LEMMA WriteInv ==
    ASSUME CacheInv, NEW s \in Block, WriteRefused(s) \/ WriteHit(s) \/ WriteMiss(s)
    PROVE  CacheInv'
  <1>1. CASE WriteRefused(s)
    <2>1. pc = "idle" /\ UNCHANGED <<slot, cur, pc, req, ftl, flash>> /\ out' # Synced
      BY <1>1 DEF WriteRefused, Refused, Synced
    <2> QED
      BY <2>1 DEF CacheInv, TypeOK, LinesDistinct, DirtyInside, CursorBound, RetryFindsALine,
         FillPending, CallPhase, CleanIsCurrent, VersionsOrdered, NothingSinceSync, InUse,
         OnMedium, InState
  <1>2. CASE WriteHit(s)
    <2>1. PICK i \in Slot :
            /\ InUse(i) /\ slot[i].block = s /\ slot[i].data < MaxVersion
            /\ slot' = [slot EXCEPT ![i] = Overwritten(slot[i])]
      BY <1>2 DEF WriteHit, Lookup
    <2>2. pc = "idle" /\ UNCHANGED <<cur, pc, req, ftl, flash>> /\ out' # Synced
      BY <1>2 DEF WriteHit, Wrote, Synced
    <2>3. s < TotalSec
      BY <1>2 DEF WriteHit
    <2>4. s \in Sector
      BY <2>3, DeviceAssumption DEF Block, Sector
    <2>5. slot[i].state # "FREE" /\ slot[i].block = s
      BY <2>1 DEF InUse
    <2>6. slot'[i] = [state |-> "OFTEN", block |-> s, dirty |-> TRUE, data |-> slot[i].data + 1]
          /\ \A j \in Slot : j # i => slot'[j] = slot[j]
      BY <2>1 DEF CacheInv, TypeOK, Line, Overwritten
    <2>7. slot' \in [Slot -> Line]
      <3>1. slot[i].data + 1 \in Data
        BY <2>1, DeviceAssumption DEF CacheInv, TypeOK, Line, Data, Junk
      <3>2. Overwritten(slot[i]) \in Line
        BY <3>1 DEF CacheInv, TypeOK, Line, Overwritten
      <3> QED
        BY <2>1, <3>2 DEF CacheInv, TypeOK
    <2>8. LinesDistinct'
      BY <2>5, <2>6 DEF CacheInv, LinesDistinct, InUse
    <2>9. DirtyInside'
      BY <2>5, <2>4, <2>6 DEF CacheInv, DirtyInside, InUse
    <2>10. CleanIsCurrent' /\ VersionsOrdered'
      BY <2>1, <2>2, <2>4, <2>6 DEF CacheInv, CleanIsCurrent, VersionsOrdered, InUse, OnMedium,
         TypeOK, Line, Data, Junk
    <2>11. TypeOK' /\ CallInv' /\ NothingSinceSync'
      BY <2>2, <2>7 DEF CacheInv, TypeOK, CallInv, CursorBound, RetryFindsALine, FillPending,
         CallPhase, Filling, NothingSinceSync
    <2> QED
      BY <2>8, <2>9, <2>10, <2>11 DEF CacheInv, CallInv
  <1>3. CASE WriteMiss(s)
    <2>1. s \in Sector /\ OnMedium(s) = ftl[s] /\ ftl[s] + 1 \in Data
      BY <1>3, DeviceAssumption DEF WriteMiss, OnMedium, Block, Sector, CacheInv, TypeOK, Data, Junk
    <2> QED
      BY <1>3, <2>1, StartFill DEF WriteMiss, NoReq, Request
  <1> QED
    BY <1>1, <1>2, <1>3

\* What a sector reads as: the only line that holds it, or else the medium.
LEMMA ValueOfLine ==
    ASSUME CacheInv, NEW i \in Slot, InUse(i)
    PROVE  Value(slot[i].block) = slot[i].data
  <1>1. Lookup(slot[i].block) = {i}
    BY DEF CacheInv, LinesDistinct, Lookup
  <1> QED
    BY <1>1 DEF Value

\* A sector reads as a version no older than the one on the medium.
LEMMA ValueBounds ==
    ASSUME CacheInv, NEW s \in Sector
    PROVE  /\ Value(s) \in Data
           /\ ~FtlFaults => ftl[s] <= Value(s)
  <1>1. CASE Lookup(s) = {}
    BY <1>1 DEF CacheInv, TypeOK, Value, OnMedium, Data, Junk
  <1>2. ASSUME NEW i \in Lookup(s)
        PROVE  Value(s) \in Data /\ (~FtlFaults => ftl[s] <= Value(s))
    <2>1. i \in Slot /\ InUse(i) /\ slot[i].block = s /\ slot[i].data \in Data
      BY <1>2 DEF Lookup, CacheInv, TypeOK, Line
    <2>2. Value(s) = slot[i].data
      BY <2>1, ValueOfLine
    <2>3. ftl[s] \in Data
      BY DEF CacheInv, TypeOK
    <2>4. ~FtlFaults /\ slot[i].dirty => ftl[s] < slot[i].data
      BY <2>1 DEF CacheInv, VersionsOrdered
    <2>5. ~FtlFaults /\ ~slot[i].dirty => ftl[s] = slot[i].data
      BY <2>1 DEF CacheInv, CleanIsCurrent, OnMedium
    <2> QED
      BY <2>1, <2>2, <2>3, <2>4, <2>5, DeviceAssumption DEF Data, Junk
  <1> QED
    BY <1>1, <1>2

\* NAND_LB_MultiWrite keeps the invariant: _NAND_LB_CloseCACHES leaves no line of the range, so
\* no clean line differs from the medium afterwards.
LEMMA MultiWriteInv ==
    ASSUME CacheInv, NEW s \in Block, NEW c \in Count,
           MultiWriteRefused(s, c) \/ MultiWrite(s, c)
    PROVE  CacheInv'
  <1>1. CASE MultiWriteRefused(s, c)
    <2>1. pc = "idle" /\ UNCHANGED <<slot, cur, pc, req, ftl, flash>> /\ out' # Synced
      BY <1>1 DEF MultiWriteRefused, Refused, Synced
    <2> QED
      BY <2>1 DEF CacheInv, TypeOK, LinesDistinct, DirtyInside, CursorBound, RetryFindsALine,
         FillPending, CallPhase, CleanIsCurrent, VersionsOrdered, NothingSinceSync, InUse,
         OnMedium, InState
  <1>2. CASE MultiWrite(s, c)
    <2>1. pc = "idle" /\ UNCHANGED <<cur, pc, req, flash>> /\ out' # Synced
      BY <1>2 DEF MultiWrite, Refused, Wrote, Synced
    <2>2. \A i \in Slot : slot'[i] = IF i \in InRange(s, c) THEN FreeLine ELSE slot[i]
      BY <1>2 DEF MultiWrite, CloseCACHES
    <2>3. FreeLine \in Line
      BY DeviceAssumption DEF FreeLine, Line, Block, Data, Junk
    <2>4. slot' \in [Slot -> Line]
      BY <1>2, <2>3 DEF MultiWrite, CloseCACHES, CacheInv, TypeOK
    <2>5. /\ ftl' \in [Sector -> Data]
          /\ \A t \in Sector : t \notin Extent(s, c) => ftl'[t] = ftl[t]
          /\ ~FtlFaults => \A t \in Sector : ftl[t] <= ftl'[t]
      <3>1. ASSUME NEW t \in Sector, t \in Extent(s, c)
            PROVE  Value(t) + 1 \in Data /\ (~FtlFaults => ftl[t] <= Value(t) + 1)
        <4>1. Value(t) < MaxVersion
          BY <1>2, <3>1 DEF MultiWrite
        <4>2. ftl[t] \in Data
          BY DEF CacheInv, TypeOK
        <4> QED
          BY <4>1, <4>2, ValueBounds, DeviceAssumption DEF Data, Junk
      <3>2. CASE FtlFails
        BY <3>2 DEF FtlFails, CacheInv, TypeOK
      <3>3. CASE FtlWrite([t \in Extent(s, c) |-> Value(t) + 1])
        <4>1. ftl' = [t \in Sector |-> IF t \in Extent(s, c) THEN Value(t) + 1 ELSE ftl[t]]
          BY <3>3 DEF FtlWrite
        <4>2. \A t \in Sector : ftl[t] \in Data
          BY DEF CacheInv, TypeOK
        <4> QED
          BY <3>1, <4>1, <4>2, DeviceAssumption DEF Data, Junk
      <3> QED
        BY <1>2, <3>2, <3>3 DEF MultiWrite
    <2>6. \A i \in Slot : slot'[i].state # "FREE" =>
             slot[i].state # "FREE" /\ slot'[i] = slot[i] /\ slot[i].block \notin Extent(s, c)
      BY <2>2 DEF InRange, InUse, FreeLine
    <2>7. \A i \in Slot : slot'[i].dirty =>
             slot[i].dirty /\ slot'[i] = slot[i] /\ slot[i].block \notin Extent(s, c)
      BY <2>2 DEF CacheInv, DirtyInside, InRange, FreeLine
    <2>8. LinesDistinct'
      BY <2>6 DEF CacheInv, LinesDistinct, InUse
    <2>9. DirtyInside'
      BY <2>2, <2>7 DEF CacheInv, DirtyInside, InUse, FreeLine
    <2>10. CleanIsCurrent'
      BY <2>5, <2>6 DEF CacheInv, CleanIsCurrent, InUse, OnMedium
    <2>11. VersionsOrdered'
      <3>1. \A i \in Slot : ~FtlFaults /\ slot'[i].dirty => ftl'[slot'[i].block] < slot'[i].data
        BY <2>5, <2>7 DEF CacheInv, VersionsOrdered, DirtyInside
      <3>2. \A t \in Sector : ~FtlFaults => 0 <= flash'[t] /\ flash'[t] <= ftl'[t]
        BY <2>1, <2>5 DEF CacheInv, VersionsOrdered, TypeOK, Data, Junk
      <3> QED
        BY <3>1, <3>2 DEF VersionsOrdered
    <2>12. TypeOK' /\ CallInv' /\ NothingSinceSync'
      BY <2>1, <2>4, <2>5 DEF CacheInv, TypeOK, CallInv, CursorBound, RetryFindsALine,
         FillPending, CallPhase, Filling, NothingSinceSync
    <2> QED
      BY <2>8, <2>9, <2>10, <2>11, <2>12 DEF CacheInv, CallInv
  <1> QED
    BY <1>1, <1>2

\* NAND_LB_FLASHCACHE keeps the invariant: every line is free before ssfdc_nftl_flush_cache,
\* and nothing is newer than the medium when it returns.
LEMMA FlashCacheInv ==
    ASSUME CacheInv, FlashCache \/ ClearCache \/ FlushFtl PROVE CacheInv'
  <1>1. CASE FlashCache
    <2>1. LineInv'
      BY <1>1, UnchangedKeepsLines DEF FlashCache
    <2>2. TypeOK' /\ CallInv'
      BY <1>1 DEF FlashCache, CacheInv, TypeOK, CallInv, CursorBound, RetryFindsALine,
         FillPending, CallPhase, Filling
    <2> QED
      BY <2>1, <2>2 DEF CacheInv, LineInv, CallInv
  <1>2. ASSUME NEW st \in {"PREWRITE", "OFTEN"}, DrainOne(st), req' = req, pc' = pc,
               pc = IF st = "PREWRITE" THEN "clearPrewrite" ELSE "clearOften"
        PROVE  CacheInv'
    <2>1. PICK i \in InState(st) : WriteBack(i)
      BY <1>2 DEF DrainOne
    <2>2. i \in Slot /\ InUse(i) /\ WrittenBack(i)
      BY <2>1, WriteBackEffect DEF InState, InUse
    <2>3. UNCHANGED <<cur, out, flash>>
      BY <1>2 DEF DrainOne
    <2>4. LineInv'
      BY <2>1, <2>2, <2>3, WriteBackKeepsLines
    <2>5. TypeOK' /\ CallInv'
      BY <1>2, <2>2, <2>3 DEF CacheInv, TypeOK, CallInv, CursorBound, RetryFindsALine,
         FillPending, CallPhase, Filling, WrittenBack, InState, FreeLine
    <2> QED
      BY <2>4, <2>5 DEF CacheInv, LineInv, CallInv
  <1>3. ASSUME Drained("PREWRITE"), req' = req, pc = "clearPrewrite", pc' = "clearOften"
        PROVE  CacheInv'
    <2>1. LineInv'
      BY <1>3, UnchangedKeepsLines DEF Drained
    <2>2. TypeOK' /\ CallInv'
      BY <1>3 DEF CacheInv, TypeOK, CallInv, CursorBound, RetryFindsALine, FillPending,
         CallPhase, Filling, Drained, InState
    <2> QED
      BY <2>1, <2>2 DEF CacheInv, LineInv, CallInv
  <1>4. ASSUME Drained("OFTEN"), req' = req, pc = "clearOften", pc' = "commit"
        PROVE  CacheInv'
    <2>1. LineInv'
      BY <1>4, UnchangedKeepsLines DEF Drained
    <2>2. \A i \in Slot : slot[i].state = "FREE"
      BY <1>4 DEF CacheInv, TypeOK, Line, CallPhase, Drained, InState
    <2>3. TypeOK' /\ CallInv'
      BY <1>4, <2>2 DEF CacheInv, TypeOK, CallInv, CursorBound, RetryFindsALine, FillPending,
         CallPhase, Filling, Drained, InState
    <2> QED
      BY <2>1, <2>3 DEF CacheInv, LineInv, CallInv
  <1>5. CASE FlushFtl
    <2>1. pc' = "idle" /\ req' = NoReq /\ flash' = ftl /\ UNCHANGED <<slot, cur, ftl>>
          /\ pc = "commit"
      BY <1>5 DEF FlushFtl, Return
    <2>2. \A i \in Slot : slot[i].state = "FREE" /\ ~slot[i].dirty
      BY <2>1 DEF CacheInv, CallPhase, InState, DirtyInside, InUse
    <2>3. TypeOK'
      BY <2>1, DeviceAssumption DEF CacheInv, TypeOK, NoReq, Request, Block, Data, Junk
    <2>4. CallInv'
      BY <2>1 DEF CacheInv, CallInv, CursorBound, RetryFindsALine, FillPending, CallPhase, Filling
    <2>5. LineInv'
      BY <2>1, <2>2 DEF CacheInv, TypeOK, Data, Junk, LineInv, LinesDistinct, DirtyInside,
         CleanIsCurrent, VersionsOrdered, NothingSinceSync, InUse
    <2> QED
      BY <2>3, <2>4, <2>5 DEF CacheInv, LineInv, CallInv
  <1> QED
    BY <1>1, <1>2, <1>3, <1>4, <1>5 DEF ClearCache

\* Losing the power and NAND_LB_Init keep the invariant: the cache starts empty over what the
\* medium has kept.
LEMMA PowerInv == ASSUME CacheInv, Boot \/ PowerLoss PROVE CacheInv'
  <1> USE CacheAssumption, DeviceAssumption
  <1>1. /\ slot' = [i \in Slot |-> FreeLine] /\ cur' = 0 /\ pc' \in {"off", "idle"}
        /\ req' \in {req, NoReq} /\ UNCHANGED flash
        /\ (UNCHANGED <<ftl, out>> \/ (ftl' = flash /\ out' = Silent))
    BY DEF Boot, PowerLoss
  <1>2. FreeLine \in Line /\ NoReq \in Request /\ 0 \in Slot
    BY DEF FreeLine, Line, NoReq, Request, Block, Data, Junk, Slot
  <1>3. TypeOK'
    BY <1>1, <1>2 DEF CacheInv, TypeOK
  <1>4. CallInv'
    BY <1>1, <1>2 DEF CallInv, CursorBound, RetryFindsALine, FillPending, CallPhase, Filling,
       InState, FreeLine
  <1>5. LinesDistinct' /\ DirtyInside' /\ CleanIsCurrent'
    BY <1>1 DEF LinesDistinct, DirtyInside, CleanIsCurrent, InUse, FreeLine
  <1>6. VersionsOrdered' /\ NothingSinceSync'
    BY <1>1 DEF CacheInv, TypeOK, Data, Junk, VersionsOrdered, NothingSinceSync, FreeLine, Silent,
       Synced
  <1> QED
    BY <1>3, <1>4, <1>5, <1>6 DEF CacheInv, CallInv

\* The translation layer making a sector durable in its own time keeps the invariant.
LEMMA FtlCommitInv == ASSUME CacheInv, NEW s \in Sector, FtlCommit(s) PROVE CacheInv'
  <1>1. flash' = [flash EXCEPT ![s] = ftl[s]] /\ UNCHANGED <<slot, cur, pc, req, out, ftl>>
    BY DEF FtlCommit
  <1>2. flash' \in [Sector -> Data] /\ \A t \in Sector : flash'[t] = IF t = s THEN ftl[t] ELSE flash[t]
    BY <1>1 DEF CacheInv, TypeOK
  <1>3. TypeOK' /\ CallInv'
    BY <1>1, <1>2 DEF CacheInv, TypeOK, CallInv, CursorBound, RetryFindsALine, FillPending,
       CallPhase, Filling, InState, InUse, OnMedium
  <1>4. LinesDistinct' /\ DirtyInside' /\ CleanIsCurrent'
    BY <1>1 DEF CacheInv, LinesDistinct, DirtyInside, CleanIsCurrent, InUse, OnMedium
  <1>5. VersionsOrdered' /\ NothingSinceSync'
    BY <1>1, <1>2 DEF CacheInv, TypeOK, Data, Junk, VersionsOrdered, NothingSinceSync
  <1> QED
    BY <1>3, <1>4, <1>5 DEF CacheInv, CallInv

\* Every step keeps the invariant.
LEMMA StepInv == CacheInv /\ [Next]_vars => CacheInv'
  <1> SUFFICES ASSUME CacheInv, [Next]_vars PROVE CacheInv'
    OBVIOUS
  <1>1. CASE Call
    BY <1>1, ReadInv, WriteInv, MultiWriteInv, FlashCacheInv, PowerInv, MultiReadBegins DEF Call
  <1>2. CASE Continue
    BY <1>2, TakeFreeLineInv, CacheFullInv, EvictPrewriteInv, EvictOftenInv, MultiReadInv,
       FlashCacheInv DEF Continue
  <1>3. CASE \E s \in Sector : FtlCommit(s)
    BY <1>3, FtlCommitInv
  <1>4. CASE PowerLoss
    BY <1>4, PowerInv
  <1>5. CASE UNCHANGED vars
    BY <1>5 DEF vars, CacheInv, TypeOK, LinesDistinct, DirtyInside, CursorBound, RetryFindsALine,
       FillPending, CallPhase, CleanIsCurrent, VersionsOrdered, NothingSinceSync, InUse,
       OnMedium, InState
  <1> QED
    BY <1>1, <1>2, <1>3, <1>4, <1>5 DEF Next

\* The inductive invariant holds in every reachable state.
THEOREM Invariance == Spec => []CacheInv
  BY InitInv, StepInv, PTL DEF Spec

\* The types of the variables.
THEOREM TypeCorrect == Spec => []TypeOK
  <1>1. CacheInv => TypeOK
    BY DEF CacheInv
  <1> QED
    BY <1>1, Invariance, PTL

\* No sector has two lines, whatever the calls, the faults and the power losses.
THEOREM OneLinePerSector == Spec => []LinesDistinct
  <1>1. CacheInv => LinesDistinct
    BY DEF CacheInv
  <1> QED
    BY <1>1, Invariance, PTL

\* Between calls the cursor the lookups start from indexes a line.
THEOREM CursorSafe == Spec => []CursorIndexesALine
  <1>1. CacheInv => CursorIndexesALine
    BY DEF CacheInv, CursorBound, CursorIndexesALine
  <1> QED
    BY <1>1, Invariance, PTL

\* The scan that follows an eviction finds a line to store through.
THEOREM RetryIsSafe == Spec => []RetryFindsALine
  <1>1. CacheInv => RetryFindsALine
    BY DEF CacheInv
  <1> QED
    BY <1>1, Invariance, PTL

\* With a translation layer that does not fail, a clean line holds what a read of
\* the medium returns.
THEOREM CleanLinesCurrent == Spec => []CleanIsCurrent
  <1>1. CacheInv => CleanIsCurrent
    BY DEF CacheInv
  <1> QED
    BY <1>1, Invariance, PTL

\* Only sectors of the device are ever written back.
THEOREM WriteBackInside == Spec => []DirtyInside
  <1>1. CacheInv => DirtyInside
    BY DEF CacheInv
  <1> QED
    BY <1>1, Invariance, PTL

(***************************************************************************)
(* How long a call takes.                                                  *)
(***************************************************************************)

\* There are as many lines in use as a number says.
LEMMA LinesCounted == IsFiniteSet(LinesInUse) /\ Cardinality(LinesInUse) \in Nat
  <1>1. IsFiniteSet(Slot)
    BY FS_Interval, CacheAssumption DEF Slot
  <1>2. LinesInUse \in SUBSET Slot
    BY DEF LinesInUse
  <1> QED
    BY <1>1, <1>2, FS_Subset, FS_CardinalityType

\* Writing a line back leaves one less in use.
LEMMA OneLineLess ==
    ASSUME NEW i \in Slot, InUse(i), WrittenBack(i)
    PROVE  Cardinality(LinesInUse)' = Cardinality(LinesInUse) - 1
  <1>1. LinesInUse' = LinesInUse \ {i}
    BY DEF LinesInUse, InUse, WrittenBack, FreeLine
  <1>2. i \in LinesInUse
    BY DEF LinesInUse
  <1> QED
    BY <1>1, <1>2, LinesCounted, FS_RemoveElement

\* Filling a line leaves one more.
LEMMA OneLineMore ==
    ASSUME CacheInv, TakeFreeLine
    PROVE  Cardinality(LinesInUse)' = Cardinality(LinesInUse) + 1
  <1>1. PICK i \in InState("FREE") :
          slot' = [slot EXCEPT ![i] = [state |-> "PREWRITE", block |-> req.sec,
                                      dirty |-> req.rw, data |-> req.data]]
    BY DEF TakeFreeLine, Fill
  <1>2. i \in Slot /\ i \notin LinesInUse
    BY DEF InState, LinesInUse, InUse
  <1>3. LinesInUse' = LinesInUse \cup {i}
    BY <1>1, <1>2 DEF LinesInUse, InUse, CacheInv, TypeOK
  <1> QED
    BY <1>2, <1>3, LinesCounted, FS_AddElement

\* A turn of a drain loop is a step less.
LEMMA DrainShrinks ==
    ASSUME CacheInv, NEW i \in Slot, InUse(i), WriteBack(i), UNCHANGED pc
    PROVE  StepsLeft' < StepsLeft
  <1>1. Cardinality(LinesInUse)' = Cardinality(LinesInUse) - 1
    BY WriteBackEffect, OneLineLess
  <1>2. PhasesLeft' = PhasesLeft /\ PhasesLeft \in Nat
    BY DEF PhasesLeft, CacheInv, TypeOK
  <1> QED
    BY <1>1, <1>2, LinesCounted DEF StepsLeft

\* So is the step to a phase that comes later, if the lines stay.
LEMMA PhaseShrinks ==
    ASSUME PhasesLeft \in Nat, PhasesLeft' \in Nat, PhasesLeft' < PhasesLeft, UNCHANGED slot
    PROVE  StepsLeft' < StepsLeft
  <1>1. Cardinality(LinesInUse)' = Cardinality(LinesInUse)
    BY DEF LinesInUse, InUse
  <1> QED
    BY <1>1, LinesCounted DEF StepsLeft

\* And every other step of a call.
LEMMA ContinueShrinks == ASSUME CacheInv, Continue PROVE StepsLeft' < StepsLeft
  <1>1. CASE TakeFreeLine
    <2>1. PhasesLeft \in {2, 5} /\ PhasesLeft' = 0
      BY <1>1 DEF TakeFreeLine, Fill, Return, PhasesLeft
    <2> QED
      BY <1>1, <2>1, OneLineMore, LinesCounted DEF StepsLeft
  <1>2. CASE CacheFull
    BY <1>2, PhaseShrinks DEF CacheFull, PhasesLeft
  <1>3. CASE EvictPrewrite
    <2>1. CASE DrainOne("PREWRITE") /\ UNCHANGED pc
      BY <2>1, DrainShrinks DEF DrainOne, InState, InUse
    <2>2. CASE Drained("PREWRITE") /\ pc' = IF EvictMore THEN "evictOften" ELSE "retry"
      BY <1>3, <2>2, PhaseShrinks DEF EvictPrewrite, Drained, PhasesLeft
    <2> QED
      BY <1>3, <2>1, <2>2 DEF EvictPrewrite
  <1>4. CASE EvictOften
    <2>1. CASE DrainOne("OFTEN") /\ UNCHANGED pc
      BY <2>1, DrainShrinks DEF DrainOne, InState, InUse
    <2>2. CASE Drained("OFTEN") /\ pc' = "retry"
      BY <1>4, <2>2, PhaseShrinks DEF EvictOften, Drained, PhasesLeft
    <2> QED
      BY <1>4, <2>1, <2>2 DEF EvictOften
  <1>5. CASE MultiReadFlush
    BY <1>5, DrainShrinks DEF MultiReadFlush, InRange
  <1>6. CASE MultiReadMedium
    BY <1>6, PhaseShrinks DEF MultiReadMedium, Return, PhasesLeft
  <1>7. CASE ClearCache
    <2>1. CASE DrainOne("PREWRITE") /\ UNCHANGED pc
      BY <2>1, DrainShrinks DEF DrainOne, InState, InUse
    <2>2. CASE DrainOne("OFTEN") /\ UNCHANGED pc
      BY <2>2, DrainShrinks DEF DrainOne, InState, InUse
    <2>3. CASE pc = "clearPrewrite" /\ Drained("PREWRITE") /\ pc' = "clearOften"
      BY <2>3, PhaseShrinks DEF Drained, PhasesLeft
    <2>4. CASE pc = "clearOften" /\ Drained("OFTEN") /\ pc' = "commit"
      BY <2>4, PhaseShrinks DEF Drained, PhasesLeft
    <2> QED
      BY <1>7, <2>1, <2>2, <2>3, <2>4 DEF ClearCache
  <1>8. CASE FlushFtl
    BY <1>8, PhaseShrinks DEF FlushFtl, Return, PhasesLeft
  <1> QED
    BY <1>1, <1>2, <1>3, <1>4, <1>5, <1>6, <1>7, <1>8 DEF Continue

\* Every call of the interface ends within CACHE_MAX_NUM + 5 steps, for any number of
\* lines and sectors, whether the flash fails or not.
THEOREM CallsAreShort == Spec => CallsShrink
  <1>1. ASSUME CacheInv, Next, pc \notin {"off", "idle"}, pc' # "off",
               <<pc, slot>>' # <<pc, slot>>
        PROVE  StepsLeft' < StepsLeft
    <2>1. ~Call
      BY <1>1 DEF Call, Boot, ReadHit, ReadMiss, WriteRefused, WriteHit, WriteMiss, MultiRead,
         MultiWriteRefused, MultiWrite, FlashCache
    <2>2. ~PowerLoss /\ \A s \in Sector : ~FtlCommit(s)
      BY <1>1 DEF PowerLoss, FtlCommit
    <2> QED
      BY <1>1, <2>1, <2>2, ContinueShrinks DEF Next
  <1>2. CacheInv /\ [Next]_vars =>
          [pc \notin {"off", "idle"} /\ pc' # "off" /\ <<pc, slot>>' # <<pc, slot>> =>
               StepsLeft' < StepsLeft]_vars
    BY <1>1
  <1> QED
    BY <1>2, Invariance, PTL DEF Spec, CallsShrink
================================================================================

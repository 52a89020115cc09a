------------------------------ MODULE SectorCache ------------------------------
(***************************************************************************)
(* The write-back sector cache in front of the NAND translation layer      *)
(* (src/soc_src/jz4755/nand/lb_nand.c).  A call of the NAND_LB_* interface *)
(* runs on one task at a time; a call that has to write lines back is a    *)
(* sequence of steps, one per call of ssfdc_nftl_write, so that a power    *)
(* loss can fall between any two of them.                                  *)
(*                                                                         *)
(* The translation layer (ssfdc.o) is a library outside the sources: `ftl' *)
(* is what a read of it returns, `flash' what it has made durable.  It may *)
(* persist a write whenever it likes and must on ssfdc_nftl_flush_cache.   *)
(* Sector contents are version numbers (see BlockData).                  *)
(***************************************************************************)
EXTENDS BlockData, FiniteSets

CONSTANTS
    CACHE_MAX_NUM,   \* number of cache lines
    MinFree,         \* CACHE_MAX_NUM * 1 / 4: lines a write wants free after eviction
    FtlFaults        \* whether ssfdc_nftl_read and ssfdc_nftl_write may fail

ASSUME CacheAssumption ==
    /\ CACHE_MAX_NUM \in Nat \ {0}
    /\ MinFree \in 0 .. CACHE_MAX_NUM
    /\ FtlFaults \in BOOLEAN

VARIABLES
    slot,    \* ssfdc_cache: the lines
    cur,     \* Cur_CacheCount: where the scans start
    pc,      \* where the call in progress is ("idle": none, "off": not initialised)
    req,     \* arguments and locals of the call in progress
    out,     \* what the last call returned
    ftl,     \* [Sector -> version the translation layer returns]
    flash    \* [Sector -> version that survives a power loss]

vars == <<slot, cur, pc, req, out, ftl, flash>>

Slot   == 0 .. CACHE_MAX_NUM - 1
Line == [state : {"FREE", "PREWRITE", "OFTEN"}, block : Block, dirty : BOOLEAN, data : Data]

\* BlockId and the data of a free line are never looked at.
FreeLine == [state |-> "FREE", block |-> 0, dirty |-> FALSE, data |-> 0]

Request == [sec : Block, count : Nat, data : Data, rw : BOOLEAN, freed : BOOLEAN]
NoReq == [sec |-> 0, count |-> 0, data |-> 0, rw |-> FALSE, freed |-> FALSE]

Init ==
    /\ slot = [i \in Slot |-> FreeLine]
    /\ cur = 0
    /\ pc = "off"
    /\ req = NoReq
    /\ out = Silent
    /\ ftl = [s \in Sector |-> 0]
    /\ flash = [s \in Sector |-> 0]

(***************************************************************************)
(* The lines.                                                              *)
(***************************************************************************)
InUse(i)     == slot[i].state # "FREE"
InState(st)  == {i \in Slot : slot[i].state = st}
\* Mutated: only lines that were used again are found.
LookupOften(s) == {i \in InState("OFTEN") : slot[i].block = s}

Lookup(s) == {i \in Slot : InUse(i) /\ slot[i].block = s}
\* Mutated: the last sector of a range is left out.
InRangeShort(s, c) == {i \in Slot : InUse(i) /\ slot[i].block \in Extent(s, c - 1)}

InRange(s, c) == {i \in Slot : InUse(i) /\ slot[i].block \in Extent(s, c)}

\* How many lines the allocator passes over before it looks at line i.
Distance(i) == (i - cur) % CACHE_MAX_NUM

\* What the sector holds for a caller: the line, or else the medium.
OnMedium(s) == IF s \in Sector THEN ftl[s] ELSE Junk
Value(s) == IF Lookup(s) = {} THEN OnMedium(s) ELSE slot[CHOOSE i \in Lookup(s) : TRUE].data

(***************************************************************************)
(* The translation layer.                                                  *)
(***************************************************************************)

\* ssfdc_nftl_read of one sector: what the buffer holds afterwards.
FtlRead(s) == {OnMedium(s)} \cup (IF FtlFaults THEN {Junk} ELSE {})

\* ssfdc_nftl_write of the sectors of f, when it succeeds.
FtlWrite(f) == ftl' = [s \in Sector |-> IF s \in DOMAIN f THEN f[s] ELSE ftl[s]]

FtlFails == FtlFaults /\ UNCHANGED ftl

\* The layer makes what it holds of a sector durable in its own time.
FtlCommit(s) ==
    /\ flash[s] # ftl[s]
    /\ flash' = [flash EXCEPT ![s] = ftl[s]]
    /\ UNCHANGED <<slot, cur, pc, req, out, ftl>>

(***************************************************************************)
(* Shared steps.                                                           *)
(***************************************************************************)
Return(result) ==
    /\ pc' = "idle"
    /\ req' = NoReq
    /\ out' = result

\* Mutated: a line that needs no write is not freed.
WriteBackDirty(i) ==
    IF slot[i].dirty
    THEN /\ FtlWrite([s \in {slot[i].block} |-> slot[i].data]) \/ FtlFails
         /\ slot' = [slot EXCEPT ![i] = FreeLine]
    ELSE UNCHANGED <<slot, ftl>>

\* Write line i back if it is dirty, then free it: the result of the write is
\* not looked at.
WriteBack(i) ==
    /\ IF slot[i].dirty
       THEN FtlWrite([s \in {slot[i].block} |-> slot[i].data]) \/ FtlFails
       ELSE UNCHANGED ftl
    /\ slot' = [slot EXCEPT ![i] = FreeLine]

\* One turn of the loop of _NAND_LB_PreWiteToNand: the line of that state with
\* the smallest sector.
DrainOne(st) ==
    /\ \E i \in InState(st) :
        /\ \A j \in InState(st) : slot[i].block <= slot[j].block
        /\ WriteBack(i)
    /\ UNCHANGED <<cur, out, flash>>

\* Every line of that state has been drained.
Drained(st) ==
    /\ InState(st) = {}
    /\ UNCHANGED <<slot, cur, out, ftl, flash>>

(***************************************************************************)
(* _NAND_LB_GetFreeCache and _NAND_LB_CopyToCache.                         *)
(***************************************************************************)

ClosestFree(i) == \A j \in InState("FREE") : Distance(i) <= Distance(j)

Fill(i) ==
    /\ slot' = [slot EXCEPT ![i] = [state |-> "PREWRITE", block |-> req.sec,
                                   dirty |-> req.rw, data |-> req.data]]
    /\ Return(IF req.rw THEN Wrote
              ELSE IF req.data = Junk THEN Refused
              ELSE Got([s \in {req.sec} |-> req.data]))
    /\ UNCHANGED <<ftl, flash>>

\* Mutated: the cursor moves past the line it hands out.
TakeFreeLinePast ==
    /\ pc \in {"copy", "retry"}
    /\ \E i \in InState("FREE") : ClosestFree(i) /\ cur' = i + 1 /\ Fill(i)

\* The scan from Cur_CacheCount, wrapping, stops at the first free line.
TakeFreeLine ==
    /\ pc \in {"copy", "retry"}
    /\ \E i \in InState("FREE") : ClosestFree(i) /\ cur' = i /\ Fill(i)

\* Mutated: the cursor is not taken back to the first line.
CacheFullNoWrap ==
    /\ pc = "copy"
    /\ InState("FREE") = {}
    /\ cur' = cur + CACHE_MAX_NUM
    /\ pc' = "evict"
    /\ UNCHANGED <<slot, req, out, ftl, flash>>

\* A scan of all the lines found none free: Cur_CacheCount is back where it
\* was, or one past the end when it started at the first line.
CacheFull ==
    /\ pc = "copy"
    /\ InState("FREE") = {}
    /\ cur' = IF cur = 0 THEN CACHE_MAX_NUM ELSE cur
    /\ pc' = "evict"
    /\ UNCHANGED <<slot, req, out, ftl, flash>>

(***************************************************************************)
(* _NAND_LB_FreeCache: drain the PREWRITE lines; drain the OFTEN ones too  *)
(* when that freed nothing, or when a write is left with too few free.     *)
(***************************************************************************)
TooFewFree == req.rw /\ Cardinality(InState("FREE")) < MinFree

\* Mutated: the OFTEN lines are drained on a write only.
EvictMoreForWrites == TooFewFree

EvictMore == ~req.freed \/ TooFewFree

EvictPrewrite ==
    /\ pc = "evict"
    /\ \/ /\ DrainOne("PREWRITE")
          /\ req' = [req EXCEPT !.freed = TRUE]
          /\ UNCHANGED pc
       \/ /\ Drained("PREWRITE")
          /\ pc' = IF EvictMore THEN "evictOften" ELSE "retry"
          /\ UNCHANGED req

EvictOften ==
    /\ pc = "evictOften"
    /\ \/ DrainOne("OFTEN") /\ UNCHANGED pc
       \/ Drained("OFTEN") /\ pc' = "retry"
    /\ UNCHANGED req

(***************************************************************************)
(* The interface.                                                          *)
(***************************************************************************)

\* NAND_LB_Init, the first call since power-up; later ones do nothing.
Boot ==
    /\ pc = "off"
    /\ slot' = [i \in Slot |-> FreeLine]
    /\ cur' = 0
    /\ pc' = "idle"
    /\ UNCHANGED <<req, out, ftl, flash>>

\* NAND_LB_Read of a cached sector.
ReadHit(s) ==
    /\ pc = "idle"
    /\ \E i \in Lookup(s) :
        /\ slot' = [slot EXCEPT ![i].state = "OFTEN"]
        /\ out' = Got([t \in {s} |-> slot[i].data])
    /\ UNCHANGED <<cur, pc, req, ftl, flash>>

\* NAND_LB_Read of any other sector: it is not checked against total_sec, and
\* whatever the buffer holds after ssfdc_nftl_read goes into the cache.
ReadMiss(s) ==
    /\ pc = "idle"
    /\ Lookup(s) = {}
    /\ \E v \in FtlRead(s) : req' = [NoReq EXCEPT !.sec = s, !.data = v]
    /\ pc' = "copy"
    /\ UNCHANGED <<slot, cur, out, ftl, flash>>

\* NAND_LB_Write.
WriteRefused(s) ==
    /\ pc = "idle"
    /\ s >= TotalSec
    /\ out' = Refused
    /\ UNCHANGED <<slot, cur, pc, req, ftl, flash>>

\* Mutated: an update does not mark the line dirty.
OverwrittenClean(line) == [line EXCEPT !.state = "OFTEN", !.data = @ + 1]

Overwritten(line) == [line EXCEPT !.state = "OFTEN", !.dirty = TRUE, !.data = @ + 1]

\* Mutated: the cache is updated before the sector is checked.
WriteHitUnchecked(s) ==
    /\ pc = "idle"
    /\ \E i \in Lookup(s) :
        /\ slot[i].data < MaxVersion
        /\ slot' = [slot EXCEPT ![i] = Overwritten(slot[i])]
    /\ out' = Wrote
    /\ UNCHANGED <<cur, pc, req, ftl, flash>>

WriteHit(s) ==
    /\ pc = "idle"
    /\ s < TotalSec
    /\ \E i \in Lookup(s) :
        /\ slot[i].data < MaxVersion
        /\ slot' = [slot EXCEPT ![i] = Overwritten(slot[i])]
    /\ out' = Wrote
    /\ UNCHANGED <<cur, pc, req, ftl, flash>>

WriteMiss(s) ==
    /\ pc = "idle"
    /\ s < TotalSec
    /\ Lookup(s) = {}
    /\ OnMedium(s) < MaxVersion
    /\ req' = [NoReq EXCEPT !.sec = s, !.data = OnMedium(s) + 1, !.rw = TRUE]
    /\ pc' = "copy"
    /\ UNCHANGED <<slot, cur, out, ftl, flash>>

\* NAND_LB_MultiRead: write back and drop the lines of the range in the order of
\* their slots, then read the medium.
MultiRead(s, c) ==
    /\ pc = "idle"
    /\ req' = [NoReq EXCEPT !.sec = s, !.count = c]
    /\ pc' = "range"
    /\ UNCHANGED <<slot, cur, out, ftl, flash>>

MultiReadFlush ==
    /\ pc = "range"
    /\ \E i \in InRange(req.sec, req.count) :
        /\ \A j \in InRange(req.sec, req.count) : i <= j
        /\ WriteBack(i)
    /\ UNCHANGED <<cur, pc, req, out, flash>>

MultiReadMedium ==
    /\ pc = "range"
    /\ InRange(req.sec, req.count) = {}
    /\ \/ /\ Inside(req.sec, req.count)
          /\ Return(Got([s \in Extent(req.sec, req.count) |-> ftl[s]]))
       \/ /\ ~Inside(req.sec, req.count) \/ FtlFaults
          /\ Return(Refused)
    /\ UNCHANGED <<slot, cur, ftl, flash>>

\* Mutated: the range stays in the cache.
CloseNothing(s, c) == slot

CloseCACHES(s, c) == [i \in Slot |-> IF i \in InRange(s, c) THEN FreeLine ELSE slot[i]]

\* NAND_LB_MultiWrite: drop the lines of the range, then write the medium.
MultiWriteRefused(s, c) ==
    /\ pc = "idle"
    /\ ~Inside(s, c)
    /\ out' = Refused
    /\ UNCHANGED <<slot, cur, pc, req, ftl, flash>>

MultiWrite(s, c) ==
    /\ pc = "idle"
    /\ Inside(s, c)
    /\ \A t \in Extent(s, c) : Value(t) < MaxVersion
    /\ slot' = CloseCACHES(s, c)
    /\ \/ FtlWrite([t \in Extent(s, c) |-> Value(t) + 1]) /\ out' = Wrote
       \/ FtlFails /\ out' = Refused
    /\ UNCHANGED <<cur, pc, req, flash>>

\* NAND_LB_FLASHCACHE (and NAND_LB_Deinit, which only calls it):
\* _NAND_LB_ClearCache, then ssfdc_nftl_flush_cache.
FlashCache ==
    /\ pc = "idle"
    /\ pc' = "clearPrewrite"
    /\ UNCHANGED <<slot, cur, req, out, ftl, flash>>

\* Mutated: only the PREWRITE lines are written back.
ClearPrewrite ==
    /\ \/ pc = "clearPrewrite" /\ DrainOne("PREWRITE") /\ UNCHANGED pc
       \/ pc = "clearPrewrite" /\ Drained("PREWRITE") /\ pc' = "commit"
    /\ UNCHANGED req

ClearCache ==
    /\ \/ pc = "clearPrewrite" /\ DrainOne("PREWRITE") /\ UNCHANGED pc
       \/ pc = "clearPrewrite" /\ Drained("PREWRITE") /\ pc' = "clearOften"
       \/ pc = "clearOften" /\ DrainOne("OFTEN") /\ UNCHANGED pc
       \/ pc = "clearOften" /\ Drained("OFTEN") /\ pc' = "commit"
    /\ UNCHANGED req

FlushFtl ==
    /\ pc = "commit"
    /\ flash' = ftl
    /\ Return(Synced)
    /\ UNCHANGED <<slot, cur, ftl>>

\* The power goes: RAM is lost, the medium holds what was durable.
PowerLoss ==
    /\ pc' = "off"
    /\ slot' = [i \in Slot |-> FreeLine]
    /\ cur' = 0
    /\ req' = NoReq
    /\ out' = Silent
    /\ ftl' = flash
    /\ UNCHANGED flash

Call ==
    \/ Boot
    \/ \E s \in Block : \/ ReadHit(s) \/ ReadMiss(s)
                        \/ WriteRefused(s) \/ WriteHit(s) \/ WriteMiss(s)
    \/ \E s \in Block, c \in Count : \/ MultiRead(s, c)
                                     \/ MultiWriteRefused(s, c) \/ MultiWrite(s, c)
    \/ FlashCache

\* The steps of a call once it has been made.
Continue ==
    \/ TakeFreeLine \/ CacheFull \/ EvictPrewrite \/ EvictOften
    \/ MultiReadFlush \/ MultiReadMedium
    \/ ClearCache \/ FlushFtl

Next ==
    \/ Call
    \/ Continue
    \/ \E s \in Sector : FtlCommit(s)
    \/ PowerLoss

Spec == Init /\ [][Next]_vars

(***************************************************************************)
(* Properties.                                                             *)
(***************************************************************************)

\* The types of the variables, and which of them a call in progress uses.
TypeOK ==
    /\ slot \in [Slot -> Line]
    /\ cur \in 0 .. CACHE_MAX_NUM
    /\ pc \in {"off", "idle", "copy", "evict", "evictOften", "retry", "range",
              "clearPrewrite", "clearOften", "commit"}
    /\ req \in Request
    /\ ftl \in [Sector -> Data]
    /\ flash \in [Sector -> Data]

\* No two lines hold the same sector: lookups stop at the first line they meet,
\* and the drain order would decide which of two copies the medium keeps.
LinesDistinct ==
    \A i, j \in Slot : InUse(i) /\ InUse(j) /\ slot[i].block = slot[j].block => i = j

\* A line that will be written back names a sector of the device.  Reads past the
\* end are cached too, so this rests on NAND_LB_Write checking before it looks
\* into the cache.
DirtyInside == \A i \in Slot : slot[i].dirty => InUse(i) /\ slot[i].block \in Sector

\* Between calls the cursor indexes a line.  _NAND_LB_UpdateInCache starts at
\* ssfdc_cache[Cur_CacheCount] and only guards against values above
\* CACHE_MAX_NUM, and _NAND_LB_GetFreeCache does leave it at CACHE_MAX_NUM when a
\* scan fails.
CursorIndexesALine == pc = "idle" => cur \in Slot

\* The scan that follows an eviction finds a line: _NAND_LB_CopyToCache does not
\* test its result again before storing through it.
RetryFindsALine == pc = "retry" => InState("FREE") # {}

\* A clean line holds what the medium holds, so dropping it loses nothing.
CleanIsCurrent ==
    ~FtlFaults => \A i \in Slot : InUse(i) /\ ~slot[i].dirty => slot[i].data = OnMedium(slot[i].block)

\* Write-back never replaces newer data by older: only a power loss takes a
\* sector of the medium to an earlier version (_NAND_LB_CloseCACHES before the
\* direct write of NAND_LB_MultiWrite, and the single copy of each sector).
NoStaleWriteBack == [][pc' # "off" => \A s \in Sector : ftl'[s] >= ftl[s]]_vars

\* When NAND_LB_FLASHCACHE has returned and nothing else has been called, what
\* every sector reads as is durable.
SyncedIsDurable ==
    ~FtlFaults /\ pc = "idle" /\ out = Synced => \A s \in Sector : flash[s] = Value(s)

\* The cache and the translation layer together are a block device: reads return
\* the last write, a sync makes it durable, a power loss takes a sector back to a
\* version no older than the last sync.
Device == INSTANCE BlockDevice WITH disk <- [s \in Sector |-> Value(s)], durable <- flash
IsABlockDevice == Device!Spec

\* Every call returns, or the power goes: the drain loops end.
CallReturns == pc \notin {"off", "idle"} ~> pc \in {"off", "idle"}

\* How many steps the call in progress can still take: one for each line there is
\* to write back, and those from one loop to the next.
PhasesLeft ==
    CASE pc \in {"off", "idle"}                          -> 0
      [] pc \in {"range", "commit"}                      -> 1
      [] pc \in {"retry", "clearOften"}                  -> 2
      [] pc \in {"evictOften", "clearPrewrite"}          -> 3
      [] pc = "evict"                                    -> 4
      [] pc = "copy"                                     -> 5
LinesInUse == {i \in Slot : InUse(i)}
StepsLeft == Cardinality(LinesInUse) + PhasesLeft

\* Every step of a call brings its return nearer, however the flash fails and
\* whatever the lines hold: a call ends after CACHE_MAX_NUM + 5 steps at the most
\* (the while loops of _NAND_LB_PreWiteToNand, _NAND_LB_ClearCache and
\* NAND_LB_MultiRead, and the second scan of _NAND_LB_CopyToCache).
CallsShrink ==
    [][pc \notin {"off", "idle"} /\ pc' # "off" /\ <<pc, slot>>' # <<pc, slot>> =>
          StepsLeft' < StepsLeft]_vars

(***************************************************************************)
(* The inductive invariant: what the properties above rest on while a call *)
(* is in progress.                                                         *)
(***************************************************************************)
Filling == {"copy", "evict", "evictOften", "retry"}

\* From the lookup to the fill, the sector of the call gets no other line, a
\* write stays inside the device, and a read fills in what the medium holds.
FillPending ==
    pc \in Filling =>
        /\ \A i \in Slot : InUse(i) => slot[i].block # req.sec
        /\ req.rw => req.sec \in Sector
        /\ ~FtlFaults =>
              req.data = IF req.rw THEN ftl[req.sec] + 1 ELSE OnMedium(req.sec)

CursorBound == pc \notin {"evict", "evictOften", "retry"} => cur \in Slot

\* What holds at each phase of a call: what a drain has left in the cache, and
\* the locals of the call.
CallPhase ==
    /\ pc = "range" => req.count \in Count
    /\ pc = "off" => InState("FREE") = Slot
    /\ pc = "copy" => ~req.freed
    /\ pc = "evict" /\ req.freed => InState("FREE") # {}
    /\ pc = "evictOften" => InState("PREWRITE") = {}
    /\ pc = "clearOften" => InState("PREWRITE") = {}
    /\ pc = "commit" => InState("FREE") = Slot

\* Durable <= medium <= line, sector by sector.
VersionsOrdered ==
    ~FtlFaults =>
        /\ \A s \in Sector : 0 <= flash[s] /\ flash[s] <= ftl[s]
        /\ \A i \in Slot : slot[i].dirty => ftl[slot[i].block] < slot[i].data

\* Nothing has been written since the last sync returned.
NothingSinceSync ==
    ~FtlFaults /\ out = Synced =>
        /\ \A i \in Slot : ~slot[i].dirty
        /\ flash = ftl

CacheInv ==
    /\ TypeOK
    /\ LinesDistinct
    /\ DirtyInside
    /\ CursorBound
    /\ RetryFindsALine
    /\ FillPending
    /\ CallPhase
    /\ CleanIsCurrent
    /\ VersionsOrdered
    /\ NothingSinceSync
================================================================================

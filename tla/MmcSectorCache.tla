---------------------------- MODULE MmcSectorCache -----------------------------
(***************************************************************************)
(* The write-back sector cache of the memory card                          *)
(* (src/soc_src/jz4755/drv/mmc/lb_mmc.c), which the file system reads and  *)
(* writes the card through.  It has the design of the NAND cache (see      *)
(* SectorCache) with differences: its last line is never found, a failed   *)
(* read is not cached, clean lines are written too where a range is        *)
(* flushed, and no sector is checked.  What it sits on may be pulled out,  *)
(* and MMC_WriteBlock then fails without anybody looking.                  *)
(*                                                                         *)
(* The contents of a card are version numbers (see BlockData).             *)
(***************************************************************************)
EXTENDS BlockData, FiniteSets

CONSTANTS
    Card,            \* the cards that may be in the slot
    CACHE_MAX_NUM,   \* 128 lines
    MinFree,         \* CACHE_MAX_NUM * 1 / 4
    Remounts         \* another card comes only while the file system has none mounted

ASSUME MmcCacheAssumption ==
    /\ Card # {}
    /\ CACHE_MAX_NUM \in Nat /\ CACHE_MAX_NUM > 1
    /\ MinFree \in 0 .. CACHE_MAX_NUM
    /\ Remounts \in BOOLEAN

VARIABLES
    slot,       \* mmc_cache
    cur,        \* Cur_CacheCount
    pc,         \* where the call in progress is ("idle": none, "off": not mounted)
    req,        \* its arguments and locals
    card,       \* the card in the slot, or the one that was
    inserted,   \* there is one
    store       \* [Card -> [Sector -> version]]

cacheVars == <<slot, cur, pc, req>>
cardVars == <<card, inserted, store>>
vars == <<cacheVars, cardVars>>

Slot == 0 .. CACHE_MAX_NUM - 1
Last == CACHE_MAX_NUM - 1
\* `of' is the card whose sector it is (history).
Line == [state : {"FREE", "PREWRITE", "OFTEN"}, block : Sector, dirty : BOOLEAN,
         data : Nat, of : Card]

Request == [sec : Sector, count : Nat, data : Nat, rw : BOOLEAN, freed : BOOLEAN]
NoReq == [sec |-> 0, count |-> 0, data |-> 0, rw |-> FALSE, freed |-> FALSE]

InUse(i) == slot[i].state # "FREE"
InState(st) == {i \in Slot : slot[i].state = st}
Lookup(s) == {i \in Slot : InUse(i) /\ slot[i].block = s}
InRange(s, c) == {i \in Slot : InUse(i) /\ slot[i].block \in Extent(s, c)}
Freed(line) == [line EXCEPT !.state = "FREE", !.dirty = FALSE]

\* What the sector holds for the file system.
Value(s) == IF Lookup(s) = {} THEN store[card][s] ELSE slot[CHOOSE i \in Lookup(s) : TRUE].data

AllFree == [i \in Slot |-> [state |-> "FREE", block |-> 0, dirty |-> FALSE, data |-> 0,
                            of |-> card]]

Init ==
    /\ card \in Card
    /\ inserted \in BOOLEAN
    /\ store = [c \in Card |-> [s \in Sector |-> 0]]
    /\ slot = AllFree /\ cur = 0
    /\ pc = "off" /\ req = NoReq

(***************************************************************************)
(* The card: pulled out and put in, and the blocks it reads and writes.    *)
(***************************************************************************)
Pull ==
    /\ inserted
    /\ inserted' = FALSE
    /\ UNCHANGED <<cacheVars, card, store>>

Put(c) ==
    /\ ~inserted
    /\ Remounts => c = card \/ pc = "off"
    /\ inserted' = TRUE
    /\ card' = c
    /\ UNCHANGED <<cacheVars, store>>

\* MMC_WriteBlock or MMC_WriteMultiBlock of the sectors of f: all of them, or none
\* when there is no card.  (A card does not go in the middle of a write.)
CardWrites(f) ==
    store' = IF inserted
             THEN [store EXCEPT ![card] = [s \in Sector |-> IF s \in DOMAIN f THEN f[s] ELSE @[s]]]
             ELSE store

(***************************************************************************)
(* _MMC_LB_PreWiteToMmc: one turn of its loop.                             *)
(***************************************************************************)
DrainOne(st) ==
    /\ \E i \in InState(st) :
        /\ \A j \in InState(st) : slot[i].block <= slot[j].block
        /\ IF slot[i].dirty
           THEN CardWrites([s \in {slot[i].block} |-> slot[i].data])
           ELSE UNCHANGED store
        /\ slot' = [slot EXCEPT ![i] = Freed(@)]
    /\ UNCHANGED <<cur, card, inserted>>

Drained(st) ==
    /\ InState(st) = {}
    /\ UNCHANGED <<slot, cur, cardVars>>

(***************************************************************************)
(* _MMC_LB_GetFreeCache, _MMC_LB_CopyToCache, _MMC_LB_FreeCache.           *)
(***************************************************************************)

\* The scan wraps before the last line, which it so never looks at.
Scanned == Slot \ {Last}
Start == IF cur >= Last THEN 0 ELSE cur
Distance(i) == (i - Start) % Last

TakeFreeLine ==
    /\ pc \in {"copy", "retry"}
    /\ \E i \in InState("FREE") \cap Scanned :
        /\ \A j \in InState("FREE") \cap Scanned : Distance(i) <= Distance(j)
        /\ cur' = i
        /\ slot' = [slot EXCEPT ![i] = [state |-> "PREWRITE", block |-> req.sec, dirty |-> req.rw,
                                       data |-> req.data, of |-> card]]
    /\ pc' = "idle"
    /\ req' = NoReq
    /\ UNCHANGED cardVars

\* After CACHE_MAX_NUM looks, one more than there are lines to look at.
CacheFull ==
    /\ pc = "copy"
    /\ InState("FREE") \cap Scanned = {}
    /\ cur' = Start + 1
    /\ pc' = "evict"
    /\ UNCHANGED <<slot, req, cardVars>>

TooFewFree == req.rw /\ Cardinality(InState("FREE")) < MinFree
\* Mutated: the OFTEN lines are drained on a write only.
EvictMoreForWrites == TooFewFree
EvictMore == ~req.freed \/ TooFewFree

Evict ==
    /\ \/ /\ pc = "evict" /\ DrainOne("PREWRITE")
          /\ req' = [req EXCEPT !.freed = TRUE]
          /\ UNCHANGED pc
       \/ /\ pc = "evict" /\ Drained("PREWRITE")
          /\ pc' = IF EvictMore THEN "evictOften" ELSE "retry"
          /\ UNCHANGED req
       \/ pc = "evictOften" /\ DrainOne("OFTEN") /\ UNCHANGED <<pc, req>>
       \/ pc = "evictOften" /\ Drained("OFTEN") /\ pc' = "retry" /\ UNCHANGED req

(***************************************************************************)
(* The interface.                                                          *)
(***************************************************************************)

\* Mutated: the lines stay.
MountKeeps ==
    /\ pc = "off"
    /\ cur' = 0
    /\ pc' = "idle"
    /\ UNCHANGED <<slot, req, cardVars>>

\* MMC_LB_Init: the result of MMC_Initialize is not looked at.
Mount ==
    /\ pc = "off"
    /\ slot' = AllFree /\ cur' = 0
    /\ pc' = "idle"
    /\ UNCHANGED <<req, cardVars>>

\* The file system gives up a card that has been pulled out.
GiveUp ==
    /\ pc = "idle" /\ ~inserted
    /\ pc' = "off"
    /\ UNCHANGED <<slot, cur, req, cardVars>>

\* MMC_LB_Read.
ReadHit(s) ==
    /\ pc = "idle"
    /\ \E i \in Lookup(s) :
        /\ slot' = [slot EXCEPT ![i].state = "OFTEN"]
    /\ UNCHANGED <<cur, pc, req, cardVars>>

\* Mutated: what a failed read has left in the buffer is cached.
ReadMissCachesAll(s) ==
    /\ pc = "idle"
    /\ Lookup(s) = {}
    /\ pc' = "copy"
    /\ req' = [NoReq EXCEPT !.sec = s, !.data = IF inserted THEN store[card][s] ELSE MaxVersion]
    /\ UNCHANGED <<slot, cur, cardVars>>

\* A read that fails, without the card, leaves the cache alone.
ReadMiss(s) ==
    /\ pc = "idle"
    /\ Lookup(s) = {}
    /\ inserted
    /\ pc' = "copy"
    /\ req' = [NoReq EXCEPT !.sec = s, !.data = store[card][s]]
    /\ UNCHANGED <<slot, cur, cardVars>>

\* MMC_LB_Write, which returns 0 whether there is a card or not.
WriteHit(s) ==
    /\ pc = "idle"
    /\ \E i \in Lookup(s) :
        /\ slot[i].data < MaxVersion
        /\ slot' = [slot EXCEPT ![i].state = "OFTEN", ![i].dirty = TRUE, ![i].data = @ + 1]
    /\ UNCHANGED <<cur, pc, req, cardVars>>

WriteMiss(s) ==
    /\ pc = "idle"
    /\ Lookup(s) = {}
    /\ store[card][s] < MaxVersion
    /\ pc' = "copy"
    /\ req' = [NoReq EXCEPT !.sec = s, !.data = store[card][s] + 1, !.rw = TRUE]
    /\ UNCHANGED <<slot, cur, cardVars>>

\* MMC_LB_MultiRead: every line of the range is written, in the order of the
\* slots, and dropped.
MultiRead(s, c) ==
    /\ pc = "idle"
    /\ pc' = "range"
    /\ req' = [NoReq EXCEPT !.sec = s, !.count = c]
    /\ UNCHANGED <<slot, cur, cardVars>>

FlushRange ==
    /\ pc = "range"
    /\ \E i \in InRange(req.sec, req.count) :
        /\ \A j \in InRange(req.sec, req.count) : i <= j
        /\ CardWrites([s \in {slot[i].block} |-> slot[i].data])
        /\ slot' = [slot EXCEPT ![i] = Freed(@)]
    /\ UNCHANGED <<cur, pc, req, card, inserted>>

ReadRange ==
    /\ pc = "range"
    /\ InRange(req.sec, req.count) = {}
    /\ pc' = "idle"
    /\ req' = NoReq
    /\ UNCHANGED <<slot, cur, cardVars>>

\* MMC_LB_MultiWrite: the lines of the range are dropped, then the card is written.
\* Mutated: they stay.
CloseNothing(s, c) == slot
CloseCACHES(s, c) == [i \in Slot |-> IF i \in InRange(s, c) THEN Freed(slot[i]) ELSE slot[i]]

MultiWrite(s, c) ==
    /\ pc = "idle"
    /\ \A t \in Extent(s, c) : Value(t) < MaxVersion
    /\ slot' = CloseCACHES(s, c)
    /\ CardWrites([t \in Extent(s, c) |-> Value(t) + 1])
    /\ UNCHANGED <<cur, pc, req, card, inserted>>

\* MMC_LB_FLASHCACHE and MMC_LB_Deinit, after which the card is not mounted.
FlashCache ==
    /\ pc = "idle"
    /\ \E deinit \in BOOLEAN : req' = [NoReq EXCEPT !.rw = deinit]
    /\ pc' = "clearPrewrite"
    /\ UNCHANGED <<slot, cur, cardVars>>

ClearCache ==
    \/ pc = "clearPrewrite" /\ DrainOne("PREWRITE") /\ UNCHANGED <<pc, req>>
    \/ pc = "clearPrewrite" /\ Drained("PREWRITE") /\ pc' = "clearOften" /\ UNCHANGED req
    \/ pc = "clearOften" /\ DrainOne("OFTEN") /\ UNCHANGED <<pc, req>>

Cleared ==
    /\ pc = "clearOften"
    /\ InState("OFTEN") = {}
    /\ pc' = IF req.rw THEN "off" ELSE "idle"
    /\ req' = NoReq
    /\ UNCHANGED <<slot, cur, cardVars>>

FileSystem ==
    \/ Mount \/ GiveUp \/ FlashCache
    \/ \E s \in Sector : ReadHit(s) \/ ReadMiss(s) \/ WriteHit(s) \/ WriteMiss(s)
    \/ \E s \in Sector, c \in Count : Inside(s, c) /\ (MultiRead(s, c) \/ MultiWrite(s, c))

Continue ==
    \/ TakeFreeLine \/ CacheFull \/ Evict
    \/ FlushRange \/ ReadRange
    \/ ClearCache \/ Cleared

Next ==
    \/ Pull \/ \E c \in Card : Put(c)
    \/ FileSystem
    \/ Continue

Spec == Init /\ [][Next]_vars

(***************************************************************************)
(* Properties.                                                             *)
(***************************************************************************)
Mounted == pc # "off"

\* The types of the variables; the scan of a lookup starts inside the array.
TypeOK ==
    /\ slot \in [Slot -> Line]
    /\ cur \in Slot
    /\ pc \in {"off", "idle", "copy", "evict", "evictOften", "retry", "range",
              "clearPrewrite", "clearOften"}
    /\ req \in Request
    /\ card \in Card /\ inserted \in BOOLEAN
    /\ store \in [Card -> [Sector -> Nat]]

\* A sector is in one line at most.
LinesDistinct ==
    \A i, j \in Slot : InUse(i) /\ InUse(j) /\ slot[i].block = slot[j].block => i = j

\* The second scan of _MMC_LB_CopyToCache finds a line: it stores through the
\* result without testing it, and one line is never found.
RetryFindsALine == pc = "retry" => InState("FREE") \cap Scanned # {}

\* The lines hold sectors of the card in the slot, and only those are written to
\* it: nothing of the cache is tied to a card but the mounting.
OnlyThisCard == Mounted => \A i \in Slot : InUse(i) => slot[i].of = card

\* A line that is not dirty holds what the card holds, although reads fail and
\* writes are lost while the card is out.
CleanIsCurrent ==
    Mounted => \A i \in Slot :
        InUse(i) /\ ~slot[i].dirty => slot[i].data = store[card][slot[i].block]

\* No sector of a card goes back to an older version: neither by a line written
\* back late, nor by the clean lines that MMC_LB_MultiRead writes.
NoStaleWriteBack == [][\A c \in Card, s \in Sector : store'[c][s] >= store[c][s]]_vars

\* How many steps the call in progress can still take: one for each line there is
\* to write back, and those from one loop to the next.
PhasesLeft ==
    CASE pc \in {"off", "idle"}                          -> 0
      [] pc \in {"range", "clearOften"}                  -> 1
      [] pc \in {"retry", "clearPrewrite"}               -> 2
      [] pc = "evictOften"                               -> 3
      [] pc = "evict"                                    -> 4
      [] pc = "copy"                                     -> 5
LinesInUse == {i \in Slot : InUse(i)}
StepsLeft == Cardinality(LinesInUse) + PhasesLeft

\* Every step of a call brings its return nearer, whatever becomes of the card: a
\* call ends after CACHE_MAX_NUM + 5 steps at the most (the while loops of
\* _MMC_LB_PreWiteToMmc, _MMC_LB_ClearCache and MMC_LB_MultiRead, and the second
\* scan of _MMC_LB_CopyToCache, which looks at one line less than there are).
CallsShrink ==
    [][pc \notin {"off", "idle"} /\ <<pc, slot>>' # <<pc, slot>> => StepsLeft' < StepsLeft]_vars

(***************************************************************************)
(* The inductive invariants.                                               *)
(***************************************************************************)
Filling == {"copy", "evict", "evictOften", "retry"}

\* The sector of a call that fills a line has none yet.
NoLineYet == pc \in Filling => Lookup(req.sec) = {}

\* What a drain has freed can be found: the line that cannot is never taken.
FreedOne ==
    /\ slot[Last].state = "FREE"
    /\ pc = "copy" => ~req.freed
    /\ pc \in {"evict", "evictOften"} /\ req.freed => InState("FREE") \cap Scanned # {}
    /\ pc = "evictOften" => InState("PREWRITE") = {}

ShapeInv == TypeOK /\ LinesDistinct /\ NoLineYet /\ FreedOne /\ RetryFindsALine

\* A dirty line, or a write that waits for a line, is newer than the card.
DirtyIsNewer ==
    Mounted => \A i \in Slot :
        InUse(i) /\ slot[i].dirty => slot[i].data > store[card][slot[i].block]

FillsWithCurrent ==
    pc \in Filling => req.data = store[card][req.sec] + IF req.rw THEN 1 ELSE 0

ContentInv == OnlyThisCard /\ CleanIsCurrent /\ DirtyIsNewer /\ FillsWithCurrent
================================================================================

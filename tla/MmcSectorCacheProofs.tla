-------------------------- MODULE MmcSectorCacheProofs --------------------------
(***************************************************************************)
(* Proofs about MmcSectorCache (src/soc_src/jz4755/drv/mmc/lb_mmc.c), for  *)
(* any number of lines, sectors and cards.  The shape of the cache and the *)
(* end of its calls need no assumption; what the lines hold needs          *)
(* Remounts: the file system mounts a card that another is exchanged for.  *)
(***************************************************************************)
EXTENDS MmcSectorCache, FiniteSetTheorems, TLAPS

\* Line i is written to the card, or only freed.
WrittenBack(i) ==
    /\ slot' \in [Slot -> Line]
    /\ slot'[i].state = "FREE" /\ ~slot'[i].dirty
    /\ \A j \in Slot \ {i} : slot'[j] = slot[j]
    /\ store' \in [Card -> [Sector -> Nat]]
    /\ \A c \in Card, s \in Sector :
          \/ store'[c][s] = store[c][s]
          \/ c = card /\ s = slot[i].block /\ store'[c][s] = slot[i].data

LEMMA WriteBackEffect ==
    ASSUME TypeOK, NEW i \in Slot, slot' = [slot EXCEPT ![i] = Freed(@)],
           CardWrites([s \in {slot[i].block} |-> slot[i].data]) \/ UNCHANGED store
    PROVE  WrittenBack(i)
<1>1. slot[i] \in Line
  BY DEF TypeOK
<1>2. Freed(slot[i]) \in Line /\ Freed(slot[i]).state = "FREE" /\ ~Freed(slot[i]).dirty
  BY <1>1 DEF Freed, Line
<1>3. /\ slot' \in [Slot -> Line]
      /\ slot'[i].state = "FREE" /\ ~slot'[i].dirty
      /\ \A j \in Slot \ {i} : slot'[j] = slot[j]
  BY <1>2 DEF TypeOK
<1>4. slot[i].block \in Sector /\ slot[i].data \in Nat
  BY <1>1 DEF Line
<1>5. CASE CardWrites([s \in {slot[i].block} |-> slot[i].data])
  <2>1. /\ store' \in [Card -> [Sector -> Nat]]
        /\ \A c \in Card, s \in Sector :
             store'[c][s] = IF inserted /\ c = card /\ s \in {slot[i].block}
                            THEN slot[i].data ELSE store[c][s]
    BY <1>4, <1>5 DEF CardWrites, TypeOK
  <2> QED
    BY <1>3, <2>1 DEF WrittenBack
<1>6. CASE UNCHANGED store
  BY <1>3, <1>6 DEF WrittenBack, TypeOK
<1> QED
  BY <1>5, <1>6

\* The parts of the content that are about lines.
LineContent == OnlyThisCard /\ CleanIsCurrent /\ DirtyIsNewer

\* It keeps the lines distinct and in agreement with the card, and no sector gets
\* older.
LEMMA WriteBackKeeps ==
    ASSUME TypeOK, LinesDistinct, NEW i \in Slot, InUse(i), WrittenBack(i)
    PROVE  /\ LinesDistinct'
           /\ LineContent /\ Mounted /\ card' = card =>
                 /\ LineContent'
                 /\ \A c \in Card, s \in Sector : store'[c][s] >= store[c][s]
<1>1. LinesDistinct'
  BY DEF WrittenBack, LinesDistinct, InUse
<1>2. ASSUME LineContent, Mounted, card' = card
      PROVE  LineContent'
  <2>1. \A j \in Slot : InUse(j)' => /\ j # i /\ slot'[j] = slot[j] /\ InUse(j)
                                     /\ slot[j].block # slot[i].block /\ slot[j].block \in Sector
    BY DEF WrittenBack, InUse, LinesDistinct, TypeOK, Line
  <2>2. \A j \in Slot : InUse(j)' => store'[card][slot[j].block] = store[card][slot[j].block]
    BY <2>1 DEF WrittenBack, TypeOK
  <2> QED
    BY <1>2, <2>1, <2>2 DEF LineContent, OnlyThisCard, CleanIsCurrent, DirtyIsNewer
<1>3. ASSUME LineContent, Mounted, NEW c \in Card, NEW s \in Sector
      PROVE  store'[c][s] >= store[c][s]
  <2>1. store[c][s] \in Nat /\ slot[i].data \in Nat
    BY DEF TypeOK, Line
  <2>2. slot[i].data >= store[card][slot[i].block]
    BY <1>3, <2>1 DEF LineContent, CleanIsCurrent, DirtyIsNewer, TypeOK, Line
  <2> QED
    BY <2>1, <2>2 DEF WrittenBack
<1> QED
  BY <1>1, <1>2, <1>3

\* One turn of _MMC_LB_PreWiteToMmc, or of the loop of MMC_LB_MultiRead.
LEMMA DrainEffect ==
    ASSUME TypeOK, NEW st \in {"PREWRITE", "OFTEN"}, DrainOne(st)
    PROVE  /\ \E i \in InState(st) : InUse(i) /\ WrittenBack(i)
           /\ UNCHANGED <<cur, card, inserted>>
<1>1. PICK i \in InState(st) :
          /\ slot' = [slot EXCEPT ![i] = Freed(@)]
          /\ CardWrites([s \in {slot[i].block} |-> slot[i].data]) \/ UNCHANGED store
  BY DEF DrainOne
<1>2. InUse(i) /\ i \in Slot
  BY DEF InState, InUse
<1>3. WrittenBack(i)
  BY <1>1, <1>2, WriteBackEffect
<1> QED
  BY <1>2, <1>3 DEF DrainOne

\* The same of one line of the range.
LEMMA FlushEffect ==
    ASSUME TypeOK, FlushRange
    PROVE  /\ \E i \in Slot : InUse(i) /\ WrittenBack(i)
           /\ pc = "range" /\ UNCHANGED <<cur, pc, req, card, inserted>>
<1>1. PICK i \in InRange(req.sec, req.count) :
          /\ slot' = [slot EXCEPT ![i] = Freed(@)]
          /\ CardWrites([s \in {slot[i].block} |-> slot[i].data])
  BY DEF FlushRange
<1>2. InUse(i) /\ i \in Slot
  BY DEF InRange
<1>3. WrittenBack(i)
  BY <1>1, <1>2, WriteBackEffect
<1> QED
  BY <1>2, <1>3 DEF FlushRange

\* The steps that write lines back: the loops of the drains.
Drains ==
    \/ pc = "evict" /\ DrainOne("PREWRITE") /\ req' = [req EXCEPT !.freed = TRUE] /\ UNCHANGED pc
    \/ pc = "evictOften" /\ DrainOne("OFTEN") /\ UNCHANGED <<pc, req>>
    \/ pc = "clearPrewrite" /\ DrainOne("PREWRITE") /\ UNCHANGED <<pc, req>>
    \/ pc = "clearOften" /\ DrainOne("OFTEN") /\ UNCHANGED <<pc, req>>
    \/ FlushRange

\* Whatever they write back, the call in progress stays what it is.
LEMMA DrainsEffect ==
    ASSUME ShapeInv, Drains
    PROVE  /\ \E i \in Slot : InUse(i) /\ WrittenBack(i)
           /\ UNCHANGED <<cur, pc, card, inserted>>
           /\ req' \in Request
           /\ req'.sec = req.sec /\ req'.rw = req.rw /\ req'.data = req.data
           /\ pc = "evictOften" => req' = req
           /\ pc \in {"evict", "evictOften", "clearPrewrite", "clearOften", "range"}
<1> USE DEF ShapeInv, InState
<1>0. req \in Request
  BY DEF TypeOK
<1>1. CASE pc = "evict" /\ DrainOne("PREWRITE") /\ req' = [req EXCEPT !.freed = TRUE]
           /\ UNCHANGED pc
  <2>1. \E i \in Slot : InUse(i) /\ WrittenBack(i)
    BY <1>1, DrainEffect
  <2>2. UNCHANGED <<cur, card, inserted>>
    BY <1>1, DrainEffect
  <2> QED
    BY <1>0, <1>1, <2>1, <2>2 DEF Request
<1>2. ASSUME NEW st \in {"PREWRITE", "OFTEN"}, DrainOne(st), UNCHANGED <<pc, req>>,
             pc \in {"evictOften", "clearPrewrite", "clearOften"}
      PROVE  /\ \E i \in Slot : InUse(i) /\ WrittenBack(i)
             /\ UNCHANGED <<cur, pc, req, card, inserted>>
  BY <1>2, DrainEffect
<1>3. CASE FlushRange
  BY <1>0, <1>3, FlushEffect
<1> QED
  BY <1>0, <1>1, <1>2, <1>3 DEF Drains

\* A line that is freed can be found by the scan: it is not the last one.
LEMMA DrainsShape ==
    ASSUME ShapeInv, Drains
    PROVE  ShapeInv'
<1>1. PICK i \in Slot : InUse(i) /\ WrittenBack(i)
  BY DrainsEffect
<1>2. TypeOK'
  BY <1>1, DrainsEffect DEF ShapeInv, TypeOK, WrittenBack
<1>3. LinesDistinct'
  BY <1>1, WriteBackKeeps DEF ShapeInv
<1>4. \A j \in Slot : InUse(j)' => InUse(j) /\ slot'[j] = slot[j]
  BY <1>1 DEF WrittenBack, InUse
<1>5. NoLineYet'
  BY <1>4, DrainsEffect DEF ShapeInv, NoLineYet, Lookup
<1>6. i # Last /\ i \in Scanned
  BY <1>1 DEF ShapeInv, FreedOne, InUse, Scanned
<1>7. Last \in Slot
  BY MmcCacheAssumption DEF Last, Slot
<1>8. i \in InState("FREE")' \cap Scanned
  BY <1>1, <1>6 DEF WrittenBack, InState
<1>9. slot'[Last].state = "FREE"
  BY <1>1, <1>6, <1>7 DEF ShapeInv, FreedOne, WrittenBack
<1>10. InState("PREWRITE")' \subseteq InState("PREWRITE")
  BY <1>1 DEF WrittenBack, InState
<1>11. FreedOne' /\ RetryFindsALine'
  BY <1>8, <1>9, <1>10, DrainsEffect DEF ShapeInv, FreedOne, RetryFindsALine
<1> QED
  BY <1>2, <1>3, <1>5, <1>11 DEF ShapeInv

\* What is written back is not older than the card, and is no fill's sector.
LEMMA DrainsContent ==
    ASSUME ShapeInv, ContentInv, Drains
    PROVE  /\ ContentInv'
           /\ \A c \in Card, s \in Sector : store'[c][s] >= store[c][s]
<1>1. PICK i \in Slot : InUse(i) /\ WrittenBack(i)
  BY DrainsEffect
<1>2. Mounted
  BY DrainsEffect DEF Mounted
<1>3. LineContent' /\ \A c \in Card, s \in Sector : store'[c][s] >= store[c][s]
  BY <1>1, <1>2, WriteBackKeeps, DrainsEffect DEF ShapeInv, ContentInv, LineContent
<1>4. FillsWithCurrent'
  <2> SUFFICES ASSUME pc \in Filling
               PROVE  store'[card][req.sec] = store[card][req.sec]
    BY DrainsEffect DEF FillsWithCurrent, ContentInv
  <2>1. slot[i].block # req.sec
    BY <1>1 DEF ShapeInv, NoLineYet, Lookup
  <2> QED
    BY <1>1, <2>1 DEF WrittenBack, ShapeInv, TypeOK, Request
<1> QED
  BY <1>3, <1>4 DEF ContentInv, LineContent

\* The argument records of the calls.
LEMMA Requests ==
    ASSUME NEW s \in Sector, NEW d \in Nat
    PROVE  /\ NoReq \in Request
           /\ \A rw \in BOOLEAN : [NoReq EXCEPT !.rw = rw] \in Request
           /\ [NoReq EXCEPT !.sec = s, !.data = d] \in Request
           /\ [NoReq EXCEPT !.sec = s, !.data = d, !.rw = TRUE] \in Request
<1>1. 0 \in Sector
  BY DeviceAssumption DEF Sector
<1>2. NoReq \in Request
  BY <1>1 DEF Request, NoReq
<1>3. ASSUME NEW r \in Request, NEW rw \in BOOLEAN
      PROVE  [r EXCEPT !.rw = rw] \in Request
  BY DEF Request
<1>4. ASSUME NEW r \in Request
      PROVE  [r EXCEPT !.sec = s, !.data = d] \in Request
  BY DEF Request
<1>5. [[NoReq EXCEPT !.sec = s, !.data = d] EXCEPT !.rw = TRUE] \in Request
  BY <1>2, <1>3, <1>4
<1> QED
  BY <1>2, <1>3, <1>4, <1>5

\* The steps that leave the lines alone.
Begins ==
    \/ Pull \/ (\E c \in Card : Put(c)) \/ GiveUp \/ FlashCache
    \/ \E s \in Sector : ReadMiss(s) \/ WriteMiss(s)
    \/ \E s \in Sector, c \in Count : MultiRead(s, c)
    \/ ReadRange \/ Cleared \/ CacheFull
    \/ pc = "evict" /\ Drained("PREWRITE") /\ UNCHANGED req
           /\ pc' = IF EvictMore THEN "evictOften" ELSE "retry"
    \/ pc = "evictOften" /\ Drained("OFTEN") /\ pc' = "retry" /\ UNCHANGED req
    \/ pc = "clearPrewrite" /\ Drained("PREWRITE") /\ pc' = "clearOften" /\ UNCHANGED req
    \/ UNCHANGED vars

\* They change the call in progress, or what is in the slot.
LEMMA BeginsTypes ==
    ASSUME TypeOK, Begins
    PROVE  TypeOK' /\ UNCHANGED <<slot, store>>
<1> USE DEF TypeOK
<1>1. CASE Pull \/ (\E c \in Card : Put(c)) \/ GiveUp
  BY <1>1 DEF Pull, Put, GiveUp, cacheVars, cardVars
<1>2. CASE FlashCache \/ ReadRange \/ Cleared
  <2>1. 0 \in Sector
    BY DeviceAssumption DEF Sector
  <2>2. NoReq \in Request /\ \A rw \in BOOLEAN : [NoReq EXCEPT !.rw = rw] \in Request
    BY <2>1, Requests
  <2>3. req' \in Request
    BY <1>2, <2>2 DEF FlashCache, ReadRange, Cleared
  <2> QED
    BY <1>2, <2>3 DEF FlashCache, ReadRange, Cleared, cardVars
<1>3. ASSUME NEW s \in Sector, ReadMiss(s) \/ WriteMiss(s)
      PROVE  TypeOK' /\ UNCHANGED <<slot, store>>
  <2>1. store[card][s] \in Nat /\ store[card][s] + 1 \in Nat
    OBVIOUS
  <2>2. \/ req' = [NoReq EXCEPT !.sec = s, !.data = store[card][s]]
        \/ req' = [NoReq EXCEPT !.sec = s, !.data = store[card][s] + 1, !.rw = TRUE]
    BY <1>3 DEF ReadMiss, WriteMiss
  <2>3. req' \in Request
    BY <2>1, <2>2, Requests
  <2> QED
    BY <1>3, <2>3 DEF ReadMiss, WriteMiss, cardVars
<1>4. ASSUME NEW s \in Sector, NEW c \in Count, MultiRead(s, c)
      PROVE  TypeOK' /\ UNCHANGED <<slot, store>>
  <2>1. c \in Nat
    BY DeviceAssumption DEF Count
  <2>2. req' \in Request
    BY <1>4, <2>1 DEF MultiRead, Request, NoReq
  <2> QED
    BY <1>4, <2>2 DEF MultiRead, cardVars
<1>5. CASE CacheFull
  <2>1. Start + 1 \in Slot
    BY MmcCacheAssumption DEF Start, Slot, Last
  <2> QED
    BY <1>5, <2>1 DEF CacheFull, cardVars
<1>6. CASE UNCHANGED vars
  BY <1>6 DEF vars, cacheVars, cardVars
<1> QED
  BY <1>1, <1>2, <1>3, <1>4, <1>5, <1>6 DEF Begins, Drained, cardVars

\* A step that begins a fill has found no line; a drain that ends has freed all
\* of its class.
LEMMA BeginsShape ==
    ASSUME ShapeInv, Begins
    PROVE  ShapeInv'
<1>1. TypeOK' /\ UNCHANGED <<slot, store>>
  BY BeginsTypes DEF ShapeInv
<1> USE <1>1 DEF ShapeInv, LinesDistinct, NoLineYet, FreedOne, RetryFindsALine, Filling,
                 Lookup, InState, InUse
<1>2. CASE Pull \/ (\E c \in Card : Put(c)) \/ GiveUp \/ FlashCache \/ ReadRange \/ Cleared
  BY <1>2 DEF Pull, Put, GiveUp, FlashCache, ReadRange, Cleared, cacheVars, cardVars
<1>3. ASSUME NEW s \in Sector, ReadMiss(s) \/ WriteMiss(s)
      PROVE  ShapeInv'
  BY <1>3 DEF ReadMiss, WriteMiss, NoReq
<1>4. ASSUME NEW s \in Sector, NEW c \in Count, MultiRead(s, c)
      PROVE  ShapeInv'
  BY <1>4 DEF MultiRead
<1>5. CASE CacheFull
  <2>1. pc' = "evict" /\ UNCHANGED req /\ pc = "copy"
    BY <1>5 DEF CacheFull
  <2>2. ~req.freed
    BY <2>1
  <2> QED
    BY <2>1, <2>2
<1>6. CASE UNCHANGED vars
  BY <1>6 DEF vars, cacheVars
<1>7. CASE pc = "evict" /\ Drained("PREWRITE") /\ UNCHANGED req
           /\ pc' = IF EvictMore THEN "evictOften" ELSE "retry"
  BY <1>7 DEF Drained, EvictMore
<1>8. CASE pc = "evictOften" /\ Drained("OFTEN") /\ pc' = "retry" /\ UNCHANGED req
  <2>1. 0 \in Slot /\ 0 \in Scanned
    BY MmcCacheAssumption DEF Slot, Scanned, Last
  <2>2. slot[0].state \in {"FREE", "PREWRITE", "OFTEN"}
    BY <2>1 DEF TypeOK, Line
  <2>3. slot[0].state = "FREE"
    BY <1>8, <2>1, <2>2 DEF Drained
  <2> QED
    BY <1>8, <2>1, <2>3
<1>9. CASE pc = "clearPrewrite" /\ Drained("PREWRITE") /\ pc' = "clearOften" /\ UNCHANGED req
  BY <1>9
<1> QED
  BY <1>2, <1>3, <1>4, <1>5, <1>6, <1>7, <1>8, <1>9 DEF Begins

\* A fill starts with what the card holds; a card is exchanged while nothing is mounted.
LEMMA BeginsContent ==
    ASSUME ShapeInv, ContentInv, Remounts, Begins
    PROVE  ContentInv'
<1>1. UNCHANGED <<slot, store>> /\ TypeOK
  BY BeginsTypes DEF ShapeInv
<1>2. UNCHANGED card \/ (pc = "off" /\ UNCHANGED pc)
  BY DEF Begins, Pull, Put, GiveUp, FlashCache, ReadMiss, WriteMiss, MultiRead, ReadRange,
         Cleared, CacheFull, Drained, cacheVars, cardVars, vars
<1>3. pc' # "off" => pc # "off"
  BY DEF Begins, Pull, Put, GiveUp, FlashCache, ReadMiss, WriteMiss, MultiRead, ReadRange,
         Cleared, CacheFull, Drained, cacheVars, cardVars, vars
<1>4. LineContent'
  BY <1>1, <1>2, <1>3
     DEF ContentInv, LineContent, OnlyThisCard, CleanIsCurrent, DirtyIsNewer, Mounted, InUse
<1>5. FillsWithCurrent'
  <2> USE <1>1 DEF FillsWithCurrent, Filling, ContentInv
  <2>1. ASSUME NEW s \in Sector, ReadMiss(s) \/ WriteMiss(s)
        PROVE  FillsWithCurrent'
    <3>1. \/ req' = [NoReq EXCEPT !.sec = s, !.data = store[card][s]]
          \/ req' = [NoReq EXCEPT !.sec = s, !.data = store[card][s] + 1, !.rw = TRUE]
      BY <2>1 DEF ReadMiss, WriteMiss
    <3>2. card' = card /\ store[card][s] \in Nat
      BY <2>1 DEF ReadMiss, WriteMiss, cardVars, TypeOK
    <3>3. CASE req' = [NoReq EXCEPT !.sec = s, !.data = store[card][s]]
      <4>1. req'.sec = s /\ req'.data = store[card][s] /\ ~req'.rw
        BY <3>3 DEF NoReq
      <4> QED
        BY <3>2, <4>1
    <3>4. CASE req' = [NoReq EXCEPT !.sec = s, !.data = store[card][s] + 1, !.rw = TRUE]
      <4>1. req'.sec = s /\ req'.data = store[card][s] + 1 /\ req'.rw
        BY <3>4 DEF NoReq
      <4> QED
        BY <3>2, <4>1
    <3> QED
      BY <3>1, <3>3, <3>4
  <2>2. ASSUME UNCHANGED req, pc' \in Filling => pc \in Filling
        PROVE  FillsWithCurrent'
    BY <1>2, <2>2
  <2>3. CASE pc' \notin Filling
    BY <2>3
  <2> QED
    BY <2>1, <2>2, <2>3
       DEF Begins, Pull, Put, GiveUp, FlashCache, MultiRead, ReadRange, Cleared, CacheFull,
           Drained, cacheVars, cardVars, vars
<1> QED
  BY <1>4, <1>5 DEF ContentInv, LineContent

\* The scan finds a line that is free and not the last one; the sector has no other.
LEMMA TakeEffect ==
    ASSUME ShapeInv, TakeFreeLine
    PROVE  \E i \in Slot :
             /\ i # Last /\ cur' = i
             /\ slot'[i] = [state |-> "PREWRITE", block |-> req.sec, dirty |-> req.rw,
                            data |-> req.data, of |-> card]
             /\ \A j \in Slot \ {i} : slot'[j] = slot[j]
             /\ slot' \in [Slot -> Line]
<1>1. PICK i \in InState("FREE") \cap Scanned :
         /\ cur' = i
         /\ slot' = [slot EXCEPT ![i] = [state |-> "PREWRITE", block |-> req.sec,
                                         dirty |-> req.rw, data |-> req.data, of |-> card]]
  BY DEF TakeFreeLine
<1>2. i \in Slot /\ i # Last
  BY DEF Scanned, InState
<1>3. [state |-> "PREWRITE", block |-> req.sec, dirty |-> req.rw, data |-> req.data,
       of |-> card] \in Line
  BY DEF ShapeInv, TypeOK, Request, Line
<1> QED
  BY <1>1, <1>2, <1>3 DEF ShapeInv, TypeOK

\* The last line stays free.
LEMMA TakeShape ==
    ASSUME ShapeInv, TakeFreeLine
    PROVE  ShapeInv'
<1>1. PICK i \in Slot :
             /\ i # Last /\ cur' = i
             /\ slot'[i] = [state |-> "PREWRITE", block |-> req.sec, dirty |-> req.rw,
                            data |-> req.data, of |-> card]
             /\ \A j \in Slot \ {i} : slot'[j] = slot[j]
             /\ slot' \in [Slot -> Line]
  BY TakeEffect
<1>2. pc \in Filling /\ pc' = "idle" /\ req' = NoReq /\ UNCHANGED cardVars
  BY DEF TakeFreeLine, Filling
<1>3. NoReq \in Request
  <2>1. 0 \in Sector
    BY DeviceAssumption DEF Sector
  <2> QED
    BY <2>1, Requests
<1>4. TypeOK'
  BY <1>1, <1>2, <1>3 DEF ShapeInv, TypeOK, cardVars
<1>5. slot'[i].block = req.sec /\ \A j \in Slot \ {i} : InUse(j)' => InUse(j) /\ slot[j].block # req.sec
  BY <1>1, <1>2 DEF ShapeInv, NoLineYet, Lookup, InUse
<1>6. LinesDistinct'
  BY <1>1, <1>5 DEF ShapeInv, LinesDistinct, InUse
<1>7. Last \in Slot
  BY MmcCacheAssumption DEF Last, Slot
<1>8. NoLineYet' /\ FreedOne' /\ RetryFindsALine'
  BY <1>1, <1>2, <1>7 DEF ShapeInv, NoLineYet, FreedOne, RetryFindsALine, Filling
<1> QED
  BY <1>4, <1>6, <1>8 DEF ShapeInv

\* The line is clean and current, or dirty and newer.
LEMMA TakeContent ==
    ASSUME ShapeInv, ContentInv, TakeFreeLine
    PROVE  ContentInv'
<1>1. PICK i \in Slot :
             /\ i # Last /\ cur' = i
             /\ slot'[i] = [state |-> "PREWRITE", block |-> req.sec, dirty |-> req.rw,
                            data |-> req.data, of |-> card]
             /\ \A j \in Slot \ {i} : slot'[j] = slot[j]
             /\ slot' \in [Slot -> Line]
  BY TakeEffect
<1>2. pc \in Filling /\ pc' = "idle" /\ UNCHANGED cardVars
  BY DEF TakeFreeLine, Filling
<1>3. /\ slot'[i].of = card /\ slot'[i].block = req.sec
      /\ slot'[i].data = req.data /\ slot'[i].dirty = req.rw
  BY <1>1
<1>4. req.rw \in BOOLEAN /\ store[card][req.sec] \in Nat
  BY DEF ShapeInv, TypeOK, Request
<1>5. Mounted
  BY <1>2 DEF Filling, Mounted
<1>6. LineContent'
  BY <1>1, <1>2, <1>3, <1>4, <1>5
     DEF ContentInv, LineContent, OnlyThisCard, CleanIsCurrent, DirtyIsNewer, FillsWithCurrent,
         InUse, cardVars
<1>7. FillsWithCurrent'
  BY <1>2 DEF FillsWithCurrent, Filling
<1> QED
  BY <1>6, <1>7 DEF ContentInv, LineContent

\* A hit: the line becomes OFTEN; a write makes it dirty, and newer.
Hits(s) == ReadHit(s) \/ WriteHit(s)

LEMMA HitEffect ==
    ASSUME TypeOK, NEW s \in Sector, Hits(s)
    PROVE  /\ \E i \in Slot :
               /\ InUse(i) /\ slot' \in [Slot -> Line]
               /\ \A j \in Slot \ {i} : slot'[j] = slot[j]
               /\ slot'[i].state = "OFTEN" /\ slot'[i].block = slot[i].block
               /\ slot'[i].of = slot[i].of
               /\ \/ slot'[i].dirty = slot[i].dirty /\ slot'[i].data = slot[i].data
                  \/ slot'[i].dirty /\ slot'[i].data = slot[i].data + 1
           /\ pc = "idle" /\ UNCHANGED <<cur, pc, req, cardVars>>
<1>1. CASE ReadHit(s)
  <2>1. PICK i \in Lookup(s) : slot' = [slot EXCEPT ![i].state = "OFTEN"]
    BY <1>1 DEF ReadHit
  <2>2. i \in Slot /\ InUse(i) /\ slot[i] \in Line
    BY DEF Lookup, TypeOK
  <2>3. slot' = [slot EXCEPT ![i] = [slot[i] EXCEPT !.state = "OFTEN"]]
    BY <2>1
  <2>4. [slot[i] EXCEPT !.state = "OFTEN"] \in Line
    BY <2>2 DEF Line
  <2>5. slot'[i] = [slot[i] EXCEPT !.state = "OFTEN"] /\ \A j \in Slot \ {i} : slot'[j] = slot[j]
    BY <2>2, <2>3 DEF TypeOK
  <2>6. /\ slot'[i].state = "OFTEN" /\ slot'[i].block = slot[i].block
        /\ slot'[i].of = slot[i].of /\ slot'[i].data = slot[i].data
    BY <2>2, <2>5 DEF Line
  <2>7. slot'[i].dirty = slot[i].dirty
    BY <2>2, <2>5 DEF Line
  <2>8. slot' \in [Slot -> Line]
    BY <2>2, <2>3, <2>4 DEF TypeOK
  <2> QED
    BY <1>1, <2>2, <2>5, <2>6, <2>7, <2>8 DEF ReadHit
<1>2. CASE WriteHit(s)
  <2>1. PICK i \in Lookup(s) :
           slot' = [slot EXCEPT ![i].state = "OFTEN", ![i].dirty = TRUE, ![i].data = @ + 1]
    BY <1>2 DEF WriteHit
  <2>2. i \in Slot /\ InUse(i) /\ slot[i] \in Line
    BY DEF Lookup, TypeOK
  <2>3. /\ slot'[i].state = "OFTEN" /\ slot'[i].block = slot[i].block
        /\ slot'[i].of = slot[i].of /\ slot'[i].data = slot[i].data + 1
        /\ slot'[i].dirty
    BY <2>1, <2>2 DEF TypeOK, Line
  <2>4. \A j \in Slot \ {i} : slot'[j] = slot[j]
    BY <2>1, <2>2 DEF TypeOK
  <2>5. slot' \in [Slot -> Line]
    <3> DEFINE written == [slot[i] EXCEPT !.state = "OFTEN", !.dirty = TRUE, !.data = @ + 1]
    <3>1. slot' = [slot EXCEPT ![i] = written]
      BY <2>1
    <3>2. written \in Line
      <4>1. \A r \in Line : [r EXCEPT !.state = "OFTEN"] \in Line
        BY DEF Line
      <4>2. \A r \in Line : [r EXCEPT !.dirty = TRUE] \in Line
        BY DEF Line
      <4>3. \A r \in Line : [r EXCEPT !.data = @ + 1] \in Line
        BY DEF Line
      <4>4. [[[slot[i] EXCEPT !.state = "OFTEN"] EXCEPT !.dirty = TRUE] EXCEPT !.data = @ + 1]
               \in Line
        BY <2>2, <4>1, <4>2, <4>3
      <4> QED
        BY <4>4
    <3> HIDE DEF written
    <3> QED
      BY <2>2, <3>1, <3>2 DEF TypeOK
  <2> QED
    BY <1>2, <2>2, <2>3, <2>4, <2>5 DEF WriteHit
<1> QED
  BY <1>1, <1>2 DEF Hits

\* The sector of the line stays what it is, so the lines stay distinct.
LEMMA HitShape ==
    ASSUME ShapeInv, NEW s \in Sector, Hits(s)
    PROVE  ShapeInv'
<1>1. PICK i \in Slot :
           /\ InUse(i) /\ slot' \in [Slot -> Line]
           /\ \A j \in Slot \ {i} : slot'[j] = slot[j]
           /\ slot'[i].state = "OFTEN" /\ slot'[i].block = slot[i].block
  BY HitEffect DEF ShapeInv
<1>2. pc = "idle" /\ UNCHANGED <<cur, pc, req, cardVars>>
  BY HitEffect DEF ShapeInv
<1>3. TypeOK'
  BY <1>1, <1>2 DEF ShapeInv, TypeOK, cardVars
<1>4. LinesDistinct'
  BY <1>1 DEF ShapeInv, LinesDistinct, InUse
<1>5. i # Last /\ Last \in Slot
  BY <1>1, MmcCacheAssumption DEF ShapeInv, FreedOne, InUse, Last, Slot
<1>6. NoLineYet' /\ FreedOne' /\ RetryFindsALine'
  BY <1>1, <1>2, <1>5 DEF ShapeInv, NoLineYet, FreedOne, RetryFindsALine, Filling
<1> QED
  BY <1>3, <1>4, <1>6 DEF ShapeInv

\* A line that is written holds one more than a version that was not older.
LEMMA HitContent ==
    ASSUME ShapeInv, ContentInv, NEW s \in Sector, Hits(s)
    PROVE  ContentInv'
<1>1. PICK i \in Slot :
           /\ InUse(i) /\ slot' \in [Slot -> Line]
           /\ \A j \in Slot \ {i} : slot'[j] = slot[j]
           /\ slot'[i].state = "OFTEN" /\ slot'[i].block = slot[i].block
           /\ slot'[i].of = slot[i].of
           /\ \/ slot'[i].dirty = slot[i].dirty /\ slot'[i].data = slot[i].data
              \/ slot'[i].dirty /\ slot'[i].data = slot[i].data + 1
  BY HitEffect DEF ShapeInv
<1>2. pc = "idle" /\ UNCHANGED <<cur, pc, req, cardVars>>
  BY HitEffect DEF ShapeInv
<1>3. Mounted /\ pc \notin Filling /\ card' = card /\ store' = store
  BY <1>2 DEF Mounted, Filling, cardVars
<1>4. slot[i].data \in Nat /\ store[card][slot[i].block] \in Nat
  BY DEF ShapeInv, TypeOK, Line
<1>5. slot[i].data >= store[card][slot[i].block]
  BY <1>1, <1>3, <1>4 DEF ContentInv, CleanIsCurrent, DirtyIsNewer
<1>6. OnlyThisCard'
  BY <1>1, <1>3 DEF ContentInv, OnlyThisCard, InUse
<1>7. CleanIsCurrent'
  BY <1>1, <1>3, <1>4 DEF ContentInv, CleanIsCurrent, InUse
<1>8. DirtyIsNewer'
  <2>1. ASSUME NEW j \in Slot, InUse(j)', slot'[j].dirty
        PROVE  slot'[j].data > store[card][slot'[j].block]
    <3>1. CASE j # i
      BY <1>1, <1>3, <2>1, <3>1 DEF ContentInv, DirtyIsNewer, InUse
    <3>2. CASE j = i
      BY <1>1, <1>3, <1>4, <1>5, <2>1, <3>2 DEF ContentInv, DirtyIsNewer
    <3> QED
      BY <3>1, <3>2
  <2> QED
    BY <1>3, <2>1 DEF DirtyIsNewer
<1>9. FillsWithCurrent'
  BY <1>2, <1>3 DEF FillsWithCurrent, Filling
<1> QED
  BY <1>6, <1>7, <1>8, <1>9 DEF ContentInv

\* MMC_LB_MultiWrite drops the lines of the range and writes the card; the other
\* lines are about other sectors.
LEMMA MultiWriteEffect ==
    ASSUME TypeOK, NEW s \in Sector, NEW c \in Count, MultiWrite(s, c)
    PROVE  /\ pc = "idle" /\ UNCHANGED <<cur, pc, req, card, inserted>>
           /\ slot' \in [Slot -> Line]
           /\ \A j \in Slot : slot'[j].state # "FREE" =>
                  slot'[j] = slot[j] /\ slot[j].block \notin Extent(s, c)
           /\ store' \in [Card -> [Sector -> Nat]]
           /\ \A k \in Card, t \in Sector :
                 \/ store'[k][t] = store[k][t]
                 \/ k = card /\ t \in Extent(s, c) /\ store'[k][t] = Value(t) + 1
<1>1. pc = "idle" /\ UNCHANGED <<cur, pc, req, card, inserted>>
  BY DEF MultiWrite
<1>2. \A j \in Slot : slot'[j] = IF j \in InRange(s, c) THEN Freed(slot[j]) ELSE slot[j]
  BY DEF MultiWrite, CloseCACHES
<1>3. \A j \in Slot : slot[j] \in Line /\ Freed(slot[j]) \in Line
                      /\ Freed(slot[j]).state = "FREE"
  BY DEF TypeOK, Line, Freed
<1>4. slot' \in [Slot -> Line]
  BY <1>3 DEF MultiWrite, CloseCACHES
<1>5. \A j \in Slot : slot'[j].state # "FREE" =>
          slot'[j] = slot[j] /\ slot[j].block \notin Extent(s, c)
  BY <1>2, <1>3 DEF InRange, InUse
<1>6. \A t \in Sector : Value(t) \in Nat
  <2> TAKE t \in Sector
  <2>1. CASE Lookup(t) = {}
    BY <2>1 DEF Value, TypeOK
  <2>2. CASE Lookup(t) # {}
    <3>1. (CHOOSE i \in Lookup(t) : TRUE) \in Slot
      BY <2>2 DEF Lookup
    <3> QED
      BY <2>2, <3>1, <1>3 DEF Value, Line
  <2> QED
    BY <2>1, <2>2
<1> DEFINE f == [t \in Extent(s, c) |-> Value(t) + 1]
<1>7. CardWrites(f)
  BY DEF MultiWrite
<1>8. DOMAIN f = Extent(s, c) /\ \A t \in Extent(s, c) : f[t] = Value(t) + 1
  OBVIOUS
<1> HIDE DEF f
<1>9. CASE ~inserted
  BY <1>1, <1>4, <1>5, <1>7, <1>9 DEF CardWrites, TypeOK
<1>10. CASE inserted
  <2> DEFINE g == [t \in Sector |-> IF t \in DOMAIN f THEN f[t] ELSE store[card][t]]
  <2>1. store' = [store EXCEPT ![card] = g]
    BY <1>7, <1>10 DEF CardWrites
  <2>2. g \in [Sector -> Nat]
    BY <1>6, <1>8 DEF TypeOK
  <2>3. \A t \in Sector : g[t] = IF t \in Extent(s, c) THEN Value(t) + 1 ELSE store[card][t]
    BY <1>8
  <2> HIDE DEF g
  <2>4. store' \in [Card -> [Sector -> Nat]]
    BY <2>1, <2>2 DEF TypeOK
  <2>5. \A k \in Card, t \in Sector :
          store'[k][t] = IF k = card THEN g[t] ELSE store[k][t]
    BY <2>1 DEF TypeOK
  <2>6. \A k \in Card, t \in Sector :
                 \/ store'[k][t] = store[k][t]
                 \/ k = card /\ t \in Extent(s, c) /\ store'[k][t] = Value(t) + 1
    BY <2>3, <2>5
  <2> QED
    BY <1>1, <1>4, <1>5, <2>4, <2>6
<1> QED
  BY <1>9, <1>10

\* What the file system finds in a sector is not older than the card.
LEMMA ValueNotOlder ==
    ASSUME ShapeInv, ContentInv, Mounted, NEW t \in Sector
    PROVE  Value(t) \in Nat /\ Value(t) >= store[card][t] /\ store[card][t] \in Nat
<1>1. store[card][t] \in Nat
  BY DEF ShapeInv, TypeOK
<1>2. CASE Lookup(t) = {}
  BY <1>1, <1>2 DEF Value
<1>3. CASE Lookup(t) # {}
  <2> DEFINE i == CHOOSE i \in Lookup(t) : TRUE
  <2>1. i \in Slot /\ InUse(i) /\ slot[i].block = t
    BY <1>3 DEF Lookup
  <2>2. Value(t) = slot[i].data
    BY <1>3 DEF Value
  <2> HIDE DEF i
  <2>3. slot[i].data \in Nat /\ slot[i].dirty \in BOOLEAN
    BY <2>1 DEF ShapeInv, TypeOK, Line
  <2>4. slot[i].data = store[card][t] \/ slot[i].data > store[card][t]
    BY <2>1, <2>3 DEF ContentInv, CleanIsCurrent, DirtyIsNewer
  <2> QED
    BY <1>1, <2>2, <2>3, <2>4
<1> QED
  BY <1>2, <1>3

\* It leaves fewer lines.
LEMMA MultiWriteShape ==
    ASSUME ShapeInv, NEW s \in Sector, NEW c \in Count, MultiWrite(s, c)
    PROVE  ShapeInv'
<1>1. /\ pc = "idle" /\ UNCHANGED <<cur, pc, req, card, inserted>>
      /\ slot' \in [Slot -> Line]
      /\ \A j \in Slot : slot'[j].state = "FREE" \/ slot'[j] = slot[j]
      /\ store' \in [Card -> [Sector -> Nat]]
  BY MultiWriteEffect DEF ShapeInv
<1>2. TypeOK'
  BY <1>1 DEF ShapeInv, TypeOK
<1>3. LinesDistinct'
  BY <1>1 DEF ShapeInv, LinesDistinct, InUse
<1>4. Last \in Slot
  BY MmcCacheAssumption DEF Last, Slot
<1>5. NoLineYet' /\ FreedOne' /\ RetryFindsALine'
  BY <1>1, <1>4 DEF ShapeInv, NoLineYet, FreedOne, RetryFindsALine, Filling
<1> QED
  BY <1>2, <1>3, <1>5 DEF ShapeInv

\* The range gets newer, and has no lines.
LEMMA MultiWriteContent ==
    ASSUME ShapeInv, ContentInv, NEW s \in Sector, NEW c \in Count, MultiWrite(s, c)
    PROVE  ContentInv' /\ \A k \in Card, t \in Sector : store'[k][t] >= store[k][t]
<1>1. /\ pc = "idle" /\ UNCHANGED <<cur, pc, req, card, inserted>>
      /\ \A j \in Slot : slot'[j].state # "FREE" =>
             slot'[j] = slot[j] /\ slot[j].block \notin Extent(s, c)
      /\ \A k \in Card, t \in Sector :
            \/ store'[k][t] = store[k][t]
            \/ k = card /\ t \in Extent(s, c) /\ store'[k][t] = Value(t) + 1
  BY MultiWriteEffect DEF ShapeInv
<1>2. Mounted /\ card \in Card
  BY <1>1 DEF Mounted, ShapeInv, TypeOK
<1>3. \A k \in Card, t \in Sector : store'[k][t] >= store[k][t]
  <2> TAKE k \in Card, t \in Sector
  <2>1. store[k][t] \in Nat
    BY DEF ShapeInv, TypeOK
  <2>2. Value(t) \in Nat /\ Value(t) >= store[card][t]
    BY <1>2, ValueNotOlder
  <2> QED
    BY <1>1, <2>1, <2>2
<1>4. \A j \in Slot : InUse(j)' =>
         /\ InUse(j) /\ slot'[j] = slot[j]
         /\ store'[card][slot[j].block] = store[card][slot[j].block]
  <2> TAKE j \in Slot
  <2>1. slot[j].block \in Sector
    BY DEF ShapeInv, TypeOK, Line
  <2> QED
    BY <1>1, <1>2, <2>1 DEF InUse
<1>5. OnlyThisCard' /\ CleanIsCurrent' /\ DirtyIsNewer'
  BY <1>1, <1>2, <1>4 DEF ContentInv, OnlyThisCard, CleanIsCurrent, DirtyIsNewer
<1>6. FillsWithCurrent'
  BY <1>1 DEF FillsWithCurrent, Filling
<1> QED
  BY <1>3, <1>5, <1>6 DEF ContentInv

\* MMC_LB_Init frees every line.
Fresh ==
    /\ slot = AllFree /\ cur = 0 /\ pc \in {"off", "idle"} /\ req \in Request
    /\ card \in Card /\ inserted \in BOOLEAN /\ store \in [Card -> [Sector -> Nat]]

LEMMA FreeShape == Fresh => ShapeInv /\ ContentInv
<1> SUFFICES ASSUME Fresh PROVE ShapeInv /\ ContentInv
  OBVIOUS
<1> USE DEF Fresh
<1>1. 0 \in Sector /\ 0 \in Slot /\ Last \in Slot
  BY DeviceAssumption, MmcCacheAssumption DEF Sector, Slot, Last
<1>2. \A i \in Slot : slot[i] = [state |-> "FREE", block |-> 0, dirty |-> FALSE, data |-> 0,
                                 of |-> card]
  BY DEF AllFree
<1>3. [state |-> "FREE", block |-> 0, dirty |-> FALSE, data |-> 0, of |-> card] \in Line
  BY <1>1 DEF Line
<1>4. slot \in [Slot -> Line]
  BY <1>3 DEF AllFree
<1>5. TypeOK
  BY <1>1, <1>4 DEF TypeOK
<1>6. \A i \in Slot : ~InUse(i)
  BY <1>2 DEF InUse
<1>7. LinesDistinct /\ NoLineYet /\ FreedOne /\ RetryFindsALine
  BY <1>1, <1>6 DEF LinesDistinct, NoLineYet, FreedOne, RetryFindsALine, Filling, InUse
<1>8. ContentInv
  BY <1>6 DEF ContentInv, OnlyThisCard, CleanIsCurrent, DirtyIsNewer, FillsWithCurrent, Filling
<1> QED
  BY <1>5, <1>7, <1>8 DEF ShapeInv

\* The steps, in the groups of the lemmas.
LEMMA Steps ==
    ASSUME [Next]_vars
    PROVE  \/ Begins \/ Drains \/ TakeFreeLine \/ Mount
           \/ \E s \in Sector : Hits(s)
           \/ \E s \in Sector, c \in Count : MultiWrite(s, c)
BY DEF Next, FileSystem, Continue, Evict, ClearCache, Begins, Drains, Hits

\* Before the first mount the lines are free.
LEMMA StartInv ==
    ASSUME Init
    PROVE  ShapeInv /\ ContentInv
<1>1. 0 \in Sector
  BY DeviceAssumption DEF Sector
<1>2. NoReq \in Request
  BY <1>1, Requests
<1>3. store \in [Card -> [Sector -> Nat]]
  BY DEF Init
<1> QED
  BY <1>2, <1>3, FreeShape DEF Init, Fresh

\* Mounting starts afresh.
LEMMA MountInv ==
    ASSUME TypeOK, Mount
    PROVE  ShapeInv' /\ ContentInv' /\ UNCHANGED store
<1>1. AllFree' = AllFree
  BY DEF Mount, AllFree, cardVars
<1>2. slot' = AllFree' /\ cur' = 0 /\ pc' = "idle" /\ req' = req /\ card' = card
      /\ inserted' = inserted /\ store' = store
  BY <1>1 DEF Mount, cardVars
<1>3. Fresh'
  BY <1>2 DEF Fresh, TypeOK
<1>4. Fresh' => ShapeInv' /\ ContentInv'
  BY FreeShape, PTL
<1> QED
  BY <1>2, <1>3, <1>4

\* One step of the shape, which needs no assumption.
LEMMA ShapeStep ==
    ASSUME ShapeInv, [Next]_vars
    PROVE  ShapeInv'
<1>1. CASE Begins
  BY <1>1, BeginsShape
<1>2. CASE Drains
  BY <1>2, DrainsShape
<1>3. CASE TakeFreeLine
  BY <1>3, TakeShape
<1>4. CASE Mount
  BY <1>4, MountInv DEF ShapeInv
<1>5. CASE \E s \in Sector : Hits(s)
  BY <1>5, HitShape
<1>6. CASE \E s \in Sector, c \in Count : MultiWrite(s, c)
  BY <1>6, MultiWriteShape
<1> QED
  BY <1>1, <1>2, <1>3, <1>4, <1>5, <1>6, Steps

\* One step of the contents, and of what the cards hold.
NotOlder == \A c \in Card, s \in Sector : store'[c][s] >= store[c][s]

LEMMA ContentStep ==
    ASSUME ShapeInv, ContentInv, Remounts, [Next]_vars
    PROVE  ContentInv' /\ NotOlder
<1>0. \A c \in Card, s \in Sector : store[c][s] \in Nat
  BY DEF ShapeInv, TypeOK
<1>1. CASE Begins
  <2>1. ContentInv'
    BY <1>1, BeginsContent
  <2>2. store' = store
    BY <1>1, BeginsTypes DEF ShapeInv
  <2>3. NotOlder
    BY <1>0, <2>2 DEF NotOlder
  <2> QED
    BY <2>1, <2>3
<1>2. CASE Drains
  BY <1>2, DrainsContent DEF NotOlder
<1>3. CASE TakeFreeLine
  <2>1. ContentInv'
    BY <1>3, TakeContent
  <2>2. NotOlder
    BY <1>0, <1>3 DEF TakeFreeLine, cardVars, NotOlder
  <2> QED
    BY <2>1, <2>2
<1>4. CASE Mount
  <2>1. ContentInv' /\ store' = store
    BY <1>4, MountInv DEF ShapeInv
  <2>2. NotOlder
    BY <1>0, <2>1 DEF NotOlder
  <2> QED
    BY <2>1, <2>2
<1>5. ASSUME NEW s \in Sector, Hits(s)
      PROVE  ContentInv' /\ NotOlder
  <2>1. ContentInv'
    BY <1>5, HitContent
  <2>2. store' = store
    BY <1>5, HitEffect DEF ShapeInv, cardVars
  <2>3. NotOlder
    BY <1>0, <2>2 DEF NotOlder
  <2> QED
    BY <2>1, <2>3
<1>6. ASSUME NEW s \in Sector, NEW c \in Count, MultiWrite(s, c)
      PROVE  ContentInv' /\ NotOlder
  BY <1>6, MultiWriteContent DEF NotOlder
<1> QED
  BY <1>1, <1>2, <1>3, <1>4, <1>5, <1>6, Steps

\* A lookup has one answer, and the second scan of a fill finds a line, whatever
\* happens to the cards: the last line, which no scan finds, is never taken, so a
\* drain always frees one that can be.
THEOREM ScanAgain == Spec => [](TypeOK /\ LinesDistinct /\ RetryFindsALine)
<1>1. Init => ShapeInv
  BY StartInv
<1>2. ShapeInv /\ [Next]_vars => ShapeInv'
  BY ShapeStep
<1>3. ShapeInv => TypeOK /\ LinesDistinct /\ RetryFindsALine
  BY DEF ShapeInv
<1> QED
  BY <1>1, <1>2, <1>3, PTL DEF Spec

\* The statement that the checked runs make of the second scan.
THEOREM SecondScan == Spec => []RetryFindsALine
BY ScanAgain, PTL

\* A card is exchanged for another only while the file system has none mounted: what
\* is written to it was read from it or written for it, ...
THEOREM LinesOfTheCard == Remounts => (Spec => []OnlyThisCard)
<1> SUFFICES ASSUME Remounts PROVE Spec => []OnlyThisCard
  OBVIOUS
<1>1. Init => ShapeInv /\ ContentInv
  BY StartInv
<1>2. ShapeInv /\ ContentInv /\ [Next]_vars => (ShapeInv /\ ContentInv)'
  BY ShapeStep, ContentStep
<1>3. ContentInv => OnlyThisCard
  BY DEF ContentInv
<1> QED
  BY <1>1, <1>2, <1>3, PTL DEF Spec

\* ... a line that is not dirty agrees with it, ...
THEOREM CleanLines == Remounts => (Spec => []CleanIsCurrent)
<1> SUFFICES ASSUME Remounts PROVE Spec => []CleanIsCurrent
  OBVIOUS
<1>1. Init => ShapeInv /\ ContentInv
  BY StartInv
<1>2. ShapeInv /\ ContentInv /\ [Next]_vars => (ShapeInv /\ ContentInv)'
  BY ShapeStep, ContentStep
<1>3. ContentInv => CleanIsCurrent
  BY DEF ContentInv
<1> QED
  BY <1>1, <1>2, <1>3, PTL DEF Spec

\* ... and no write back takes a sector to an older version.
THEOREM OnlyNewer == Remounts => (Spec => NoStaleWriteBack)
<1> SUFFICES ASSUME Remounts PROVE Spec => NoStaleWriteBack
  OBVIOUS
<1>1. Init => ShapeInv /\ ContentInv
  BY StartInv
<1>2. ShapeInv /\ ContentInv /\ [Next]_vars => (ShapeInv /\ ContentInv)'
  BY ShapeStep, ContentStep
<1>3. ShapeInv /\ ContentInv /\ [Next]_vars
        => [\A c \in Card, s \in Sector : store'[c][s] >= store[c][s]]_vars
  BY ContentStep DEF NotOlder
<1> QED
  BY <1>1, <1>2, <1>3, PTL DEF Spec, NoStaleWriteBack

(***************************************************************************)
(* How long a call takes.                                                  *)
(***************************************************************************)

\* There are as many lines in use as a number says.
LEMMA LinesCounted == IsFiniteSet(LinesInUse) /\ Cardinality(LinesInUse) \in Nat
<1>1. IsFiniteSet(Slot)
  BY FS_Interval, MmcCacheAssumption DEF Slot
<1>2. LinesInUse \in SUBSET Slot
  BY DEF LinesInUse
<1> QED
  BY <1>1, <1>2, FS_Subset, FS_CardinalityType

\* Writing a line back leaves one less in use, filling one leaves one more.
LEMMA OneLineLess ==
    ASSUME NEW i \in Slot, InUse(i), WrittenBack(i)
    PROVE  Cardinality(LinesInUse)' = Cardinality(LinesInUse) - 1
<1>1. LinesInUse' = LinesInUse \ {i}
  BY DEF LinesInUse, InUse, WrittenBack
<1>2. i \in LinesInUse
  BY DEF LinesInUse
<1> QED
  BY <1>1, <1>2, LinesCounted, FS_RemoveElement

LEMMA OneLineMore ==
    ASSUME ShapeInv, TakeFreeLine
    PROVE  Cardinality(LinesInUse)' = Cardinality(LinesInUse) + 1
<1>1. PICK i \in InState("FREE") :
        slot' = [slot EXCEPT ![i] = [state |-> "PREWRITE", block |-> req.sec, dirty |-> req.rw,
                                    data |-> req.data, of |-> card]]
  BY DEF TakeFreeLine
<1>2. i \in Slot /\ i \notin LinesInUse
  BY DEF InState, LinesInUse, InUse
<1>3. LinesInUse' = LinesInUse \cup {i}
  BY <1>1, <1>2 DEF LinesInUse, InUse, ShapeInv, TypeOK
<1> QED
  BY <1>2, <1>3, LinesCounted, FS_AddElement

\* A turn of a drain loop is a step less.
LEMMA DrainsShrink ==
    ASSUME ShapeInv, Drains
    PROVE  StepsLeft' < StepsLeft
<1>1. PICK i \in Slot : InUse(i) /\ WrittenBack(i)
  BY DrainsEffect
<1>2. pc' = pc
  BY DrainsEffect
<1>3. PhasesLeft' = PhasesLeft /\ PhasesLeft \in Nat
  BY <1>2 DEF PhasesLeft, ShapeInv, TypeOK
<1> QED
  BY <1>1, <1>3, OneLineLess, LinesCounted DEF StepsLeft

\* So is the step to a phase that comes later, if the lines stay.
LEMMA PhaseShrinks ==
    ASSUME PhasesLeft \in Nat, PhasesLeft' \in Nat, PhasesLeft' < PhasesLeft, UNCHANGED slot
    PROVE  StepsLeft' < StepsLeft
<1>1. Cardinality(LinesInUse)' = Cardinality(LinesInUse)
  BY DEF LinesInUse, InUse
<1> QED
  BY <1>1, LinesCounted DEF StepsLeft

\* And every other step of a call.
LEMMA ContinueShrinks == ASSUME ShapeInv, Continue PROVE StepsLeft' < StepsLeft
<1>1. CASE TakeFreeLine
  <2>1. PhasesLeft \in {2, 5} /\ PhasesLeft' = 0
    BY <1>1 DEF TakeFreeLine, PhasesLeft
  <2> QED
    BY <1>1, <2>1, OneLineMore, LinesCounted DEF StepsLeft
<1>2. CASE CacheFull
  BY <1>2, PhaseShrinks DEF CacheFull, PhasesLeft
<1>3. CASE Drains
  BY <1>3, DrainsShrink
<1>4. CASE pc = "evict" /\ Drained("PREWRITE") /\ pc' \in {"evictOften", "retry"}
  BY <1>4, PhaseShrinks DEF Drained, PhasesLeft
<1>5. CASE pc = "evictOften" /\ Drained("OFTEN") /\ pc' = "retry"
  BY <1>5, PhaseShrinks DEF Drained, PhasesLeft
<1>6. CASE ReadRange
  BY <1>6, PhaseShrinks DEF ReadRange, PhasesLeft
<1>7. CASE pc = "clearPrewrite" /\ Drained("PREWRITE") /\ pc' = "clearOften"
  BY <1>7, PhaseShrinks DEF Drained, PhasesLeft
<1>8. CASE Cleared
  BY <1>8, PhaseShrinks DEF Cleared, PhasesLeft
<1> QED
  BY <1>1, <1>2, <1>3, <1>4, <1>5, <1>6, <1>7, <1>8 DEF Continue, Evict, Drains, ClearCache

\* Every call of the interface ends within CACHE_MAX_NUM + 5 steps, for any number of
\* lines, sectors and cards, with cards exchanged and pulled out at any time.
THEOREM CallsAreShort == Spec => CallsShrink
<1>1. Init => ShapeInv
  BY StartInv
<1>2. ASSUME ShapeInv, Next, pc \notin {"off", "idle"}, <<pc, slot>>' # <<pc, slot>>
      PROVE  StepsLeft' < StepsLeft
  <2>1. ~FileSystem
    BY <1>2 DEF FileSystem, Mount, GiveUp, FlashCache, ReadHit, ReadMiss, WriteHit, WriteMiss,
       MultiRead, MultiWrite
  <2>2. ~Pull /\ \A c \in Card : ~Put(c)
    BY <1>2 DEF Pull, Put, cacheVars
  <2> QED
    BY <1>2, <2>1, <2>2, ContinueShrinks DEF Next
<1>3. ShapeInv /\ [Next]_vars => ShapeInv'
  BY ShapeStep
<1>4. ShapeInv /\ [Next]_vars =>
        [pc \notin {"off", "idle"} /\ <<pc, slot>>' # <<pc, slot>> => StepsLeft' < StepsLeft]_vars
  BY <1>2
<1> QED
  BY <1>1, <1>3, <1>4, PTL DEF Spec, CallsShrink
================================================================================

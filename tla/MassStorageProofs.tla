--------------------------- MODULE MassStorageProofs ---------------------------
(***************************************************************************)
(* The bulk-only protocol of MassStorage stays in step with the host, for  *)
(* any LUNs, sectors, lengths and versions, a new medium reaches the host, *)
(* and together they are the disk of HostDisk.  MassInv, AttentionInv and  *)
(* StoredInv are the inductive invariants; the lemmas follow the actions.  *)
(***************************************************************************)
EXTENDS MassStorage, SequenceTheorems, TLAPS

Kinds == Packet \ {Empty}

\* The packets that the driver makes.
LEMMA PacketFacts ==
    /\ Empty \in Packet /\ Empty.kind = "none"
    /\ \A p \in Packet : p.kind \in {"none", "csw", "data"} /\ (p.kind = "none" <=> p = Empty)
    /\ \A p \in Packet : p.kind = "data" => p.body \in Seq(Data)
    /\ \A c \in [tag : {0, 1}, good : BOOLEAN] :
          /\ Csw(c) \in Packet /\ Csw(c) # Empty /\ Csw(c).kind = "csw"
          /\ Csw(c).tag = c.tag /\ Csw(c).good = c.good
    /\ \A b \in Seq(Data) :
          Payload(b) \in Packet /\ Payload(b) # Empty /\ Payload(b).kind = "data" /\ Payload(b).body = b
  <1>1. Empty \in Packet /\ Empty.kind = "none"
    BY DEF Empty, Packet
  <1>2. \A p \in Packet : p.kind \in {"none", "csw", "data"} /\ (p.kind = "none" <=> p = Empty)
    BY DEF Empty, Packet
  <1>3. \A p \in Packet : p.kind = "data" => p.body \in Seq(Data)
    BY DEF Empty, Packet
  <1>4. ASSUME NEW c \in [tag : {0, 1}, good : BOOLEAN]
        PROVE  /\ Csw(c) \in Packet /\ Csw(c) # Empty /\ Csw(c).kind = "csw"
               /\ Csw(c).tag = c.tag /\ Csw(c).good = c.good
    BY DEF Csw, Packet, Empty
  <1>5. ASSUME NEW b \in Seq(Data)
        PROVE  Payload(b) \in Packet /\ Payload(b) # Empty /\ Payload(b).kind = "data" /\ Payload(b).body = b
    BY DEF Payload, Packet, Empty
  <1> QED
    BY <1>1, <1>2, <1>3, <1>4, <1>5

\* The numbers that the invariant counts with.
LEMMA Numbers ==
    Types => /\ MaxCount \in Nat /\ TotalSec \in Nat /\ Chunk \in Nat \ {0}
             /\ host \in Host /\ host.got \in Seq(Data) /\ host.want \in Seq(Data)
             /\ host.cmd \in Command /\ host.cmd.count \in Nat /\ host.cmd.start \in Nat
             /\ host.cmd.lun \in LUNs
             /\ Len(host.got) \in Nat /\ Len(host.want) \in Nat /\ host.sent \in Nat
             /\ xfer.nr \in Nat /\ xfer.start \in Nat
             /\ epIn.packet \in Packet /\ fifo \in Packet
             /\ epOut.body \in Seq(Data) /\ Len(epOut.body) \in Nat /\ epOut.len \in Nat
             /\ BodyLen(fifo) \in Nat /\ BodyLen(epIn.packet) \in Nat /\ Pending \in Nat /\ Reached \in Nat
  <1> SUFFICES ASSUME Types
               PROVE  /\ MaxCount \in Nat /\ TotalSec \in Nat /\ Chunk \in Nat \ {0}
                      /\ host \in Host /\ host.got \in Seq(Data) /\ host.want \in Seq(Data)
                      /\ host.cmd \in Command /\ host.cmd.count \in Nat /\ host.cmd.start \in Nat
                      /\ host.cmd.lun \in LUNs
                      /\ Len(host.got) \in Nat /\ Len(host.want) \in Nat /\ host.sent \in Nat
                      /\ xfer.nr \in Nat /\ xfer.start \in Nat
                      /\ epIn.packet \in Packet /\ fifo \in Packet
                      /\ epOut.body \in Seq(Data) /\ Len(epOut.body) \in Nat /\ epOut.len \in Nat
                      /\ BodyLen(fifo) \in Nat /\ BodyLen(epIn.packet) \in Nat /\ Pending \in Nat /\ Reached \in Nat
    OBVIOUS
  <1>1. MaxCount \in Nat /\ TotalSec \in Nat /\ Chunk \in Nat \ {0}
    BY DeviceAssumption, UdcAssumption
  <1>2. /\ host \in Host /\ host.got \in Seq(Data) /\ host.want \in Seq(Data)
        /\ host.cmd \in Command /\ host.sent \in Nat
    BY DEF Types, Host
  <1>3. host.cmd.count \in Nat /\ host.cmd.start \in Nat /\ host.cmd.lun \in LUNs
    BY <1>1, <1>2 DEF Command, Sector
  <1>4. /\ xfer.nr \in Nat /\ xfer.start \in Nat
        /\ epIn.packet \in Packet /\ fifo \in Packet
        /\ epOut.body \in Seq(Data) /\ epOut.len \in Nat
    BY DEF Types
  <1>5. \A q \in Seq(Data) : Len(q) \in Nat
    OBVIOUS
  <1>6. \A p \in Packet : BodyLen(p) \in Nat
    BY <1>5, PacketFacts DEF BodyLen
  <1>7. Pending \in Nat /\ Reached \in Nat
    BY <1>2, <1>4, <1>5, <1>6 DEF Pending, Reached
  <1> QED
    BY <1>1, <1>2, <1>3, <1>4, <1>5, <1>6, <1>7

\* The transfer of an IN endpoint that has been started.
LEMMA StartInEffect ==
    ASSUME Types, NEW p \in Packet, p # Empty, StartIn(p)
    PROVE  /\ epIn' \in [state : EpState, stage : Stage, packet : Packet]
           /\ fifo' \in Packet
           /\ epIn'.state = "cpu" /\ epIn'.packet = p
           /\ epIn'.stage = IF fifo = Empty THEN "loaded" ELSE "waiting"
           /\ fifo' = IF fifo = Empty THEN p ELSE fifo
  BY DEF StartIn, Types, EpState, Stage

\* Latches are records of four bits.
LEMMA LatchFacts ==
    /\ NoLatch \in Latches /\ ~NoLatch.in /\ ~NoLatch.out /\ ~NoLatch.dmaIn /\ ~NoLatch.dmaOut
    /\ \A l \in Latches : l.in \in BOOLEAN /\ l.out \in BOOLEAN /\ l.dmaIn \in BOOLEAN /\ l.dmaOut \in BOOLEAN
    /\ \A l \in Latches, b \in BOOLEAN :
          /\ [l EXCEPT !.in = b] \in Latches
          /\ [l EXCEPT !.out = b] \in Latches
          /\ [l EXCEPT !.dmaIn = b] \in Latches
          /\ [l EXCEPT !.dmaOut = b] \in Latches
    /\ \A l \in Latches, b, c \in BOOLEAN : [l EXCEPT !.dmaIn = b, !.dmaOut = c] \in Latches
    /\ \A l \in Latches, b, c \in BOOLEAN : [l EXCEPT !.in = FALSE, !.dmaIn = b, !.dmaOut = c] \in Latches
  BY DEF Latches, NoLatch

Unlatched(l, m) == (l.in => m.in) /\ (l.dmaIn => m.dmaIn) /\ (l.dmaOut => m.dmaOut)

\* A step of a pass: what it reads it clears, and what it has seen it keeps until
\* the handler it is for.
PassEffect ==
    /\ intr' \in Latches /\ seen' \in Latches /\ Unlatched(intr', intr)
    /\ \/ upc = "wait" /\ upc' = "readIn"
       \/ upc = "readIn" /\ upc' = "readOut" /\ ~intr'.in /\ (seen'.in => intr.in)
       \/ upc = "readOut" /\ upc' = "in" /\ (seen'.in => seen.in)
       \/ upc = "in" /\ upc' = "readDma" /\ seen' = seen
       \/ /\ upc = "readDma" /\ upc' = "dma" /\ ~intr'.dmaIn /\ ~intr'.dmaOut
          /\ (seen'.dmaIn => intr.dmaIn) /\ (seen'.dmaOut => intr.dmaOut)
       \/ upc = "dma" /\ upc' = "out" /\ seen' = seen
       \/ upc = "out" /\ upc' = "outDma" /\ (seen'.dmaOut => seen.dmaOut)
       \/ upc = "outDma" /\ upc' = "wait" /\ seen' = NoLatch

Idles(step) == step /\ UNCHANGED <<epIn, fifo, devVars, conn, card, bus, host>>

LEMMA PassSteps ==
    ASSUME Types, StartPass \/ PassStep
    PROVE  /\ PassEffect
           /\ UNCHANGED <<epIn, fifo, devVars, conn, card, bus, host>>
           /\ epOut' = epOut \/ (epOut.state = "cpu" /\ epOut.buf # "cbw" /\ epOut' = OutFinished)
           /\ rx' = rx \/ rx' = Empty
           /\ enable' = enable \/ enable' = [enable EXCEPT !.out = FALSE]
  <1> USE DEF PassEffect, Unlatched
  <1>1. intr \in Latches /\ seen \in Latches
    BY DEF Types, TypeOK
  <1>2. CASE StartPass
    BY <1>1, <1>2 DEF StartPass, BeginPass
  <1>3. CASE PassStep
    <2>1. UNCHANGED <<devVars, conn, card, bus, host>>
      BY <1>3 DEF PassStep
    <2>2. CASE ReadIntrIn
      <3>1. intr' \in Latches /\ seen' \in Latches
        BY <1>1, <2>2, LatchFacts DEF ReadIntrIn
      <3> QED
        BY <1>1, <2>1, <2>2, <3>1 DEF ReadIntrIn, NoLatch, Latches
    <2>3. CASE ReadIntrOut
      <3>1. intr' \in Latches /\ seen' \in Latches
        BY <1>1, <2>3, LatchFacts DEF ReadIntrOut
      <3> QED
        BY <1>1, <2>1, <2>3, <3>1 DEF ReadIntrOut, Latches
    <2>4. CASE SkipIn
      BY <1>1, <2>1, <2>4 DEF SkipIn
    <2>5. CASE ReadIntrDma
      <3>1. intr' \in Latches /\ seen' \in Latches
        BY <1>1, <2>5, LatchFacts DEF ReadIntrDma
      <3> QED
        BY <1>1, <2>1, <2>5, <3>1 DEF ReadIntrDma, Latches
    <2>6. CASE SkipDma
      BY <1>1, <2>1, <2>6 DEF SkipDma
    <2>7. CASE SkipOut
      BY <1>1, <2>1, <2>7 DEF SkipOut
    <2>8. CASE SwallowOut
      <3>1. intr' \in Latches /\ seen' \in Latches
        BY <1>1, <2>8, LatchFacts DEF SwallowOut
      <3> QED
        BY <1>1, <2>1, <2>8, <3>1 DEF SwallowOut, Latches
    <2>9. CASE NothingOut
      <3>1. intr' \in Latches /\ seen' \in Latches
        BY <1>1, <2>9, LatchFacts DEF NothingOut
      <3> QED
        BY <1>1, <2>1, <2>9, <3>1 DEF NothingOut, Latches
    <2>10. CASE SkipOutDma
      <3>1. intr' \in Latches /\ seen' \in Latches
        BY <1>1, <2>10, LatchFacts DEF SkipOutDma, ClearLateDma
      <3> QED
        BY <1>1, <2>1, <2>10, <3>1 DEF SkipOutDma, ClearLateDma, Latches
    <2> QED
      BY <1>3, <2>2, <2>3, <2>4, <2>5, <2>6, <2>7, <2>8, <2>9, <2>10 DEF PassStep
  <1> QED
    BY <1>2, <1>3

\* The steps of a pass keep the invariant.
LEMMA PassInv == ASSUME MassInv, StartPass \/ PassStep PROVE MassInv'
  <1> USE DEF MassInv, devVars
  <1>1. /\ PassEffect
        /\ UNCHANGED <<epIn, fifo, devVars, conn, card, bus, host>>
        /\ epOut' = epOut \/ (epOut.state = "cpu" /\ epOut.buf # "cbw" /\ epOut' = OutFinished)
        /\ rx' = rx \/ rx' = Empty
        /\ enable' = enable \/ enable' = [enable EXCEPT !.out = FALSE]
    BY PassSteps
  <1>2. OutFinished \in [state : EpState, buf : {"none", "cbw", "mass"}, len : Nat, body : Seq(Data)]
    BY DEF OutFinished, EpState
  <1>3. Types'
    <2>1. enable' \in [in : BOOLEAN, out : BOOLEAN]
      BY <1>1 DEF Types, TypeOK
    <2>2. epOut' \in [state : EpState, buf : {"none", "cbw", "mass"}, len : Nat, body : Seq(Data)]
      BY <1>1, <1>2 DEF Types
    <2>3. upc' \in {"wait", "readIn", "readOut", "in", "readDma", "dma", "out", "stall", "outDma"}
      BY <1>1 DEF PassEffect
    <2> QED
      BY <1>1, <2>1, <2>2, <2>3 DEF Types, TypeOK, PassEffect
  <1>4. Endpoints'
    BY <1>1 DEF Endpoints, PassEffect, Quiet, OutFinished
  <1>5. DmaLatches'
    BY <1>1, LatchFacts DEF DmaLatches, PassEffect, Unlatched, Types, TypeOK, OutFinished, Endpoints
  <1>6. InLatch'
    BY <1>1, LatchFacts DEF InLatch, PassEffect, Unlatched, Types, TypeOK
  <1>7. Commands'
    BY <1>1 DEF Commands
  <1>8. ASSUME InStep, Delivered
        PROVE  InStep' /\ Delivered'
    <2>1. upc' = "stall" <=> upc = "stall"
      BY <1>1 DEF PassEffect
    <2>2. mass_state = "RECEIVE_DATA" => epOut' = epOut
      BY <1>1 DEF Endpoints
    <2>3. InStep'
      <3>1. (Reached = Reached') /\ (Pending = Pending') /\ (Quiet <=> Quiet') /\ (StatusPrepared <=> StatusPrepared')
        BY <1>1 DEF Reached, Pending, BodyLen, Quiet, StatusPrepared
      <3> QED
        BY <1>1, <1>8, <2>1, <2>2, <3>1 DEF InStep
    <2>4. ReadSoFar'
      BY <1>1, <1>8 DEF Delivered, ReadSoFar, Reached, BodyLen, InOrder
    <2>5. AnswerFirst'
      BY <1>1, <1>8, <2>1 DEF Delivered, AnswerFirst
    <2>6. WrittenSoFar'
      BY <1>1, <1>8, <2>2 DEF Delivered, WrittenSoFar
    <2> QED
      BY <2>3, <2>4, <2>5, <2>6 DEF Delivered
  <1> QED
    BY <1>1, <1>3, <1>4, <1>5, <1>6, <1>7, <1>8

\* A resumed bus, the card, the cable that goes in: nothing of the protocol moves.
LEMMA OutsideInv == ASSUME MassInv, PlugIn \/ Resume \/ CardMoves PROVE MassInv'
  <1> USE DEF MassInv, devVars, udcVars
  <1>1. UNCHANGED <<udcVars, devVars, host>> /\ (conn' = [conn EXCEPT !.hw = TRUE] \/ conn' = conn)
    BY DEF PlugIn, Resume, CardMoves
  <1>2. (bus = "out" /\ bus' = "reset") \/ (bus = "suspended" /\ bus' = "up") \/ bus' = bus
    BY DEF PlugIn, Resume, CardMoves
  <1>3. Types'
    <2>1. conn' \in [hw : BOOLEAN, sw : BOOLEAN, buffer : BOOLEAN]
      BY <1>1 DEF Types, TypeOK
    <2>2. card' \in BOOLEAN
      BY DEF PlugIn, Resume, CardMoves, Types
    <2> QED
      BY <1>1, <1>2, <2>1, <2>2 DEF Types, TypeOK
  <1>4. Endpoints' /\ DmaLatches' /\ InLatch'
    BY <1>1 DEF Endpoints, DmaLatches, InLatch, Quiet
  <1>5. Commands'
    BY <1>1, <1>2 DEF Commands
  <1>6. ASSUME InStep, Delivered
        PROVE  InStep' /\ Delivered'
    <2>1. InStep'
      BY <1>1, <1>6 DEF InStep, StatusPrepared, Reached, Pending, BodyLen, Quiet
    <2>2. ReadSoFar'
      BY <1>1, <1>6 DEF Delivered, ReadSoFar, Reached, BodyLen, InOrder
    <2>3. AnswerFirst'
      BY <1>1, <1>6 DEF Delivered, AnswerFirst
    <2>4. WrittenSoFar'
      BY <1>1, <1>6 DEF Delivered, WrittenSoFar
    <2> QED
      BY <2>1, <2>2, <2>3, <2>4 DEF Delivered
  <1> QED
    BY <1>1, <1>2, <1>3, <1>4, <1>5, <1>6

\* A bus that is suspended, or left: what goes on the task goes on.
LEMMA BusInv == ASSUME MassInv, Suspend \/ Removed PROVE MassInv'
  <1> USE DEF MassInv, devVars
  <1>1. /\ UNCHANGED <<epIn, epOut, fifo, rx, enable, seen, devVars, card, host>>
        /\ bus' # "up" /\ (bus' = "suspended" => bus = "up" /\ host.phase = "idle")
        /\ upc = "wait" /\ upc' \in {"wait", "readIn"} /\ bus' \in {"suspended", "unplugged", "out"}
        /\ bus # "up" \/ host.phase = "idle"
    BY DEF Suspend, Removed
  <1>2. intr' = intr \/ intr' = [intr EXCEPT !.in = FALSE, !.out = FALSE]
    BY DEF Suspend, Removed
  <1>3. intr \in Latches /\ intr' \in Latches /\ Unlatched(intr', intr)
    <2>1. intr \in Latches
      BY DEF Types, TypeOK
    <2>2. [intr EXCEPT !.in = FALSE, !.out = FALSE] \in Latches
      BY <2>1 DEF Latches
    <2> QED
      BY <1>2, <2>1, <2>2 DEF Unlatched, Latches
  <1>4. Types'
    <2>1. conn' \in [hw : BOOLEAN, sw : BOOLEAN, buffer : BOOLEAN]
      BY DEF Suspend, Removed, Types, TypeOK
    <2> QED
      BY <1>1, <1>3, <2>1 DEF Types, TypeOK
  <1>5. Endpoints' /\ DmaLatches' /\ InLatch'
    BY <1>1, <1>3, LatchFacts DEF Endpoints, DmaLatches, InLatch, Quiet, Unlatched
  <1>6. bus = "up" => rx = Empty
    BY <1>1 DEF InStep
  <1>7. Commands'
    BY <1>1, <1>6 DEF Commands
  <1>8. ASSUME InStep, Delivered, host.phase = "idle"
        PROVE  InStep' /\ Delivered'
    BY <1>1, <1>8 DEF InStep, StatusPrepared, Reached, Pending, BodyLen, Quiet, Delivered, ReadSoFar,
       AnswerFirst, WrittenSoFar
  <1> QED
    BY <1>1, <1>4, <1>5, <1>7, <1>8

\* A host that forgets empties the FIFOs; the device does not know yet.
LEMMA ForgetInv == ASSUME MassInv, HostReset \/ Unplug PROVE MassInv'
  <1> USE DEF MassInv, devVars
  <1>1. PICK b \in {"reset", "unplugged"} : Forget(b)
    BY DEF HostReset, Unplug
  <1>2. /\ UNCHANGED <<epIn, epOut, intr, enable, seen, upc, devVars, conn, card>>
        /\ fifo' = Empty /\ rx' = Empty /\ bus' = b
    BY <1>1 DEF Forget
  <1>3. host' \in Host /\ host'.phase = "idle" /\ host'.cmd = host.cmd /\ host'.knows = {}
    <2>1. /\ host \in Host
          /\ host' = [host EXCEPT !.phase = "idle", !.got = <<>>, !.want = <<>>, !.sent = 0,
                                  !.knows = {}, !.absent = {}, !.failed = {}]
      BY <1>1 DEF Forget, Types
    <2> QED
      BY <2>1, <<>> \in Seq(Data), {} \in SUBSET LUNs DEF Host
  <1>4. Types'
    BY <1>1, <1>2, <1>3, PacketFacts DEF Types, TypeOK
  <1>5. Endpoints' /\ DmaLatches' /\ InLatch'
    BY <1>2 DEF Endpoints, DmaLatches, InLatch, Quiet
  <1>6. Commands'
    BY <1>2, <1>3 DEF Commands
  <1> QED
    BY <1>1, <1>2, <1>3, <1>4, <1>5, <1>6

\* udc_reset and mass_reset: host and device start anew.
LEMMA ResetInv == ASSUME MassInv, DeviceReset PROVE MassInv'
  <1> USE DEF MassInv, DeviceReset, InFinished, StartOut
  <1>1. /\ epIn'.state = "done" /\ fifo' = Empty /\ rx' = Empty
        /\ epOut' = [state |-> "cpu", buf |-> "cbw", len |-> 0, body |-> <<>>]
        /\ mass_state' = "RECEIVE_CBW" /\ upc' = "readIn" /\ bus' = "up" /\ host.phase = "idle"
        /\ UNCHANGED <<seen, csw, cbw, xfer, iscardin, sized, disk, card, host>>
    OBVIOUS
  <1>2. intr' \in Latches /\ ~intr'.dmaIn /\ ~intr'.dmaOut
    <2>1. intr \in Latches
      BY DEF Types, TypeOK
    <2>2. ASSUME NEW b \in BOOLEAN, NEW c \in BOOLEAN
          PROVE  LET l == [NoLatch EXCEPT !.in = b, !.out = c] IN l \in Latches /\ ~l.dmaIn /\ ~l.dmaOut
      BY DEF Latches, NoLatch
    <2> QED
      BY <2>1, <2>2, LatchFacts
  <1>3. Types'
    <2>1. conn' \in [hw : BOOLEAN, sw : BOOLEAN, buffer : BOOLEAN]
      BY DEF Types, TypeOK
    <2>2. epIn' \in [state : EpState, stage : Stage, packet : Packet]
      BY PacketFacts DEF EpState, Stage
    <2>3. epOut' \in [state : EpState, buf : {"none", "cbw", "mass"}, len : Nat, body : Seq(Data)]
      BY <1>1 DEF EpState
    <2>4. enable' \in [in : BOOLEAN, out : BOOLEAN]
      BY DEF Enable
    <2> QED
      BY <1>1, <1>2, <2>1, <2>2, <2>3, <2>4, PacketFacts DEF Types, TypeOK, EpState, Stage
  <1>4. Endpoints' /\ DmaLatches' /\ InLatch'
    BY <1>1, <1>2 DEF Endpoints, DmaLatches, InLatch
  <1>5. Commands'
    BY <1>1 DEF Commands
  <1>6. InStep' /\ Delivered'
    BY <1>1, PacketFacts DEF InStep, Quiet, Delivered, ReadSoFar, AnswerFirst, WrittenSoFar
  <1> QED
    BY <1>1, <1>3, <1>4, <1>5, <1>6

\* While a packet of b sectors waits, the host has not got all c of a request.
LEMMA MoreToTake ==
    ASSUME NEW x \in Nat, NEW n \in Nat, NEW a \in Nat, NEW c \in Nat, NEW g \in Nat, NEW b \in Nat,
           x = a + (g + b), x + n = a + c, b # 0
    PROVE  g < c
  <1>1. a + (g + (b + n)) = a + c
    OBVIOUS
  <1>2. g + (b + n) = c
    BY <1>1
  <1> QED
    BY <1>2

\* The DMA has put its packet into the FIFO.
LEMMA HardwareInv == ASSUME MassInv, Hardware PROVE MassInv'
  <1> USE DEF MassInv, Hardware, DmaLoads, devVars
  <1>1. /\ epIn.state = "dma" /\ epIn.stage = "begun" /\ fifo = Empty /\ mass_state = "SEND_DATA"
        /\ UNCHANGED <<epOut, rx, enable, seen, upc, devVars, conn, card, bus, host>>
    BY DEF Endpoints
  <1>2. epIn' = [epIn EXCEPT !.stage = "loaded"] /\ epIn \in [state : EpState, stage : Stage, packet : Packet]
    BY DEF Types
  <1>3. /\ epIn' \in [state : EpState, stage : Stage, packet : Packet]
        /\ epIn'.state = "dma" /\ epIn'.stage = "loaded" /\ epIn'.packet = epIn.packet
    BY <1>1, <1>2 DEF Stage
  <1>4. fifo' = epIn.packet /\ epIn.packet \in Packet /\ fifo'.kind = "data"
    BY <1>2 DEF Endpoints
  <1>5. intr \in Latches /\ intr' = [intr EXCEPT !.dmaIn = TRUE]
    BY DEF Types, TypeOK
  <1>6. intr' \in Latches /\ intr'.in = intr.in /\ intr'.dmaOut = intr.dmaOut
    BY <1>5 DEF Latches
  <1>7. Types'
    BY <1>1, <1>3, <1>4, <1>6 DEF Types, TypeOK
  <1>8. Endpoints' /\ DmaLatches' /\ InLatch'
    BY <1>1, <1>3, <1>4, <1>6, PacketFacts DEF Endpoints, DmaLatches, InLatch
  <1>9. Commands'
    BY <1>1 DEF Commands
  <1>10. ASSUME InStep, Delivered
         PROVE  InStep' /\ Delivered'
    <2>1. /\ BodyLen(fifo) = 0 /\ BodyLen(fifo)' = BodyLen(epIn.packet) /\ BodyLen(epIn.packet) > 0
          /\ Reached = Len(host.got) /\ Reached' = Len(host.got) + BodyLen(epIn.packet)
          /\ Pending = BodyLen(epIn.packet) /\ Pending' = 0
      BY <1>1, <1>3, <1>4, PacketFacts, Numbers DEF Reached, Pending, BodyLen, Endpoints
    <2>2. Reached' + Pending' = Reached + Pending
      BY <2>1, Numbers
    <2>3. host.phase = "in"
      <3>1. xfer.start = host.cmd.start + (Len(host.got) + BodyLen(epIn.packet))
        BY <1>1, <1>10, <2>1 DEF InStep
      <3>2. xfer.start + xfer.nr = host.cmd.start + host.cmd.count
        BY <1>1 DEF Commands
      <3>3. BodyLen(epIn.packet) \in Nat /\ BodyLen(epIn.packet) # 0
        BY <2>1, Numbers
      <3>4. Len(host.got) < host.cmd.count
        BY <3>1, <3>2, <3>3, MoreToTake, Numbers
      <3> QED
        BY <1>1, <1>10, <3>4 DEF InStep
    <2>4. InStep'
      BY <1>1, <1>3, <1>4, <1>10, <2>2, <2>3, PacketFacts DEF InStep, Quiet, StatusPrepared
    <2>5. ReadSoFar'
      <3>2. \A q, k : InOrder(q, k)' <=> InOrder(q, k)
        BY <1>1 DEF InOrder
      <3> QED
        BY <1>1, <1>3, <1>4, <1>10, <2>1, <3>2 DEF Delivered, ReadSoFar
    <2>6. AnswerFirst'
      BY <1>1, <1>3, <1>4, <1>10, PacketFacts DEF InStep, Delivered, AnswerFirst, Commands
    <2>7. WrittenSoFar'
      BY <1>1, <1>10 DEF Delivered, WrittenSoFar
    <2> QED
      BY <2>4, <2>5, <2>6, <2>7 DEF Delivered
  <1> QED
    BY <1>1, <1>7, <1>8, <1>9, <1>10

\* The status is put into the FIFO when the FIFO has become empty.
LEMMA LoadInv == ASSUME MassInv, LoadDeferred PROVE MassInv'
  <1> USE DEF MassInv, LoadDeferred, LoadFifo, devVars
  <1>1. /\ UNCHANGED <<epOut, rx, intr, enable, seen, devVars, conn, card, bus, host>>
        /\ upc = "in" /\ upc' = "readDma" /\ epIn.state = "cpu" /\ epIn.stage = "waiting" /\ seen.in
        /\ epIn' = [epIn EXCEPT !.stage = "loaded"] /\ fifo' = Csw(csw)
    BY DEF Endpoints
  <1>2. /\ epIn' \in [state : EpState, stage : Stage, packet : Packet]
        /\ epIn'.state = "cpu" /\ epIn'.stage = "loaded"
    BY <1>1 DEF Types, Stage
  <1>3. /\ fifo' \in Packet /\ fifo' # Empty /\ fifo'.kind = "csw"
        /\ fifo'.tag = csw.tag /\ fifo'.good = csw.good
    BY <1>1, PacketFacts DEF Types, TypeOK
  <1>4. fifo = Empty /\ mass_state # "RECEIVE_DATA"
    BY <1>1 DEF InLatch, Endpoints, Quiet
  <1>5. Types'
    BY <1>1, <1>2, <1>3 DEF Types, TypeOK
  <1>6. Endpoints' /\ DmaLatches' /\ InLatch'
    BY <1>1, <1>2, <1>4 DEF Endpoints, DmaLatches, InLatch
  <1>7. Commands'
    BY <1>1 DEF Commands
  <1>8. ASSUME InStep, Delivered
        PROVE  InStep' /\ Delivered'
    <2>1. InStep'
      BY <1>1, <1>2, <1>3, <1>4, <1>8 DEF InStep, Quiet, StatusPrepared, Endpoints
    <2>2. ReadSoFar'
      BY <1>1, <1>2, <1>3, <1>8 DEF Delivered, ReadSoFar, InOrder
    <2>3. AnswerFirst'
      BY <1>1, <1>2, <1>3, <1>4, <1>8 DEF Delivered, AnswerFirst
    <2>4. WrittenSoFar'
      BY <1>1, <1>8 DEF Delivered, WrittenSoFar
    <2> QED
      BY <2>1, <2>2, <2>3, <2>4 DEF Delivered
  <1> QED
    BY <1>1, <1>5, <1>6, <1>7, <1>8

\* A part of a READ_10: its sectors, in order, and what is left after it.
SectorsSent(l, start, nr) ==
    /\ epIn' \in [state : EpState, stage : Stage, packet : Packet]
    /\ epIn'.state = "dma" /\ epIn'.stage = IF fifo = Empty THEN "begun" ELSE "waiting"
    /\ epIn'.packet.kind = "data"
    /\ Len(epIn'.packet.body) = AtMostChunk(nr)
    /\ l \notin Removable =>
          \A i \in 1 .. Len(epIn'.packet.body) : epIn'.packet.body[i] = disk[l][start + i - 1]
    /\ fifo' = fifo /\ mass_state' = "SEND_DATA"
    /\ xfer' = [start |-> start + AtMostChunk(nr), nr |-> nr - AtMostChunk(nr)]
    /\ AtMostChunk(nr) \in 1 .. nr

LEMMA SendSectorsEffect ==
    ASSUME Types, NEW l \in LUNs, NEW start \in Nat, NEW nr \in 1 .. MaxCount,
           start + nr <= TotalSec, SendSectors(l, start, nr)
    PROVE  SectorsSent(l, start, nr)
  <1> DEFINE body == ReadDevSector(l, start, AtMostChunk(nr))
  <1>1. AtMostChunk(nr) \in 1 .. nr
    BY UdcAssumption, DeviceAssumption DEF AtMostChunk
  <1>2. \A i \in 1 .. AtMostChunk(nr) : start + i - 1 \in Sector
    BY <1>1, DeviceAssumption DEF Sector
  <1>3. \A i \in 1 .. AtMostChunk(nr) : disk[l][start + i - 1] \in Data
    BY <1>2 DEF Types, TypeOK
  <1>4. Junk \in Data
    BY DeviceAssumption DEF Junk, Data
  <1>5. body \in [1 .. AtMostChunk(nr) -> Data]
    BY <1>3, <1>4 DEF ReadDevSector
  <1>6. body \in Seq(Data) /\ Len(body) = AtMostChunk(nr)
    BY <1>1, <1>5
  <1>7. l \notin Removable => \A i \in 1 .. AtMostChunk(nr) : body[i] = disk[l][start + i - 1]
    BY DEF ReadDevSector, CheckDevState
  <1>8. epIn' = [state |-> "dma", stage |-> IF fifo = Empty THEN "begun" ELSE "waiting", packet |-> Payload(body)]
    BY DEF SendSectors, StartInDma
  <1> HIDE DEF body
  <1>9. Payload(body) \in Packet /\ Payload(body).kind = "data" /\ Payload(body).body = body
    BY <1>6, PacketFacts
  <1>10. epIn' \in [state : EpState, stage : Stage, packet : Packet]
    BY <1>8, <1>9 DEF EpState, Stage
  <1> QED
    BY <1>1, <1>6, <1>7, <1>8, <1>9, <1>10 DEF SendSectors, StartInDma, SectorsSent

\* A part of k sectors of a transfer that has n left, from a on.
LEMMA PartFits ==
    ASSUME NEW a \in Nat, NEW n \in 1 .. MaxCount, NEW k \in 1 .. n, a + n <= TotalSec,
           NEW b \in Nat, b <= a
    PROVE  /\ a + k \in Nat /\ n - k \in Nat /\ n - k <= MaxCount /\ n - k \in 0 .. MaxCount
           /\ a + k \in Block /\ b <= a + k
           /\ (a + k) + (n - k) = a + n
  BY DeviceAssumption DEF Block

SendFrame ==
    /\ UNCHANGED <<intr, seen, rx, csw, cbw, iscardin, sized, disk, conn, card, bus, host>>
    /\ enable' \in [in : BOOLEAN, out : BOOLEAN]

\* The next part of a READ_10.
LEMMA NextPartInv ==
    ASSUME MassInv, SendFrame, upc = "dma", upc' = "out", UNCHANGED epOut,
           epIn.state = "dma", seen.dmaIn, xfer.nr # 0,
           SendSectors(cbw.lun, xfer.start, xfer.nr)
    PROVE  MassInv'
  <1> USE DEF MassInv, SendFrame
  <1>1. /\ mass_state = "SEND_DATA" /\ cbw = host.cmd /\ cbw.op = "Read10"
        /\ cbw.lun \in LUNs /\ cbw.lun \in sized /\ xfer.nr \in 1 .. MaxCount
        /\ xfer.start \in Nat /\ xfer.start + xfer.nr <= TotalSec
        /\ cbw.start <= xfer.start /\ cbw.start \in Nat
        /\ xfer.start + xfer.nr = cbw.start + cbw.count /\ epIn.stage = "loaded"
    <2>1. mass_state = "SEND_DATA" /\ epIn.stage = "loaded"
      BY DEF Endpoints, DmaLatches
    <2>2. /\ cbw = host.cmd /\ cbw.op = "Read10" /\ cbw.lun \in sized
          /\ cbw.start <= xfer.start /\ xfer.start + xfer.nr = cbw.start + cbw.count
          /\ xfer.start + xfer.nr <= TotalSec
      BY <2>1 DEF Commands
    <2>3. xfer.nr \in 0 .. MaxCount
      BY DEF Types, TypeOK
    <2>4. cbw.lun \in LUNs /\ cbw.start \in Nat /\ xfer.start \in Nat /\ MaxCount \in Nat
      BY <2>2, Numbers
    <2>5. xfer.nr \in 1 .. MaxCount
      BY <2>3, <2>4
    <2> HIDE DEF MassInv, SendFrame
    <2> QED
      BY <2>1, <2>2, <2>4, <2>5
  <1>2. /\ epIn' \in [state : EpState, stage : Stage, packet : Packet]
        /\ epIn'.state = "dma" /\ epIn'.stage = IF fifo = Empty THEN "begun" ELSE "waiting"
        /\ epIn'.packet.kind = "data"
        /\ Len(epIn'.packet.body) = AtMostChunk(xfer.nr)
        /\ cbw.lun \notin Removable =>
              \A i \in 1 .. Len(epIn'.packet.body) : epIn'.packet.body[i] = disk[cbw.lun][xfer.start + i - 1]
        /\ fifo' = fifo /\ mass_state' = "SEND_DATA"
        /\ xfer' = [start |-> xfer.start + AtMostChunk(xfer.nr), nr |-> xfer.nr - AtMostChunk(xfer.nr)]
        /\ AtMostChunk(xfer.nr) \in 1 .. xfer.nr
    <2>1. Types
      BY DEF MassInv
    <2> HIDE DEF MassInv, SendFrame
    <2>2. SectorsSent(cbw.lun, xfer.start, xfer.nr)
      BY <1>1, <2>1, SendSectorsEffect
    <2> QED
      BY <2>2 DEF SectorsSent
  <1>3. /\ xfer'.start \in Nat /\ xfer'.nr \in Nat /\ xfer'.nr \in 0 .. MaxCount
        /\ xfer'.start \in Block /\ cbw.start <= xfer'.start
        /\ xfer'.start + xfer'.nr = xfer.start + xfer.nr /\ xfer' \in [start : Nat, nr : Nat]
    <2> HIDE DEF MassInv, SendFrame
    <2>1. PICK k \in 1 .. xfer.nr : xfer' = [start |-> xfer.start + k, nr |-> xfer.nr - k]
      BY <1>2
    <2>2. /\ xfer.start + k \in Nat /\ xfer.nr - k \in Nat /\ xfer.nr - k \in 0 .. MaxCount
          /\ xfer.start + k \in Block /\ cbw.start <= xfer.start + k
          /\ (xfer.start + k) + (xfer.nr - k) = xfer.start + xfer.nr
      BY <1>1, PartFits
    <2> QED
      BY <2>1, <2>2
  <1>4. Types'
    BY <1>2, <1>3 DEF Types, TypeOK
  <1>5. Endpoints' /\ DmaLatches' /\ InLatch'
    <2>1. ~seen.dmaOut /\ ~intr.dmaIn /\ ~intr.dmaOut
      BY <1>1 DEF DmaLatches, Endpoints
    <2> QED
      BY <1>1, <1>2, <2>1 DEF Endpoints, DmaLatches, InLatch
  <1>6. Commands'
    BY <1>1, <1>2, <1>3 DEF Commands
  <1>7. ASSUME InStep, Delivered
        PROVE  InStep' /\ Delivered'
    <2>1. xfer.start = host.cmd.start + Reached
      BY <1>1, <1>7, Numbers DEF InStep, Pending
    <2>2. Reached' = Reached /\ Pending' = AtMostChunk(xfer.nr)
      BY <1>2 DEF Reached, Pending, BodyLen
    <2>3. xfer'.start = host.cmd.start + (Reached' + Pending')
      <3> HIDE DEF MassInv, SendFrame
      <3>1. PICK a \in Nat, r \in Nat, k \in Nat : a = host.cmd.start /\ r = Reached /\ k = AtMostChunk(xfer.nr)
        <4>1. Reached \in Nat /\ host.cmd.start \in Nat /\ xfer.nr \in Nat
          BY Numbers DEF MassInv
        <4>2. AtMostChunk(xfer.nr) \in Nat
          BY <1>2, <4>1
        <4> QED
          BY <4>1, <4>2
      <3>2. (a + r) + k = a + (r + k)
        OBVIOUS
      <3>3. xfer'.start = (a + r) + k
        BY <1>2, <2>1, <3>1
      <3> QED
        BY <2>2, <3>1, <3>2, <3>3
    <2>4. InStep'
      BY <1>1, <1>2, <1>7, <2>2, <2>3 DEF InStep, StatusPrepared
    <2>5. ReadSoFar'
      <3>1. \A q, k : InOrder(q, k)' <=> InOrder(q, k)
        BY DEF InOrder
      <3>2. host.cmd.lun \notin Removable => InOrder(epIn'.packet.body, Reached)
        BY <1>1, <1>2, <2>1 DEF InOrder
      <3> QED
        BY <1>1, <1>2, <1>7, <2>2, <3>1, <3>2 DEF Delivered, ReadSoFar
    <2>6. AnswerFirst' /\ WrittenSoFar'
      BY <1>1 DEF AnswerFirst, WrittenSoFar
    <2> QED
      BY <2>4, <2>5, <2>6 DEF Delivered
  <1> QED
    BY <1>4, <1>5, <1>6, <1>7

\* Two sums of a request.
LEMMA AllReached ==
    ASSUME NEW x \in Nat, NEW a \in Nat, NEW c \in Nat, NEW r \in Nat, x = a + (r + 0), x + 0 = a + c
    PROVE  r = c
  OBVIOUS

\* All parts of a READ_10 have been sent: its status follows.
LEMMA ReadDoneInv ==
    ASSUME MassInv, SendFrame, upc = "dma", upc' = "out", UNCHANGED <<epOut, xfer>>,
           epIn.state = "dma", seen.dmaIn, xfer.nr = 0, SendCSW(csw)
    PROVE  MassInv'
  <1> USE DEF MassInv, SendFrame, SendCSW
  <1>1. mass_state = "SEND_DATA" /\ epIn.stage = "loaded" /\ mass_state' = "SENDED_CSW"
    BY DEF Endpoints, DmaLatches
  <1>2. /\ epIn' \in [state : EpState, stage : Stage, packet : Packet] /\ fifo' \in Packet
        /\ epIn'.state = "cpu" /\ epIn'.packet = Csw(csw) /\ Csw(csw).kind = "csw"
        /\ epIn'.stage = IF fifo = Empty THEN "loaded" ELSE "waiting"
        /\ fifo' = IF fifo = Empty THEN Csw(csw) ELSE fifo
        /\ Csw(csw) # Empty /\ Csw(csw).tag = csw.tag /\ Csw(csw).good = csw.good
    <2>1. csw \in [tag : {0, 1}, good : BOOLEAN]
      BY DEF Types, TypeOK
    <2> QED
      BY <2>1, PacketFacts, StartInEffect
  <1>3. Types'
    BY <1>1, <1>2 DEF Types, TypeOK
  <1>4. Endpoints' /\ DmaLatches' /\ InLatch'
    BY <1>1, <1>2 DEF Endpoints, DmaLatches, InLatch
  <1>5. Commands'
    BY <1>1 DEF Commands
  <1>6. ASSUME InStep, Delivered
        PROVE  InStep' /\ Delivered'
    <2>1. Reached = host.cmd.count
      <3>1. xfer.start = host.cmd.start + (Reached + 0) /\ xfer.start + 0 = host.cmd.start + host.cmd.count
        BY <1>1, <1>6 DEF InStep, Commands, Pending
      <3> QED
        BY <3>1, AllReached, Numbers
    <2>2. host.cmd.op = "Read10" /\ StatusPrepared
      BY <1>1, <1>6 DEF InStep, Commands
    <2>3. fifo = Empty => Len(host.got) = host.cmd.count /\ host.phase = "status"
      <3>1. fifo = Empty => BodyLen(fifo) = 0
        BY PacketFacts DEF BodyLen
      <3>2. fifo = Empty => Len(host.got) = host.cmd.count
        <4> HIDE DEF MassInv, SendFrame, SendCSW
        <4> QED
          BY <2>1, <3>1, Numbers DEF Reached, MassInv
      <3>3. host.phase = IF Len(host.got) < host.cmd.count THEN "in" ELSE "status"
        BY <1>1, <1>6 DEF InStep
      <3> QED
        BY <3>2, <3>3, Numbers
    <2>4. fifo # Empty => fifo.kind = "data" /\ host.phase = "in" /\ Reached' = Reached
      BY <1>1, <1>2, <1>6, PacketFacts, Numbers DEF InStep, Reached
    <2>5. InStep'
      BY <1>1, <1>2, <1>6, <2>1, <2>2, <2>3, <2>4, PacketFacts DEF InStep, StatusPrepared, Endpoints
    <2>6. ReadSoFar'
      BY <1>1, <1>2, <1>6, <2>3, <2>4 DEF Delivered, ReadSoFar, InOrder
    <2>7. AnswerFirst' /\ WrittenSoFar'
      BY <2>2 DEF AnswerFirst, WrittenSoFar
    <2> QED
      BY <2>5, <2>6, <2>7 DEF Delivered
  <1> QED
    BY <1>3, <1>4, <1>5, <1>6

ReceiveCommand ==
    /\ mass_state' = "RECEIVE_CBW"
    /\ StartOut("cbw", 0)
    /\ UNCHANGED xfer

\* An answer has been sent: its status follows, and the next command may come.
LEMMA AnswerSentInv ==
    ASSUME MassInv, SendFrame, upc = "in", upc' = "readDma", epIn.state = "cpu", epIn.stage = "loaded",
           mass_state = "SENDING_CSW", StartIn(Csw(csw)), ReceiveCommand
    PROVE  MassInv'
  <1> USE DEF MassInv, SendFrame, ReceiveCommand, StartOut
  <1>1. /\ epIn' \in [state : EpState, stage : Stage, packet : Packet] /\ fifo' \in Packet
        /\ epIn'.state = "cpu" /\ epIn'.packet = Csw(csw) /\ Csw(csw).kind = "csw"
        /\ epIn'.stage = IF fifo = Empty THEN "loaded" ELSE "waiting"
        /\ fifo' = IF fifo = Empty THEN Csw(csw) ELSE fifo
        /\ Csw(csw) # Empty /\ Csw(csw).tag = csw.tag /\ Csw(csw).good = csw.good
    <2>1. csw \in [tag : {0, 1}, good : BOOLEAN]
      BY DEF Types, TypeOK
    <2> QED
      BY <2>1, PacketFacts, StartInEffect
  <1>2. epOut' = [state |-> "cpu", buf |-> "cbw", len |-> 0, body |-> <<>>] /\ epOut.state # "dma"
    BY DEF Endpoints
  <1>3. Types'
    <2>1. epOut' \in [state : EpState, buf : {"none", "cbw", "mass"}, len : Nat, body : Seq(Data)]
      BY <1>2 DEF EpState
    <2> QED
      BY <1>1, <2>1 DEF Types, TypeOK
  <1>4. Endpoints' /\ DmaLatches' /\ InLatch'
    BY <1>1, <1>2 DEF Endpoints, DmaLatches, InLatch
  <1>5. Commands'
    BY DEF Commands
  <1>6. ASSUME InStep, Delivered
        PROVE  InStep' /\ Delivered'
    <2>1. /\ host.cmd.op # "Read10" /\ StatusPrepared /\ rx = Empty
          /\ host.phase = IF fifo = Empty THEN "status" ELSE "in"
      BY <1>6 DEF InStep
    <2>2. fifo # Empty => fifo.kind = "data"
      BY <1>6, PacketFacts DEF InStep, Types
    <2>3. InStep'
      BY <1>1, <1>2, <1>6, <2>1, <2>2, PacketFacts DEF InStep, StatusPrepared
    <2>4. ReadSoFar'
      BY <2>1 DEF ReadSoFar
    <2>5. AnswerFirst'
      BY <1>1, <1>6, <2>1, <2>2 DEF Delivered, AnswerFirst
    <2>6. WrittenSoFar'
      BY <1>6 DEF Delivered, WrittenSoFar
    <2> QED
      BY <2>3, <2>4, <2>5, <2>6 DEF Delivered
  <1> QED
    BY <1>3, <1>4, <1>5, <1>6

\* A status, or nothing in particular, has been sent.
LEMMA SentInv ==
    ASSUME MassInv, SendFrame, upc = "in", upc' = "readDma", epIn.state = "cpu", epIn.stage = "loaded", InDone,
           \/ mass_state = "SENDED_CSW" /\ ReceiveCommand
           \/ mass_state \in {"RECEIVE_CBW", "RECEIVE_DATA"} /\ UNCHANGED <<epOut, xfer, mass_state>>
    PROVE  MassInv'
  <1> USE DEF MassInv, SendFrame, ReceiveCommand, StartOut, InDone
  <1>1. epIn' = InFinished /\ fifo' = fifo /\ xfer' = xfer
    OBVIOUS
  <1>2. \/ mass_state' = mass_state /\ epOut' = epOut
        \/ /\ mass_state = "SENDED_CSW" /\ mass_state' = "RECEIVE_CBW" /\ epOut.state # "dma"
           /\ epOut' = [state |-> "cpu", buf |-> "cbw", len |-> 0, body |-> <<>>]
    BY DEF Endpoints
  <1>3. Types'
    <2>1. epOut' \in [state : EpState, buf : {"none", "cbw", "mass"}, len : Nat, body : Seq(Data)]
      <3>1. epOut \in [state : EpState, buf : {"none", "cbw", "mass"}, len : Nat, body : Seq(Data)]
        BY DEF Types
      <3> HIDE DEF MassInv
      <3>2. [state |-> "cpu", buf |-> "cbw", len |-> 0, body |-> <<>>]
               \in [state : EpState, buf : {"none", "cbw", "mass"}, len : Nat, body : Seq(Data)]
        BY DEF EpState
      <3> QED
        BY <1>2, <3>1, <3>2
    <2>2. epIn' \in [state : EpState, stage : Stage, packet : Packet]
      BY <1>1, PacketFacts DEF InFinished, EpState, Stage
    <2> QED
      BY <1>1, <1>2, <2>1, <2>2 DEF Types, TypeOK
  <1>4. Endpoints' /\ DmaLatches' /\ InLatch'
    BY <1>1, <1>2 DEF Endpoints, DmaLatches, InLatch, InFinished, Quiet
  <1>5. Commands'
    BY <1>1, <1>2 DEF Commands
  <1>6. ASSUME InStep, Delivered
        PROVE  InStep' /\ Delivered'
    <2>1. fifo.kind # "data"
      BY <1>6 DEF InStep, Endpoints, Quiet, Empty
    <2>2. InStep'
      BY <1>1, <1>2, <1>6, <2>1 DEF InStep, StatusPrepared, InFinished, Quiet
    <2>3. ReadSoFar'
      BY <1>1, <1>2, <1>6, <2>1 DEF Delivered, ReadSoFar, InOrder
    <2>4. AnswerFirst'
      BY <1>1, <1>2, <1>6 DEF Delivered, AnswerFirst, InFinished
    <2>5. WrittenSoFar'
      BY <1>1, <1>2, <1>6 DEF Delivered, WrittenSoFar
    <2> QED
      BY <2>2, <2>3, <2>4, <2>5 DEF Delivered
  <1> QED
    BY <1>1, <1>2, <1>3, <1>4, <1>5, <1>6

\* handle_send.
LEMMA SendInv == ASSUME MassInv, SendFinished \/ SendDmaFinished PROVE MassInv'
  <1>1. SendFrame
    <2>1. enable.in \in BOOLEAN /\ enable.out \in BOOLEAN
      BY DEF MassInv, Types, TypeOK
    <2>2. \E a, b \in {TRUE, FALSE, enable.out} : enable' = [in |-> a, out |-> b]
      BY DEF SendFinished, SendDmaFinished, HandleSend, Enable
    <2>3. PICK a \in BOOLEAN, b \in BOOLEAN : enable' = [in |-> a, out |-> b]
      BY <2>1, <2>2
    <2>4. enable' \in [in : BOOLEAN, out : BOOLEAN]
      BY <2>3
    <2> QED
      BY <2>4 DEF SendFrame, SendFinished, SendDmaFinished, HandleSend, FinishedIn, FinishedDma
  <1>2. CASE SendFinished
    <2>1. upc = "in" /\ upc' = "readDma" /\ epIn.state = "cpu" /\ epIn.stage = "loaded" /\ mass_state # "SEND_DATA"
      BY <1>2 DEF SendFinished, FinishedIn, MassInv, Endpoints
    <2>2. CASE mass_state = "SENDING_CSW"
      <3>1. StartIn(Csw(csw)) /\ ReceiveCommand
        BY <1>2, <2>2 DEF SendFinished, HandleSend, ReceiveCommand
      <3> QED
        BY <1>1, <2>1, <2>2, <3>1, AnswerSentInv
    <2>3. CASE mass_state # "SENDING_CSW"
      <3>1. /\ InDone
            /\ \/ mass_state = "SENDED_CSW" /\ ReceiveCommand
               \/ mass_state \in {"RECEIVE_CBW", "RECEIVE_DATA"} /\ UNCHANGED <<epOut, xfer, mass_state>>
        BY <1>2, <2>1, <2>3 DEF SendFinished, HandleSend, ReceiveCommand
      <3> QED
        BY <1>1, <2>1, <3>1, SentInv
    <2> QED
      BY <2>2, <2>3
  <1>3. CASE SendDmaFinished
    <2>1. upc = "dma" /\ upc' = "out" /\ epIn.state = "dma" /\ seen.dmaIn /\ mass_state = "SEND_DATA"
      BY <1>3 DEF SendDmaFinished, FinishedDma, MassInv, Endpoints
    <2>2. xfer.nr \in Nat
      BY Numbers DEF MassInv
    <2>3. CASE xfer.nr # 0
      <3>1. SendSectors(cbw.lun, xfer.start, xfer.nr) /\ UNCHANGED epOut
        BY <1>3, <2>1, <2>3 DEF SendDmaFinished, HandleSend
      <3> QED
        BY <1>1, <2>1, <2>3, <3>1, NextPartInv
    <2>4. CASE xfer.nr = 0
      <3>1. SendCSW(csw) /\ UNCHANGED <<epOut, xfer>>
        BY <1>3, <2>1, <2>4 DEF SendDmaFinished, HandleSend
      <3> QED
        BY <1>1, <2>1, <2>4, <3>1, ReadDoneInv
    <2> QED
      BY <2>3, <2>4
  <1> QED
    BY <1>2, <1>3

\* A command has arrived: nothing is under way, and the host waits for it.
LEMMA CommandFacts ==
    ASSUME MassInv, FinishedOut, mass_state = "RECEIVE_CBW"
    PROVE  /\ bus = "up" /\ InStep /\ Delivered
           /\ rx.cmd = host.cmd /\ rx' = Empty /\ intr' = intr /\ fifo = Empty
           /\ epIn.state # "dma" /\ (epIn.state = "cpu" => epIn.stage = "loaded") /\ epOut.state = "cpu"
           /\ host.phase = FirstPhase(host.cmd) /\ host.got = <<>> /\ host.sent = 0
           /\ host.cmd \in Command
           /\ Transfers(host.cmd.op) => host.cmd.lun \in sized /\ Inside(host.cmd.start, host.cmd.count)
           /\ host.cmd.op = "Read10" => host.cmd.count > 0
           /\ host.cmd.op = "Write10" /\ host.phase # "idle" => Len(host.want) = host.cmd.count
           /\ upc = "out" /\ seen' \in Latches
           /\ ~intr.dmaIn /\ ~intr.dmaOut /\ ~seen'.dmaOut
  <1> USE DEF MassInv, FinishedOut
  <1>1. bus = "up" /\ rx # Empty /\ InStep /\ Delivered
    BY DEF Commands
  <1>2. seen \in Latches /\ seen' = [seen EXCEPT !.out = FALSE]
    BY DEF Types, TypeOK
  <1>3. seen' \in Latches /\ seen'.dmaOut = seen.dmaOut
    BY <1>2 DEF Latches
  <1>4. epOut.state = "cpu" /\ epIn.state # "dma" /\ ~intr.dmaIn /\ ~intr.dmaOut /\ ~seen.dmaOut
    BY DEF Endpoints, DmaLatches
  <1>5. Quiet /\ rx.cmd = host.cmd
    BY <1>1 DEF InStep, Commands
  <1>6. host.phase = FirstPhase(host.cmd) /\ host.got = <<>> /\ host.sent = 0
    BY <1>1, <1>5 DEF InStep
  <1>7. /\ Transfers(host.cmd.op) => host.cmd.lun \in sized /\ Inside(host.cmd.start, host.cmd.count)
        /\ host.cmd.op = "Read10" => host.cmd.count > 0
    BY <1>1, <1>5 DEF Commands
  <1>8. host.cmd.op = "Write10" /\ host.phase # "idle" => Len(host.want) = host.cmd.count
    BY <1>1 DEF InStep
  <1> QED
    BY <1>1, <1>3, <1>4, <1>5, <1>6, <1>7, <1>8, Numbers DEF Quiet

CommandFrame ==
    /\ FinishedOut /\ mass_state = "RECEIVE_CBW"
    /\ cbw' = host.cmd
    /\ csw' \in [tag : {0, 1}, good : BOOLEAN] /\ csw'.tag = host.cmd.tag
    /\ iscardin' \in BOOLEAN /\ sized' \subseteq LUNs /\ sized \subseteq sized'
    /\ enable' \in [in : BOOLEAN, out : BOOLEAN]
    /\ UNCHANGED <<disk, conn, card, bus, host>>

LEMMA OutDoneTyped ==
    OutDone => epOut' \in [state : EpState, buf : {"none", "cbw", "mass"}, len : Nat, body : Seq(Data)]
               /\ epOut'.state = "done"
  BY DEF OutDone, OutFinished, EpState

\* An answer that fits one packet is on its way.
LEMMA AnswerInv ==
    ASSUME MassInv, CommandFrame, NEW b \in Seq(Data), Len(b) = 1, StartIn(Payload(b)), OutDone,
           mass_state' = "SENDING_CSW", UNCHANGED xfer, upc' = "outDma",
           host.cmd.op \in DataIn \ {"Read10"}, host.cmd.op = "Capacity" => host.cmd.lun \in sized'
    PROVE  MassInv'
  <1> USE DEF MassInv, CommandFrame
  <1>1. /\ bus = "up" /\ InStep /\ Delivered /\ fifo = Empty /\ rx' = Empty /\ intr' = intr
        /\ host.phase = "in" /\ host.got = <<>>
        /\ host.cmd \in Command /\ seen' \in Latches /\ ~intr.dmaIn /\ ~intr.dmaOut /\ ~seen'.dmaOut
    BY CommandFacts DEF FirstPhase
  <1>2. /\ epIn' \in [state : EpState, stage : Stage, packet : Packet] /\ fifo' \in Packet
        /\ epIn'.state = "cpu" /\ epIn'.stage = "loaded" /\ fifo' = Payload(b)
        /\ Payload(b) # Empty /\ Payload(b).kind = "data" /\ Payload(b).body = b
    BY <1>1, PacketFacts, StartInEffect
  <1>3. Types'
    <2>1. TypeOK'
      BY <1>1, <1>2, OutDoneTyped DEF Types, TypeOK
    <2> QED
      BY <1>1, <1>2, <2>1, OutDoneTyped DEF Types
  <1>4. Endpoints' /\ DmaLatches' /\ InLatch'
    BY <1>1, <1>2, OutDoneTyped DEF Endpoints, DmaLatches, InLatch
  <1>5. Commands'
    BY <1>1 DEF Commands
  <1>6. InStep'
    BY <1>1, <1>2 DEF InStep, StatusPrepared
  <1>7. ReadSoFar' /\ WrittenSoFar'
    BY DEF ReadSoFar, WrittenSoFar, DataIn
  <1>8. AnswerFirst'
    BY <1>1, <1>2 DEF AnswerFirst
  <1> QED
    BY <1>1, <1>3, <1>4, <1>5, <1>6, <1>7, <1>8 DEF Delivered

\* A status is on its way that needs no data phase.
LEMMA NoDataInv ==
    ASSUME MassInv, CommandFrame, SendCSW(csw'), upc' = "outDma",
           epOut' \in [state : EpState, buf : {"none", "cbw", "mass"}, len : Nat, body : Seq(Data)],
           epOut'.state # "dma", epOut'.state = "cpu" => epOut'.buf = "mass",
           xfer' \in [start : Nat, nr : Nat], xfer'.nr \in 0 .. MaxCount, xfer'.start \in Block,
           xfer'.start + xfer'.nr <= TotalSec,
           host.cmd.op \in {"TestUnitReady", "Other", "Write10"},
           host.cmd.op = "Write10" => host.cmd.count = 0
    PROVE  MassInv'
  <1> USE DEF MassInv, CommandFrame, SendCSW
  <1>1. /\ bus = "up" /\ InStep /\ Delivered /\ fifo = Empty /\ rx' = Empty /\ intr' = intr
        /\ host.phase = "status"
        /\ host.cmd.op = "Write10" => Len(host.want) = host.cmd.count
        /\ host.cmd \in Command /\ seen' \in Latches /\ ~intr.dmaIn /\ ~intr.dmaOut /\ ~seen'.dmaOut
    BY CommandFacts DEF FirstPhase, DataIn
  <1>2. /\ epIn' \in [state : EpState, stage : Stage, packet : Packet] /\ fifo' \in Packet
        /\ epIn'.state = "cpu" /\ epIn'.stage = "loaded" /\ fifo' = Csw(csw')
        /\ Csw(csw') # Empty /\ Csw(csw').kind = "csw"
        /\ Csw(csw').tag = csw'.tag /\ Csw(csw').good = csw'.good
    BY <1>1, PacketFacts, StartInEffect
  <1>3. Types'
    <2>1. TypeOK'
      BY <1>1, <1>2 DEF Types, TypeOK
    <2> QED
      BY <1>1, <1>2, <2>1 DEF Types
  <1>4. Endpoints' /\ DmaLatches' /\ InLatch'
    BY <1>1, <1>2 DEF Endpoints, DmaLatches, InLatch
  <1>5. Commands'
    BY <1>1 DEF Commands
  <1>6. InStep'
    BY <1>1, <1>2 DEF InStep, DataIn
  <1>7. ReadSoFar' /\ AnswerFirst'
    BY DEF ReadSoFar, AnswerFirst, DataIn
  <1>8. WrittenSoFar'
    <2>1. host.cmd.op = "Write10" => 1 .. host.cmd.count = {}
      OBVIOUS
    <2> QED
      BY <2>1 DEF WrittenSoFar
  <1> QED
    BY <1>1, <1>3, <1>4, <1>5, <1>6, <1>7, <1>8 DEF Delivered

\* Where a request begins.
LEMMA RequestFits ==
    ASSUME NEW c \in Command, Inside(c.start, c.count)
    PROVE  /\ c.start \in Nat /\ c.count \in 0 .. MaxCount /\ c.count \in Nat /\ c.lun \in LUNs
           /\ c.start + c.count <= TotalSec /\ c.start \in Block /\ c.start <= c.start
           /\ AtMostChunk(c.count) \in Nat
           /\ c.count # 0 => c.count \in 1 .. MaxCount /\ AtMostChunk(c.count) # 0
           /\ c.count = 0 => AtMostChunk(c.count) = 0
           /\ 0 + c.count - 0 = c.count /\ c.start + (0 + 0) = c.start
  BY DeviceAssumption, UdcAssumption DEF Command, Sector, Block, Inside, AtMostChunk

\* The first part of a READ_10.
LEMMA FirstPartInv ==
    ASSUME MassInv, CommandFrame, SendSectors(host.cmd.lun, host.cmd.start, host.cmd.count), OutDone,
           upc' = "outDma", host.cmd.op = "Read10"
    PROVE  MassInv'
  <1> USE DEF MassInv, CommandFrame
  <1>1. /\ bus = "up" /\ InStep /\ Delivered /\ fifo = Empty /\ rx' = Empty /\ intr' = intr
        /\ host.phase = "in" /\ host.got = <<>>
        /\ host.cmd \in Command /\ seen' \in Latches /\ ~intr.dmaIn /\ ~intr.dmaOut /\ ~seen'.dmaOut
        /\ host.cmd.lun \in sized /\ Inside(host.cmd.start, host.cmd.count)
        /\ host.cmd.count > 0
    BY CommandFacts DEF FirstPhase, DataIn, Transfers
  <1>2. /\ host.cmd.start \in Nat /\ host.cmd.count \in 1 .. MaxCount /\ host.cmd.lun \in LUNs
        /\ host.cmd.start + host.cmd.count <= TotalSec
    <2> HIDE DEF MassInv, CommandFrame
    <2>1. host.cmd.count # 0
      BY <1>1
    <2> QED
      BY <1>1, <2>1, RequestFits
  <1>3. /\ epIn' \in [state : EpState, stage : Stage, packet : Packet]
        /\ epIn'.state = "dma" /\ epIn'.stage = "begun"
        /\ epIn'.packet.kind = "data"
        /\ Len(epIn'.packet.body) = AtMostChunk(host.cmd.count)
        /\ host.cmd.lun \notin Removable =>
              \A i \in 1 .. Len(epIn'.packet.body) :
                  epIn'.packet.body[i] = disk[host.cmd.lun][host.cmd.start + i - 1]
        /\ fifo' = fifo /\ mass_state' = "SEND_DATA"
        /\ xfer' = [start |-> host.cmd.start + AtMostChunk(host.cmd.count),
                    nr |-> host.cmd.count - AtMostChunk(host.cmd.count)]
        /\ AtMostChunk(host.cmd.count) \in 1 .. host.cmd.count
    <2>1. Types
      BY DEF MassInv
    <2> HIDE DEF MassInv, CommandFrame
    <2>2. SectorsSent(host.cmd.lun, host.cmd.start, host.cmd.count)
      BY <1>2, <2>1, SendSectorsEffect
    <2> QED
      BY <1>1, <2>2 DEF SectorsSent
  <1>4. /\ xfer'.start \in Nat /\ xfer'.nr \in Nat /\ xfer'.nr \in 0 .. MaxCount
        /\ xfer'.start \in Block /\ host.cmd.start <= xfer'.start
        /\ xfer'.start + xfer'.nr = host.cmd.start + host.cmd.count /\ xfer' \in [start : Nat, nr : Nat]
    <2> HIDE DEF MassInv, CommandFrame
    <2>1. PICK k \in 1 .. host.cmd.count : xfer' = [start |-> host.cmd.start + k, nr |-> host.cmd.count - k]
      BY <1>3
    <2>2. /\ host.cmd.start + k \in Nat /\ host.cmd.count - k \in Nat /\ host.cmd.count - k \in 0 .. MaxCount
          /\ host.cmd.start + k \in Block /\ host.cmd.start <= host.cmd.start + k
          /\ (host.cmd.start + k) + (host.cmd.count - k) = host.cmd.start + host.cmd.count
      BY <1>2, PartFits
    <2> QED
      BY <2>1, <2>2
  <1>5. Types'
    <2>1. TypeOK'
      BY <1>1, <1>3, <1>4, OutDoneTyped DEF Types, TypeOK
    <2> QED
      BY <1>1, <1>3, <1>4, <2>1, OutDoneTyped DEF Types
  <1>6. Endpoints' /\ DmaLatches' /\ InLatch'
    <2>1. Endpoints'
      BY <1>1, <1>3, OutDoneTyped DEF Endpoints
    <2>2. DmaLatches' /\ InLatch'
      BY <1>1, <1>3, OutDoneTyped DEF DmaLatches, InLatch
    <2> QED
      BY <2>1, <2>2
  <1>7. Commands'
    BY <1>1, <1>2, <1>3, <1>4 DEF Commands
  <1>8. /\ BodyLen(fifo)' = 0 /\ Len(host.got) = 0 /\ Reached' = 0 /\ Pending' = AtMostChunk(host.cmd.count)
    BY <1>1, <1>3, PacketFacts DEF BodyLen, Reached, Pending
  <1>9. InStep'
    <2>1. xfer'.start = host.cmd.start + (Reached' + Pending')
      BY <1>3, <1>8
    <2>2. Len(host.got) < host.cmd.count
      BY <1>1, <1>8
    <2> QED
      BY <1>1, <1>3, <2>1, <2>2, PacketFacts DEF InStep, StatusPrepared
  <1>10. ReadSoFar'
    <2>1. host.cmd.lun \notin Removable =>
              \A i \in 1 .. Len(epIn'.packet.body) :
                  epIn'.packet.body[i] = disk[host.cmd.lun][host.cmd.start + 0 + i - 1]
      <3> HIDE DEF MassInv, CommandFrame
      <3>1. host.cmd.start + 0 = host.cmd.start
        BY <1>2
      <3> QED
        BY <1>3, <3>1
    <2>2. InOrder(host.got, 0)'
      BY <1>1 DEF InOrder
    <2> QED
      BY <1>1, <1>3, <1>8, <2>1, <2>2, PacketFacts DEF ReadSoFar, InOrder
  <1>11. AnswerFirst' /\ WrittenSoFar'
    BY DEF AnswerFirst, WrittenSoFar
  <1> QED
    BY <1>1, <1>5, <1>6, <1>7, <1>9, <1>10, <1>11 DEF Delivered

\* A WRITE_10 waits for the first part of its data.
LEMMA WriteStartsInv ==
    ASSUME MassInv, CommandFrame, upc' = "outDma", host.cmd.op = "Write10", host.cmd.count # 0,
           xfer' = [start |-> host.cmd.start, nr |-> host.cmd.count],
           StartOut("mass", AtMostChunk(host.cmd.count)),
           mass_state' = "RECEIVE_DATA", UNCHANGED <<epIn, fifo>>
    PROVE  MassInv'
  <1> USE DEF MassInv, CommandFrame
  <1>1. /\ bus = "up" /\ InStep /\ Delivered /\ fifo = Empty /\ rx' = Empty /\ intr' = intr
        /\ host.phase = "out" /\ host.sent = 0 /\ Len(host.want) = host.cmd.count
        /\ epIn.state # "dma" /\ (epIn.state = "cpu" => epIn.stage = "loaded")
        /\ host.cmd \in Command /\ seen' \in Latches /\ ~intr.dmaIn /\ ~intr.dmaOut /\ ~seen'.dmaOut
        /\ host.cmd.lun \in sized /\ Inside(host.cmd.start, host.cmd.count)
    <2>1. host.cmd.count \in Nat
      BY Numbers
    <2> QED
      BY <2>1, CommandFacts DEF FirstPhase, DataIn, Transfers
  <1>2. /\ host.cmd.start \in Nat /\ host.cmd.count \in 1 .. MaxCount /\ host.cmd.count \in 0 .. MaxCount
        /\ host.cmd.start + host.cmd.count <= TotalSec /\ host.cmd.lun \in LUNs /\ host.cmd.start \in Block
        /\ host.cmd.start <= host.cmd.start /\ 0 + host.cmd.count - 0 = host.cmd.count
        /\ AtMostChunk(host.cmd.count) \in Nat /\ AtMostChunk(host.cmd.count) # 0
        /\ host.cmd.count \in Nat
    BY <1>1, RequestFits
  <1>3. /\ epOut' = [state |-> "dma", buf |-> "mass", len |-> AtMostChunk(host.cmd.count), body |-> <<>>]
        /\ epOut' \in [state : EpState, buf : {"none", "cbw", "mass"}, len : Nat, body : Seq(Data)]
    BY <1>2 DEF StartOut, EpState
  <1>4. Types'
    <2>1. xfer'.nr \in 0 .. MaxCount /\ xfer'.start \in Block /\ xfer' \in [start : Nat, nr : Nat]
      BY <1>2
    <2>2. TypeOK'
      BY <1>1, <1>3, <2>1 DEF Types, TypeOK
    <2> QED
      BY <1>1, <1>3, <2>1, <2>2 DEF Types
  <1>5. Endpoints'
    BY <1>1, <1>2, <1>3 DEF Endpoints, Quiet
  <1>6. DmaLatches' /\ InLatch'
    BY <1>1, <1>3 DEF DmaLatches, InLatch
  <1>7. Commands'
    BY <1>1, <1>2 DEF Commands
  <1>8. InStep'
    BY <1>1, <1>2, <1>3, PacketFacts DEF InStep, Quiet, StatusPrepared
  <1>9. ReadSoFar' /\ AnswerFirst'
    BY DEF ReadSoFar, AnswerFirst, DataIn
  <1>10. WrittenSoFar'
    <2>1. 1 .. host.cmd.count - host.cmd.count = {}
      BY <1>2
    <2>2. 1 .. Len(epOut'.body) = {}
      BY <1>3
    <2> QED
      BY <1>1, <2>1, <2>2 DEF WrittenSoFar
  <1> QED
    BY <1>1, <1>4, <1>5, <1>6, <1>7, <1>8, <1>9, <1>10 DEF Delivered

LEMMA EnableTyped ==
    MassInv => \A a \in {TRUE, FALSE, enable.in, enable.out}, b \in {TRUE, FALSE, enable.in, enable.out} :
                   [in |-> a, out |-> b] \in [in : BOOLEAN, out : BOOLEAN]
  <1>1. MassInv => enable.in \in BOOLEAN /\ enable.out \in BOOLEAN
    BY DEF MassInv, Types, TypeOK
  <1> QED
    BY <1>1

LEMMA SmallAnswers == <<0>> \in Seq(Data) /\ <<1>> \in Seq(Data) /\ Len(<<0>>) = 1 /\ Len(<<1>>) = 1
  <1>1. 0 \in Data /\ 1 \in Data
    BY DeviceAssumption DEF Data, Junk
  <1> QED
    BY <1>1

\* USB_HandleCBW with a good signature.
LEMMA CommandInv == ASSUME MassInv, HandleCBW PROVE MassInv'
  <1> DEFINE c == host.cmd
  <1>1. /\ FinishedOut /\ mass_state = "RECEIVE_CBW" /\ rx.cmd = c /\ c \in Command
        /\ cbw' = c /\ UNCHANGED <<conn, card, bus, host>> /\ upc' = "outDma"
        /\ csw' = [tag |-> c.tag, good |-> c.op = "TestUnitReady" => ~NotReady(c.lun)]
        /\ \/ Inquiry(c) \/ RequestSense(c) \/ Capacity(c) \/ Read10(c) \/ Write10(c) \/ NoData(c)
    BY CommandFacts DEF HandleCBW
  <1>2. csw' \in [tag : {0, 1}, good : BOOLEAN] /\ csw'.tag = c.tag
    <2>1. c.tag \in {0, 1} /\ c.lun \in LUNs
      BY <1>1 DEF Command
    <2>2. (c.op = "TestUnitReady" => ~NotReady(c.lun)) \in BOOLEAN
      OBVIOUS
    <2> QED
      BY <1>1, <2>1, <2>2
  <1>3. iscardin \in BOOLEAN /\ sized \subseteq LUNs /\ c.lun \in LUNs
    BY <1>1 DEF MassInv, Types, TypeOK, Command
  <1>4. xfer \in [start : Nat, nr : Nat] /\ xfer.nr \in 0 .. MaxCount /\ xfer.start \in Block /\ xfer.start + xfer.nr <= TotalSec
    BY DEF MassInv, Types, TypeOK, Commands
  <1>5. ASSUME Enable(TRUE, FALSE) \/ Enable(TRUE, TRUE) \/ Enable(enable.in, FALSE)
        PROVE  enable' \in [in : BOOLEAN, out : BOOLEAN]
    BY <1>5, EnableTyped DEF Enable
  <1>6. ASSUME Enable(TRUE, FALSE) \/ Enable(TRUE, TRUE) \/ Enable(enable.in, FALSE), UNCHANGED disk,
               iscardin' \in BOOLEAN, sized' = sized \/ sized' = sized \cup {c.lun}
        PROVE  CommandFrame
    BY <1>1, <1>2, <1>3, <1>5, <1>6 DEF CommandFrame
  <1> HIDE DEF c
  <1>7. CASE Inquiry(c)
    <2>1. /\ CommandFrame /\ StartIn(Payload(<<0>>)) /\ OutDone /\ mass_state' = "SENDING_CSW" /\ UNCHANGED xfer
          /\ c.op \in DataIn \ {"Read10"} /\ c.op # "Capacity"
      BY <1>3, <1>6, <1>7 DEF Inquiry, Answer, DataIn
    <2> QED
      BY <1>1, <2>1, AnswerInv, SmallAnswers DEF c
  <1>8. CASE RequestSense(c)
    <2>1. PICK b \in {<<0>>, <<1>>} : Answer(b)
      BY <1>8 DEF RequestSense
    <2>2. iscardin' \in BOOLEAN
      BY <1>8 DEF RequestSense
    <2>3. /\ CommandFrame /\ StartIn(Payload(b)) /\ OutDone /\ mass_state' = "SENDING_CSW" /\ UNCHANGED xfer
          /\ c.op \in DataIn \ {"Read10"} /\ c.op # "Capacity"
      BY <1>6, <1>8, <2>1, <2>2 DEF RequestSense, Answer, DataIn
    <2> QED
      BY <1>1, <2>1, <2>3, AnswerInv, SmallAnswers DEF c
  <1>9. CASE Capacity(c)
    <2>1. /\ CommandFrame /\ StartIn(Payload(<<0>>)) /\ OutDone /\ mass_state' = "SENDING_CSW" /\ UNCHANGED xfer
          /\ c.op \in DataIn \ {"Read10"} /\ c.lun \in sized'
      BY <1>3, <1>6, <1>9 DEF Capacity, Answer, DataIn
    <2> QED
      BY <1>1, <2>1, AnswerInv, SmallAnswers DEF c
  <1>10. CASE Read10(c)
    <2>1. CommandFrame /\ SendSectors(c.lun, c.start, c.count) /\ OutDone /\ c.op = "Read10"
      BY <1>3, <1>6, <1>10 DEF Read10
    <2> QED
      BY <1>1, <2>1, FirstPartInv DEF c
  <1>11. CASE Write10(c)
    <2>1. /\ CommandFrame /\ c.op = "Write10" /\ xfer' = [start |-> c.start, nr |-> c.count]
          /\ StartOut("mass", AtMostChunk(c.count))
      BY <1>3, <1>6, <1>11 DEF Write10
    <2>2. /\ c.count \in Nat /\ Inside(c.start, c.count)
      BY <1>1, <2>1, Numbers, CommandFacts DEF c, MassInv, Transfers
    <2>3. CASE c.count = 0
      <3>1. SendCSW(csw')
        BY <1>11, <2>3 DEF Write10
      <3>2. AtMostChunk(c.count) = 0
        BY <1>1, <2>2, <2>3, RequestFits
      <3>3. /\ epOut' = [state |-> "cpu", buf |-> "mass", len |-> 0, body |-> <<>>]
            /\ epOut' \in [state : EpState, buf : {"none", "cbw", "mass"}, len : Nat, body : Seq(Data)]
        BY <2>1, <3>2 DEF StartOut, EpState
      <3>4. /\ xfer' \in [start : Nat, nr : Nat] /\ xfer'.nr \in 0 .. MaxCount /\ xfer'.start \in Block
            /\ xfer'.start + xfer'.nr <= TotalSec
        BY <1>1, <2>1, <2>2, RequestFits
      <3> QED
        BY <1>1, <2>1, <2>3, <3>1, <3>3, <3>4, NoDataInv DEF c
    <2>4. CASE c.count # 0
      <3>1. mass_state' = "RECEIVE_DATA" /\ UNCHANGED <<epIn, fifo>>
        BY <1>11, <2>2, <2>4 DEF Write10
      <3> QED
        BY <1>1, <2>1, <2>4, <3>1, WriteStartsInv DEF c
    <2> QED
      BY <2>3, <2>4
  <1>12. CASE NoData(c)
    <2>1. /\ CommandFrame /\ SendCSW(csw') /\ OutDone /\ UNCHANGED xfer
          /\ c.op \in {"TestUnitReady", "Other"}
      BY <1>3, <1>6, <1>12 DEF NoData
    <2> QED
      BY <1>1, <1>4, <2>1, NoDataInv, OutDoneTyped DEF c
  <1> QED
    BY <1>1, <1>7, <1>8, <1>9, <1>10, <1>11, <1>12

\* A wrapper with another signature.
LEMMA BadCommandInv == ASSUME MassInv, HandleBadCBW PROVE MassInv'
  <1> USE DEF MassInv, HandleBadCBW, devVars
  <1>1. /\ bus = "up" /\ InStep /\ Delivered /\ fifo = Empty /\ rx' = Empty /\ intr' = intr
        /\ host.phase = "status" /\ host.cmd.op = "Bad"
        /\ epIn.state # "dma" /\ (epIn.state = "cpu" => epIn.stage = "loaded")
        /\ seen' \in Latches /\ ~intr.dmaIn /\ ~intr.dmaOut /\ ~seen'.dmaOut
    BY CommandFacts DEF FirstPhase, DataIn
  <1>2. Types'
    <2>1. enable' \in [in : BOOLEAN, out : BOOLEAN]
      BY EnableTyped DEF Enable
    <2> QED
      BY <1>1, <2>1, OutDoneTyped DEF Types, TypeOK
  <1>3. Endpoints' /\ DmaLatches' /\ InLatch'
    BY <1>1, OutDoneTyped DEF Endpoints, DmaLatches, InLatch, Quiet
  <1>4. Commands'
    BY <1>1 DEF Commands
  <1>5. InStep'
    BY <1>1, PacketFacts DEF InStep, Quiet
  <1>6. ReadSoFar' /\ AnswerFirst' /\ WrittenSoFar'
    BY <1>1 DEF ReadSoFar, AnswerFirst, WrittenSoFar, DataIn
  <1> QED
    BY <1>1, <1>2, <1>3, <1>4, <1>5, <1>6 DEF Delivered

\* A capacity command without a medium: the task waits for the host to take the stall.
LEMMA StallInv == ASSUME MassInv, CapacityStalls PROVE MassInv'
  <1> USE DEF MassInv, CapacityStalls
  <1>1. /\ bus = "up" /\ InStep /\ Delivered /\ fifo = Empty /\ rx' = Empty /\ intr' = intr
        /\ host.phase = "in" /\ host.cmd.op = "Capacity" /\ rx.cmd = host.cmd /\ host.cmd \in Command
        /\ epIn.state # "dma" /\ (epIn.state = "cpu" => epIn.stage = "loaded")
        /\ seen' \in Latches /\ ~intr.dmaIn /\ ~intr.dmaOut /\ ~seen'.dmaOut
    BY CommandFacts DEF FirstPhase, DataIn
  <1>2. Types'
    <2>1. enable' \in [in : BOOLEAN, out : BOOLEAN]
      BY EnableTyped DEF Enable
    <2>2. host.cmd.lun \in LUNs /\ host.cmd.tag \in {0, 1}
      BY <1>1 DEF Command
    <2>3. sized' \subseteq LUNs /\ csw' \in [tag : {0, 1}, good : BOOLEAN]
      BY <1>1, <2>2 DEF Types, TypeOK
    <2> QED
      BY <1>1, <2>1, <2>3, OutDoneTyped DEF Types, TypeOK
  <1>3. Endpoints' /\ DmaLatches' /\ InLatch'
    BY <1>1, OutDoneTyped DEF Endpoints, DmaLatches, InLatch, Quiet
  <1>4. Commands'
    BY <1>1 DEF Commands
  <1>5. InStep'
    BY <1>1, PacketFacts DEF InStep, Quiet, StatusPrepared
  <1>6. ReadSoFar' /\ AnswerFirst' /\ WrittenSoFar'
    BY <1>1, PacketFacts DEF ReadSoFar, AnswerFirst, WrittenSoFar, DataIn
  <1> QED
    BY <1>1, <1>2, <1>3, <1>4, <1>5, <1>6 DEF Delivered

\* The stall has been taken, and the failed status is started.
LEMMA StalledInv == ASSUME MassInv, Stalled PROVE MassInv'
  <1> USE DEF MassInv, Stalled, SendCSW
  <1>1. /\ bus = "up" /\ InStep /\ Delivered /\ fifo = Empty /\ mass_state = "SENDING_CSW" /\ Quiet
        /\ host.phase = "in" /\ host.cmd.op \in DataIn /\ host.cmd.op # "Read10" /\ ~csw.good
        /\ csw.tag = host.cmd.tag /\ rx = Empty
    BY DEF Endpoints, InStep, StatusPrepared
  <1>2. csw \in [tag : {0, 1}, good : BOOLEAN] /\ csw' \in [tag : {0, 1}, good : BOOLEAN]
    BY DEF Types, TypeOK
  <1>3. /\ epIn' \in [state : EpState, stage : Stage, packet : Packet] /\ fifo' \in Packet
        /\ epIn'.state = "cpu" /\ epIn'.stage = "loaded" /\ fifo' = Csw(csw)
        /\ Csw(csw) # Empty /\ Csw(csw).kind = "csw"
        /\ Csw(csw).tag = csw.tag /\ Csw(csw).good = csw.good
    BY <1>1, <1>2, PacketFacts, StartInEffect
  <1>4. host' \in Host /\ host'.phase = "status" /\ host'.cmd = host.cmd /\ host'.knows = host.knows
    <2>1. host \in Host /\ host' = [host EXCEPT !.phase = "status"]
      BY DEF Types
    <2> QED
      BY <2>1 DEF Host
  <1>5. Types'
    <2>1. enable' \in [in : BOOLEAN, out : BOOLEAN]
      BY EnableTyped DEF Enable
    <2> QED
      BY <1>2, <1>3, <1>4, <2>1 DEF Types, TypeOK
  <1>6. Endpoints' /\ DmaLatches' /\ InLatch'
    BY <1>1, <1>3 DEF Endpoints, DmaLatches, InLatch
  <1>7. Commands'
    BY <1>1, <1>4 DEF Commands
  <1>8. InStep'
    BY <1>1, <1>3, <1>4, PacketFacts DEF InStep, DataIn
  <1>9. ReadSoFar' /\ AnswerFirst' /\ WrittenSoFar'
    BY <1>1, <1>3, <1>4, PacketFacts DEF ReadSoFar, AnswerFirst, WrittenSoFar, DataIn
  <1> QED
    BY <1>1, <1>5, <1>6, <1>7, <1>8, <1>9 DEF Delivered

LEMMA PartTyped ==
    ASSUME NEW n \in Nat, n # 0
    PROVE  AtMostChunk(n) \in 1 .. n /\ AtMostChunk(n) \in Nat /\ AtMostChunk(n) # 0
  BY UdcAssumption DEF AtMostChunk

\* WriteDevSector changes the sectors it is given, on a LUN that has its medium.
LEMMA WriteEffect ==
    ASSUME Types, NEW l \in LUNs, NEW x \in Nat, NEW data \in Seq(Data), WriteDevSector(l, x, data)
    PROVE  /\ disk' \in [LUNs -> [Sector -> Data]]
           /\ \A s \in Sector : disk'[l][s] = IF CheckDevState(l) /\ s \in Extent(x, Len(data))
                                              THEN data[s - x + 1] ELSE disk[l][s]
           /\ \A m \in LUNs \ {l} : disk'[m] = disk[m]
  <1>1. disk \in [LUNs -> [Sector -> Data]] /\ TotalSec \in Nat
    BY DeviceAssumption DEF Types, TypeOK
  <1>2. \A s \in Sector : s \in Extent(x, Len(data)) => data[s - x + 1] \in Data
    <2>1. SUFFICES ASSUME NEW s \in Sector, s \in Extent(x, Len(data))
                   PROVE  s - x + 1 \in 1 .. Len(data)
      OBVIOUS
    <2> QED
      BY <1>1, <2>1 DEF Extent, Sector
  <1>3. disk' = [disk EXCEPT ![l] =
            [s \in Sector |-> IF CheckDevState(l) /\ s \in Extent(x, Len(data)) THEN data[s - x + 1] ELSE disk[l][s]]]
    BY DEF WriteDevSector
  <1>4. [s \in Sector |-> IF CheckDevState(l) /\ s \in Extent(x, Len(data)) THEN data[s - x + 1] ELSE disk[l][s]]
           \in [Sector -> Data]
    BY <1>1, <1>2
  <1> QED
    BY <1>1, <1>3, <1>4

\* What is known when the data of a WRITE_10 has come.
LEMMA ReceivedFacts ==
    ASSUME MassInv, ReceiveData
    PROVE  /\ cbw = host.cmd /\ host.cmd.op = "Write10" /\ host.cmd.lun \in LUNs
           /\ epOut.body \in Seq(Data) /\ xfer.nr \in Nat /\ xfer.nr \in 1 .. MaxCount /\ xfer.start \in Nat
           /\ Len(epOut.body) \in 1 .. xfer.nr
           /\ xfer.start + xfer.nr <= TotalSec
           /\ host.cmd.start \in Nat /\ host.cmd.count \in Nat /\ host.cmd.start <= xfer.start
           /\ xfer.start + xfer.nr = host.cmd.start + host.cmd.count
           /\ host.cmd.lun \in sized
           /\ Quiet /\ ~intr.dmaIn
           /\ intr' \in Latches /\ ~intr'.dmaIn /\ ~intr'.dmaOut /\ (intr'.in => intr.in)
           /\ seen' = NoLatch /\ upc' = "wait"
  <1> USE DEF MassInv, ReceiveData, FinishedOutDma, ReceivedDma, ClearLateDma
  <1>1. /\ mass_state = "RECEIVE_DATA" /\ upc = "outDma" /\ epOut.state = "dma"
        /\ epOut.body # <<>> /\ Quiet /\ epIn.state # "dma"
    BY DEF Endpoints, DmaLatches, Quiet
  <1>2. /\ cbw = host.cmd /\ host.cmd.op = "Write10" /\ host.cmd.lun \in LUNs /\ host.cmd.lun \in sized
        /\ epOut.body \in Seq(Data) /\ xfer.nr \in Nat /\ xfer.start \in Nat
        /\ host.cmd.start \in Nat /\ host.cmd.count \in Nat /\ host.cmd.start <= xfer.start
        /\ xfer.start + xfer.nr = host.cmd.start + host.cmd.count
        /\ xfer.start + xfer.nr <= TotalSec
    BY <1>1, Numbers DEF Commands
  <1>3. xfer.nr \in 0 .. MaxCount /\ xfer.nr > 0 /\ Len(epOut.body) = AtMostChunk(xfer.nr)
    BY <1>1 DEF Endpoints, Types, TypeOK
  <1>4. xfer.nr \in 1 .. MaxCount /\ Len(epOut.body) \in 1 .. xfer.nr
    BY <1>2, <1>3, PartTyped
  <1>5. /\ intr \in Latches /\ ~intr.dmaIn
        /\ intr' = IF LateDma THEN [intr EXCEPT !.dmaIn = FALSE, !.dmaOut = FALSE] ELSE intr
    BY <1>1 DEF DmaLatches, Types, TypeOK
  <1>6. CASE LateDma
    <2>1. /\ intr' \in Latches /\ ~intr'.dmaIn /\ ~intr'.dmaOut /\ intr'.in = intr.in
      BY <1>5, <1>6 DEF Latches
    <2> QED
      BY <1>1, <1>2, <1>4, <1>5, <2>1
  <1>7. CASE ~LateDma
    <2>1. ~intr.dmaOut /\ intr' = intr
      BY <1>1, <1>5, <1>7 DEF DmaLatches
    <2> QED
      BY <1>1, <1>2, <1>4, <1>5, <2>1
  <1> QED
    BY <1>6, <1>7

\* The sectors of a WRITE_10 counted as written are on the medium when the next k are.
LEMMA WrittenOn ==
    ASSUME MassInv, ReceiveData, WrittenSoFar, host.cmd.lun \notin Removable
    PROVE  \A i \in 1 .. host.cmd.count - (xfer.nr - Len(epOut.body)) :
               host.want[i] = disk'[host.cmd.lun][host.cmd.start + i - 1]
  <1> DEFINE l == host.cmd.lun
  <1>1. PICK a \in Nat, c \in Nat, n \in Nat, x \in Nat, k \in Nat :
            a = host.cmd.start /\ c = host.cmd.count /\ n = xfer.nr /\ x = xfer.start /\ k = Len(epOut.body)
    BY ReceivedFacts
  <1>2. /\ k \in 1 .. n /\ l \in LUNs /\ x + n = a + c /\ a <= x /\ a + c <= TotalSec
        /\ epOut.body \in Seq(Data) /\ mass_state = "RECEIVE_DATA" /\ host.cmd.op = "Write10"
        /\ WriteDevSector(l, x, epOut.body) /\ Types
    BY <1>1, ReceivedFacts DEF ReceiveData, MassInv
  <1>3. \A s \in Sector : disk'[l][s] = IF s \in Extent(x, k) THEN epOut.body[s - x + 1] ELSE disk[l][s]
    BY <1>1, <1>2, WriteEffect DEF CheckDevState
  <1>4. /\ \A i \in 1 .. c - n : host.want[i] = disk[l][a + i - 1]
        /\ \A j \in 1 .. k : epOut.body[j] = host.want[c - n + j]
    BY <1>1, <1>2 DEF WrittenSoFar
  <1> HIDE DEF l
  <1>5. ASSUME NEW i \in 1 .. c - (n - k)
        PROVE  host.want[i] = disk'[l][a + i - 1]
    <2>1. x = a + c - n /\ n <= c /\ TotalSec \in Nat
      BY <1>2, DeviceAssumption
    <2>2. i \in Nat /\ i >= 1 /\ i <= c - (n - k)
      BY <1>2, <2>1
    <2>3. a + i - 1 \in Sector
      BY <1>2, <2>1, <2>2 DEF Sector
    <2>4. CASE i <= c - n
      <3>1. i \in 1 .. c - n /\ a + i - 1 \notin Extent(x, k)
        BY <2>1, <2>2, <2>4 DEF Extent
      <3> QED
        BY <1>3, <1>4, <2>3, <3>1
    <2>5. CASE i > c - n
      <3>1. a + i - 1 >= x /\ a + i - 1 <= x + k - 1
        BY <1>2, <2>1, <2>2, <2>5
      <3>2. PICK j \in 1 .. k : j = a + i - 1 - x + 1
        BY <2>2, <3>1
      <3>3. c - n + j = i
        BY <2>1, <2>2, <3>2
      <3>4. a + i - 1 \in Extent(x, k)
        BY <2>2, <3>1 DEF Extent
      <3>5. disk'[l][a + i - 1] = epOut.body[j]
        BY <1>3, <2>3, <3>2, <3>4
      <3> QED
        BY <1>4, <3>3, <3>5
    <2> QED
      BY <2>1, <2>2, <2>4, <2>5
  <1> QED
    BY <1>1, <1>5 DEF l

\* Three sums of a WRITE_10.
LEMMA PartReceived ==
    ASSUME NEW t \in Nat, NEW n \in Nat, NEW k \in 1 .. n, NEW c \in Nat, t + n - k = c
    PROVE  /\ n - k = 0 => t = c /\ c - (n - k) = c
           /\ t + (n - k) - 0 = c
           /\ n - k \in Nat /\ n - k <= n
  OBVIOUS

\* handle_receive_data.
LEMMA ReceiveInv == ASSUME MassInv, ReceiveData PROVE MassInv'
  <1> USE DEF MassInv
  <1> DEFINE left == xfer.nr - Len(epOut.body)
  <1>1. /\ cbw = host.cmd /\ host.cmd.op = "Write10" /\ host.cmd.lun \in LUNs
        /\ epOut.body \in Seq(Data) /\ xfer.nr \in Nat /\ xfer.nr \in 1 .. MaxCount /\ xfer.start \in Nat
        /\ Len(epOut.body) \in 1 .. xfer.nr
        /\ xfer.start + xfer.nr <= TotalSec
        /\ host.cmd.start \in Nat /\ host.cmd.count \in Nat /\ host.cmd.start <= xfer.start
        /\ xfer.start + xfer.nr = host.cmd.start + host.cmd.count
        /\ host.cmd.lun \in sized
        /\ Quiet /\ ~intr.dmaIn
        /\ intr' \in Latches /\ ~intr'.dmaIn /\ ~intr'.dmaOut /\ (intr'.in => intr.in)
        /\ seen' = NoLatch /\ upc' = "wait"
    BY ReceivedFacts
  <1>2. /\ mass_state = "RECEIVE_DATA" /\ UNCHANGED <<rx, csw, cbw, iscardin, sized, conn, card, bus, host>>
        /\ xfer' = [start |-> xfer.start + Len(epOut.body), nr |-> left]
        /\ epIn.state # "dma" /\ (epIn.state = "cpu" => epIn.stage = "loaded") /\ fifo = Empty
        /\ \/ left > 0 /\ StartOut("mass", AtMostChunk(left)) /\ UNCHANGED <<epIn, fifo, enable, mass_state>>
           \/ left = 0 /\ OutDone /\ SendCSW(csw) /\ Enable(TRUE, enable.out)
    <2>1. \/ left > 0 /\ StartOut("mass", AtMostChunk(left)) /\ UNCHANGED <<epIn, fifo, enable, mass_state>>
          \/ left = 0 /\ OutDone /\ SendCSW(csw) /\ Enable(TRUE, enable.out)
      BY DEF ReceiveData
    <2> QED
      BY <1>1, <2>1 DEF ReceiveData, FinishedOutDma, Quiet
  <1>3. disk' \in [LUNs -> [Sector -> Data]]
    BY <1>1, WriteEffect DEF ReceiveData
  <1>4. /\ left \in Nat /\ left \in 0 .. MaxCount
        /\ xfer'.start \in Nat /\ xfer'.start \in Block /\ host.cmd.start <= xfer'.start
        /\ xfer'.start + xfer'.nr = xfer.start + xfer.nr
        /\ xfer' \in [start : Nat, nr : Nat] /\ xfer'.nr = left
    <2> HIDE DEF MassInv
    <2>1. PICK x \in Nat, n \in 1 .. MaxCount, b \in Nat : x = xfer.start /\ n = xfer.nr /\ b = host.cmd.start
      BY <1>1
    <2>2. PICK k \in 1 .. n : k = Len(epOut.body)
      BY <1>1, <2>1
    <2>3. x + n <= TotalSec /\ b <= x
      BY <1>1, <2>1
    <2>4. /\ x + k \in Nat /\ n - k \in Nat /\ n - k \in 0 .. MaxCount
          /\ x + k \in Block /\ b <= x + k
          /\ (x + k) + (n - k) = x + n
      BY <2>3, PartFits
    <2>5. xfer' = [start |-> x + k, nr |-> n - k] /\ left = n - k
      BY <1>2, <2>1, <2>2
    <2> QED
      BY <2>1, <2>4, <2>5
  <1>5. Commands'
    <2>1. mass_state' \in {"RECEIVE_DATA", "SENDED_CSW"} /\ cbw' = cbw /\ host' = host
      BY <1>2 DEF SendCSW
    <2>2. xfer'.start + xfer'.nr = host.cmd.start + host.cmd.count /\ xfer'.start + xfer'.nr <= TotalSec
      BY <1>1, <1>4
    <2> QED
      BY <1>1, <1>2, <1>4, <2>1, <2>2 DEF Commands
  <1>6. ASSUME InStep, Delivered
        PROVE  /\ StatusPrepared /\ rx = Empty /\ Len(host.want) = host.cmd.count
               /\ host.phase = IF host.sent < host.cmd.count THEN "out" ELSE "status"
               /\ left = 0 => host.phase = "status" /\ host.cmd.count - left = host.cmd.count
               /\ host.sent + left - 0 = host.cmd.count
    <2>1. /\ StatusPrepared /\ rx = Empty
          /\ host.phase = IF host.sent < host.cmd.count THEN "out" ELSE "status"
          /\ host.sent + xfer.nr - Len(epOut.body) = host.cmd.count
          /\ Len(host.want) = host.cmd.count
      BY <1>1, <1>2, <1>6 DEF InStep
    <2>2. /\ left = 0 => host.sent = host.cmd.count /\ host.cmd.count - left = host.cmd.count
          /\ host.sent + left - 0 = host.cmd.count
      <3> HIDE DEF MassInv
      <3>1. PICK k \in 1 .. xfer.nr : k = Len(epOut.body)
        BY <1>1
      <3>2. PICK t \in Nat, n \in Nat, c \in Nat : t = host.sent /\ n = xfer.nr /\ c = host.cmd.count
        BY Numbers DEF MassInv
      <3>3. k \in 1 .. n /\ t + n - k = c
        BY <2>1, <3>1, <3>2
      <3>4. /\ n - k = 0 => t = c /\ c - (n - k) = c
            /\ t + (n - k) - 0 = c
        BY <3>3, PartReceived
      <3>5. left = n - k
        BY <3>1, <3>2
      <3> HIDE DEF left
      <3> QED
        BY <3>2, <3>4, <3>5
    <2> QED
      BY <1>1, <2>1, <2>2
  <1>7. ASSUME Delivered, host.cmd.lun \notin Removable
        PROVE  \A i \in 1 .. host.cmd.count - left : host.want[i] = disk'[host.cmd.lun][host.cmd.start + i - 1]
    BY <1>7, WrittenOn DEF Delivered
  <1>8. CASE left # 0
    <2>1. StartOut("mass", AtMostChunk(left)) /\ UNCHANGED <<epIn, fifo, enable, mass_state>>
      BY <1>2, <1>8
    <2>2. AtMostChunk(left) \in Nat /\ AtMostChunk(left) # 0
      BY <1>4, <1>8, PartTyped
    <2>3. /\ epOut' = [state |-> "dma", buf |-> "mass", len |-> AtMostChunk(left), body |-> <<>>]
          /\ epOut' \in [state : EpState, buf : {"none", "cbw", "mass"}, len : Nat, body : Seq(Data)]
      BY <2>1, <2>2 DEF StartOut, EpState
    <2>4. Types'
      <3>1. TypeOK'
        BY <1>1, <1>2, <1>3, <1>4, <2>1, <2>3, LatchFacts DEF Types, TypeOK
      <3> QED
        BY <1>1, <1>2, <1>4, <2>1, <2>3, <3>1 DEF Types
    <2>5. Endpoints'
      BY <1>1, <1>2, <1>4, <1>8, <2>1, <2>3 DEF Endpoints, Quiet
    <2>6. DmaLatches' /\ InLatch'
      BY <1>1, <1>2, <2>1, <2>3 DEF DmaLatches, InLatch
    <2>7. ASSUME InStep, Delivered
          PROVE  InStep' /\ Delivered'
      <3>1. InStep'
        BY <1>1, <1>2, <1>4, <1>6, <2>1, <2>3, <2>7, PacketFacts DEF InStep, StatusPrepared, Quiet
      <3>2. ReadSoFar' /\ AnswerFirst'
        BY <1>1, <1>2 DEF ReadSoFar, AnswerFirst, DataIn
      <3>3. WrittenSoFar'
        <4>1. 1 .. Len(epOut'.body) = {}
          BY <2>3
        <4> QED
          BY <1>2, <1>4, <1>7, <2>1, <2>7, <4>1 DEF WrittenSoFar
      <3> QED
        BY <3>1, <3>2, <3>3 DEF Delivered
    <2> QED
      BY <1>2, <1>5, <2>4, <2>5, <2>6, <2>7
  <1>9. CASE left = 0
    <2>1. OutDone /\ SendCSW(csw) /\ Enable(TRUE, enable.out)
      <3>1. ~(left > 0)
        BY <1>9
      <3> HIDE DEF left, MassInv
      <3> QED
        BY <1>2, <3>1
    <2>2. csw \in [tag : {0, 1}, good : BOOLEAN]
      BY DEF Types, TypeOK
    <2>3. /\ epIn' \in [state : EpState, stage : Stage, packet : Packet] /\ fifo' \in Packet
          /\ epIn'.state = "cpu" /\ epIn'.stage = "loaded" /\ fifo' = Csw(csw)
          /\ Csw(csw) # Empty /\ Csw(csw).kind = "csw" /\ mass_state' = "SENDED_CSW"
          /\ Csw(csw).tag = csw.tag /\ Csw(csw).good = csw.good
      BY <1>2, <2>1, <2>2, PacketFacts, StartInEffect DEF SendCSW
    <2>4. Types'
      <3>1. enable' \in [in : BOOLEAN, out : BOOLEAN]
        BY <2>1, EnableTyped DEF Enable
      <3>2. TypeOK'
        BY <1>1, <1>2, <1>3, <1>4, <2>1, <2>3, <3>1, LatchFacts, OutDoneTyped DEF Types, TypeOK
      <3> QED
        BY <1>1, <1>2, <1>4, <2>1, <2>3, <3>2, OutDoneTyped DEF Types
    <2>5. Endpoints'
      BY <1>1, <1>2, <2>1, <2>3, OutDoneTyped DEF Endpoints
    <2>6. DmaLatches' /\ InLatch'
      BY <1>1, <1>2, <2>1, <2>3, LatchFacts DEF DmaLatches, InLatch
    <2>7. ASSUME InStep, Delivered
          PROVE  InStep' /\ Delivered'
      <3>1. InStep'
        BY <1>1, <1>2, <1>6, <1>9, <2>1, <2>3, <2>7, PacketFacts DEF InStep, StatusPrepared, DataIn
      <3>2. ReadSoFar' /\ AnswerFirst'
        BY <1>1, <1>2 DEF ReadSoFar, AnswerFirst, DataIn
      <3>3. WrittenSoFar'
        BY <1>2, <1>6, <1>7, <1>9, <2>3, <2>7 DEF WrittenSoFar
      <3> QED
        BY <3>1, <3>2, <3>3 DEF Delivered
    <2> QED
      BY <1>2, <1>5, <2>4, <2>5, <2>6, <2>7
  <1> QED
    BY <1>8, <1>9

\* What a host writes are versions it may write.
LEMMA WantTyped ==
    ASSUME Types, NEW c \in Command, Sensible(c), c.op = "Write10",
           \A s \in Extent(c.start, c.count) : disk[c.lun][s] < MaxVersion
    PROVE  /\ [i \in 1 .. c.count |-> disk[c.lun][c.start + i - 1] + 1] \in Seq(Data)
           /\ Len([i \in 1 .. c.count |-> disk[c.lun][c.start + i - 1] + 1]) = c.count
  <1>1. /\ c.start \in Nat /\ c.count \in Nat /\ c.lun \in LUNs /\ c.start + c.count <= TotalSec
        /\ TotalSec \in Nat /\ MaxVersion \in Nat
    BY DeviceAssumption DEF Sensible, Transfers, Inside, Command, Sector
  <1>2. \A i \in 1 .. c.count : c.start + i - 1 \in Sector /\ c.start + i - 1 \in Extent(c.start, c.count)
    <2>1. PICK a \in Nat, n \in Nat : a = c.start /\ n = c.count
      BY <1>1
    <2>2. \A i \in 1 .. n : a + i - 1 \in Sector /\ a + i - 1 \in Extent(a, n)
      BY <1>1, <2>1 DEF Sector, Extent
    <2> QED
      BY <2>1, <2>2
  <1>3. \A i \in 1 .. c.count : disk[c.lun][c.start + i - 1] \in Data /\ disk[c.lun][c.start + i - 1] < MaxVersion
    BY <1>1, <1>2 DEF Types, TypeOK
  <1>4. \A d \in Data : d < MaxVersion => d + 1 \in Data
    BY <1>1 DEF Data, Junk
  <1> DEFINE want == [i \in 1 .. c.count |-> disk[c.lun][c.start + i - 1] + 1]
  <1>5. want \in [1 .. c.count -> Data]
    BY <1>3, <1>4
  <1> HIDE DEF want
  <1>6. want \in Seq(Data) /\ Len(want) = c.count
    BY <1>1, <1>5
  <1> QED
    BY <1>6 DEF want

\* The host sends a command.
LEMMA HostCommandInv == ASSUME MassInv, NEW c \in Command, HostCommand(c) PROVE MassInv'
  <1> USE DEF MassInv, HostCommand, FifoGiven, devVars
  <1>1. /\ bus = "up" /\ host.phase = "idle" /\ InStep /\ rx = Empty /\ Quiet
        /\ mass_state \in {"RECEIVE_CBW", "SENDED_CSW"} /\ fifo = Empty
        /\ epIn.state # "dma" /\ (epIn.state = "cpu" => epIn.stage = "loaded")
    BY DEF InStep, Quiet
  <1>2. rx' = [kind |-> "cbw", cmd |-> c] /\ rx' \in [kind : {"cbw"}, cmd : Command] /\ rx'.cmd = c
    OBVIOUS
  <1>3. intr \in Latches /\ intr' = [intr EXCEPT !.out = TRUE]
    BY DEF Types, TypeOK
  <1>4. intr' \in Latches /\ intr'.in = intr.in /\ intr'.dmaIn = intr.dmaIn /\ intr'.dmaOut = intr.dmaOut
    BY <1>3 DEF Latches
  <1>5. /\ host' \in Host /\ host'.phase = FirstPhase(c) /\ host'.cmd = c /\ host'.knows = host.knows
        /\ host'.got = <<>> /\ host'.sent = 0 /\ (c.op = "Write10" => Len(host'.want) = c.count)
    <2> DEFINE want == IF c.op = "Write10" THEN [i \in 1 .. c.count |-> disk[c.lun][c.start + i - 1] + 1] ELSE <<>>
    <2>1. want \in Seq(Data) /\ (c.op = "Write10" => Len(want) = c.count)
      <3>1. Types /\ Sensible(c) /\ (c.op = "Write10" => \A s \in Extent(c.start, c.count) : disk[c.lun][s] < MaxVersion)
        OBVIOUS
      <3> HIDE DEF MassInv, HostCommand, FifoGiven
      <3>2. CASE c.op = "Write10"
        BY <3>1, <3>2, WantTyped
      <3>3. CASE c.op # "Write10"
        BY <3>3, <<>> \in Seq(Data)
      <3> QED
        BY <3>2, <3>3
    <2>2. host' = [host EXCEPT !.phase = FirstPhase(c), !.cmd = c, !.got = <<>>, !.sent = 0, !.want = want]
      BY DEF FirstPhase
    <2>3. FirstPhase(c) \in {"idle", "in", "out", "status"}
      BY DEF FirstPhase
    <2>4. host \in Host
      BY DEF Types
    <2> HIDE DEF want, MassInv, HostCommand
    <2> QED
      BY <2>1, <2>2, <2>3, <2>4, <<>> \in Seq(Data) DEF Host
  <1>6. Types'
    <2>1. TypeOK'
      BY <1>4 DEF Types, TypeOK
    <2> QED
      BY <1>2, <1>5, <2>1 DEF Types
  <1>7. Endpoints' /\ DmaLatches' /\ InLatch'
    BY <1>1, <1>4 DEF Endpoints, DmaLatches, InLatch, Quiet
  <1>8. Commands'
    <2>1. Transfers(c.op) => c.lun \in sized /\ Inside(c.start, c.count)
      BY DEF Sensible, Commands
    <2>2. c.op = "Read10" => c.count > 0
      BY DEF Sensible, Transfers
    <2> QED
      BY <1>1, <1>2, <1>5, <2>1, <2>2 DEF Commands
  <1>9. InStep'
    <2>1. FirstPhase(c) = "in" => c.op \in DataIn
      BY DEF FirstPhase
    <2>2. FirstPhase(c) # "idle"
      BY DEF FirstPhase
    <2> QED
      BY <1>1, <1>2, <1>5, <2>1, <2>2, PacketFacts DEF InStep, Quiet
  <1>10. ReadSoFar'
    <2>1. c.op = "Read10" => FirstPhase(c) = "in"
      BY DEF FirstPhase, DataIn
    <2>2. \A k : InOrder(<<>>, k)'
      BY DEF InOrder
    <2> QED
      BY <1>1, <1>5, <2>1, <2>2, PacketFacts DEF ReadSoFar
  <1>11. AnswerFirst'
    BY <1>1, PacketFacts DEF AnswerFirst
  <1>12. WrittenSoFar'
    <2>1. c.op = "Write10" /\ FirstPhase(c) = "status" => 1 .. c.count = {}
      BY DEF FirstPhase, DataIn, Command
    <2> QED
      BY <1>1, <1>5, <2>1 DEF WrittenSoFar
  <1> QED
    BY <1>1, <1>6, <1>7, <1>8, <1>9, <1>10, <1>11, <1>12 DEF Delivered

\* No more of a request can reach the host than it asked for.
LEMMA NotTooMuch ==
    ASSUME NEW x \in Nat, NEW n \in Nat, NEW a \in Nat, NEW c \in Nat, NEW r \in Nat, NEW p \in Nat,
           x = a + (r + p), x + n = a + c
    PROVE  r <= c
  <1>1. a + (r + (p + n)) = a + c
    OBVIOUS
  <1>2. r + (p + n) = c
    BY <1>1
  <1> QED
    BY <1>2

LEMMA InOrderJoins ==
    ASSUME NEW q \in Seq(Data), NEW r \in Seq(Data), host.cmd.start \in Nat,
           InOrder(q, 0), InOrder(r, Len(q))
    PROVE  InOrder(q \o r, 0)
  <1> DEFINE a == host.cmd.start
  <1>1. Len(q) \in Nat /\ Len(r) \in Nat /\ a \in Nat /\ Len(q \o r) = Len(q) + Len(r)
    OBVIOUS
  <1> SUFFICES ASSUME NEW i \in 1 .. Len(q \o r)
               PROVE  (q \o r)[i] = disk[host.cmd.lun][a + 0 + i - 1]
    BY DEF InOrder
  <1>2. CASE i <= Len(q)
    <2>1. i \in 1 .. Len(q) /\ (q \o r)[i] = q[i]
      BY <1>1, <1>2
    <2> QED
      BY <2>1 DEF InOrder
  <1>3. CASE i > Len(q)
    <2>0. i \in Nat /\ i <= Len(q) + Len(r)
      BY <1>1
    <2>1. PICK j \in 1 .. Len(r) : j = i - Len(q)
      <3>1. i - Len(q) \in 1 .. Len(r)
        BY <1>1, <1>3, <2>0
      <3> QED
        BY <3>1
    <2>2. (q \o r)[i] = r[j]
      BY <1>1, <1>3, <2>1
    <2>3. a + Len(q) + j - 1 = a + 0 + i - 1
      BY <1>1, <2>1
    <2> QED
      BY <2>2, <2>3 DEF InOrder
  <1> QED
    BY <1>1, <1>2, <1>3

\* What the host takes from the FIFO leaves it empty.
LEMMA Taken ==
    ASSUME MassInv, FifoTaken, bus = "up"
    PROVE  /\ InStep /\ Delivered /\ rx = Empty /\ fifo # Empty /\ fifo' = Empty
           /\ mass_state # "RECEIVE_DATA" /\ (mass_state = "SENDING_CSW" => upc # "stall")
           /\ intr' \in Latches /\ intr'.dmaIn = intr.dmaIn /\ intr'.dmaOut = intr.dmaOut
           /\ DmaLatches' /\ InLatch'
  <1> USE DEF MassInv, FifoTaken
  <1>1. intr \in Latches /\ intr' = [intr EXCEPT !.in = TRUE]
    BY DEF Types, TypeOK
  <1>2. intr' \in Latches /\ intr'.dmaIn = intr.dmaIn /\ intr'.dmaOut = intr.dmaOut
    BY <1>1 DEF Latches
  <1>3. InStep /\ Delivered
    OBVIOUS
  <1>4. rx = Empty /\ mass_state # "RECEIVE_DATA" /\ (mass_state = "SENDING_CSW" => upc # "stall")
    BY <1>3 DEF InStep, Quiet, Endpoints
  <1>5. ~(epIn.state = "dma" /\ epIn.stage = "begun")
    BY DEF Endpoints
  <1>6. DmaLatches' /\ InLatch'
    BY <1>2, <1>5 DEF DmaLatches, InLatch
  <1> QED
    BY <1>2, <1>3, <1>4, <1>6

\* The host takes a packet of data.
LEMMA HostTakesDataInv == ASSUME MassInv, HostTakesData PROVE MassInv'
  <1> USE DEF MassInv, devVars
  <1> DEFINE got == host.got \o fifo.body
             h == host.cmd
  <1>1. /\ FifoTaken /\ bus = "up" /\ host.phase = "in" /\ fifo.kind = "data"
        /\ UNCHANGED <<epIn, epOut, rx, enable, seen, upc, devVars, conn, card, bus>>
    BY DEF HostTakesData, FifoTaken
  <1>2. /\ InStep /\ Delivered /\ rx = Empty /\ fifo # Empty /\ fifo' = Empty
        /\ mass_state # "RECEIVE_DATA" /\ (mass_state = "SENDING_CSW" => upc # "stall")
        /\ intr' \in Latches /\ DmaLatches' /\ InLatch'
    BY <1>1, Taken
  <1>3. /\ host.got \in Seq(Data) /\ fifo.body \in Seq(Data) /\ got \in Seq(Data)
        /\ Len(host.got) \in Nat /\ Len(fifo.body) \in Nat
        /\ Len(got) = Len(host.got) + Len(fifo.body) /\ Len(got) \in Nat
        /\ BodyLen(fifo) = Len(fifo.body) /\ Len(got) = Reached
    <2>1. host.got \in Seq(Data) /\ fifo.body \in Seq(Data)
      BY <1>1, PacketFacts, Numbers
    <2>2. BodyLen(fifo) = Len(fifo.body)
      BY <1>1 DEF BodyLen
    <2>3. \A q, r \in Seq(Data) : /\ Len(q) \in Nat /\ q \o r \in Seq(Data)
                                 /\ Len(q \o r) = Len(q) + Len(r) /\ Len(q \o r) \in Nat
      OBVIOUS
    <2>4. Reached = Len(host.got) + Len(fifo.body)
      BY <2>2 DEF Reached
    <2> HIDE DEF MassInv
    <2> QED
      BY <2>1, <2>2, <2>3, <2>4
  <1>4. /\ host' \in Host /\ host'.cmd = h /\ host'.knows = host.knows /\ host'.sent = host.sent
        /\ host'.got = got /\ host'.want = host.want
        /\ host'.phase = IF h.op = "Read10" /\ Len(got) < h.count THEN "in" ELSE "status"
    <2> DEFINE phase == IF h.op = "Read10" /\ Len(got) < h.count THEN "in" ELSE "status"
               absent == IF h.op # "RequestSense" THEN host.absent
                         ELSE IF got = <<0>> THEN host.absent \cup {h.lun} ELSE host.absent \ {h.lun}
    <2>1. host' = [host EXCEPT !.got = got, !.phase = phase, !.absent = absent]
      BY DEF HostTakesData
    <2>2. host \in Host /\ h.lun \in LUNs
      BY Numbers
    <2>3. absent \in SUBSET LUNs
      BY <2>2 DEF Host
    <2>4. phase \in {"idle", "in", "out", "status"}
      OBVIOUS
    <2> HIDE DEF got, phase, absent, h, MassInv
    <2>5. /\ host' \in Host /\ host'.cmd = host.cmd /\ host'.knows = host.knows /\ host'.sent = host.sent
          /\ host'.got = got /\ host'.want = host.want /\ host'.phase = phase
      BY <1>3, <2>1, <2>2, <2>3, <2>4 DEF Host
    <2> QED
      BY <2>5 DEF h, phase
  <1>5. Types'
    <2>1. TypeOK'
      BY <1>1, <1>2 DEF Types, TypeOK
    <2> QED
      BY <1>1, <1>2, <1>4, <2>1, PacketFacts DEF Types
  <1>6. Endpoints'
    BY <1>1, <1>2 DEF Endpoints
  <1>7. Commands'
    BY <1>1, <1>2, <1>4 DEF Commands
  <1>8. Reached' = Reached /\ Pending' = Pending
    <2>1. BodyLen(fifo)' = 0
      BY <1>2, PacketFacts DEF BodyLen
    <2>2. Reached' = Len(got) + 0
      BY <1>4, <2>1 DEF Reached
    <2>3. Pending' = Pending
      BY <1>1 DEF Pending, BodyLen
    <2> HIDE DEF got
    <2> QED
      BY <1>3, <2>2, <2>3
  <1>9. mass_state = "SEND_DATA" => Reached <= h.count
    <2>1. SUFFICES ASSUME mass_state = "SEND_DATA" PROVE Reached <= h.count
      OBVIOUS
    <2>2. xfer.start = h.start + (Reached + Pending) /\ xfer.start + xfer.nr = h.start + h.count
      BY <1>2, <2>1 DEF InStep, Commands
    <2>3. PICK x \in Nat, n \in Nat, a \in Nat, c \in Nat, r \in Nat, p \in Nat :
              x = xfer.start /\ n = xfer.nr /\ a = h.start /\ c = h.count /\ r = Reached /\ p = Pending
      BY Numbers
    <2>4. r <= c
      BY <2>2, <2>3, NotTooMuch
    <2> QED
      BY <2>3, <2>4
  <1>10. h.op \in DataIn /\ h.count \in Nat
    BY <1>1, <1>2, Numbers DEF InStep
  <1>11. mass_state \in {"RECEIVE_CBW", "SENDED_CSW"} /\ h.op = "Read10" => Len(got) = h.count
    BY <1>1, <1>2, <1>3 DEF InStep
  <1>12. mass_state = "SENDING_CSW" => h.op # "Read10"
    BY <1>2 DEF InStep
  <1>13. mass_state = "SEND_DATA" => h.op = "Read10"
    BY DEF Commands
  <1>14. mass_state \in {"RECEIVE_CBW", "SENDED_CSW", "SENDING_CSW", "SEND_DATA"}
    BY <1>2 DEF Types, TypeOK
  <1> HIDE DEF got
  <1>15. /\ mass_state # "SEND_DATA" => host'.phase = "status"
         /\ host'.phase = "status" /\ h.op = "Read10" => Len(got) = h.count
    <2>1. ASSUME mass_state # "SEND_DATA" PROVE host'.phase = "status" /\ (h.op = "Read10" => Len(got) = h.count)
      BY <1>4, <1>10, <1>11, <1>12, <1>14, <2>1
    <2>2. ASSUME mass_state = "SEND_DATA", host'.phase = "status", h.op = "Read10" PROVE Len(got) = h.count
      <3> HIDE DEF h, MassInv
      <3>1. ~(Len(got) < h.count)
        BY <1>4, <2>2
      <3>2. Len(got) <= h.count /\ Len(got) \in Nat /\ h.count \in Nat
        BY <1>3, <1>9, <1>10, <2>2
      <3> QED
        BY <3>1, <3>2
    <2> QED
      BY <2>1, <2>2
  <1>16. InStep'
    BY <1>1, <1>2, <1>4, <1>8, <1>10, <1>13, <1>15, PacketFacts DEF InStep, StatusPrepared
  <1>17. ReadSoFar'
    <2>1. ASSUME h.op = "Read10", h.lun \notin Removable
          PROVE  InOrder(got, 0)
      <3>1. InOrder(host.got, 0) /\ InOrder(fifo.body, Len(host.got))
        BY <1>1, <1>2, <2>1 DEF Delivered, ReadSoFar
      <3> QED
        BY <1>3, <3>1, InOrderJoins, Numbers DEF got
    <2>2. \A q, k : InOrder(q, k)' <=> InOrder(q, k)
      BY <1>1, <1>4 DEF InOrder
    <2>3. mass_state = "SEND_DATA" /\ epIn.stage # "loaded" /\ h.op = "Read10" /\ h.lun \notin Removable
             => InOrder(epIn.packet.body, Reached)
      BY <1>1, <1>2 DEF Delivered, ReadSoFar
    <2> QED
      BY <1>1, <1>2, <1>4, <1>8, <1>15, <2>1, <2>2, <2>3, PacketFacts DEF ReadSoFar
  <1>18. AnswerFirst'
    <2>1. h.op # "Read10" => host.got = <<>> /\ Len(fifo.body) = 1
      BY <1>1, <1>2, <1>10 DEF Delivered, AnswerFirst
    <2>2. h.op # "Read10" => Len(got) = 1
      <3>1. PICK a \in Nat, b \in Nat : a = Len(host.got) /\ b = Len(fifo.body) /\ Len(got) = a + b
        BY <1>3
      <3>2. Len(<<>>) = 0
        OBVIOUS
      <3> HIDE DEF h, MassInv
      <3>3. h.op # "Read10" => a = 0 /\ b = 1
        BY <2>1, <3>1, <3>2
      <3>4. a = 0 /\ b = 1 => a + b = 1
        OBVIOUS
      <3> QED
        BY <3>1, <3>3, <3>4, Zenon
    <2> QED
      BY <1>2, <1>4, <2>2, PacketFacts DEF AnswerFirst
  <1>19. WrittenSoFar'
    BY <1>4, <1>10 DEF WrittenSoFar, DataIn
  <1> QED
    BY <1>1, <1>2, <1>5, <1>6, <1>7, <1>16, <1>17, <1>18, <1>19 DEF Delivered

\* The host takes the status.
LEMMA HostTakesStatusInv == ASSUME MassInv, HostTakesStatus PROVE MassInv'
  <1> USE DEF MassInv, devVars
  <1>1. /\ FifoTaken /\ bus = "up" /\ host.phase = "status" /\ fifo.kind = "csw"
        /\ UNCHANGED <<epIn, epOut, rx, enable, seen, upc, devVars, conn, card, bus>>
    BY DEF HostTakesStatus, FifoTaken
  <1>2. /\ InStep /\ Delivered /\ rx = Empty /\ fifo # Empty /\ fifo' = Empty
        /\ mass_state # "RECEIVE_DATA" /\ (mass_state = "SENDING_CSW" => upc # "stall")
        /\ intr' \in Latches /\ DmaLatches' /\ InLatch'
    BY <1>1, Taken
  <1>3. /\ mass_state \in {"RECEIVE_CBW", "SENDED_CSW"} /\ (epIn.state = "cpu" => epIn.stage = "loaded")
        /\ fifo.good /\ host.cmd.op = "Capacity" => host.cmd.lun \in sized
    BY <1>1, <1>2 DEF InStep
  <1>4. host' \in Host /\ host'.cmd = host.cmd /\ host'.phase = "idle" /\ host'.knows \subseteq sized
    <2> DEFINE knows == IF host.cmd.op = "Capacity" /\ fifo.good THEN host.knows \cup {host.cmd.lun} ELSE host.knows
               failed == IF fifo.good THEN host.failed \ {host.cmd.lun} ELSE host.failed \cup {host.cmd.lun}
    <2>1. host' = [host EXCEPT !.phase = "idle", !.got = <<>>, !.want = <<>>, !.sent = 0, !.knows = knows, !.failed = failed]
      BY DEF HostTakesStatus
    <2>2. host \in Host /\ host.cmd.lun \in LUNs
      BY Numbers
    <2>3. knows \in SUBSET LUNs /\ failed \in SUBSET LUNs
      BY <2>2 DEF Host
    <2>4. knows \subseteq sized
      BY <1>3 DEF Commands
    <2> HIDE DEF knows, failed, MassInv
    <2> QED
      BY <2>1, <2>2, <2>3, <2>4, <<>> \in Seq(Data) DEF Host
  <1>5. Types'
    <2>1. TypeOK'
      BY <1>1, <1>2 DEF Types, TypeOK
    <2> QED
      BY <1>1, <1>2, <1>4, <2>1, PacketFacts DEF Types
  <1>6. Endpoints'
    BY <1>1, <1>2 DEF Endpoints
  <1>7. Commands'
    BY <1>1, <1>2, <1>3, <1>4 DEF Commands
  <1>8. InStep'
    BY <1>1, <1>2, <1>3, <1>4, PacketFacts DEF InStep, Quiet, Endpoints
  <1>9. ReadSoFar'
    BY <1>4 DEF ReadSoFar
  <1>10. AnswerFirst'
    BY <1>1, <1>2, <1>3, PacketFacts DEF AnswerFirst
  <1>11. WrittenSoFar'
    BY <1>1, <1>2, <1>4 DEF WrittenSoFar
  <1> QED
    BY <1>1, <1>2, <1>5, <1>6, <1>7, <1>8, <1>9, <1>10, <1>11 DEF Delivered

\* A part of a WRITE_10.
LEMMA PartSent ==
    ASSUME NEW t \in Nat, NEW n \in Nat, NEW k \in 1 .. n, NEW c \in Nat, t + n - 0 = c
    PROVE  /\ t + k \in Nat /\ t + k <= c /\ t + 1 \in Nat
           /\ (t + k) + n - k = c /\ c - n = t
           /\ \A i \in 1 .. k : i \in Nat /\ (t + 1) + i - 1 = t + i
  OBVIOUS

LEMMA SubSeqFacts ==
    ASSUME NEW q \in Seq(Data), NEW t \in Nat, NEW k \in Nat, t + k <= Len(q)
    PROVE  /\ SubSeq(q, t + 1, t + k) \in Seq(Data)
           /\ Len(SubSeq(q, t + 1, t + k)) = k
           /\ \A i \in 1 .. k : SubSeq(q, t + 1, t + k)[i] = q[t + i]
  <1>1. SubSeq(q, t + 1, t + k) \in Seq(Data)
    BY SubSeqProperties
  <1> QED
    BY <1>1

\* The host sends a part of its data.
LEMMA HostSendsDataInv == ASSUME MassInv, HostSendsData PROVE MassInv'
  <1> USE DEF MassInv, devVars
  <1> DEFINE h == host.cmd
             sent == host.sent + epOut.len
             body == SubSeq(host.want, host.sent + 1, host.sent + epOut.len)
  <1>1. /\ bus = "up" /\ host.phase = "out" /\ epOut.state = "dma" /\ epOut.body = <<>>
        /\ mass_state = "RECEIVE_DATA"
        /\ UNCHANGED <<epIn, fifo, rx, enable, seen, upc, devVars, conn, card, bus>>
        /\ epOut' = [epOut EXCEPT !.body = body] /\ intr' = [intr EXCEPT !.dmaOut = TRUE]
    BY DEF HostSendsData, DmaReceives, Endpoints
  <1>2. InStep /\ Delivered /\ h.op = "Write10" /\ Len(host.want) = h.count /\ epIn.state # "dma"
    BY <1>1 DEF InStep, Commands, Endpoints
  <1>3. PICK t \in Nat, n \in Nat, k \in Nat, c \in Nat :
            t = host.sent /\ n = xfer.nr /\ k = epOut.len /\ c = h.count
    BY Numbers
  <1>4. k \in 1 .. n /\ t + n - 0 = c
    <2>1. xfer.nr > 0 /\ epOut.len = AtMostChunk(xfer.nr)
      BY <1>1 DEF Endpoints
    <2>2. n # 0 /\ k = AtMostChunk(n)
      BY <1>3, <2>1
    <2>3. host.sent + xfer.nr - Len(epOut.body) = h.count /\ Len(epOut.body) = 0
      BY <1>1, <1>2 DEF InStep
    <2> QED
      BY <1>3, <2>2, <2>3, PartTyped
  <1>5. /\ sent \in Nat /\ sent <= h.count /\ sent + xfer.nr - epOut.len = h.count
        /\ body \in Seq(Data) /\ Len(body) = epOut.len /\ body # <<>> /\ epOut.len \in Nat
        /\ \A i \in 1 .. Len(body) : body[i] = host.want[h.count - xfer.nr + i]
    <2>1. /\ t + k \in Nat /\ t + k <= c /\ (t + k) + n - k = c /\ c - n = t
      BY <1>4, PartSent
    <2>2. PICK w \in Seq(Data) : w = host.want
      BY Numbers
    <2> HIDE DEF MassInv
    <2>0. t + k <= Len(w)
      BY <1>2, <1>3, <2>1, <2>2
    <2>3. /\ SubSeq(w, t + 1, t + k) \in Seq(Data)
          /\ Len(SubSeq(w, t + 1, t + k)) = k
          /\ \A i \in 1 .. k : SubSeq(w, t + 1, t + k)[i] = w[t + i]
      BY <2>0, SubSeqFacts
    <2>4. body = SubSeq(w, t + 1, t + k) /\ sent = t + k
      BY <1>3, <2>2
    <2>5. k # 0
      BY <1>4
    <2> HIDE DEF body, sent, h, MassInv
    <2> QED
      BY <1>3, <2>1, <2>2, <2>3, <2>4, <2>5
  <1> HIDE DEF body
  <1>6. /\ epOut' \in [state : EpState, buf : {"none", "cbw", "mass"}, len : Nat, body : Seq(Data)]
        /\ epOut'.state = "dma" /\ epOut'.buf = epOut.buf /\ epOut'.len = epOut.len /\ epOut'.body = body
    <2>1. epOut \in [state : EpState, buf : {"none", "cbw", "mass"}, len : Nat, body : Seq(Data)]
      BY DEF Types
    <2> QED
      BY <1>1, <1>5, <2>1
  <1>7. intr' \in Latches /\ intr'.in = intr.in /\ intr'.dmaIn = intr.dmaIn /\ intr'.dmaOut
    <2>1. intr \in Latches
      BY DEF Types, TypeOK
    <2> QED
      BY <1>1, <2>1 DEF Latches
  <1>8. /\ host' \in Host /\ host'.cmd = h /\ host'.knows = host.knows /\ host'.want = host.want
        /\ host'.got = host.got /\ host'.sent = sent
        /\ host'.phase = IF sent < h.count THEN "out" ELSE "status"
    <2>1. host \in Host /\ host' = [host EXCEPT !.sent = sent, !.phase = IF sent < h.count THEN "out" ELSE "status"]
      BY DEF HostSendsData, Types
    <2> HIDE DEF sent, MassInv
    <2> QED
      BY <1>5, <2>1 DEF Host
  <1>9. Types'
    <2>1. TypeOK'
      BY <1>1, <1>6, <1>7 DEF Types, TypeOK
    <2> QED
      BY <1>1, <1>6, <1>8, <2>1 DEF Types
  <1>10. Endpoints'
    BY <1>1, <1>5, <1>6 DEF Endpoints, Quiet
  <1>11. DmaLatches' /\ InLatch'
    BY <1>1, <1>5, <1>6, <1>7 DEF DmaLatches, InLatch
  <1>12. rx = Empty
    BY <1>1, <1>2 DEF InStep
  <1>13. Commands'
    BY <1>1, <1>8, <1>12 DEF Commands
  <1>14. InStep'
    <2>1. sent + xfer.nr - Len(body) = h.count
      BY <1>5
    <2>2. Quiet' /\ fifo' = Empty
      BY <1>1 DEF Endpoints, Quiet
    <2> HIDE DEF sent
    <2> QED
      BY <1>1, <1>2, <1>6, <1>8, <1>12, <2>1, <2>2, PacketFacts DEF InStep, StatusPrepared, Quiet, DataIn
  <1>15. ReadSoFar' /\ AnswerFirst'
    BY <1>2, <1>8 DEF ReadSoFar, AnswerFirst, DataIn
  <1>16. WrittenSoFar'
    BY <1>1, <1>2, <1>5, <1>6, <1>8 DEF Delivered, WrittenSoFar
  <1> QED
    BY <1>1, <1>2, <1>9, <1>10, <1>11, <1>13, <1>14, <1>15, <1>16 DEF Delivered

LEMMA InitInv == Init => MassInv
  <1> SUFFICES ASSUME Init PROVE MassInv
    OBVIOUS
  <1> USE DEF Init, UdcInit, OutFinished
  <1>1. NoCommand \in Command
    <2>1. (CHOOSE l \in LUNs : TRUE) \in LUNs
      BY LunAssumption
    <2> QED
      BY <2>1, DeviceAssumption DEF NoCommand, Command, Op, Sector
  <1>2. Types
    <2>1. TypeOK
      <3>1. disk \in [LUNs -> [Sector -> Data]]
        BY DeviceAssumption DEF Data, Junk
      <3>2. 0 \in 0 .. MaxCount /\ 0 \in Block
        BY DeviceAssumption DEF Block
      <3> QED
        BY <1>1, <3>1, <3>2, LatchFacts DEF TypeOK, InFinished, EpState, Stage
    <2>2. host \in Host
      BY <1>1, <<>> \in Seq(Data), {} \in SUBSET LUNs DEF Host
    <2>3. epIn \in [state : EpState, stage : Stage, packet : Packet]
      BY PacketFacts DEF InFinished, EpState, Stage
    <2>4. epOut \in [state : EpState, buf : {"none", "cbw", "mass"}, len : Nat, body : Seq(Data)]
      BY DEF EpState
    <2> QED
      BY <2>1, <2>2, <2>3, <2>4, PacketFacts DEF Types
  <1>3. Endpoints /\ DmaLatches /\ InLatch
    BY LatchFacts DEF Endpoints, DmaLatches, InLatch, InFinished
  <1>4. Commands
    BY DeviceAssumption DEF Commands
  <1> QED
    BY <1>2, <1>3, <1>4 DEF MassInv

LEMMA StutterInv == ASSUME MassInv, UNCHANGED vars PROVE MassInv'
  <1> USE DEF MassInv, vars, udcVars, devVars
  <1>1. Types' /\ Endpoints' /\ DmaLatches' /\ InLatch' /\ Commands'
    BY DEF Types, TypeOK, Endpoints, Quiet, DmaLatches, InLatch, Commands
  <1>2. ASSUME InStep, Delivered
        PROVE  InStep' /\ Delivered'
    <2>1. InStep'
      <3>1. (Reached = Reached') /\ (Pending = Pending') /\ (Quiet <=> Quiet') /\ (StatusPrepared <=> StatusPrepared')
        BY DEF Reached, Pending, BodyLen, Quiet, StatusPrepared
      <3> QED
        BY <1>2, <3>1 DEF InStep
    <2>2. ReadSoFar'
      BY <1>2 DEF Delivered, ReadSoFar, Reached, BodyLen, InOrder
    <2>3. AnswerFirst' /\ WrittenSoFar'
      BY <1>2 DEF Delivered, AnswerFirst, WrittenSoFar
    <2> QED
      BY <2>1, <2>2, <2>3 DEF Delivered
  <1> QED
    BY <1>1, <1>2

\* Every step keeps the invariant.
LEMMA StepInv == MassInv /\ [Next]_vars => MassInv'
  <1> SUFFICES ASSUME MassInv, [Next]_vars
               PROVE  MassInv'
    OBVIOUS
  <1>1. CASE UdcTask
    BY <1>1, PassInv, LoadInv, SendInv, CommandInv, BadCommandInv, StallInv, StalledInv, ReceiveInv DEF UdcTask
  <1>2. CASE Hardware
    BY <1>2, HardwareInv
  <1>3. CASE PlugIn \/ DeviceReset \/ Suspend \/ Removed
    BY <1>3, OutsideInv, ResetInv, BusInv
  <1>4. CASE \E c \in Command : c.tag # host.cmd.tag /\ HostCommand(c)
    BY <1>4, HostCommandInv
  <1>5. CASE HostStep
    BY <1>5, HostTakesDataInv, HostTakesStatusInv, HostSendsDataInv DEF HostStep
  <1>6. CASE HostReset \/ Unplug \/ Resume \/ CardMoves
    BY <1>6, ForgetInv, OutsideInv
  <1>7. CASE UNCHANGED vars
    BY <1>7, StutterInv
  <1> QED
    BY <1>1, <1>2, <1>3, <1>4, <1>5, <1>6, <1>7 DEF Next

\* Host and device keep together through every command, reset, unplugging and movement
\* of the card.
THEOREM Invariance == Spec => []MassInv
  BY InitInv, StepInv, PTL DEF Spec

\* The transfer counters stay within the request, and the variables in their types.
THEOREM CountersStayInside == Spec => []TypeOK
  <1>1. MassInv => TypeOK
    BY DEF MassInv, Types
  <1> QED
    BY <1>1, Invariance, PTL

\* A status in the FIFO is that of the command the host waits on, data is there only
\* while it takes data, and a DMA waits for no more than it has to send.
THEOREM PhasesAgree == Spec => []PhaseAgreement
  <1>1. MassInv => PhaseAgreement
    <2> SUFFICES ASSUME MassInv, bus = "up" PROVE PhaseAgreement
      BY DEF PhaseAgreement
    <2>1. InStep
      BY DEF MassInv
    <2>2. /\ fifo.kind = "csw" => host.phase = "status" /\ fifo.tag = host.cmd.tag
          /\ fifo.kind = "data" => host.phase = "in"
      BY <2>1 DEF InStep
    <2>3. epOut.state = "cpu" /\ epOut.buf = "cbw" => mass_state = "RECEIVE_CBW"
      BY DEF MassInv, Endpoints
    <2>4. ASSUME epOut.state = "dma", epOut.body = <<>>
          PROVE  host.phase = "out" /\ epOut.len <= host.cmd.count - host.sent
      <3>1. /\ xfer.nr > 0 /\ epOut.len = AtMostChunk(xfer.nr) /\ mass_state = "RECEIVE_DATA"
        BY <2>4 DEF MassInv, Endpoints
      <3>2. /\ host.sent + xfer.nr - Len(epOut.body) = host.cmd.count /\ Len(epOut.body) = 0
            /\ host.phase = IF host.sent < host.cmd.count THEN "out" ELSE "status"
        BY <2>1, <2>4, <3>1 DEF InStep
      <3>3. PICK t \in Nat, n \in Nat, c \in Nat : t = host.sent /\ n = xfer.nr /\ c = host.cmd.count
        BY Numbers DEF MassInv
      <3>4. n # 0 /\ t + n - 0 = c
        BY <3>1, <3>2, <3>3
      <3>5. AtMostChunk(n) \in 1 .. n
        BY <3>4, PartTyped
      <3>6. t < c /\ AtMostChunk(n) <= c - t
        BY <3>4, <3>5
      <3> QED
        BY <3>1, <3>2, <3>3, <3>6
    <2> QED
      BY <2>2, <2>3, <2>4 DEF PhaseAgreement
  <1> QED
    BY <1>1, Invariance, PTL

\* A transfer runs on a LUN whose sector size a capacity command has set.
THEOREM SizeIsKnown == Spec => []SectorSizeKnown
  <1>1. MassInv => SectorSizeKnown
    BY DEF MassInv, Commands, SectorSizeKnown
  <1> QED
    BY <1>1, Invariance, PTL

\* What a good status says has been done, on a LUN whose medium stays.
THEOREM GoodStatusIsTrue == Spec => []StatusTruthful
  <1>1. MassInv => StatusTruthful
    <2> SUFFICES ASSUME MassInv, GoodStatus(LUNs) PROVE StatusTruthful
      BY LunAssumption DEF StatusTruthful, GoodStatus
    <2>1. /\ bus = "up" /\ fifo.kind = "csw" /\ fifo.good /\ InStep /\ Delivered
          /\ host.phase = "status" /\ mass_state \in {"RECEIVE_CBW", "SENDED_CSW"}
      BY DEF GoodStatus, MassInv, InStep
    <2>2. host.cmd.op \in DataIn => Len(host.got) = IF host.cmd.op = "Read10" THEN host.cmd.count ELSE 1
      BY <2>1 DEF Delivered, ReadSoFar, AnswerFirst
    <2>3. ASSUME host.cmd.op = "Read10", host.cmd.lun \notin Removable, NEW i \in 1 .. host.cmd.count
          PROVE  host.got[i] = disk[host.cmd.lun][host.cmd.start + i - 1]
      <3>1. Len(host.got) = host.cmd.count /\ InOrder(host.got, 0)
        BY <2>1, <2>3 DEF Delivered, ReadSoFar
      <3>2. host.got[i] = disk[host.cmd.lun][host.cmd.start + 0 + i - 1]
        BY <2>3, <3>1 DEF InOrder
      <3>3. host.cmd.start + 0 = host.cmd.start
        BY Numbers DEF MassInv
      <3> QED
        BY <3>2, <3>3
    <2>4. ASSUME host.cmd.op = "Write10", host.cmd.lun \notin Removable, NEW i \in 1 .. host.cmd.count
          PROVE  host.want[i] = disk[host.cmd.lun][host.cmd.start + i - 1]
      BY <2>1, <2>4 DEF Delivered, WrittenSoFar
    <2> QED
      BY <2>2, <2>3, <2>4 DEF StatusTruthful, GoodStatus
  <1> QED
    BY <1>1, Invariance, PTL

\* Only the sectors that the write in progress names are changed.
THEOREM WritesStayInRange == Spec => OnlyInRange
  <1> DEFINE InRange == \A l \in LUNs, s \in Sector : disk'[l][s] # disk[l][s] =>
                 host.cmd.op = "Write10" /\ l = host.cmd.lun /\ s \in Extent(host.cmd.start, host.cmd.count)
  <1>1. MassInv /\ [Next]_vars => [InRange]_vars
    <2> SUFFICES ASSUME MassInv, Next PROVE InRange
      OBVIOUS
    <2>1. CASE ReceiveData
      <3>1. PICK a \in Nat, c \in Nat, n \in Nat, x \in Nat, k \in Nat :
                a = host.cmd.start /\ c = host.cmd.count /\ n = xfer.nr /\ x = xfer.start /\ k = Len(epOut.body)
        BY <2>1, ReceivedFacts
      <3>2. /\ k \in 1 .. n /\ host.cmd.lun \in LUNs /\ x + n = a + c /\ a <= x
            /\ epOut.body \in Seq(Data) /\ host.cmd.op = "Write10"
            /\ WriteDevSector(host.cmd.lun, x, epOut.body) /\ Types
        BY <2>1, <3>1, ReceivedFacts DEF ReceiveData, MassInv
      <3>3. /\ \A s \in Sector : s \notin Extent(x, k) => disk'[host.cmd.lun][s] = disk[host.cmd.lun][s]
            /\ \A m \in LUNs \ {host.cmd.lun} : disk'[m] = disk[m]
        BY <3>1, <3>2, WriteEffect
      <3>4. \A s \in Sector : s \in Extent(x, k) => s \in Extent(a, c)
        BY <3>2, DeviceAssumption DEF Sector, Extent
      <3> QED
        BY <3>1, <3>2, <3>3, <3>4
    <2>2. CASE ~ReceiveData
      <3>1. UNCHANGED disk
        <4>1. CASE UdcTask
          BY <2>2, <4>1 DEF UdcTask, StartPass, PassStep, LoadDeferred, SendFinished, SendDmaFinished, HandleSend,
             HandleCBW, Inquiry, RequestSense, Capacity, Read10, Write10, NoData, Answer, HandleBadCBW,
             CapacityStalls, Stalled, devVars
        <4>2. CASE Hardware \/ PlugIn \/ DeviceReset \/ Suspend \/ Removed
          BY <4>2 DEF Hardware, PlugIn, DeviceReset, Suspend, Removed, devVars
        <4>3. CASE (\E c \in Command : c.tag # host.cmd.tag /\ HostCommand(c)) \/ HostStep
          BY <4>3 DEF HostCommand, HostStep, HostTakesData, HostTakesStatus, HostSendsData, devVars
        <4>4. CASE HostReset \/ Unplug \/ Resume \/ CardMoves
          BY <4>4 DEF HostReset, Unplug, Forget, Resume, CardMoves, devVars
        <4> QED
          BY <4>1, <4>2, <4>3, <4>4 DEF Next
      <3> QED
        BY <3>1
    <2> QED
      BY <2>1, <2>2
  <1> QED
    BY <1>1, Invariance, PTL DEF Spec, OnlyInRange

(***************************************************************************)
(* The sense of a change of medium.                                        *)
(***************************************************************************)
SameHost == host'.cmd = host.cmd /\ host'.absent = host.absent /\ host'.failed = host.failed
Busy == {"SENDING_CSW", "SEND_DATA", "RECEIVE_DATA"}

\* A step that puts nothing into the FIFO and starts no status.
LEMMA AttentionFrame ==
    ASSUME AttentionInv, UNCHANGED <<fifo, iscardin, csw>>, SameHost, BusOn' <=> BusOn,
           BusOn => /\ mass_state' \in Busy => mass_state' = mass_state
                    /\ CswWaits' => CswWaits
    PROVE  AttentionInv'
  <1> USE DEF SameHost, BusOn, Busy
  <1>1. OnlyCardsFail'
    BY DEF AttentionInv, OnlyCardsFail
  <1>2. AttentionKept'
    BY DEF AttentionInv, AttentionKept, SenseAbsent, SenseChanged
  <1> QED
    BY <1>1, <1>2 DEF AttentionInv

\* A status is started for a command that is not TEST_UNIT_READY.
LEMMA AttentionStatus ==
    ASSUME MassInv, AttentionInv, StartIn(Csw(csw)), SameHost, UNCHANGED <<bus, iscardin>>,
           mass_state' \notin Busy, csw' = csw \/ csw'.good,
           BusOn => /\ ~csw.good => host.cmd.lun # 0
                    /\ host.cmd.op # "TestUnitReady"
                    /\ fifo = Empty \/ host.cmd.op \in DataIn
    PROVE  AttentionInv'
  <1> USE DEF SameHost, BusOn, Busy
  <1>1. csw \in [tag : {0, 1}, good : BOOLEAN]
    BY DEF MassInv, Types, TypeOK
  <1>2. Csw(csw) \in Packet /\ Csw(csw) # Empty /\ Csw(csw).kind = "csw" /\ Csw(csw).good = csw.good
    BY <1>1, PacketFacts
  <1>3. /\ fifo' = IF fifo = Empty THEN Csw(csw) ELSE fifo
        /\ CswWaits' => fifo # Empty
    BY <1>2, StartInEffect DEF MassInv, CswWaits
  <1>4. fifo = Empty => fifo.kind = "none"
    BY PacketFacts
  <1>5. OnlyCardsFail'
    BY <1>2, <1>3 DEF AttentionInv, OnlyCardsFail
  <1>6. AttentionKept'
    BY <1>2, <1>3, <1>4 DEF AttentionInv, AttentionKept, SenseAbsent, SenseChanged
  <1> QED
    BY <1>5, <1>6 DEF AttentionInv

\* The steps of a pass, and a command without a signature.
LEMMA AttentionPass ==
    ASSUME MassInv, AttentionInv, StartPass \/ PassStep \/ HandleBadCBW
    PROVE  AttentionInv'
  <1>1. CASE StartPass \/ PassStep
    BY <1>1, PassSteps, AttentionFrame DEF MassInv, devVars, SameHost, BusOn, Busy, CswWaits
  <1>2. CASE HandleBadCBW
    BY <1>2, AttentionFrame DEF HandleBadCBW, devVars, SameHost, BusOn, Busy, CswWaits
  <1> QED
    BY <1>1, <1>2

\* The people who move cables and cards, and the host that forgets.
LEMMA AttentionOutside ==
    ASSUME MassInv, AttentionInv,
           PlugIn \/ Suspend \/ Removed \/ Resume \/ CardMoves \/ HostReset \/ Unplug \/ DeviceReset
    PROVE  AttentionInv'
  <1>1. CASE PlugIn \/ Suspend \/ Removed \/ Resume \/ CardMoves
    <2>1. UNCHANGED <<epIn, fifo, devVars, host>> /\ (BusOn' <=> BusOn)
      BY <1>1 DEF PlugIn, Suspend, Removed, Resume, CardMoves, udcVars, BusOn
    <2> QED
      BY <2>1, AttentionFrame DEF devVars, SameHost, Busy, CswWaits
  <1>2. CASE HostReset \/ Unplug
    <2>1. PICK b \in {"reset", "unplugged"} : Forget(b)
      BY <1>2 DEF HostReset, Unplug
    <2>2. bus' = b /\ host'.cmd = host.cmd /\ host'.absent = {} /\ host'.failed = {}
      <3>1. host \in Host
        BY DEF MassInv, Types
      <3> HIDE DEF MassInv
      <3> QED
        BY <2>1, <3>1 DEF Forget, Host
    <2> QED
      BY <2>2 DEF AttentionInv, OnlyCardsFail, AttentionKept
  <1>3. CASE DeviceReset
    <2>1. /\ bus = "reset" /\ fifo' = Empty /\ epIn'.state = "done" /\ mass_state' = "RECEIVE_CBW"
          /\ UNCHANGED <<host, iscardin, csw>>
      BY <1>3 DEF DeviceReset, InFinished
    <2>2. fifo'.kind = "none"
      BY <2>1, PacketFacts
    <2> QED
      BY <2>1, <2>2 DEF AttentionInv, OnlyCardsFail, AttentionKept, CswWaits, SenseAbsent, SenseChanged
  <1> QED
    BY <1>1, <1>2, <1>3

\* The DMA of a READ_10, and a status that has waited for the FIFO.
LEMMA AttentionLoads ==
    ASSUME MassInv, AttentionInv, Hardware \/ LoadDeferred
    PROVE  AttentionInv'
  <1>1. CASE Hardware
    <2>1. /\ epIn.state = "dma" /\ epIn.stage = "begun" /\ epIn'.stage = "loaded" /\ fifo' = epIn.packet
          /\ UNCHANGED <<devVars, bus, host>>
      BY <1>1 DEF Hardware, DmaLoads, MassInv, Types, Stage
    <2>2. fifo = Empty /\ fifo'.kind = "data" /\ mass_state = "SEND_DATA"
      BY <2>1 DEF MassInv, Endpoints
    <2>3. host.cmd.op = "Read10" /\ fifo.kind = "none"
      BY <2>2, PacketFacts DEF MassInv, Commands
    <2> QED
      BY <2>1, <2>2, <2>3 DEF AttentionInv, OnlyCardsFail, AttentionKept, CswWaits, SenseAbsent, SenseChanged,
         devVars
  <1>2. CASE LoadDeferred
    <2>1. /\ CswWaits /\ seen.in /\ upc = "in" /\ epIn.packet.kind = "csw"
          /\ epIn'.stage = "loaded" /\ fifo' = Csw(csw)
          /\ UNCHANGED <<devVars, bus, host>>
      BY <1>2 DEF LoadDeferred, LoadFifo, MassInv, Types, Stage, Endpoints, CswWaits
    <2>2. csw \in [tag : {0, 1}, good : BOOLEAN]
      BY DEF MassInv, Types, TypeOK
    <2>3. fifo'.kind = "csw" /\ fifo'.good = csw.good
      BY <2>1, <2>2, PacketFacts
    <2>4. fifo = Empty /\ fifo.kind = "none"
      BY <2>1, PacketFacts DEF MassInv, InLatch, CswWaits
    <2>5. ~CswWaits'
      BY <2>1 DEF CswWaits
    <2> QED
      BY <2>1, <2>3, <2>4, <2>5 DEF AttentionInv, OnlyCardsFail, AttentionKept, SenseAbsent, SenseChanged,
         devVars, DataIn
  <1> QED
    BY <1>1, <1>2

\* handle_send.
LEMMA AttentionSend ==
    ASSUME MassInv, AttentionInv, SendFinished \/ SendDmaFinished
    PROVE  AttentionInv'
  <1>1. HandleSend /\ UNCHANGED <<csw, iscardin, bus, host>>
    BY DEF SendFinished, SendDmaFinished, HandleSend
  <1>0. xfer.nr \in Nat
    BY Numbers DEF MassInv
  <1>2. CASE mass_state = "SEND_DATA" /\ xfer.nr # 0
    <2>1. SendSectors(cbw.lun, xfer.start, xfer.nr)
      BY <1>1, <1>2 DEF HandleSend
    <2>2. mass_state' = "SEND_DATA" /\ fifo' = fifo /\ epIn'.state = "dma"
      BY <2>1 DEF SendSectors, StartInDma
    <2> QED
      BY <1>1, <1>2, <2>2, AttentionFrame DEF SameHost, BusOn, Busy, CswWaits
  <1>3. CASE mass_state = "SEND_DATA" /\ xfer.nr = 0
    <2>1. StartIn(Csw(csw)) /\ mass_state' = "SENDED_CSW"
      BY <1>1, <1>3 DEF HandleSend, SendCSW
    <2>2. host.cmd.op = "Read10"
      BY <1>3 DEF MassInv, Commands
    <2>3. BusOn /\ ~csw.good => host.cmd.lun # 0
      BY <1>3 DEF AttentionInv, OnlyCardsFail, BusOn
    <2> QED
      BY <1>1, <2>1, <2>2, <2>3, AttentionStatus DEF SameHost, BusOn, Busy, DataIn
  <1>4. CASE mass_state = "SENDING_CSW"
    <2>1. StartIn(Csw(csw)) /\ mass_state' = "RECEIVE_CBW"
      BY <1>1, <1>4 DEF HandleSend
    <2>2. BusOn => host.cmd.op \in DataIn /\ (~csw.good => host.cmd.lun # 0)
      BY <1>4 DEF AttentionInv, AttentionKept, OnlyCardsFail, BusOn
    <2> QED
      BY <1>1, <2>1, <2>2, AttentionStatus DEF SameHost, BusOn, Busy, DataIn
  <1>5. CASE mass_state \notin {"SEND_DATA", "SENDING_CSW"}
    <2>0. InDone /\ (mass_state' = mass_state \/ mass_state' = "RECEIVE_CBW")
      BY <1>1, <1>5 DEF HandleSend
    <2>1. fifo' = fifo /\ epIn'.state = "done" /\ (mass_state' = mass_state \/ mass_state' = "RECEIVE_CBW")
      BY <2>0 DEF InDone, InFinished
    <2> QED
      BY <1>1, <2>1, AttentionFrame DEF SameHost, BusOn, Busy, CswWaits
  <1> QED
    BY <1>2, <1>3, <1>4, <1>5

\* The stall of a capacity command, and its status.
LEMMA AttentionStall ==
    ASSUME MassInv, AttentionInv, CapacityStalls \/ Stalled
    PROVE  AttentionInv'
  <1>1. CASE CapacityStalls
    <2>1. /\ bus = "up" /\ rx.cmd = host.cmd /\ host.cmd \in Command /\ fifo = Empty
          /\ epIn.state = "cpu" => epIn.stage = "loaded"
      BY <1>1, CommandFacts DEF CapacityStalls
    <2>2. host.cmd.op = "Capacity" /\ host.cmd.lun # 0
      BY <1>1, <2>1, LunAssumption DEF CapacityStalls, CheckDevState
    <2>3. UNCHANGED <<epIn, fifo, iscardin, bus, host>>
      BY <1>1 DEF CapacityStalls
    <2> QED
      BY <2>1, <2>2, <2>3 DEF AttentionInv, OnlyCardsFail, AttentionKept, CswWaits, SenseAbsent, SenseChanged, DataIn
  <1>2. CASE Stalled
    <2>1. /\ fifo = Empty /\ mass_state = "SENDING_CSW" /\ StartIn(Csw(csw)) /\ mass_state' = "SENDED_CSW"
          /\ UNCHANGED <<bus, iscardin>>
      BY <1>2 DEF Stalled, SendCSW, MassInv, Endpoints
    <2>2. csw'.good
      <3>1. csw \in [tag : {0, 1}, good : BOOLEAN] /\ csw' = [csw EXCEPT !.good = TRUE]
        BY <1>2 DEF Stalled, MassInv, Types, TypeOK
      <3> HIDE DEF MassInv
      <3> QED
        BY <3>1
    <2>3. SameHost
      <3>1. host \in Host /\ host' = [host EXCEPT !.phase = "status"]
        BY <1>2 DEF Stalled, MassInv, Types
      <3> HIDE DEF MassInv
      <3> QED
        BY <3>1 DEF SameHost, Host
    <2>4. BusOn => host.cmd.op \in DataIn /\ (~csw.good => host.cmd.lun # 0)
      BY <2>1 DEF AttentionInv, AttentionKept, OnlyCardsFail, BusOn
    <2> QED
      BY <2>1, <2>2, <2>3, <2>4, AttentionStatus DEF Busy, DataIn
  <1> QED
    BY <1>1, <1>2

\* handle_receive_data.
LEMMA AttentionReceive == ASSUME MassInv, AttentionInv, ReceiveData PROVE AttentionInv'
  <1>1. /\ mass_state = "RECEIVE_DATA" /\ fifo = Empty /\ host.cmd.op = "Write10"
        /\ UNCHANGED <<csw, iscardin, bus, host>>
    BY DEF ReceiveData, MassInv, Endpoints, Quiet, Commands
  <1>2. CASE UNCHANGED <<epIn, fifo, mass_state>>
    BY <1>1, <1>2, AttentionFrame DEF SameHost, BusOn, Busy, CswWaits
  <1>3. CASE SendCSW(csw)
    <2>1. BusOn /\ ~csw.good => host.cmd.lun # 0
      BY <1>1 DEF AttentionInv, OnlyCardsFail, BusOn
    <2> QED
      BY <1>1, <1>3, <2>1, AttentionStatus DEF SendCSW, SameHost, BusOn, Busy
  <1> QED
    BY <1>2, <1>3 DEF ReceiveData

\* A command begins: nothing is on its way to the host, which has been told
\* "no medium" of a LUN only if iscardin says so.
LEMMA AttentionCommand == ASSUME OneSlot, MassInv, AttentionInv, HandleCBW PROVE AttentionInv'
  <1> DEFINE c == host.cmd
  <1>1. /\ bus = "up" /\ rx.cmd = c /\ fifo = Empty /\ c \in Command
        /\ UNCHANGED <<bus, host>>
        /\ csw' = [tag |-> c.tag, good |-> c.op = "TestUnitReady" => ~NotReady(c.lun)]
        /\ \/ Inquiry(c) \/ RequestSense(c) \/ Capacity(c) \/ Read10(c) \/ Write10(c) \/ NoData(c)
    BY CommandFacts DEF HandleCBW
  <1>2. fifo.kind = "none" /\ c.lun \in LUNs /\ LUNs \subseteq Nat /\ Removable \subseteq LUNs \ {0} /\ Types
    BY <1>1, PacketFacts, LunAssumption DEF Command, MassInv
  <1>3. host.absent # {} => iscardin
    BY <1>1, <1>2 DEF AttentionInv, AttentionKept, SenseChanged
  <1>4. (c.op = "TestUnitReady" => ~NotReady(c.lun)) \in BOOLEAN
    OBVIOUS
  <1>5. csw' \in [tag : {0, 1}, good : BOOLEAN] /\ (csw'.good <=> (c.op = "TestUnitReady" => ~NotReady(c.lun)))
    <2>1. c.tag \in {0, 1}
      BY <1>1 DEF Command
    <2> QED
      BY <1>1, <1>4, <2>1
  <1>6. ~csw'.good => c.lun # 0
    BY <1>2, <1>5 DEF NotReady
  <1>7. /\ host.failed \cup host.absent \subseteq LUNs \ {0}
        /\ c.op = "RequestSense" => c.lun # 0
    BY DEF AttentionInv, OnlyCardsFail
  <1> HIDE DEF MassInv, AttentionInv
  \* The answers with data, at once in the FIFO.
  <1>8. ASSUME NEW b \in Seq(Data), Answer(b)
        PROVE  fifo' = Payload(b) /\ fifo'.kind = "data" /\ fifo'.body = b /\ mass_state' = "SENDING_CSW" /\ ~CswWaits'
    <2>1. Payload(b) \in Packet /\ Payload(b) # Empty /\ Payload(b).kind = "data" /\ Payload(b).body = b
      BY PacketFacts
    <2>2. StartIn(Payload(b)) /\ mass_state' = "SENDING_CSW"
      BY <1>8 DEF Answer
    <2> QED
      BY <1>1, <1>2, <2>1, <2>2, StartInEffect DEF CswWaits
  <1>9. CASE Inquiry(c) \/ Capacity(c)
    <2>1. Answer(<<0>>) /\ UNCHANGED iscardin /\ c.op \in {"Inquiry", "Capacity"}
      BY <1>9 DEF Inquiry, Capacity
    <2>2. fifo'.kind = "data" /\ mass_state' = "SENDING_CSW" /\ ~CswWaits'
      BY <1>8, <2>1, SmallAnswers
    <2> QED
      BY <1>1, <1>3, <1>6, <1>7, <2>1, <2>2
         DEF AttentionInv, OnlyCardsFail, AttentionKept, SenseAbsent, SenseChanged, DataIn
  <1>10. CASE RequestSense(c)
    <2>1. c.op = "RequestSense" /\ c.lun # 0
      BY <1>7, <1>10 DEF RequestSense
    <2>2. CASE CheckDevState(c.lun)
      <3>1. Answer(<<1>>)
        BY <1>10, <2>2 DEF RequestSense
      <3>2. fifo'.kind = "data" /\ fifo'.body = <<1>> /\ mass_state' = "SENDING_CSW" /\ ~CswWaits'
        BY <1>8, <3>1, SmallAnswers
      <3>3. <<1>> # <<0>>
        OBVIOUS
      <3> QED
        BY <1>1, <1>6, <1>7, <2>1, <3>2, <3>3
           DEF AttentionInv, OnlyCardsFail, AttentionKept, SenseAbsent, SenseChanged, DataIn
    <2>3. CASE ~CheckDevState(c.lun)
      <3>1. Answer(<<0>>) /\ iscardin' = TRUE
        BY <1>10, <2>3 DEF RequestSense
      <3>2. fifo'.kind = "data" /\ fifo'.body = <<0>> /\ mass_state' = "SENDING_CSW" /\ ~CswWaits'
        BY <1>8, <3>1, SmallAnswers
      <3> QED
        BY <1>1, <1>6, <1>7, <2>1, <3>1, <3>2
           DEF AttentionInv, OnlyCardsFail, AttentionKept, SenseAbsent, SenseChanged, DataIn
    <2> QED
      BY <2>2, <2>3
  <1>11. CASE Read10(c)
    <2>1. fifo' = fifo /\ epIn'.state = "dma" /\ mass_state' = "SEND_DATA" /\ UNCHANGED iscardin /\ c.op = "Read10"
      BY <1>11 DEF Read10, SendSectors, StartInDma
    <2> QED
      BY <1>1, <1>2, <1>3, <1>6, <1>7, <2>1
         DEF AttentionInv, OnlyCardsFail, AttentionKept, CswWaits, SenseAbsent, SenseChanged
  \* The status of a command without data, at once in the FIFO.
  <1>12. ASSUME SendCSW(csw'), UNCHANGED iscardin, c.op \in {"TestUnitReady", "Other", "Write10"}
         PROVE  AttentionInv'
    <2>1. /\ Csw(csw') \in Packet /\ Csw(csw') # Empty /\ Csw(csw').kind = "csw"
          /\ Csw(csw').good = csw'.good
      BY <1>5, PacketFacts
    <2>2. StartIn(Csw(csw')) /\ mass_state' = "SENDED_CSW"
      BY <1>12 DEF SendCSW
    <2>3. fifo' = Csw(csw') /\ ~CswWaits'
      BY <1>1, <1>2, <2>1, <2>2, StartInEffect DEF CswWaits
    <2>4. csw'.good /\ c.op = "TestUnitReady" => c.lun \notin host.absent
      <3> SUFFICES ASSUME csw'.good, c.op = "TestUnitReady", c.lun \in host.absent
                   PROVE  FALSE
        OBVIOUS
      <3>1. ~NotReady(c.lun)
        BY <1>5
      <3>2. iscardin /\ c.lun \in Nat /\ c.lun # 0
        BY <1>2, <1>3, <1>7
      <3>3. c.lun > 0
        BY <3>2
      <3> QED
        BY <3>1, <3>2, <3>3 DEF NotReady
    <2> HIDE DEF c
    <2>5. OnlyCardsFail'
      BY <1>1, <1>6, <1>7, <2>1, <2>2, <2>3 DEF c, OnlyCardsFail
    <2>6. AttentionKept'
      BY <1>1, <1>3, <1>12, <2>1, <2>2, <2>3, <2>4 DEF c, AttentionKept, SenseAbsent, SenseChanged
    <2> QED
      BY <2>5, <2>6 DEF AttentionInv
  <1>13. CASE NoData(c)
    BY <1>12, <1>13 DEF NoData
  <1>14. CASE Write10(c)
    <2>1. c.op = "Write10" /\ UNCHANGED iscardin
      BY <1>14 DEF Write10
    <2>2. CASE SendCSW(csw')
      BY <1>12, <2>1, <2>2
    <2>3. CASE mass_state' = "RECEIVE_DATA" /\ UNCHANGED <<epIn, fifo>>
      <3>1. epIn.state = "cpu" => epIn.stage = "loaded"
        BY CommandFacts DEF HandleCBW
      <3> QED
        BY <1>1, <1>2, <1>3, <1>6, <1>7, <2>1, <2>3, <3>1
           DEF AttentionInv, OnlyCardsFail, AttentionKept, CswWaits, SenseAbsent, SenseChanged
    <2> QED
      BY <1>14, <2>2, <2>3 DEF Write10
  <1> QED
    BY <1>1, <1>9, <1>10, <1>11, <1>13, <1>14

\* The host gives a command: a request for sense only of a LUN that has failed.
LEMMA AttentionHostCommand ==
    ASSUME MassInv, AttentionInv, NEW d \in Command, HostCommand(d)
    PROVE  AttentionInv'
  <1>1. /\ bus = "up" /\ UNCHANGED <<epIn, fifo, devVars, bus>>
        /\ d.op = "RequestSense" => d.lun \in host.failed
        /\ host.phase = "idle"
    BY DEF HostCommand, FifoGiven, Sensible
  <1>2. Quiet /\ mass_state \in {"RECEIVE_CBW", "SENDED_CSW"}
    BY <1>1 DEF MassInv, InStep
  <1>3. host'.cmd = d /\ host'.absent = host.absent /\ host'.failed = host.failed
    <2>1. host \in Host
      BY DEF MassInv, Types
    <2> HIDE DEF MassInv
    <2> QED
      BY <2>1 DEF HostCommand, Host
  <1>4. fifo.kind = "none" /\ ~CswWaits /\ ~CswWaits'
    BY <1>1, <1>2, PacketFacts DEF Quiet, CswWaits
  <1> QED
    BY <1>1, <1>2, <1>3, <1>4
       DEF AttentionInv, OnlyCardsFail, AttentionKept, SenseAbsent, SenseChanged, devVars

\* The host takes an answer, a status, or sends data.
LEMMA AttentionHost == ASSUME OneSlot, MassInv, AttentionInv, HostStep PROVE AttentionInv'
  <1>1. CASE HostTakesData
    <2> DEFINE h == host.cmd
               got == host.got \o fifo.body
               absent == IF h.op # "RequestSense" THEN host.absent
                         ELSE IF got = <<0>> THEN host.absent \cup {h.lun} ELSE host.absent \ {h.lun}
    <2>1. /\ bus = "up" /\ fifo.kind = "data" /\ fifo' = Empty
          /\ UNCHANGED <<epIn, devVars, bus>>
      BY <1>1 DEF HostTakesData, FifoTaken
    <2>2. host'.cmd = h /\ host'.absent = absent /\ host'.failed = host.failed
      <3>1. host \in Host
        BY DEF MassInv, Types
      <3> HIDE DEF MassInv
      <3> QED
        BY <1>1, <3>1 DEF HostTakesData, Host
    <2>3. fifo'.kind = "none" /\ h.lun \in LUNs
      BY <2>1, PacketFacts, Numbers DEF MassInv
    <2>4. h.op = "RequestSense" => got = fifo.body
      <3>1. h.op = "RequestSense" => host.got = <<>>
        BY <2>1 DEF MassInv, Delivered, AnswerFirst, DataIn
      <3>2. fifo.body \in Seq(Data)
        BY <2>1, PacketFacts, Numbers DEF MassInv
      <3>3. \A q \in Seq(Data) : <<>> \o q = q
        OBVIOUS
      <3> QED
        BY <3>1, <3>2, <3>3
    <2> HIDE DEF got, MassInv
    <2>5. absent # {} => iscardin
      <3>1. CASE h.op # "RequestSense"
        BY <2>1, <3>1 DEF AttentionInv, AttentionKept, SenseChanged
      <3>2. CASE h.op = "RequestSense" /\ got = <<0>>
        BY <2>1, <2>4, <3>2 DEF AttentionInv, AttentionKept, SenseAbsent
      <3>3. CASE h.op = "RequestSense" /\ got # <<0>>
        <4>1. host.absent \subseteq LUNs \ {0} /\ h.lun \in LUNs \ {0}
          BY <2>3, <3>3 DEF AttentionInv, OnlyCardsFail
        <4> QED
          BY <3>3, <4>1 DEF OneSlot
      <3> QED
        BY <3>1, <3>2, <3>3
    <2>6. absent \subseteq LUNs \ {0}
      BY <2>3 DEF AttentionInv, OnlyCardsFail
    <2> HIDE DEF absent
    <2>7. OnlyCardsFail'
      BY <2>1, <2>2, <2>3, <2>6 DEF AttentionInv, OnlyCardsFail, CswWaits, devVars
    <2>8. AttentionKept'
      BY <2>1, <2>2, <2>3, <2>5 DEF AttentionInv, AttentionKept, CswWaits, SenseAbsent, SenseChanged, devVars
    <2> QED
      BY <2>7, <2>8 DEF AttentionInv
  <1>2. CASE HostTakesStatus
    <2> DEFINE h == host.cmd
               failed == IF fifo.good THEN host.failed \ {h.lun} ELSE host.failed \cup {h.lun}
    <2>1. /\ bus = "up" /\ fifo.kind = "csw" /\ fifo' = Empty
          /\ UNCHANGED <<epIn, devVars, bus>>
      BY <1>2 DEF HostTakesStatus, FifoTaken
    <2>2. host'.cmd = h /\ host'.absent = host.absent /\ host'.failed = failed
      <3>1. host \in Host
        BY DEF MassInv, Types
      <3> HIDE DEF MassInv
      <3> QED
        BY <1>2, <3>1 DEF HostTakesStatus, Host
    <2>3. fifo'.kind = "none" /\ h.lun \in LUNs
      BY <2>1, PacketFacts, Numbers DEF MassInv
    <2>4. failed \subseteq LUNs \ {0}
      BY <2>1, <2>3 DEF AttentionInv, OnlyCardsFail
    <2> HIDE DEF failed, MassInv
    <2>5. OnlyCardsFail'
      BY <2>1, <2>2, <2>3, <2>4 DEF AttentionInv, OnlyCardsFail, CswWaits, devVars
    <2>6. AttentionKept'
      BY <2>1, <2>2, <2>3 DEF AttentionInv, AttentionKept, CswWaits, SenseAbsent, SenseChanged, devVars
    <2> QED
      BY <2>5, <2>6 DEF AttentionInv
  <1>3. CASE HostSendsData
    <2>1. UNCHANGED <<epIn, fifo, devVars, bus>>
      BY <1>3 DEF HostSendsData, DmaReceives
    <2>2. SameHost
      <3>1. host \in Host
        BY DEF MassInv, Types
      <3> HIDE DEF MassInv
      <3> QED
        BY <1>3, <3>1 DEF HostSendsData, SameHost, Host
    <2> QED
      BY <2>1, <2>2, AttentionFrame DEF devVars, BusOn, Busy, CswWaits
  <1> QED
    BY <1>1, <1>2, <1>3 DEF HostStep

\* Every step keeps the attention.
LEMMA AttentionStep == OneSlot /\ MassInv /\ AttentionInv /\ [Next]_vars => AttentionInv'
  <1> SUFFICES ASSUME OneSlot, MassInv, AttentionInv, [Next]_vars
               PROVE  AttentionInv'
    OBVIOUS
  <1>1. CASE UdcTask
    BY <1>1, AttentionPass, AttentionLoads, AttentionSend, AttentionCommand, AttentionStall, AttentionReceive
       DEF UdcTask
  <1>2. CASE Hardware
    BY <1>2, AttentionLoads
  <1>3. CASE PlugIn \/ DeviceReset \/ Suspend \/ Removed \/ HostReset \/ Unplug \/ Resume \/ CardMoves
    BY <1>3, AttentionOutside
  <1>4. CASE \E c \in Command : c.tag # host.cmd.tag /\ HostCommand(c)
    BY <1>4, AttentionHostCommand
  <1>5. CASE HostStep
    BY <1>5, AttentionHost
  <1>6. CASE UNCHANGED vars
    BY <1>6, AttentionFrame DEF vars, udcVars, devVars, SameHost, BusOn, Busy, CswWaits
  <1> QED
    BY <1>1, <1>2, <1>3, <1>4, <1>5, <1>6 DEF Next

\* A host that was told "no medium" is not told that the LUN is ready before it has
\* been told of the medium that went in, however often the card moves; for one LUN
\* besides LUN 0, since iscardin is one variable for all of them.
THEOREM AttentionReachesTheHost == OneSlot => (Spec => []ReadyAfterAttention)
  <1> SUFFICES ASSUME OneSlot PROVE Spec => []ReadyAfterAttention
    OBVIOUS
  <1>1. Init => AttentionInv
    BY DEF Init, AttentionInv, OnlyCardsFail, AttentionKept, NoCommand
  <1>2. MassInv /\ AttentionInv /\ [Next]_vars => AttentionInv'
    BY AttentionStep
  <1>3. AttentionInv => ReadyAfterAttention
    BY DEF AttentionInv, AttentionKept, ReadyAfterAttention, GoodStatus
  <1> QED
    BY <1>1, <1>2, <1>3, Invariance, PTL DEF Spec

(***************************************************************************)
(* The disk that the host sees.                                            *)
(***************************************************************************)
Kept == StoredInv' /\ [Promise!Next]_(Promise!vars)
SameCommand == /\ host'.cmd = host.cmd /\ host'.got = host.got /\ host'.want = host.want
               /\ host'.phase = host.phase
SameWrite == /\ mass_state' = "RECEIVE_DATA" <=> mass_state = "RECEIVE_DATA"
             /\ mass_state = "RECEIVE_DATA" => UNCHANGED <<cbw, xfer>> /\ epOut'.body = epOut.body

\* What reaches the host is not touched, or not for a READ_10.
LEMMA ReadsFrame ==
    ASSUME ReadsStored, UNCHANGED disk, SameCommand, BusOn' <=> BusOn,
           fifo' = fifo \/ fifo'.kind # "data" \/ host.cmd.op # "Read10",
           mass_state' = "SEND_DATA" => UNCHANGED <<mass_state, epIn, fifo>>
    PROVE  ReadsStored'
  BY DEF ReadsStored, SameCommand, AsStored, Reached, BodyLen

\* A step of the device that takes and stores nothing.
LEMMA KeptFrame ==
    ASSUME StoredInv, UNCHANGED disk, SameCommand, SameWrite, BusOn' <=> BusOn, ReadsStored'
    PROVE  Kept
  <1>1. StoresAhead'
    BY DEF StoredInv, StoresAhead, SameCommand, SameWrite
  <1>2. UNCHANGED <<Asked, Remaining, Received>>
    BY DEF Asked, Remaining, Received, SameCommand, SameWrite, AsRequest
  <1> QED
    BY <1>1, <1>2 DEF Kept, StoredInv, Promise!vars

\* The steps of a pass, and a command without a signature.
LEMMA KeptPass ==
    ASSUME MassInv, StoredInv, StartPass \/ PassStep \/ HandleBadCBW
    PROVE  Kept
  <1>1. /\ UNCHANGED <<disk, mass_state, cbw, xfer, epIn, fifo, bus, host>>
        /\ mass_state = "RECEIVE_DATA" => epOut'.body = epOut.body
    <2>1. CASE StartPass \/ PassStep
      BY <2>1, PassSteps DEF MassInv, Endpoints, devVars
    <2>2. CASE HandleBadCBW
      BY <2>2 DEF HandleBadCBW, devVars
    <2> QED
      BY <2>1, <2>2
  <1>2. SameCommand /\ SameWrite /\ (BusOn' <=> BusOn)
    BY <1>1 DEF SameCommand, SameWrite, BusOn
  <1>3. ReadsStored'
    BY <1>1, <1>2, ReadsFrame DEF StoredInv
  <1> QED
    BY <1>1, <1>2, <1>3, KeptFrame

\* A status is started.
LEMMA KeptStatus ==
    ASSUME MassInv, StoredInv, StartIn(Csw(csw)), UNCHANGED <<disk, bus, host>>,
           mass_state # "RECEIVE_DATA", mass_state' \in {"SENDED_CSW", "RECEIVE_CBW"}
    PROVE  Kept
  <1>1. csw \in [tag : {0, 1}, good : BOOLEAN]
    BY DEF MassInv, Types, TypeOK
  <1>2. Csw(csw) \in Packet /\ Csw(csw) # Empty /\ Csw(csw).kind = "csw"
    BY <1>1, PacketFacts
  <1>3. fifo' = fifo \/ fifo'.kind # "data"
    BY <1>2, StartInEffect DEF MassInv
  <1>4. SameCommand /\ SameWrite /\ (BusOn' <=> BusOn)
    BY DEF SameCommand, SameWrite, BusOn
  <1>5. ReadsStored'
    BY <1>3, <1>4, ReadsFrame DEF StoredInv
  <1> QED
    BY <1>4, <1>5, KeptFrame

\* The sectors of a part are what is stored.
LEMMA PartStored ==
    ASSUME NEW l \in LUNs, NEW start \in Nat, NEW nr \in Nat, nr # 0, SendSectors(l, start, nr)
    PROVE  /\ epIn'.packet.kind = "data" /\ epIn'.state = "dma" /\ fifo' = fifo /\ mass_state' = "SEND_DATA"
           /\ \A i \in 1 .. Len(epIn'.packet.body) :
                 \/ epIn'.packet.body[i] = disk[l][start + i - 1]
                 \/ l \in Removable /\ epIn'.packet.body[i] = Junk
  <1> DEFINE body == ReadDevSector(l, start, AtMostChunk(nr))
  <1>1. epIn'.packet = [kind |-> "data", body |-> body] /\ epIn'.state = "dma" /\ fifo' = fifo
        /\ mass_state' = "SEND_DATA"
    BY DEF SendSectors, StartInDma, Payload
  <1>2. AtMostChunk(nr) \in 1 .. nr
    BY PartTyped
  <1>3. Len(body) = AtMostChunk(nr)
    BY <1>2 DEF ReadDevSector
  <1>4. \A i \in 1 .. AtMostChunk(nr) :
            body[i] = disk[l][start + i - 1] \/ (l \in Removable /\ body[i] = Junk)
    BY DEF ReadDevSector, CheckDevState
  <1> HIDE DEF body
  <1> QED
    BY <1>1, <1>3, <1>4

\* A part of a READ_10 is started, k sectors into the request.
LEMMA KeptPart ==
    ASSUME MassInv, StoredInv, NEW l \in LUNs, NEW start \in Nat, NEW nr \in Nat, nr # 0,
           SendSectors(l, start, nr), UNCHANGED <<disk, bus, host>>,
           mass_state # "RECEIVE_DATA", BusOn => l = host.cmd.lun /\ start = host.cmd.start + Reached
    PROVE  Kept
  <1>1. /\ epIn'.packet.kind = "data" /\ epIn'.state = "dma" /\ fifo' = fifo /\ mass_state' = "SEND_DATA"
        /\ \A i \in 1 .. Len(epIn'.packet.body) :
              \/ epIn'.packet.body[i] = disk[l][start + i - 1]
              \/ l \in Removable /\ epIn'.packet.body[i] = Junk
    BY PartStored
  <1>2. SameCommand /\ SameWrite /\ (BusOn' <=> BusOn) /\ Reached' = Reached
    BY <1>1 DEF SameCommand, SameWrite, BusOn, Reached, BodyLen
  <1>3. ReadsStored'
    BY <1>1, <1>2 DEF StoredInv, ReadsStored, AsStored, SameCommand
  <1> QED
    BY <1>2, <1>3, KeptFrame

\* handle_send.
LEMMA KeptSend ==
    ASSUME MassInv, StoredInv, SendFinished \/ SendDmaFinished
    PROVE  Kept
  <1>1. HandleSend /\ UNCHANGED <<csw, cbw, disk, bus, host>>
    BY DEF SendFinished, SendDmaFinished, HandleSend
  <1>2. xfer.nr \in Nat /\ xfer.start \in Nat
    BY Numbers DEF MassInv
  <1>3. CASE mass_state = "SEND_DATA" /\ xfer.nr # 0
    <2>1. SendSectors(cbw.lun, xfer.start, xfer.nr)
      BY <1>1, <1>3 DEF HandleSend
    <2>2. cbw.lun \in LUNs /\ cbw = host.cmd
      BY <1>3, Numbers DEF MassInv, Commands
    <2>3. epIn.stage = "loaded"
      BY <1>3 DEF SendFinished, SendDmaFinished, FinishedIn, FinishedDma, MassInv, Endpoints, DmaLatches
    <2>4. BusOn => xfer.start = host.cmd.start + Reached
      <3>1. Reached \in Nat /\ Pending = 0
        BY <2>3, Numbers DEF MassInv, Pending
      <3>2. BusOn => xfer.start = host.cmd.start + (Reached + Pending)
        BY <1>3 DEF MassInv, InStep, BusOn
      <3> QED
        BY <3>1, <3>2
    <2> QED
      BY <1>1, <1>2, <1>3, <2>1, <2>2, <2>4, KeptPart
  <1>4. CASE mass_state = "SEND_DATA" /\ xfer.nr = 0
    <2>1. StartIn(Csw(csw)) /\ mass_state' = "SENDED_CSW"
      BY <1>1, <1>4 DEF HandleSend, SendCSW
    <2> QED
      BY <1>1, <1>4, <2>1, KeptStatus
  <1>5. CASE mass_state = "SENDING_CSW"
    <2>1. StartIn(Csw(csw)) /\ mass_state' = "RECEIVE_CBW"
      BY <1>1, <1>5 DEF HandleSend
    <2> QED
      BY <1>1, <1>5, <2>1, KeptStatus
  <1>6. CASE mass_state \notin {"SEND_DATA", "SENDING_CSW"}
    <2>1. /\ InDone
          /\ \/ mass_state' = "RECEIVE_CBW" /\ mass_state = "SENDED_CSW"
             \/ mass_state' = mass_state /\ UNCHANGED <<epOut, xfer>>
      BY <1>1, <1>6 DEF HandleSend
    <2>2. SameCommand /\ SameWrite /\ (BusOn' <=> BusOn)
      BY <1>1, <2>1 DEF SameCommand, SameWrite, BusOn
    <2>3. ReadsStored'
      BY <1>1, <1>6, <2>1, <2>2, ReadsFrame DEF StoredInv, InDone
    <2> QED
      BY <1>1, <2>2, <2>3, KeptFrame
  <1> QED
    BY <1>3, <1>4, <1>5, <1>6

\* The DMA of a READ_10, and a status that has waited for the FIFO.
LEMMA KeptLoads ==
    ASSUME MassInv, StoredInv, Hardware \/ LoadDeferred
    PROVE  Kept
  <1>1. CASE Hardware
    <2>1. /\ epIn.state = "dma" /\ epIn.stage = "begun" /\ epIn'.stage = "loaded" /\ fifo' = epIn.packet
          /\ UNCHANGED <<epOut, devVars, bus, host>>
      BY <1>1 DEF Hardware, DmaLoads, MassInv, Types, Stage
    <2>2. fifo = Empty /\ mass_state = "SEND_DATA"
      BY <2>1 DEF MassInv, Endpoints
    <2>3. Reached = Len(host.got)
      <3>1. BodyLen(fifo) = 0 /\ Len(host.got) \in Nat
        BY <2>2, PacketFacts, Numbers DEF BodyLen, MassInv
      <3> QED
        BY <3>1 DEF Reached
    <2>4. SameCommand /\ SameWrite /\ (BusOn' <=> BusOn)
      BY <2>1, <2>2 DEF SameCommand, SameWrite, BusOn, devVars
    <2>5. ReadsStored'
      BY <2>1, <2>2, <2>3 DEF StoredInv, ReadsStored, AsStored, BusOn, devVars
    <2> QED
      BY <2>1, <2>4, <2>5, KeptFrame DEF devVars
  <1>2. CASE LoadDeferred
    <2>1. /\ epIn.state = "cpu" /\ epIn.packet.kind = "csw" /\ fifo' = Csw(csw)
          /\ UNCHANGED <<epOut, devVars, bus, host>>
      BY <1>2 DEF LoadDeferred, LoadFifo, MassInv, Endpoints
    <2>2. csw \in [tag : {0, 1}, good : BOOLEAN] /\ mass_state # "SEND_DATA"
      BY <2>1 DEF MassInv, Types, TypeOK, Endpoints
    <2>3. fifo'.kind = "csw"
      BY <2>1, <2>2, PacketFacts
    <2>4. SameCommand /\ SameWrite /\ (BusOn' <=> BusOn)
      BY <2>1 DEF SameCommand, SameWrite, BusOn, devVars
    <2>5. ReadsStored'
      BY <2>1, <2>2, <2>3, <2>4, ReadsFrame DEF StoredInv, devVars
    <2> QED
      BY <2>1, <2>4, <2>5, KeptFrame DEF devVars
  <1> QED
    BY <1>1, <1>2

\* A command begins.
LEMMA KeptCommand == ASSUME MassInv, StoredInv, HandleCBW PROVE Kept
  <1> DEFINE c == host.cmd
  <1>1. /\ bus = "up" /\ rx.cmd = c /\ fifo = Empty /\ c \in Command
        /\ mass_state = "RECEIVE_CBW" /\ cbw' = c
        /\ host.phase = FirstPhase(c) /\ host.got = <<>>
        /\ c.op = "Read10" => c.count > 0
        /\ UNCHANGED <<bus, host>>
        /\ \/ Inquiry(c) \/ RequestSense(c) \/ Capacity(c) \/ Read10(c) \/ Write10(c) \/ NoData(c)
        /\ csw' \in [tag : {0, 1}, good : BOOLEAN]
    <2>1. /\ bus = "up" /\ rx.cmd = c /\ fifo = Empty /\ c \in Command
          /\ host.phase = FirstPhase(c) /\ host.got = <<>>
          /\ c.op = "Read10" => c.count > 0
      BY CommandFacts DEF HandleCBW
    <2>2. c.tag \in {0, 1} /\ (c.op = "TestUnitReady" => ~NotReady(c.lun)) \in BOOLEAN
      BY <2>1 DEF Command
    <2> HIDE DEF MassInv
    <2> QED
      BY <2>1, <2>2 DEF HandleCBW
  <1>2. fifo.kind = "none" /\ c.lun \in LUNs /\ c.start \in Nat /\ c.count \in Nat
    BY <1>1, PacketFacts, Numbers DEF MassInv
  <1>3. SameCommand /\ (BusOn' <=> BusOn)
    BY <1>1 DEF SameCommand, BusOn
  <1> HIDE DEF MassInv
  <1>4. ASSUME UNCHANGED disk, mass_state' \notin {"SEND_DATA", "RECEIVE_DATA"},
               c.op # "Read10" \/ fifo'.kind # "data"
        PROVE  Kept
    <2>1. SameWrite
      BY <1>1, <1>4 DEF SameWrite
    <2>2. ReadsStored'
      BY <1>3, <1>4, ReadsFrame DEF StoredInv
    <2> QED
      BY <1>3, <1>4, <2>1, <2>2, KeptFrame
  <1>5. CASE Inquiry(c) \/ RequestSense(c) \/ Capacity(c) \/ NoData(c)
    <2>1. /\ UNCHANGED disk /\ c.op # "Read10" /\ mass_state' \in {"SENDING_CSW", "SENDED_CSW"}
      BY <1>5 DEF Inquiry, RequestSense, Capacity, NoData, Answer, SendCSW
    <2> QED
      BY <1>4, <2>1
  <1>6. CASE Read10(c)
    <2>1. SendSectors(c.lun, c.start, c.count) /\ c.op = "Read10" /\ UNCHANGED disk
      BY <1>6 DEF Read10
    <2>2. c.count # 0
      BY <1>1, <2>1
    <2>3. Reached = 0 /\ c.start = c.start + Reached
      BY <1>1, <1>2 DEF Reached, BodyLen
    <2> HIDE DEF c
    <2>4. c.lun = host.cmd.lun /\ c.start = host.cmd.start + Reached
      BY <2>3 DEF c
    <2> QED
      BY <1>1, <1>2, <2>1, <2>2, <2>4, KeptPart
  <1>7. CASE Write10(c) /\ c.count = 0
    <2>1. UNCHANGED disk /\ mass_state' = "SENDED_CSW" /\ c.op = "Write10"
      BY <1>7 DEF Write10, SendCSW
    <2> QED
      BY <1>4, <2>1
  <1>8. CASE Write10(c) /\ c.count # 0
    <2>1. /\ UNCHANGED <<disk, fifo, epIn>> /\ mass_state' = "RECEIVE_DATA" /\ c.op = "Write10"
          /\ xfer' = [start |-> c.start, nr |-> c.count] /\ epOut'.body = <<>>
      BY <1>2, <1>8 DEF Write10, StartOut
    <2>2. host.phase = "out"
      BY <1>1, <1>2, <1>8, <2>1 DEF FirstPhase, DataIn
    <2>3. ReadsStored'
      BY <1>3, <2>1, ReadsFrame DEF StoredInv
    <2>4. \A i \in 1 .. c.count : host.want[i] = disk[c.lun][c.start + i - 1] + 1
      BY <1>1, <2>2 DEF StoredInv, StoresAhead
    <2>5. \A i \in 1 .. c.count : (c.count - c.count) + i = i
      BY <1>2
    <2>6. StoresAhead'
      BY <1>1, <2>1, <2>4, <2>5 DEF StoresAhead
    <2>7. UNCHANGED <<Asked, Remaining, Received>>
      BY <1>1, <1>3, <2>1, <2>2 DEF Asked, Remaining, Received, SameCommand, AsRequest
    <2> QED
      BY <2>1, <2>3, <2>6, <2>7 DEF Kept, StoredInv, Promise!vars
  <1> QED
    BY <1>1, <1>5, <1>6, <1>7, <1>8

\* The stall of a capacity command, and its status.
LEMMA KeptStall ==
    ASSUME MassInv, StoredInv, CapacityStalls \/ Stalled
    PROVE  Kept
  <1>1. CASE CapacityStalls
    <2>1. /\ UNCHANGED <<disk, fifo, epIn, bus, host>>
          /\ mass_state = "RECEIVE_CBW" /\ mass_state' = "SENDING_CSW"
      BY <1>1 DEF CapacityStalls
    <2>2. SameCommand /\ SameWrite /\ (BusOn' <=> BusOn)
      BY <2>1 DEF SameCommand, SameWrite, BusOn
    <2>3. ReadsStored'
      BY <2>1, <2>2, ReadsFrame DEF StoredInv
    <2> QED
      BY <2>1, <2>2, <2>3, KeptFrame
  <1>2. CASE Stalled
    <2>1. /\ bus = "up" /\ bus' = "up" /\ host.phase = "in" /\ mass_state = "SENDING_CSW"
          /\ mass_state' = "SENDED_CSW" /\ UNCHANGED disk
      BY <1>2 DEF Stalled, SendCSW, MassInv, Endpoints
    <2>2. host.cmd.op # "Read10"
      BY <2>1 DEF MassInv, InStep
    <2>3. host'.phase = "status" /\ host'.cmd = host.cmd
      <3>1. host \in Host
        BY DEF MassInv, Types
      <3> HIDE DEF MassInv
      <3> QED
        BY <1>2, <3>1 DEF Stalled, Host
    <2>4. StoresAhead' /\ ReadsStored'
      BY <2>1, <2>2, <2>3 DEF StoresAhead, ReadsStored
    <2>5. UNCHANGED <<Asked, Remaining, Received>>
      BY <2>1, <2>2, <2>3 DEF Asked, Remaining, Received, AsRequest, BusOn
    <2> QED
      BY <2>1, <2>4, <2>5 DEF Kept, StoredInv, Promise!vars
  <1> QED
    BY <1>1, <1>2

\* The people who move cables and cards, and the host that goes away.
LEMMA KeptOutside ==
    ASSUME MassInv, StoredInv, PlugIn \/ Suspend \/ Removed \/ Resume \/ CardMoves
    PROVE  Kept
  <1>1. UNCHANGED <<epIn, fifo, epOut, devVars, host>> /\ (BusOn' <=> BusOn)
    BY DEF PlugIn, Suspend, Removed, Resume, CardMoves, udcVars, BusOn
  <1>2. SameCommand /\ SameWrite
    BY <1>1 DEF SameCommand, SameWrite, devVars
  <1>3. ReadsStored'
    BY <1>1, <1>2, ReadsFrame DEF StoredInv, devVars
  <1> QED
    BY <1>1, <1>2, <1>3, KeptFrame DEF devVars

LEMMA KeptForget ==
    ASSUME MassInv, StoredInv, HostReset \/ Unplug
    PROVE  Kept
  <1>1. PICK b \in {"reset", "unplugged"} : Forget(b)
    BY DEF HostReset, Unplug
  <1>2. UNCHANGED <<epOut, disk, cbw, xfer, mass_state>> /\ ~BusOn'
    BY <1>1 DEF Forget, devVars, BusOn
  <1>3. host'.phase = "idle" /\ host'.cmd = host.cmd /\ host'.got = <<>>
    <2>1. host \in Host
      BY DEF MassInv, Types
    <2> HIDE DEF MassInv
    <2> QED
      BY <1>1, <2>1 DEF Forget, Host
  <1>4. StoresAhead' /\ ReadsStored'
    BY <1>2, <1>3 DEF StoredInv, StoresAhead, ReadsStored
  <1>5. Promise!GiveUp
    <2>1. Asked' = [op |-> "gone"] /\ Received' = <<>>
      BY <1>2, <1>3 DEF Asked, Received
    <2>2. Remaining' \in {Remaining, [nr |-> 0]}
      BY <1>2, <1>3 DEF Remaining
    <2> QED
      BY <1>2, <2>1, <2>2 DEF Promise!GiveUp, Promise!Gone, Promise!Nothing
  <1> QED
    BY <1>4, <1>5 DEF Kept, StoredInv, Promise!Next

\* udc_reset and mass_reset: what was left of a write is dropped.
LEMMA KeptReset == ASSUME MassInv, StoredInv, DeviceReset PROVE Kept
  <1>1. /\ bus = "reset" /\ bus' = "up" /\ mass_state' = "RECEIVE_CBW" /\ UNCHANGED <<disk, host>>
    BY DEF DeviceReset
  <1>2. host.phase = "idle"
    BY <1>1 DEF MassInv
  <1>3. StoresAhead' /\ ReadsStored'
    BY <1>1, <1>2 DEF StoresAhead, ReadsStored
  <1>4. Promise!Attach
    <2>1. Asked = [op |-> "gone"] /\ Asked' = [op |-> "idle"]
      BY <1>1, <1>2 DEF Asked, BusOn
    <2>2. Remaining' = [nr |-> 0] /\ Received' = Received
      BY <1>1, <1>2 DEF Remaining, Received
    <2> QED
      BY <1>1, <2>1, <2>2 DEF Promise!Attach, Promise!Gone, Promise!Idle, Promise!Nothing
  <1> QED
    BY <1>3, <1>4 DEF Kept, StoredInv, Promise!Next

\* Storing the successors of the sectors from x on is what a write of k sectors does.
Stores(l, x, k) ==
    disk' = [disk EXCEPT ![l] = [s \in Sector |-> IF s \in Extent(x, k) THEN @[s] + 1 ELSE @[s]]]

LEMMA StoredBy ==
    ASSUME NEW l \in LUNs, NEW x \in Nat, NEW k \in Nat, NEW data \in Seq(Data), Len(data) = k,
           WriteDevSector(l, x, data), CheckDevState(l),
           \A i \in 1 .. k : data[i] = disk[l][x + i - 1] + 1
    PROVE  Stores(l, x, k)
  <1>1. TotalSec \in Nat
    BY DeviceAssumption
  <1>2. ASSUME NEW s \in Sector, s \in Extent(x, k)
        PROVE  data[s - x + 1] = disk[l][s] + 1
    <2>1. PICK i \in 1 .. k : i = s - x + 1
      BY <1>1, <1>2 DEF Extent, Sector
    <2>2. x + i - 1 = s
      BY <1>1, <2>1 DEF Sector
    <2> QED
      BY <2>1, <2>2
  <1> DEFINE old == [s \in Sector |-> IF CheckDevState(l) /\ s \in Extent(x, k) THEN data[s - x + 1] ELSE disk[l][s]]
             new == [s \in Sector |-> IF s \in Extent(x, k) THEN disk[l][s] + 1 ELSE disk[l][s]]
  <1>3. old = new
    BY <1>2
  <1>4. disk' = [disk EXCEPT ![l] = old]
    BY DEF WriteDevSector
  <1>5. disk' = [disk EXCEPT ![l] = new]
    BY <1>3, <1>4
  <1> QED
    BY <1>5 DEF Stores

\* Without its medium nothing is stored.
LEMMA NothingStored ==
    ASSUME Types, NEW l \in LUNs, NEW x \in Nat, NEW data \in Seq(Data), WriteDevSector(l, x, data), ~CheckDevState(l)
    PROVE  disk' = disk
  <1>1. disk \in [LUNs -> [Sector -> Data]]
    BY DEF Types, TypeOK
  <1>2. disk' = [disk EXCEPT ![l] = [s \in Sector |-> disk[l][s]]]
    BY DEF WriteDevSector
  <1> QED
    BY <1>1, <1>2

\* handle_receive_data stores the next part of the write.
LEMMA KeptReceive == ASSUME MassInv, StoredInv, ReceiveData PROVE Kept
  <1>0. /\ cbw = host.cmd /\ host.cmd.op = "Write10" /\ host.cmd.lun \in LUNs
        /\ epOut.body \in Seq(Data) /\ xfer.nr \in Nat /\ xfer.nr \in 1 .. MaxCount /\ xfer.start \in Nat
        /\ Len(epOut.body) \in 1 .. xfer.nr
        /\ xfer.start + xfer.nr <= TotalSec
        /\ host.cmd.start \in Nat /\ host.cmd.count \in Nat /\ host.cmd.start <= xfer.start
        /\ xfer.start + xfer.nr = host.cmd.start + host.cmd.count
    BY ReceivedFacts
  <1>a. /\ mass_state = "RECEIVE_DATA" /\ UNCHANGED <<cbw, bus, host>>
        /\ WriteDevSector(cbw.lun, xfer.start, epOut.body)
        /\ xfer' = [start |-> xfer.start + Len(epOut.body), nr |-> xfer.nr - Len(epOut.body)]
        /\ \/ /\ xfer.nr - Len(epOut.body) > 0 /\ mass_state' = "RECEIVE_DATA"
              /\ epOut'.body = <<>>
           \/ xfer.nr - Len(epOut.body) = 0 /\ mass_state' = "SENDED_CSW"
    <2>1. /\ mass_state = "RECEIVE_DATA" /\ UNCHANGED <<cbw, bus, host>>
          /\ WriteDevSector(cbw.lun, xfer.start, epOut.body)
          /\ xfer' = [start |-> xfer.start + Len(epOut.body), nr |-> xfer.nr - Len(epOut.body)]
      BY DEF ReceiveData
    <2>2. \/ xfer.nr - Len(epOut.body) > 0 /\ UNCHANGED mass_state /\ \E len : StartOut("mass", len)
          \/ xfer.nr - Len(epOut.body) = 0 /\ SendCSW(csw)
      BY DEF ReceiveData
    <2>3. \A len : StartOut("mass", len) => epOut'.body = <<>>
      BY DEF StartOut
    <2> HIDE DEF MassInv
    <2> QED
      BY <2>1, <2>2, <2>3 DEF SendCSW
  <1>b. Types
    BY DEF MassInv
  <1>1. PICK l \in LUNs, x \in Nat, n \in Nat, k \in Nat, a \in Nat, c \in Nat :
            /\ l = host.cmd.lun /\ x = xfer.start /\ n = xfer.nr /\ k = Len(epOut.body)
            /\ a = host.cmd.start /\ c = host.cmd.count
    <2> HIDE DEF MassInv
    <2> QED
      BY <1>0
  <1>2. /\ cbw = host.cmd /\ host.cmd.op = "Write10" /\ epOut.body \in Seq(Data)
        /\ k \in 1 .. n /\ n <= MaxCount /\ x + n = a + c /\ a <= x /\ a + c <= TotalSec
        /\ MaxCount \in Nat /\ TotalSec \in Nat
        /\ mass_state = "RECEIVE_DATA" /\ UNCHANGED <<cbw, bus, host>>
        /\ WriteDevSector(l, x, epOut.body) /\ Types
    <2>1. MaxCount \in Nat /\ TotalSec \in Nat
      BY DeviceAssumption
    <2>2. a + c <= TotalSec /\ n <= MaxCount
      BY <1>0, <1>1, <2>1
    <2> HIDE DEF MassInv
    <2> QED
      BY <1>0, <1>a, <1>b, <1>1, <2>1, <2>2
  <1>3. /\ xfer' = [start |-> x + k, nr |-> n - k]
        /\ \/ n - k > 0 /\ mass_state' = "RECEIVE_DATA" /\ epOut'.body = <<>>
           \/ n - k = 0 /\ mass_state' = "SENDED_CSW"
    BY <1>a, <1>1
  <1>4. n - k = 0 => host.phase # "out"
    <2>1. CASE BusOn
      <3>1. /\ host.sent + xfer.nr - Len(epOut.body) = host.cmd.count
            /\ host.phase = IF host.sent < host.cmd.count THEN "out" ELSE "status"
        BY <1>2, <2>1 DEF MassInv, InStep, BusOn
      <3>2. PICK t \in Nat : t = host.sent
        BY Numbers DEF MassInv
      <3>3. t + n - k = c
        BY <1>1, <3>1, <3>2
      <3>4. n - k = 0 => ~(t < c)
        BY <1>2, <3>3
      <3> QED
        BY <1>1, <3>1, <3>2, <3>4
    <2>2. CASE ~BusOn
      BY <2>2 DEF MassInv, BusOn
    <2> QED
      BY <2>1, <2>2
  <1>5. \A i \in 1 .. k : epOut.body[i] = disk[l][x + i - 1] + 1
    BY <1>1, <1>2 DEF StoredInv, StoresAhead
  <1> HIDE DEF MassInv
  <1>6. StoresAhead'
    <2>1. \A s \in Sector : s \notin Extent(x, k) => disk'[l][s] = disk[l][s]
      BY <1>1, <1>2, WriteEffect
    <2>2. ASSUME BusOn, NEW i \in 1 .. n - k
          PROVE  host.want[(c - (n - k)) + i] = disk'[l][(x + k) + i - 1] + 1
      <3>1. i \in Nat /\ i >= 1 /\ i <= n - k /\ k + i \in 1 .. n
        BY <1>2, <2>2
      <3>2. (c - n) + (k + i) = (c - (n - k)) + i /\ x + (k + i) - 1 = (x + k) + i - 1
        BY <1>2, <3>1
      <3>3. host.want[(c - n) + (k + i)] = disk[l][x + (k + i) - 1] + 1
        BY <1>1, <1>2, <2>2, <3>1 DEF StoredInv, StoresAhead
      <3>4. (x + k) + i - 1 \in Sector /\ (x + k) + i - 1 \notin Extent(x, k)
        <4>1. x + n <= TotalSec /\ TotalSec \in Nat
          BY <1>2
        <4>2. k \in Nat /\ k >= 1 /\ i >= 1 /\ k + i <= n
          BY <1>2, <3>1
        <4>3. (x + k) + i - 1 >= x + k /\ (x + k) + i - 1 < TotalSec /\ (x + k) + i - 1 \in Nat
          BY <3>1, <4>1, <4>2
        <4>4. PICK v \in Nat : v = (x + k) + i - 1
          BY <4>3
        <4>5. v \in 0 .. TotalSec - 1 /\ v \notin x .. x + k - 1
          BY <4>1, <4>2, <4>3, <4>4
        <4> QED
          BY <4>4, <4>5 DEF Sector, Extent
      <3>5. disk'[l][(x + k) + i - 1] = disk[l][(x + k) + i - 1]
        BY <2>1, <3>4
      <3>6. host.want[(c - (n - k)) + i] = disk[l][(x + k) + i - 1] + 1
        BY <3>2, <3>3, Zenon
      <3> QED
        BY <3>5, <3>6, Zenon
    <2>3. BusOn' <=> BusOn
      BY <1>2 DEF BusOn
    <2> QED
      BY <1>1, <1>2, <1>3, <1>4, <2>2, <2>3 DEF StoresAhead
  <1>7. ReadsStored'
    BY <1>2 DEF ReadsStored
  <1>8. Promise!Store(k)
    <2>1. Remaining = [nr |-> n, lun |-> l, start |-> x]
      BY <1>1, <1>2 DEF Remaining, Part
    <2>2. Remaining' = Part(l, x + k, n - k)
      BY <1>1, <1>2, <1>3, <1>4 DEF Remaining, Part
    <2>3. Asked' = Asked /\ Received' = Received
      BY <1>2 DEF Asked, Received, BusOn, AsRequest
    <2>4. \/ Stores(l, x, k)
          \/ l \in Removable /\ disk' = disk
      <3>1. CASE CheckDevState(l)
        BY <1>1, <1>2, <1>5, <3>1, StoredBy
      <3>2. CASE ~CheckDevState(l)
        <4>1. disk' = disk
          BY <1>2, <3>2, NothingStored
        <4> QED
          BY <3>2, <4>1 DEF CheckDevState
      <3> QED
        BY <3>1, <3>2
    <2> QED
      BY <1>2, <2>1, <2>2, <2>3, <2>4 DEF Stores, Promise!Store, Promise!ToStore, Promise!Nothing, Part,
         Promise!Sector, Promise!Extent, Sector, Extent
  <1>9. k \in Promise!Count
    BY <1>2 DEF Promise!Count
  <1> QED
    BY <1>6, <1>7, <1>8, <1>9 DEF Kept, StoredInv, Promise!Next

\* The host gives a command.
LEMMA KeptHostCommand ==
    ASSUME MassInv, StoredInv, NEW d \in Command, HostCommand(d)
    PROVE  Kept
  <1>1. /\ bus = "up" /\ bus' = "up" /\ host.phase = "idle" /\ UNCHANGED <<disk, fifo, mass_state>>
        /\ Sensible(d)
    BY DEF HostCommand, FifoGiven, devVars
  <1>2. mass_state \in {"RECEIVE_CBW", "SENDED_CSW"} /\ fifo = Empty
    BY <1>1 DEF MassInv, InStep, Quiet
  <1>3. /\ host'.phase = FirstPhase(d) /\ host'.cmd = d /\ host'.got = <<>>
        /\ d.op = "Write10" => host'.want = [i \in 1 .. d.count |-> disk[d.lun][d.start + i - 1] + 1]
    <2> DEFINE want == IF d.op = "Write10" THEN [i \in 1 .. d.count |-> disk[d.lun][d.start + i - 1] + 1] ELSE <<>>
    <2>1. host' = [host EXCEPT !.phase = FirstPhase(d), !.cmd = d, !.got = <<>>, !.sent = 0, !.want = want]
      BY DEF HostCommand, FirstPhase
    <2>2. host \in Host
      BY DEF MassInv, Types
    <2> HIDE DEF MassInv, want
    <2>3. host'.phase = FirstPhase(d) /\ host'.cmd = d /\ host'.got = <<>> /\ host'.want = want
      BY <2>1, <2>2 DEF Host
    <2> QED
      BY <2>3 DEF want
  <1>4. FirstPhase(d) # "idle" /\ (FirstPhase(d) = "out" <=> d.op = "Write10" /\ d.count # 0)
    <2>1. d.count \in Nat
      BY DeviceAssumption DEF Command
    <2> QED
      BY <2>1 DEF FirstPhase, DataIn
  <1>5. StoresAhead'
    BY <1>1, <1>2, <1>3, <1>4 DEF StoresAhead
  <1>6. ReadsStored'
    BY <1>1, <1>2, <1>3, PacketFacts DEF ReadsStored
  <1>7. Promise!Ask(AsRequest(d))
    <2>1. Asked = [op |-> "idle"] /\ Asked' = AsRequest(d)
      BY <1>1, <1>3, <1>4 DEF Asked, BusOn
    <2>2. Remaining = [nr |-> 0] /\ Received' = <<>>
      BY <1>1, <1>2, <1>3 DEF Remaining, Received
    <2>3. Remaining' = IF d.op = "Write10" THEN Part(d.lun, d.start, d.count) ELSE [nr |-> 0]
      BY <1>1, <1>2, <1>3, <1>4 DEF Remaining, Part
    <2>4. d.op \in {"Read10", "Write10"} => Inside(d.start, d.count)
      BY <1>1 DEF Sensible, Transfers
    <2> QED
      BY <1>1, <2>1, <2>2, <2>3, <2>4 DEF Promise!Ask, Promise!Idle, Promise!Nothing, Promise!ToStore,
         Promise!Inside, Inside, AsRequest, Part
  <1>8. AsRequest(d) \in Promise!Request
    BY DEF AsRequest, Promise!Request, Command, Promise!Sector, Sector
  <1> QED
    BY <1>5, <1>6, <1>7, <1>8 DEF Kept, StoredInv, Promise!Next

\* A sequence is what is stored, with what was lost marked.
LEMMA Spelled ==
    ASSUME NEW q \in Seq(Data), NEW f, NEW lost,
           lost = {i \in 1 .. Len(q) : q[i] # f[i]}, \A i \in lost : q[i] = Junk
    PROVE  q = [i \in 1 .. Len(q) |-> IF i \in lost THEN Junk ELSE f[i]]
  <1>1. q = [i \in 1 .. Len(q) |-> q[i]]
    OBVIOUS
  <1>2. \A i \in 1 .. Len(q) : q[i] = IF i \in lost THEN Junk ELSE f[i]
    OBVIOUS
  <1> QED
    BY <1>1, <1>2

\* The host takes a packet of data.
LEMMA KeptData == ASSUME MassInv, StoredInv, HostTakesData PROVE Kept
  <1>1. /\ FifoTaken /\ bus = "up" /\ bus' = "up" /\ host.phase = "in" /\ fifo.kind = "data"
        /\ UNCHANGED <<epIn, epOut, mass_state, cbw, xfer, disk>>
    BY DEF HostTakesData, FifoTaken, devVars
  <1>2. InStep /\ fifo' = Empty /\ mass_state # "RECEIVE_DATA"
    BY <1>1, Taken
  <1>3. PICK c \in Command, g \in Seq(Data), q \in Seq(Data) : c = host.cmd /\ g = host.got /\ q = fifo.body
    BY <1>1, PacketFacts, Numbers DEF MassInv
  <1>4. /\ Len(g) \in Nat /\ Len(q) \in Nat /\ g \o q \in Seq(Data) /\ Len(g \o q) = Len(g) + Len(q)
        /\ Reached = Len(g) + Len(q) /\ Reached \in Nat
    <2>1. /\ Len(g) \in Nat /\ Len(q) \in Nat /\ g \o q \in Seq(Data)
          /\ Len(g \o q) = Len(g) + Len(q)
      OBVIOUS
    <2>2. Reached = Len(g) + Len(q)
      BY <1>1, <1>3 DEF Reached, BodyLen
    <2> HIDE DEF MassInv
    <2> QED
      BY <2>1, <2>2
  <1>5. /\ host'.cmd = c /\ host'.got = g \o q /\ host'.want = host.want
        /\ host'.phase \in {"in", "status"}
    <2> DEFINE phase == IF c.op = "Read10" /\ Len(g \o q) < c.count THEN "in" ELSE "status"
               absent == IF c.op # "RequestSense" THEN host.absent
                         ELSE IF g \o q = <<0>> THEN host.absent \cup {c.lun} ELSE host.absent \ {c.lun}
    <2>1. host' = [host EXCEPT !.got = g \o q, !.phase = phase, !.absent = absent]
      BY <1>3 DEF HostTakesData
    <2>2. host \in Host
      BY DEF MassInv, Types
    <2>3. phase \in {"in", "status"}
      OBVIOUS
    <2> HIDE DEF MassInv, phase, absent
    <2> QED
      BY <1>3, <2>1, <2>2, <2>3 DEF Host
  <1>6. StoresAhead'
    BY <1>1, <1>2, <1>5 DEF StoresAhead
  <1>7. ReadsStored'
    <2>1. Reached' = Reached
      <3>1. BodyLen(fifo)' = 0
        BY <1>2, PacketFacts DEF BodyLen
      <3>2. Reached' = Len(g \o q) + 0
        BY <1>5, <3>1 DEF Reached
      <3> HIDE DEF MassInv
      <3> QED
        BY <1>4, <3>2
    <2>2. fifo'.kind = "none"
      BY <1>2, PacketFacts
    <2>3. mass_state = "SEND_DATA" /\ epIn.stage # "loaded" /\ c.op = "Read10" =>
              AsStored(epIn.packet.body, Reached)
      BY <1>1, <1>3 DEF StoredInv, ReadsStored, BusOn
    <2> HIDE DEF MassInv
    <2> QED
      BY <1>1, <1>3, <1>5, <2>1, <2>2, <2>3 DEF ReadsStored, AsStored
  <1>8. Asked' = Asked /\ Asked = AsRequest(c) /\ Remaining' = Remaining
    BY <1>1, <1>2, <1>3, <1>5 DEF Asked, Remaining, BusOn
  <1>9. CASE c.op # "Read10" \/ Len(q) = 0
    <2>1. g \o q = g \/ c.op # "Read10"
      BY <1>9, ConcatEmptySeq, EmptySeq
    <2>2. Received' = Received
      BY <1>3, <1>5, <2>1 DEF Received
    <2> QED
      BY <1>1, <1>6, <1>7, <1>8, <2>2 DEF Kept, StoredInv, Promise!vars
  <1>10. CASE c.op = "Read10" /\ Len(q) # 0
    <2>1. Reached <= c.count
      <3>1. CASE mass_state = "SEND_DATA"
        <4>1. /\ xfer.start = host.cmd.start + (Reached + Pending)
              /\ xfer.start + xfer.nr = host.cmd.start + host.cmd.count
          BY <1>2, <3>1 DEF InStep, MassInv, Commands
        <4> QED
          BY <1>3, <4>1, Numbers, NotTooMuch DEF MassInv
      <3>2. CASE mass_state # "SEND_DATA"
        <4>1. mass_state \in {"RECEIVE_CBW", "SENDED_CSW"}
          BY <1>2, <1>3, <1>10, <3>2 DEF MassInv, Types, TypeOK, InStep
        <4>2. Reached = c.count
          BY <1>1, <1>2, <1>3, <1>10, <4>1 DEF InStep
        <4> QED
          BY <1>4, <4>2
      <3> QED
        BY <3>1, <3>2
    <2>2. c.count \in Nat /\ c.count <= MaxCount /\ MaxCount \in Nat
      BY DeviceAssumption DEF Command
    <2>3. Len(q) \in 1 .. c.count - Len(g) /\ Len(q) \in 1 .. MaxCount
      BY <1>4, <1>10, <2>1, <2>2
    <2> DEFINE f == [i \in 1 .. Len(q) |-> disk[c.lun][c.start + Len(g) + i - 1]]
               lost == {i \in 1 .. Len(q) : q[i] # f[i]}
    <2>4. \A i \in lost : q[i] = Junk /\ c.lun \in Removable
      BY <1>1, <1>3, <1>10 DEF StoredInv, ReadsStored, AsStored, BusOn
    <2>5. q = [i \in 1 .. Len(q) |-> IF i \in lost THEN Junk ELSE f[i]]
      BY <2>4, Spelled
    <2>6. q = [i \in 1 .. Len(q) |-> IF i \in lost THEN Junk ELSE disk[c.lun][c.start + Len(g) + i - 1]]
      BY <2>5
    <2>7. lost \in SUBSET (1 .. Len(q))
      OBVIOUS
    <2> HIDE DEF MassInv, lost, f
    <2>8. Received = g /\ Received' = g \o q
      BY <1>3, <1>5, <1>10 DEF Received
    <2>9. Promise!Deliver(Len(q), lost)
      BY <1>1, <1>8, <1>10, <2>3, <2>4, <2>6, <2>8 DEF Promise!Deliver, AsRequest, Promise!Junk, Junk
    <2>10. Len(q) \in Promise!Count
      BY <2>3 DEF Promise!Count
    <2> QED
      BY <1>6, <1>7, <2>7, <2>9, <2>10 DEF Kept, StoredInv, Promise!Next
  <1> QED
    BY <1>9, <1>10

\* The host takes the status: everything has been stored, or delivered.
LEMMA KeptStatusTaken == ASSUME MassInv, StoredInv, HostTakesStatus PROVE Kept
  <1>1. /\ FifoTaken /\ bus = "up" /\ bus' = "up" /\ host.phase = "status" /\ fifo.kind = "csw"
        /\ UNCHANGED <<epIn, epOut, mass_state, cbw, xfer, disk>>
    BY DEF HostTakesStatus, FifoTaken, devVars
  <1>2. InStep /\ Delivered /\ mass_state # "RECEIVE_DATA"
    BY <1>1, Taken
  <1>3. host'.phase = "idle" /\ host'.cmd = host.cmd /\ host'.got = <<>>
    <2>1. host \in Host
      BY DEF MassInv, Types
    <2> HIDE DEF MassInv
    <2> QED
      BY <2>1 DEF HostTakesStatus, Host
  <1>4. StoresAhead' /\ ReadsStored'
    BY <1>1, <1>2, <1>3 DEF StoresAhead, ReadsStored
  <1>5. Promise!Complete
    <2>1. Asked = AsRequest(host.cmd) /\ Asked' = [op |-> "idle"]
      BY <1>1, <1>3 DEF Asked, BusOn
    <2>2. Remaining = [nr |-> 0] /\ Remaining' = [nr |-> 0] /\ Received' = <<>>
      BY <1>1, <1>2, <1>3 DEF Remaining, Received
    <2>3. host.cmd.op = "Read10" => Len(Received) = host.cmd.count
      BY <1>1, <1>2 DEF Delivered, ReadSoFar, Received
    <2>4. Asked.op \notin {"gone", "idle"}
      BY <2>1 DEF AsRequest
    <2>5. Asked.op = "read" => Len(Received) = Asked.count
      BY <2>1, <2>3 DEF AsRequest
    <2> QED
      BY <1>1, <2>1, <2>2, <2>4, <2>5 DEF Promise!Complete, Promise!Gone, Promise!Idle, Promise!Nothing
  <1> QED
    BY <1>4, <1>5 DEF Kept, StoredInv, Promise!Next

\* The host sends a part of its data.
LEMMA KeptSent == ASSUME MassInv, StoredInv, HostSendsData PROVE Kept
  <1>1. /\ bus = "up" /\ bus' = "up" /\ host.phase = "out" /\ epOut.body = <<>> /\ mass_state = "RECEIVE_DATA"
        /\ UNCHANGED <<mass_state, cbw, xfer, disk>>
        /\ epOut.len = AtMostChunk(xfer.nr) /\ xfer.nr > 0
    BY DEF HostSendsData, DmaReceives, MassInv, Endpoints, devVars
  <1>2. cbw = host.cmd /\ host.cmd.op = "Write10" /\ Len(host.want) = host.cmd.count
    BY <1>1 DEF MassInv, Commands, InStep
  <1>3. PICK t \in Nat, n \in Nat, k \in Nat, c \in Nat, w \in Seq(Data) :
            t = host.sent /\ n = xfer.nr /\ k = epOut.len /\ c = host.cmd.count /\ w = host.want
    BY Numbers DEF MassInv
  <1>4. k \in 1 .. n /\ t + n - 0 = c
    <2>1. n # 0 /\ k = AtMostChunk(n)
      BY <1>1, <1>3
    <2>2. host.sent + xfer.nr - Len(epOut.body) = host.cmd.count /\ Len(epOut.body) = 0
      BY <1>1 DEF MassInv, InStep
    <2> QED
      BY <1>3, <2>1, <2>2, PartTyped
  <1>5. /\ Len(SubSeq(w, t + 1, t + k)) = k
        /\ \A i \in 1 .. k : SubSeq(w, t + 1, t + k)[i] = w[t + i]
        /\ c - n = t
    <2>1. t + k <= c /\ c - n = t
      BY <1>4, PartSent
    <2>2. t + k <= Len(w)
      BY <1>2, <1>3, <2>1
    <2> QED
      BY <2>1, <2>2, SubSeqFacts
  <1>6. epOut'.body = SubSeq(w, t + 1, t + k)
    <2>1. epOut' = [epOut EXCEPT !.body = SubSeq(w, t + 1, t + k)]
      BY <1>3 DEF HostSendsData, DmaReceives
    <2>2. epOut \in [state : EpState, buf : {"none", "cbw", "mass"}, len : Nat, body : Seq(Data)]
      BY DEF MassInv, Types
    <2> QED
      BY <2>1, <2>2
  <1>7. /\ host'.cmd = host.cmd /\ host'.want = host.want /\ host'.got = host.got
        /\ host'.phase \in {"out", "status"}
    <2> DEFINE sent == host.sent + epOut.len
               phase == IF sent < host.cmd.count THEN "out" ELSE "status"
    <2>1. host' = [host EXCEPT !.sent = sent, !.phase = phase]
      BY DEF HostSendsData
    <2>2. host \in Host /\ phase \in {"out", "status"}
      BY DEF MassInv, Types
    <2> HIDE DEF MassInv, sent, phase
    <2> QED
      BY <2>1, <2>2 DEF Host
  <1>8. \A i \in 1 .. n : host.want[(c - n) + i] = disk[cbw.lun][xfer.start + i - 1] + 1
    BY <1>1, <1>2, <1>3 DEF StoredInv, StoresAhead, BusOn
  <1> HIDE DEF MassInv
  <1>9. StoresAhead'
    <2>1. \A i \in 1 .. k : i \in 1 .. n
      BY <1>4
    <2>2. \A i \in 1 .. k : epOut'.body[i] = disk[cbw.lun][xfer.start + i - 1] + 1
      BY <1>3, <1>5, <1>6, <1>8, <2>1
    <2> QED
      BY <1>1, <1>2, <1>3, <1>5, <1>6, <1>7, <1>8, <2>2 DEF StoresAhead
  <1>10. ReadsStored'
    BY <1>2, <1>7 DEF ReadsStored
  <1>11. UNCHANGED <<Asked, Remaining, Received>>
    BY <1>1, <1>2, <1>7 DEF Asked, Remaining, Received, BusOn
  <1> QED
    BY <1>1, <1>9, <1>10, <1>11 DEF Kept, StoredInv, Promise!vars

\* Every step is one of the disk, or changes nothing of it.
LEMMA KeptStep == MassInv /\ StoredInv /\ [Next]_vars => Kept
  <1> SUFFICES ASSUME MassInv, StoredInv, [Next]_vars
               PROVE  Kept
    OBVIOUS
  <1>1. CASE UdcTask
    BY <1>1, KeptPass, KeptLoads, KeptSend, KeptCommand, KeptStall, KeptReceive DEF UdcTask
  <1>2. CASE Hardware
    BY <1>2, KeptLoads
  <1>3. CASE PlugIn \/ DeviceReset \/ Suspend \/ Removed \/ HostReset \/ Unplug \/ Resume \/ CardMoves
    BY <1>3, KeptOutside, KeptReset, KeptForget
  <1>4. CASE \E c \in Command : c.tag # host.cmd.tag /\ HostCommand(c)
    BY <1>4, KeptHostCommand
  <1>5. CASE HostStep
    BY <1>5, KeptData, KeptStatusTaken, KeptSent DEF HostStep
  <1>6. CASE UNCHANGED vars
    <2>1. SameCommand /\ SameWrite /\ (BusOn' <=> BusOn) /\ UNCHANGED <<disk, fifo, epIn, mass_state>>
      BY <1>6 DEF vars, udcVars, devVars, SameCommand, SameWrite, BusOn
    <2>2. ReadsStored'
      BY <2>1, ReadsFrame DEF StoredInv
    <2> QED
      BY <2>1, <2>2, KeptFrame
  <1> QED
    BY <1>1, <1>2, <1>3, <1>4, <1>5, <1>6 DEF Next

\* The bulk-only interface is a disk that carries out one command at a time: writes
\* are stored front to back and each sector once, none of a write is stored after the
\* status or after the host has attached again, reads deliver what is stored; for any
\* LUNs, parts and lengths, with resets, pulled cables, control traffic and a card
\* that moves at any time.
THEOREM ImplementsHostDisk == Spec => IsAHostDisk
  <1>1. Init => StoredInv /\ Promise!Init
    <2> SUFFICES ASSUME Init PROVE StoredInv /\ Promise!Init
      OBVIOUS
    <2>1. /\ mass_state = "RECEIVE_CBW" /\ bus = "out" /\ host.phase = "idle" /\ host.got = <<>>
          /\ disk = [l \in LUNs |-> [s \in Sector |-> 0]]
      BY DEF Init
    <2>2. StoredInv
      BY <2>1 DEF StoredInv, StoresAhead, ReadsStored
    <2>3. Promise!Init
      BY <2>1 DEF Promise!Init, Promise!Gone, Promise!Nothing, Promise!Sector, Sector,
         Asked, Remaining, Received, BusOn
    <2> QED
      BY <2>2, <2>3
  <1>2. MassInv /\ StoredInv /\ [Next]_vars => StoredInv' /\ [Promise!Next]_(Promise!vars)
    BY KeptStep DEF Kept
  <1> QED
    BY <1>1, <1>2, Invariance, PTL DEF Spec, IsAHostDisk, Promise!Spec
================================================================================

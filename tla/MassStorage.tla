------------------------------ MODULE MassStorage ------------------------------
(***************************************************************************)
(* The USB mass-storage interface                                          *)
(* (src/soc_src/common/mass_lib/mass_storage/mass_storage.c) over the bulk *)
(* endpoints of UdcBulk, with the host it talks to.  Everything but the    *)
(* host runs on the UDC task, inside a pass of udc4755_proc.               *)
(*                                                                         *)
(* LUN 1 is the memory card, which may be missing; LUN 0 the NAND.  The    *)
(* contents of a sector are a version number (see BlockData).              *)
(***************************************************************************)
EXTENDS UdcBulk, BlockData, FiniteSets

CONSTANTS
    LUNs,       \* indices of pDev, those the host addresses
    Removable,  \* the LUNs whose medium may be missing
    EmptyWrites \* the host may write no sectors at all

ASSUME LunAssumption ==
    /\ IsFiniteSet(LUNs) /\ LUNs \subseteq Nat /\ LUNs # {}
    /\ Removable \subseteq LUNs \ {0}
    /\ EmptyWrites \in BOOLEAN

VARIABLES
    mass_state,
    csw,        \* the status being prepared: its tag, and whether it is good
    cbw,        \* the command being executed
    xfer,       \* g_start_sector and g_nr_sectors: what is left to transfer
    iscardin,   \* "no medium" was the last sense reported (the name is inverted)
    sized,      \* LUNs whose sectorsize has been set
    conn,       \* udc_device_state: the HW and SW bits, and massBuf_ptr # NULL
    disk,       \* [LUN -> [Sector -> version]]
    card,       \* the card is in its slot
    bus,        \* the cable and the bus
    host        \* the host: the command it waits for and what it knows

devVars == <<mass_state, csw, cbw, xfer, iscardin, sized, disk>>
vars == <<udcVars, devVars, conn, card, bus, host>>

Op == {"Inquiry", "RequestSense", "Capacity", "Read10", "Write10", "TestUnitReady", "Other", "Bad"}
DataIn == {"Inquiry", "RequestSense", "Capacity", "Read10"}

\* A command block wrapper.
Command == [op : Op, lun : LUNs, start : Sector, count : 0 .. MaxCount, tag : {0, 1}]

Payload(body) == [kind |-> "data", body |-> body]
Csw(c) == [kind |-> "csw", tag |-> c.tag, good |-> c.good]

NoCommand == [op |-> "Other", lun |-> CHOOSE l \in LUNs : TRUE, start |-> 0, count |-> 0, tag |-> 0]

Init ==
    /\ UdcInit
    /\ mass_state = "RECEIVE_CBW"
    /\ csw = [tag |-> 0, good |-> TRUE]
    /\ cbw = NoCommand
    /\ xfer = [start |-> 0, nr |-> 0]
    /\ iscardin = FALSE
    /\ sized = {}
    /\ conn = [hw |-> FALSE, sw |-> FALSE, buffer |-> FALSE]
    /\ disk = [l \in LUNs |-> [s \in Sector |-> 0]]
    /\ card = TRUE
    /\ bus = "out"
    /\ host = [phase |-> "idle", cmd |-> NoCommand, want |-> <<>>, got |-> <<>>,
               sent |-> 0, knows |-> {}, absent |-> {}, failed |-> {}]

(***************************************************************************)
(* The LUNs: CheckDevState, ReadDevSector, WriteDevSector.                 *)
(***************************************************************************)
CheckDevState(l) == l \notin Removable \/ card

\* Without a medium the buffer keeps whatever it held.
ReadDevSector(l, start, n) ==
    [i \in 1 .. n |-> IF CheckDevState(l) THEN disk[l][start + i - 1] ELSE Junk]

WriteDevSector(l, start, data) ==
    disk' = [disk EXCEPT ![l] =
        [s \in Sector |-> IF CheckDevState(l) /\ s \in Extent(start, Len(data))
                          THEN data[s - start + 1] ELSE @[s]]]

AtMostChunk(n) == IF n > Chunk THEN Chunk ELSE n

(***************************************************************************)
(* Handle_CSW, and the commands.  Each says which of the bits of INTRINE   *)
(* and INTROUTE are set after it; the receive of the command has cleared   *)
(* that of the OUT endpoint.                                               *)
(***************************************************************************)
OutDone == epOut' = OutFinished
InDone  == epIn' = InFinished /\ UNCHANGED fifo

\* The receive of the next command is started when the status has been sent.
SendCSW(c) ==
    /\ StartIn(Csw(c))
    /\ mass_state' = "SENDED_CSW"

\* An answer that fits the FIFO; its status is prepared when it has been sent.
Answer(body) ==
    /\ StartIn(Payload(body))
    /\ OutDone
    /\ Enable(TRUE, FALSE)
    /\ mass_state' = "SENDING_CSW"
    /\ UNCHANGED <<xfer, disk>>

\* Handle_UFI_INQUIRY, Handle_UFI_MODE_SENSE_6.
Inquiry(c) ==
    /\ c.op = "Inquiry"
    /\ Answer(<<0>>)
    /\ UNCHANGED <<iscardin, sized>>

RequestSense(c) ==
    /\ c.op = "RequestSense"
    /\ iscardin' = ~CheckDevState(c.lun)
    /\ Answer(<<IF CheckDevState(c.lun) THEN 1 ELSE 0>>)
    /\ UNCHANGED sized

\* Mutated: the sector size is not kept.
CapacityUnsized(c) ==
    /\ c.op = "Capacity"
    /\ CheckDevState(c.lun)
    /\ Answer(<<0>>)
    /\ UNCHANGED <<iscardin, sized>>

\* Handle_UFI_READ_CAPACITY, Handle_UFI_READ_FORMAT_CAPACITY.
Capacity(c) ==
    /\ c.op = "Capacity"
    /\ CheckDevState(c.lun)
    /\ sized' = sized \cup {c.lun}
    /\ Answer(<<0>>)
    /\ UNCHANGED iscardin

\* Mutated: one sector too many is counted as sent.
SendSectorsOver(l, start, nr) ==
    /\ StartInDma(Payload(ReadDevSector(l, start, AtMostChunk(nr))))
    /\ xfer' = [start |-> start + AtMostChunk(nr), nr |-> nr - AtMostChunk(nr) - 1]
    /\ mass_state' = "SEND_DATA"

\* Mutated: the next part starts where this one did.
SendSectorsStill(l, start, nr) ==
    /\ StartInDma(Payload(ReadDevSector(l, start, AtMostChunk(nr))))
    /\ xfer' = [start |-> start, nr |-> nr - AtMostChunk(nr)]
    /\ mass_state' = "SEND_DATA"

\* The next part of a READ_10.
SendSectors(l, start, nr) ==
    /\ StartInDma(Payload(ReadDevSector(l, start, AtMostChunk(nr))))
    /\ xfer' = [start |-> start + AtMostChunk(nr), nr |-> nr - AtMostChunk(nr)]
    /\ mass_state' = "SEND_DATA"

Read10(c) ==
    /\ c.op = "Read10"
    /\ SendSectors(c.lun, c.start, c.count)
    /\ OutDone
    /\ Enable(TRUE, FALSE)
    /\ UNCHANGED <<iscardin, sized, disk>>

\* Mutated: the transfer goes on where the last one ended.
Write10Continues(c) ==
    /\ c.op = "Write10"
    /\ xfer' = [xfer EXCEPT !.nr = c.count]
    /\ StartOut("mass", AtMostChunk(c.count))
    /\ \/ c.count = 0 /\ SendCSW(csw') /\ Enable(TRUE, TRUE)
       \/ /\ c.count > 0
          /\ mass_state' = "RECEIVE_DATA"
          /\ Enable(enable.in, FALSE)
          /\ UNCHANGED <<epIn, fifo>>
    /\ UNCHANGED <<iscardin, sized, disk>>

Write10(c) ==
    /\ c.op = "Write10"
    /\ xfer' = [start |-> c.start, nr |-> c.count]
    /\ StartOut("mass", AtMostChunk(c.count))
    /\ \/ c.count = 0 /\ SendCSW(csw') /\ Enable(TRUE, TRUE)
       \/ /\ c.count > 0
          /\ mass_state' = "RECEIVE_DATA"
          /\ Enable(enable.in, FALSE)
          /\ UNCHANGED <<epIn, fifo>>
    /\ UNCHANGED <<iscardin, sized, disk>>

\* Mutated: the last sense is not taken into account.
NotReadyNow(l) == l > 0 /\ ~CheckDevState(l)

\* Once "no medium" was reported, not ready until another sense is asked for.
NotReady(l) == l > 0 /\ (iscardin \/ ~CheckDevState(l))

\* Handle_UFI_TEST_UNIT_READY, and the commands that are not known.
NoData(c) ==
    /\ c.op \in {"TestUnitReady", "Other"}
    /\ SendCSW(csw')
    /\ OutDone
    /\ Enable(TRUE, FALSE)
    /\ UNCHANGED <<xfer, disk, iscardin, sized>>

(***************************************************************************)
(* handle_receive.                                                         *)
(***************************************************************************)

\* USB_HandleCBW.
HandleCBW ==
    /\ FinishedOut
    /\ mass_state = "RECEIVE_CBW"
    /\ cbw' = rx.cmd
    /\ csw' = [tag |-> rx.cmd.tag, good |-> rx.cmd.op = "TestUnitReady" => ~NotReady(rx.cmd.lun)]
    /\ \/ Inquiry(rx.cmd) \/ RequestSense(rx.cmd) \/ Capacity(rx.cmd)
       \/ Read10(rx.cmd) \/ Write10(rx.cmd) \/ NoData(rx.cmd)
    /\ upc' = "outDma"
    /\ UNCHANGED <<conn, card, bus, host>>

\* A wrapper with another signature: nothing is started.
HandleBadCBW ==
    /\ FinishedOut
    /\ mass_state = "RECEIVE_CBW"
    /\ rx.cmd.op = "Bad"
    /\ OutDone
    /\ Enable(enable.in, FALSE)
    /\ upc' = "outDma"
    /\ UNCHANGED <<epIn, fifo, devVars, conn, card, bus, host>>

\* READ_CAPACITY and READ_FORMAT_CAPACITY without a medium: the task waits until
\* the host has been sent a stall.
CapacityStalls ==
    /\ FinishedOut
    /\ mass_state = "RECEIVE_CBW"
    /\ rx.cmd.op = "Capacity"
    /\ ~CheckDevState(rx.cmd.lun)
    /\ cbw' = rx.cmd
    /\ csw' = [tag |-> rx.cmd.tag, good |-> FALSE]
    /\ sized' \in {sized, sized \cup {rx.cmd.lun}}     \* only READ_CAPACITY keeps the size
    /\ mass_state' = "SENDING_CSW"
    /\ OutDone
    /\ Enable(enable.in, FALSE)
    /\ upc' = "stall"
    /\ UNCHANGED <<epIn, fifo, xfer, iscardin, disk, conn, card, bus, host>>

\* The host has been sent the stall; the failed status is started, and csw made
\* good again at once.
Stalled ==
    /\ upc = "stall"
    /\ bus = "up" /\ host.phase = "in" /\ fifo = Empty
    /\ host' = [host EXCEPT !.phase = "status"]
    /\ SendCSW(csw)
    /\ csw' = [csw EXCEPT !.good = TRUE]
    /\ Enable(TRUE, enable.out)
    /\ upc' = "outDma"
    /\ UNCHANGED <<epOut, rx, intr, seen, cbw, xfer, iscardin, sized, disk, conn, card, bus>>

\* handle_receive_data: the result of the write is not looked at.
ReceiveData ==
    /\ FinishedOutDma
    /\ mass_state = "RECEIVE_DATA"
    /\ WriteDevSector(cbw.lun, xfer.start, epOut.body)
    /\ LET left == xfer.nr - Len(epOut.body) IN
        /\ xfer' = [start |-> xfer.start + Len(epOut.body), nr |-> left]
        /\ \/ /\ left > 0
              /\ StartOut("mass", AtMostChunk(left))
              /\ UNCHANGED <<epIn, fifo, enable, mass_state>>
           \/ left = 0 /\ OutDone /\ SendCSW(csw) /\ Enable(TRUE, enable.out)
    /\ UNCHANGED <<csw, cbw, iscardin, sized, conn, card, bus, host>>

(***************************************************************************)
(* handle_send.                                                            *)
(***************************************************************************)
HandleSend ==
    /\ \/ /\ mass_state = "SEND_DATA" /\ xfer.nr > 0
          /\ SendSectors(cbw.lun, xfer.start, xfer.nr)
          /\ Enable(TRUE, enable.out)
          /\ UNCHANGED epOut
       \/ /\ mass_state = "SEND_DATA" /\ xfer.nr = 0
          /\ SendCSW(csw)
          /\ Enable(TRUE, enable.out)
          /\ UNCHANGED <<epOut, xfer>>
       \/ /\ mass_state = "SENDING_CSW"
          /\ StartIn(Csw(csw))
          /\ mass_state' = "RECEIVE_CBW"
          /\ StartOut("cbw", 0)
          /\ Enable(TRUE, TRUE)
          /\ UNCHANGED xfer
       \/ /\ mass_state = "SENDED_CSW"
          /\ InDone
          /\ mass_state' = "RECEIVE_CBW"
          /\ StartOut("cbw", 0)
          /\ Enable(FALSE, TRUE)
          /\ UNCHANGED xfer
       \/ /\ mass_state \in {"RECEIVE_CBW", "RECEIVE_DATA"}
          /\ InDone
          /\ Enable(FALSE, enable.out)
          /\ UNCHANGED <<epOut, xfer, mass_state>>
    /\ UNCHANGED <<rx, csw, cbw, iscardin, sized, disk, conn, card, bus, host>>

SendFinished    == FinishedIn /\ HandleSend
SendDmaFinished == FinishedDma /\ HandleSend

\* ep_in_handler copies the status only now, from csw.
LoadDeferred ==
    /\ LoadFifo(IF epIn.packet.kind = "csw" THEN Csw(csw) ELSE epIn.packet)
    /\ UNCHANGED <<devVars, conn, card, bus, host>>

\* The steps of a pass that change nothing but the pass.
PassStep ==
    /\ \/ ReadIntrIn \/ ReadIntrOut \/ SkipIn \/ ReadIntrDma \/ SkipDma
       \/ SkipOut \/ SwallowOut \/ NothingOut \/ SkipOutDma
    /\ UNCHANGED <<devVars, conn, card, bus, host>>

StartPass ==
    /\ conn.hw
    /\ BeginPass
    /\ UNCHANGED <<devVars, conn, card, bus, host>>

UdcTask ==
    \/ StartPass \/ PassStep \/ LoadDeferred
    \/ SendFinished \/ SendDmaFinished
    \/ HandleCBW \/ HandleBadCBW \/ CapacityStalls \/ Stalled \/ ReceiveData

(***************************************************************************)
(* The cable and the bus: mass_reset, mass_suspend, mass_detect.           *)
(***************************************************************************)

\* The cable goes in: UDC_JUDGE.  The host resets what it finds attached.
PlugIn ==
    /\ bus = "out" /\ upc = "wait"
    /\ conn' = [conn EXCEPT !.hw = TRUE]
    /\ bus' = "reset"
    /\ UNCHANGED <<udcVars, devVars, card, host>>

\* udc_reset, which leaves the latch of an endpoint that had nothing under way,
\* and UDC_RESET.
DeviceReset ==
    /\ bus = "reset" /\ upc = "wait"
    /\ epIn' = InFinished
    /\ StartOut("cbw", 0)
    /\ fifo' = Empty /\ rx' = Empty
    /\ intr' = [NoLatch EXCEPT !.in = intr.in /\ epIn.state = "done",
                               !.out = intr.out /\ epOut.state = "done"]
    /\ Enable(FALSE, TRUE)
    /\ mass_state' = "RECEIVE_CBW"
    /\ conn' = [conn EXCEPT !.sw = TRUE, !.buffer = TRUE]
    /\ bus' = "up"
    /\ upc' = "readIn"
    /\ UNCHANGED <<seen, csw, cbw, xfer, iscardin, sized, disk, card, host>>

\* UDC_SUSPEND.  The host suspends a bus it has nothing to do on; a bus whose
\* cable has been pulled looks suspended too.
Suspend ==
    /\ upc = "wait" /\ conn.hw
    /\ \/ bus = "up" /\ host.phase = "idle" /\ bus' = "suspended"
       \/ bus = "unplugged" /\ UNCHANGED bus
    /\ conn' = [conn EXCEPT !.sw = FALSE, !.buffer = FALSE]
    /\ upc' = "readIn"
    /\ UNCHANGED <<epIn, epOut, fifo, rx, intr, enable, seen, devVars, card, host>>

\* The pulled cable is noticed: UDC_REMOVE.
Removed ==
    /\ bus = "unplugged" /\ upc = "wait"
    /\ intr' = [intr EXCEPT !.in = FALSE, !.out = FALSE]
    /\ conn' = [conn EXCEPT !.hw = FALSE, !.sw = FALSE]
    /\ bus' = "out"
    /\ UNCHANGED <<epIn, epOut, fifo, rx, enable, seen, upc, devVars, card, host>>

(***************************************************************************)
(* The host, and the people who move cables and cards.                     *)
(***************************************************************************)
Transfers(op) == op \in {"Read10", "Write10"}

\* What a host sends: no transfer before it has been told the capacity, no READ_10
\* of no sectors, and a request for sense only after a failure.
Sensible(c) ==
    /\ IF Transfers(c.op)
       THEN c.lun \in host.knows /\ Inside(c.start, c.count) /\ (c.op = "Read10" \/ ~EmptyWrites => c.count > 0)
       ELSE c.start = 0 /\ c.count = 0
    /\ c.op = "RequestSense" => c.lun \in host.failed
    /\ c.op \in {"Bad", "Other", "Inquiry"} => c.lun = NoCommand.lun

HostCommand(c) ==
    /\ bus = "up" /\ host.phase = "idle"
    /\ Sensible(c)
    /\ FifoGiven([kind |-> "cbw", cmd |-> c])
    /\ c.op = "Write10" => \A s \in Extent(c.start, c.count) : disk[c.lun][s] < MaxVersion
    /\ host' = [host EXCEPT
          !.phase = IF c.op \in DataIn THEN "in" ELSE IF c.op = "Write10" /\ c.count > 0 THEN "out" ELSE "status",
          !.cmd = c, !.got = <<>>, !.sent = 0,
          !.want = IF c.op = "Write10" THEN [i \in 1 .. c.count |-> disk[c.lun][c.start + i - 1] + 1] ELSE <<>>]
    /\ UNCHANGED <<devVars, conn, card, bus>>

HostTakesData ==
    /\ bus = "up" /\ host.phase = "in"
    /\ fifo.kind = "data"
    /\ FifoTaken
    /\ LET got == host.got \o fifo.body IN
        host' = [host EXCEPT !.got = got,
            !.phase = IF host.cmd.op = "Read10" /\ Len(got) < host.cmd.count THEN "in" ELSE "status",
            !.absent = IF host.cmd.op # "RequestSense" THEN @
                       ELSE IF got = <<0>> THEN @ \cup {host.cmd.lun} ELSE @ \ {host.cmd.lun}]
    /\ UNCHANGED <<devVars, conn, card, bus>>

HostTakesStatus ==
    /\ bus = "up" /\ host.phase = "status"
    /\ fifo.kind = "csw"
    /\ FifoTaken
    /\ host' = [host EXCEPT !.phase = "idle", !.got = <<>>, !.want = <<>>, !.sent = 0,
            !.knows = IF host.cmd.op = "Capacity" /\ fifo.good THEN @ \cup {host.cmd.lun} ELSE @,
            !.failed = IF fifo.good THEN @ \ {host.cmd.lun} ELSE @ \cup {host.cmd.lun}]
    /\ UNCHANGED <<devVars, conn, card, bus>>

HostSendsData ==
    /\ bus = "up" /\ host.phase = "out"
    /\ DmaReceives(SubSeq(host.want, host.sent + 1, host.sent + epOut.len))
    /\ LET sent == host.sent + epOut.len IN
        host' = [host EXCEPT !.sent = sent, !.phase = IF sent < host.cmd.count THEN "out" ELSE "status"]
    /\ UNCHANGED <<devVars, conn, card, bus>>

\* The host gives up what it was doing and forgets what it knew; the bus reset
\* empties the FIFOs.
Forget(b) ==
    /\ bus' = b
    /\ fifo' = Empty /\ rx' = Empty
    /\ host' = [host EXCEPT !.phase = "idle", !.got = <<>>, !.want = <<>>, !.sent = 0, !.knows = {}, !.absent = {}, !.failed = {}]
    /\ UNCHANGED <<epIn, epOut, intr, enable, seen, upc, devVars, conn, card>>

HostReset == bus \in {"up", "suspended"} /\ Forget("reset")
Unplug    == bus \in {"reset", "up", "suspended"} /\ Forget("unplugged")

Resume ==
    /\ bus = "suspended"
    /\ bus' = "up"
    /\ UNCHANGED <<udcVars, devVars, conn, card, host>>

CardMoves ==
    /\ Removable # {}
    /\ card' = ~card
    /\ UNCHANGED <<udcVars, devVars, conn, bus, host>>

Hardware == DmaLoads /\ UNCHANGED <<devVars, conn, card, bus, host>>

HostStep == HostTakesData \/ HostTakesStatus \/ HostSendsData

Next ==
    \/ UdcTask
    \/ Hardware
    \/ PlugIn \/ DeviceReset \/ Suspend \/ Removed
    \/ \E c \in Command : c.tag # host.cmd.tag /\ HostCommand(c)
    \/ HostStep
    \/ HostReset \/ Unplug \/ Resume \/ CardMoves

Spec == Init /\ [][Next]_vars

FairSpec ==
    /\ Spec
    /\ WF_vars(UdcTask)
    /\ WF_vars(Hardware)
    /\ WF_vars(HostStep)

(***************************************************************************)
(* Properties.                                                             *)
(***************************************************************************)

\* The types of the variables: the transfer counters g_start_sector and
\* g_nr_sectors stay within the command (an unsigned count that passed zero would
\* never end the transfer).
TypeOK ==
    /\ mass_state \in {"RECEIVE_CBW", "RECEIVE_DATA", "SENDING_CSW", "SEND_DATA", "SENDED_CSW"}
    /\ csw \in [tag : {0, 1}, good : BOOLEAN]
    /\ cbw \in Command
    /\ xfer.nr \in 0 .. MaxCount /\ xfer.start \in Block
    /\ iscardin \in BOOLEAN
    /\ sized \subseteq LUNs
    /\ conn \in [hw : BOOLEAN, sw : BOOLEAN, buffer : BOOLEAN]
    /\ disk \in [LUNs -> [Sector -> Data]]
    /\ bus \in {"out", "reset", "up", "suspended", "unplugged"}
    /\ epIn.state \in EpState /\ epIn.stage \in Stage
    /\ epOut.state \in EpState
    /\ intr \in Latches /\ seen \in Latches
    /\ enable \in [in : BOOLEAN, out : BOOLEAN]

\* The device's mass_state, moved by notify's callbacks, and the host never fall
\* out of step: a status in the FIFO is that of the command the host waits on,
\* data is there only while the host takes data, and a DMA waits for data only
\* while the host has as much to send.  Nothing in the code compares the two.
PhaseAgreement ==
    bus = "up" =>
        /\ fifo.kind = "csw" => host.phase = "status" /\ fifo.tag = host.cmd.tag
        /\ fifo.kind = "data" => host.phase = "in"
        /\ epOut.state = "dma" /\ epOut.body = <<>> =>
              host.phase = "out" /\ epOut.len <= host.cmd.count - host.sent
        /\ epOut.state = "cpu" /\ epOut.buf = "cbw" => mass_state = "RECEIVE_CBW"

GoodStatus(luns) == bus = "up" /\ fifo.kind = "csw" /\ fifo.good /\ host.cmd.lun \in luns

\* A good status that reaches the host is true: a READ_10 has delivered all its
\* sectors, in order and as they are on the medium, and a WRITE_10 has stored what
\* the host sent, over all the parts handle_send_data and handle_receive_data cut
\* a transfer into.  For a medium that may be missing, see PassedMeansDone.
StatusTruthful ==
    /\ GoodStatus(LUNs) /\ host.cmd.op \in DataIn =>
          Len(host.got) = IF host.cmd.op = "Read10" THEN host.cmd.count ELSE 1
    /\ GoodStatus(LUNs \ Removable) /\ host.cmd.op = "Read10" =>
          \A i \in 1 .. host.cmd.count : host.got[i] = disk[host.cmd.lun][host.cmd.start + i - 1]
    /\ GoodStatus(LUNs \ Removable) /\ host.cmd.op = "Write10" =>
          \A i \in 1 .. host.cmd.count : host.want[i] = disk[host.cmd.lun][host.cmd.start + i - 1]

\* A write whose status is bCSWStatus 00h, which the declaration of CSW calls
\* "Command Passed", has been done on every LUN.  handle_receive_data does not
\* look at the result of WriteDevSector.
PassedMeansDone ==
    GoodStatus(LUNs) /\ host.cmd.op = "Write10" =>
        \A i \in 1 .. host.cmd.count : host.want[i] = disk[host.cmd.lun][host.cmd.start + i - 1]

\* The sense of a change of medium is not lost: a host that was told "no medium"
\* does not find the LUN ready (TEST_UNIT_READY) before it has been told of the
\* medium that went in, however often the card moves in between (iscardin).
ReadyAfterAttention ==
    GoodStatus(LUNs) /\ host.cmd.op = "TestUnitReady" => host.cmd.lun \notin host.absent

\* A transfer never runs on a LUN whose sectorsize is not set: READ_10 divides
\* UDC_FRAME_SIZE by it, handle_receive_data the length.  Only the capacity
\* commands set it.
SectorSizeKnown == mass_state \in {"SEND_DATA", "RECEIVE_DATA"} => cbw.lun \in sized

\* No step changes a sector the write in progress does not name, whatever a bus
\* reset or a pulled cable has left in g_start_sector and the endpoints.
OnlyInRange ==
    [][\A l \in LUNs, s \in Sector : disk'[l][s] # disk[l][s] =>
          host.cmd.op = "Write10" /\ l = host.cmd.lun
          /\ s \in Extent(host.cmd.start, host.cmd.count)]_vars

\* The interface and its host are a disk that carries out one command at a time: a
\* WRITE_10 is stored front to back, each sector once, and is complete before its
\* status; nothing of it is stored once the host has attached again, let alone given
\* the next command; a READ_10 delivers what is stored, over all its parts, and
\* however resets, unplugging and the card come in between (handle_receive_data,
\* handle_send_data, mass_reset).
AsRequest(c) ==
    [op |-> IF c.op = "Read10" THEN "read" ELSE IF c.op = "Write10" THEN "write" ELSE "other",
     lun |-> c.lun, start |-> c.start, count |-> c.count]

BusOn == bus \in {"up", "suspended"}

Asked ==
    IF ~BusOn THEN [op |-> "gone"] ELSE IF host.phase = "idle" THEN [op |-> "idle"] ELSE AsRequest(host.cmd)

Part(l, s, n) == IF n = 0 THEN [nr |-> 0] ELSE [nr |-> n, lun |-> l, start |-> s]

Remaining ==
    IF mass_state = "RECEIVE_DATA" THEN Part(cbw.lun, xfer.start, xfer.nr)
    ELSE IF host.phase = "out" THEN Part(host.cmd.lun, host.cmd.start, host.cmd.count)
    ELSE [nr |-> 0]

Received == IF host.cmd.op = "Read10" THEN host.got ELSE <<>>

Promise == INSTANCE HostDisk WITH req <- Asked, left <- Remaining, got <- Received
IsAHostDisk == Promise!Spec

\* Every command with a good signature ends, with a status or with a reset of the
\* bus: no interrupt a transfer waits for is lost between the reads of the
\* registers of a pass of udc4755_proc.
Answered == host.phase # "idle" /\ host.cmd.op # "Bad" ~> host.phase = "idle"

(***************************************************************************)
(* The inductive invariant.                                                *)
(***************************************************************************)
Packet ==
    {Empty} \cup [kind : {"csw"}, tag : {0, 1}, good : BOOLEAN] \cup [kind : {"data"}, body : Seq(Data)]

Host == [phase : {"idle", "in", "out", "status"}, cmd : Command, want : Seq(Data), got : Seq(Data),
         sent : Nat, knows : SUBSET LUNs, absent : SUBSET LUNs, failed : SUBSET LUNs]

Types ==
    /\ TypeOK
    /\ xfer \in [start : Nat, nr : Nat]
    /\ epIn \in [state : EpState, stage : Stage, packet : Packet]
    /\ epOut \in [state : EpState, buf : {"none", "cbw", "mass"}, len : Nat, body : Seq(Data)]
    /\ fifo \in Packet
    /\ rx \in {Empty} \cup [kind : {"cbw"}, cmd : Command]
    /\ upc \in {"wait", "readIn", "readOut", "in", "readDma", "dma", "out", "stall", "outDma"}
    /\ card \in BOOLEAN
    /\ host \in Host

\* Nothing is on its way to the host.
Quiet == fifo = Empty /\ (epIn.state = "cpu" => epIn.stage = "loaded") /\ epIn.state # "dma"

\* mass_state says what the endpoints are used for.
Endpoints ==
    /\ epOut.state = "dma" <=> mass_state = "RECEIVE_DATA"
    /\ epIn.state = "dma" <=> mass_state = "SEND_DATA"
    /\ epOut.state = "cpu" /\ epOut.buf = "cbw" => mass_state = "RECEIVE_CBW"
    /\ epIn.state = "cpu" /\ epIn.stage = "waiting" => epIn.packet.kind = "csw"
    /\ epIn.state = "cpu" => epIn.stage # "begun"
    /\ epIn.state = "dma" => epIn.packet.kind = "data" /\ Len(epIn.packet.body) > 0
    /\ epIn.state = "dma" /\ epIn.stage = "begun" => fifo = Empty
    /\ mass_state = "RECEIVE_DATA" =>
          /\ Quiet
          /\ xfer.nr > 0 /\ epOut.len = AtMostChunk(xfer.nr)
          /\ epOut.body # <<>> => Len(epOut.body) = epOut.len
    /\ upc = "stall" => mass_state = "SENDING_CSW"

\* A finished DMA is noticed once, by the pass that serves it.
DmaLatches ==
    /\ intr.dmaIn \/ (upc = "dma" /\ seen.dmaIn) => epIn.state = "dma" /\ epIn.stage = "loaded"
    /\ upc = "dma" /\ seen.dmaIn => ~intr.dmaIn
    /\ intr.dmaOut => epOut.state = "dma" /\ epOut.body # <<>>
    /\ upc \in {"dma", "out", "stall", "outDma"} /\ seen.dmaOut =>
          epOut.state = "dma" /\ epOut.body # <<>> /\ ~intr.dmaOut

\* An interrupt that says the FIFO has become empty is not taken for that of the
\* packet that waits: after the register has been read, a FIFO that is full has been so since.
InLatch ==
    /\ fifo # Empty /\ epIn.state = "cpu" /\ upc \in {"readOut", "in"} => ~intr.in
    /\ /\ epIn.state = "dma" /\ upc \in {"readOut", "in", "readDma", "dma"}
       /\ epIn.stage = "begun" \/ (epIn.stage = "loaded" /\ fifo # Empty)
       => ~intr.in
    /\ fifo # Empty /\ epIn.state = "cpu" /\ epIn.stage = "waiting" =>
          ~intr.in /\ (upc \in {"readOut", "in"} => ~seen.in)

\* The command in the FIFO, and the transfer it becomes.
Commands ==
    /\ host.knows \subseteq sized
    /\ xfer.start + xfer.nr <= TotalSec
    /\ rx # Empty =>
          /\ bus = "up" /\ rx.cmd = host.cmd
          /\ Transfers(rx.cmd.op) => rx.cmd.lun \in sized /\ Inside(rx.cmd.start, rx.cmd.count)
          /\ rx.cmd.op = "Read10" => rx.cmd.count > 0
    /\ mass_state \in {"SEND_DATA", "RECEIVE_DATA"} =>
          /\ cbw = host.cmd /\ cbw.lun \in sized
          /\ cbw.op = IF mass_state = "SEND_DATA" THEN "Read10" ELSE "Write10"
          /\ cbw.start <= xfer.start
          /\ xfer.start + xfer.nr = cbw.start + cbw.count

FirstPhase(c) ==
    IF c.op \in DataIn THEN "in" ELSE IF c.op = "Write10" /\ c.count > 0 THEN "out" ELSE "status"

\* When the host reads: the sectors that have reached it or the FIFO, and those of
\* the packet that waits for the FIFO.
BodyLen(p) == IF p.kind = "data" THEN Len(p.body) ELSE 0
Reached == Len(host.got) + BodyLen(fifo)
Pending == IF epIn.stage = "loaded" THEN 0 ELSE BodyLen(epIn.packet)

\* The status for the command the host waits on is in csw.
StatusPrepared ==
    /\ csw.tag = host.cmd.tag
    /\ csw.good /\ host.cmd.op = "Capacity" => host.cmd.lun \in sized

InStep ==
    /\ host.phase = "idle" => rx = Empty
    /\ host.phase = "in" => host.cmd.op \in DataIn
    /\ host.phase = "idle" \/ rx # Empty => Quiet /\ mass_state \in {"RECEIVE_CBW", "SENDED_CSW"}
    /\ rx # Empty => host.phase = FirstPhase(rx.cmd) /\ host.got = <<>> /\ host.sent = 0
    /\ host.cmd.op = "Write10" /\ host.phase # "idle" => Len(host.want) = host.cmd.count
    /\ fifo.kind = "csw" =>
          /\ host.phase = "status" /\ fifo.tag = host.cmd.tag
          /\ fifo.good /\ host.cmd.op = "Capacity" => host.cmd.lun \in sized
          /\ mass_state \in {"RECEIVE_CBW", "SENDED_CSW"}
          /\ epIn.state = "cpu" => epIn.stage = "loaded"
    /\ fifo.kind = "data" =>
          /\ host.phase = "in"
          /\ mass_state \in {"RECEIVE_CBW", "SENDED_CSW"} =>
                /\ epIn.state = "cpu" /\ epIn.stage = "waiting"
                /\ host.cmd.op = "Read10" => Reached = host.cmd.count
    /\ epIn.state = "cpu" /\ epIn.stage = "waiting" =>
          /\ StatusPrepared
          /\ mass_state \in {"RECEIVE_CBW", "SENDED_CSW"}
          /\ fifo = Empty => host.phase = "status"
    /\ mass_state = "SENDING_CSW" =>
          /\ StatusPrepared
          /\ host.cmd.op # "Read10"
          /\ IF upc = "stall"
             THEN Quiet /\ host.phase = "in" /\ ~csw.good
             ELSE epIn.stage = "loaded" /\ host.phase = IF fifo = Empty THEN "status" ELSE "in"
    /\ mass_state = "SEND_DATA" =>
          /\ StatusPrepared
          /\ xfer.start = host.cmd.start + (Reached + Pending)
          /\ host.phase = IF Len(host.got) < host.cmd.count THEN "in" ELSE "status"
    /\ mass_state = "RECEIVE_DATA" =>
          /\ StatusPrepared
          /\ host.sent + xfer.nr - Len(epOut.body) = host.cmd.count
          /\ host.phase = IF host.sent < host.cmd.count THEN "out" ELSE "status"

\* What the host has got of a READ_10, what is in the FIFO and what the DMA will
\* put there are the sectors of the request, one after another.
InOrder(q, k) == \A i \in 1 .. Len(q) : q[i] = disk[host.cmd.lun][host.cmd.start + k + i - 1]

ReadSoFar ==
    host.cmd.op = "Read10" /\ host.phase # "idle" =>
        /\ host.phase = "status" => Len(host.got) = host.cmd.count
        /\ host.cmd.lun \notin Removable =>
              /\ InOrder(host.got, 0)
              /\ fifo.kind = "data" => InOrder(fifo.body, Len(host.got))
              /\ mass_state = "SEND_DATA" /\ epIn.stage # "loaded" =>
                    InOrder(epIn.packet.body, Reached)

\* An answer that fits one packet arrives before its status.
AnswerFirst ==
    host.cmd.op \in DataIn \ {"Read10"} =>
        /\ fifo.kind = "data" => host.got = <<>> /\ Len(fifo.body) = 1
        /\ fifo.kind = "csw" /\ fifo.good => Len(host.got) = 1
        /\ fifo = Empty /\ upc # "stall"
           /\ (mass_state = "SENDING_CSW" \/ (epIn.state = "cpu" /\ epIn.stage = "waiting")) => Len(host.got) = 1

\* The sectors that a WRITE_10 has counted are on the medium.
WrittenSoFar ==
    LET c == host.cmd IN
    c.op = "Write10" /\ c.lun \notin Removable =>
        /\ mass_state = "RECEIVE_DATA" =>
              /\ \A i \in 1 .. c.count - xfer.nr : host.want[i] = disk[c.lun][c.start + i - 1]
              /\ \A i \in 1 .. Len(epOut.body) : epOut.body[i] = host.want[c.count - xfer.nr + i]
        /\ mass_state # "RECEIVE_DATA" /\ host.phase = "status" =>
              \A i \in 1 .. c.count : host.want[i] = disk[c.lun][c.start + i - 1]

Delivered == ReadSoFar /\ AnswerFirst /\ WrittenSoFar

MassInv ==
    /\ Types /\ Endpoints /\ DmaLatches /\ InLatch /\ Commands
    /\ bus \in {"up", "suspended"} => InStep /\ Delivered
    /\ bus # "up" => host.phase = "idle"

(***************************************************************************)
(* With it, the inductive invariant behind ReadyAfterAttention, when no    *)
(* more than one LUN but LUN 0 can report "no medium": iscardin is one     *)
(* variable for all of them.                                               *)
(***************************************************************************)
OneSlot == \A l, m \in LUNs \ {0} : l = m

\* A status is prepared, or waits for the FIFO.
CswWaits == epIn.state = "cpu" /\ epIn.stage = "waiting"

\* The sense in the FIFO: "no medium", or of the medium that went in.
SenseAbsent  == host.cmd.op = "RequestSense" /\ fifo.kind = "data" /\ fifo.body = <<0>>
SenseChanged == host.cmd.op = "RequestSense" /\ fifo.kind = "data" /\ fifo.body # <<0>>

\* LUN 0 never fails, so the host never asks for its sense.
OnlyCardsFail ==
    /\ host.failed \cup host.absent \subseteq LUNs \ {0}
    /\ host.cmd.op = "RequestSense" => host.cmd.lun # 0
    /\ bus \in {"up", "suspended"} =>
          /\ fifo.kind = "csw" /\ ~fifo.good => host.cmd.lun # 0
          /\ (mass_state \in {"SENDING_CSW", "SEND_DATA", "RECEIVE_DATA"} \/ CswWaits) /\ ~csw.good =>
                host.cmd.lun # 0

\* What the host believes absent stays not ready until the host is about to read
\* another sense; only answers with data have a status that waits.
AttentionKept ==
    /\ bus \notin {"up", "suspended"} => host.absent = {}
    /\ bus \in {"up", "suspended"} =>
          /\ mass_state = "SENDING_CSW" \/ CswWaits => host.cmd.op \in DataIn
          /\ SenseAbsent => iscardin
          /\ host.absent # {} => iscardin \/ SenseChanged
          /\ fifo.kind = "csw" /\ fifo.good /\ host.cmd.op = "TestUnitReady" =>
                host.cmd.lun \notin host.absent

AttentionInv == OnlyCardsFail /\ AttentionKept

(***************************************************************************)
(* And the one behind IsAHostDisk.                                         *)
(***************************************************************************)

\* The data of a write that is not stored yet are the successors of what is.
StoresAhead ==
    /\ mass_state = "RECEIVE_DATA" =>
          \A i \in 1 .. Len(epOut.body) : epOut.body[i] = disk[cbw.lun][xfer.start + i - 1] + 1
    /\ mass_state = "RECEIVE_DATA" /\ BusOn =>
          \A i \in 1 .. xfer.nr :
              host.want[(cbw.count - xfer.nr) + i] = disk[cbw.lun][xfer.start + i - 1] + 1
    /\ mass_state # "RECEIVE_DATA" /\ host.phase = "out" =>
          \A i \in 1 .. host.cmd.count :
              host.want[i] = disk[host.cmd.lun][host.cmd.start + i - 1] + 1

\* What a read has put into the FIFO or is about to is what is stored, but for a
\* medium that is missing.
AsStored(q, k) ==
    \A i \in 1 .. Len(q) :
        \/ q[i] = disk[host.cmd.lun][host.cmd.start + k + i - 1]
        \/ host.cmd.lun \in Removable /\ q[i] = Junk

ReadsStored ==
    BusOn /\ host.cmd.op = "Read10" /\ host.phase # "idle" =>
        /\ fifo.kind = "data" => AsStored(fifo.body, Len(host.got))
        /\ mass_state = "SEND_DATA" /\ epIn.stage # "loaded" => AsStored(epIn.packet.body, Reached)

StoredInv == StoresAhead /\ ReadsStored
================================================================================

-------------------------------- MODULE UdcBulk --------------------------------
(***************************************************************************)
(* The two bulk endpoints of the USB device controller as its driver       *)
(* (src/soc_src/jz4755/drv/udc/udc.c) uses them: start_transfer, and the   *)
(* passes of udc4755_proc that the UDC task makes when the controller has  *)
(* interrupted.  A pass reads one interrupt register after another, each   *)
(* read clears what it reads, and the host goes on in between.             *)
(*                                                                         *)
(* A packet stands for all the data of one transfer.  The interface driver *)
(* (MassStorage) supplies what happens when a transfer has finished.       *)
(***************************************************************************)
EXTENDS Integers, Sequences

CONSTANTS
    Chunk,            \* sectors in UDC_FRAME_SIZE, the most one transfer moves
    HostKeepsUp,      \* the host has emptied the FIFO whenever a DMA is started
    ControlTraffic    \* endpoint 0 may interrupt between two bulk transfers

ASSUME UdcAssumption ==
    /\ Chunk \in Nat \ {0}
    /\ HostKeepsUp \in BOOLEAN
    /\ ControlTraffic \in BOOLEAN

VARIABLES
    epIn,     \* epstat[1]
    epOut,    \* epstat[2]
    fifo,     \* what the IN FIFO holds for the host
    rx,       \* the command packet in the OUT FIFO
    intr,     \* latched interrupts, cleared by reading the register
    enable,   \* INTRINE, INTROUTE: which endpoint interrupts reach the CPU
    seen,     \* the registers as the pass has read them
    upc       \* where udc4755_proc is ("wait": the task pends on udcEvent)

udcVars == <<epIn, epOut, fifo, rx, intr, enable, seen, upc>>

Latches == [in : BOOLEAN, out : BOOLEAN, dmaIn : BOOLEAN, dmaOut : BOOLEAN]
NoLatch == [in |-> FALSE, out |-> FALSE, dmaIn |-> FALSE, dmaOut |-> FALSE]

\* "cpu" moves data through the FIFO registers, "dma" by DMA; "done" is
\* WRITE_FINISH for the IN endpoint and READ_FINISH for the OUT endpoint.
EpState == {"cpu", "dma", "done"}
Stage == {"waiting", "begun", "loaded"}

Empty == [kind |-> "none"]

InFinished  == [state |-> "done", stage |-> "waiting", packet |-> Empty]
OutFinished == [state |-> "done", buf |-> "none", len |-> 0, body |-> <<>>]

\* init_udc, up to its udc_reset.
UdcInit ==
    /\ epIn = InFinished
    /\ epOut = OutFinished
    /\ fifo = Empty
    /\ rx = Empty
    /\ intr = NoLatch
    /\ enable = [in |-> FALSE, out |-> FALSE]
    /\ seen = NoLatch
    /\ upc = "wait"

(***************************************************************************)
(* start_transfer.                                                         *)
(***************************************************************************)

\* Mutated: the packet goes into the FIFO whether or not there is one in it.
StartInOver(p) ==
    /\ epIn' = [state |-> "cpu", stage |-> "loaded", packet |-> p]
    /\ fifo' = p

\* Mutated: a packet that finds the FIFO full is dropped.
StartInLost(p) ==
    /\ epIn' = [state |-> "cpu", stage |-> "loaded", packet |-> p]
    /\ fifo' = IF fifo = Empty THEN p ELSE fifo

\* Less than a FIFO of data: copied at once if the FIFO is empty, and otherwise
\* when the interrupt says that it has become so.
StartIn(p) ==
    /\ epIn' = [state |-> "cpu", stage |-> IF fifo = Empty THEN "loaded" ELSE "waiting", packet |-> p]
    /\ fifo' = IF fifo = Empty THEN p ELSE fifo

\* More than that: the DMA is started if the FIFO is empty, and otherwise never.
StartInDma(p) ==
    /\ HostKeepsUp => fifo = Empty
    /\ epIn' = [state |-> "dma", stage |-> IF fifo = Empty THEN "begun" ELSE "waiting", packet |-> p]
    /\ UNCHANGED fifo

StartOut(buf, len) ==
    epOut' = [state |-> IF buf = "cbw" \/ len = 0 THEN "cpu" ELSE "dma",
              buf |-> buf, len |-> len, body |-> <<>>]

\* INTRINE and INTROUTE: a transfer that starts sets the bit of its endpoint, one
\* that finishes clears it; the DMA of the OUT endpoint leaves it alone.
Enable(inBit, outBit) == enable' = [in |-> inBit, out |-> outBit]

(***************************************************************************)
(* The hardware.                                                           *)
(***************************************************************************)

\* The DMA has put the last packet into the FIFO.
DmaLoads ==
    /\ epIn.state = "dma"
    /\ epIn.stage = "begun"
    /\ epIn' = [epIn EXCEPT !.stage = "loaded"]
    /\ fifo' = epIn.packet
    /\ intr' = [intr EXCEPT !.dmaIn = TRUE]
    /\ UNCHANGED <<epOut, rx, enable, seen, upc>>

\* The host takes what is in the FIFO.
FifoTaken ==
    /\ fifo # Empty
    /\ fifo' = Empty
    /\ intr' = [intr EXCEPT !.in = TRUE]
    /\ UNCHANGED <<epIn, epOut, rx, enable, seen, upc>>

\* The host puts a command into the OUT FIFO, whether or not a transfer has been
\* started for it.
FifoGiven(p) ==
    /\ rx = Empty
    /\ rx' = p
    /\ intr' = [intr EXCEPT !.out = TRUE]
    /\ UNCHANGED <<epIn, epOut, fifo, enable, seen, upc>>

\* The host sends the data of a DMA transfer.
DmaReceives(data) ==
    /\ epOut.state = "dma"
    /\ epOut.body = <<>>
    /\ epOut' = [epOut EXCEPT !.body = data]
    /\ intr' = [intr EXCEPT !.dmaOut = TRUE]
    /\ UNCHANGED <<epIn, fifo, rx, enable, seen, upc>>

(***************************************************************************)
(* A pass of udc4755_proc.                                                 *)
(***************************************************************************)
Interrupting ==
    \/ intr.in /\ enable.in
    \/ intr.out /\ enable.out
    \/ intr.dmaIn \/ intr.dmaOut

BeginPass ==
    /\ upc = "wait"
    /\ Interrupting \/ ControlTraffic
    /\ upc' = "readIn"
    /\ UNCHANGED <<epIn, epOut, fifo, rx, intr, enable, seen>>

ReadIntrIn ==
    /\ upc = "readIn"
    /\ seen' = [NoLatch EXCEPT !.in = intr.in]
    /\ intr' = [intr EXCEPT !.in = FALSE]
    /\ upc' = "readOut"
    /\ UNCHANGED <<epIn, epOut, fifo, rx, enable>>

ReadIntrOut ==
    /\ upc = "readOut"
    /\ seen' = [seen EXCEPT !.out = intr.out]
    /\ intr' = [intr EXCEPT !.out = FALSE]
    /\ upc' = "in"
    /\ UNCHANGED <<epIn, epOut, fifo, rx, enable>>

\* The endpoint has nothing to do with the interrupt that was read.
SkipIn ==
    /\ upc = "in"
    /\ ~(epIn.state = "cpu" /\ seen.in)
    /\ upc' = "readDma"
    /\ UNCHANGED <<epIn, epOut, fifo, rx, intr, enable, seen>>

\* ep_in_handler with data left to send: p is the data.
LoadFifo(p) ==
    /\ upc = "in"
    /\ epIn.state = "cpu" /\ seen.in
    /\ epIn.stage = "waiting"
    /\ epIn' = [epIn EXCEPT !.stage = "loaded"]
    /\ fifo' = p
    /\ upc' = "readDma"
    /\ UNCHANGED <<epOut, rx, intr, enable, seen>>

\* ep_in_handler with nothing left to send: the transfer has finished.
FinishedIn ==
    /\ upc = "in"
    /\ epIn.state = "cpu" /\ seen.in
    /\ epIn.stage = "loaded"
    /\ upc' = "readDma"
    /\ UNCHANGED <<intr, seen>>

ReadIntrDma ==
    /\ upc = "readDma"
    /\ seen' = [seen EXCEPT !.in = FALSE, !.dmaIn = intr.dmaIn, !.dmaOut = intr.dmaOut]
    /\ intr' = [intr EXCEPT !.dmaIn = FALSE, !.dmaOut = FALSE]
    /\ upc' = "dma"
    /\ UNCHANGED <<epIn, epOut, fifo, rx, enable>>

SkipDma ==
    /\ upc = "dma"
    /\ ~(epIn.state = "dma" /\ seen.dmaIn)
    /\ upc' = "out"
    /\ UNCHANGED <<epIn, epOut, fifo, rx, intr, enable, seen>>

\* What is sent by DMA ends with a whole packet: sectors are a multiple of the FIFO,
\* so that nothing is left for ep_in_handler to send.
FinishedDma ==
    /\ upc = "dma"
    /\ epIn.state = "dma" /\ seen.dmaIn
    /\ upc' = "out"
    /\ UNCHANGED <<intr, seen>>

SkipOut ==
    /\ upc = "out"
    /\ ~(epOut.state = "cpu" /\ seen.out)
    /\ upc' = "outDma"
    /\ UNCHANGED <<epIn, epOut, fifo, rx, intr, enable, seen>>

\* ep_out_handler with a command where none is expected: it is read and lost.
SwallowOut ==
    /\ upc = "out"
    /\ epOut.state = "cpu" /\ seen.out
    /\ epOut.buf # "cbw" /\ rx # Empty
    /\ rx' = Empty
    /\ seen' = [seen EXCEPT !.out = FALSE]
    /\ upc' = "outDma"
    /\ UNCHANGED <<epIn, epOut, fifo, intr, enable>>

\* ep_out_handler with nothing in the FIFO: only a transfer of length zero has
\* finished, and handle_receive has nothing to do for it.
NothingOut ==
    /\ upc = "out"
    /\ epOut.state = "cpu" /\ seen.out
    /\ rx = Empty
    /\ \/ epOut.buf = "cbw" /\ UNCHANGED <<epOut, enable>>
       \/ epOut.buf # "cbw" /\ epOut' = OutFinished /\ enable' = [enable EXCEPT !.out = FALSE]
    /\ seen' = [seen EXCEPT !.out = FALSE]
    /\ upc' = "outDma"
    /\ UNCHANGED <<epIn, fifo, rx, intr>>

\* ep_out_handler with the command the transfer was started for.
FinishedOut ==
    /\ upc = "out"
    /\ epOut.state = "cpu" /\ seen.out
    /\ epOut.buf = "cbw"
    /\ rx # Empty
    /\ rx' = Empty
    /\ seen' = [seen EXCEPT !.out = FALSE]
    /\ UNCHANGED intr

\* The DMA register is read once more when it showed nothing before.
LateDma == ~seen.dmaIn /\ ~seen.dmaOut
ClearLateDma ==
    intr' = IF LateDma /\ epOut.state = "dma"
            THEN [intr EXCEPT !.dmaIn = FALSE, !.dmaOut = FALSE] ELSE intr
ReceivedDma == epOut.state = "dma" /\ (seen.dmaOut \/ (LateDma /\ intr.dmaOut))

SkipOutDma ==
    /\ upc = "outDma"
    /\ ~ReceivedDma
    /\ ClearLateDma
    /\ upc' = "wait"
    /\ seen' = NoLatch
    /\ UNCHANGED <<epIn, epOut, fifo, rx, enable>>

FinishedOutDma ==
    /\ upc = "outDma"
    /\ ReceivedDma
    /\ ClearLateDma
    /\ upc' = "wait"
    /\ seen' = NoLatch
    /\ UNCHANGED rx
================================================================================

------------------------------- MODULE UdcDriver -------------------------------
(***************************************************************************)
(* The control side of the USB device controller driver                    *)
(* (src/soc_src/jz4755/drv/udc/udc.c): the two interrupts, the flags and   *)
(* the semaphore they wake udc_task_entry with, the cable, enabling and    *)
(* disabling the device, and what the upper layer is told.  The build is   *)
(* that of src/mtv_50/jz4755_cetus.mak: USE_MIDWARE, no DC_DETE_PIN.       *)
(*                                                                         *)
(* An interrupt that is pending and enabled comes before any step of a     *)
(* task; it may come between any two.                                      *)
(***************************************************************************)
EXTENDS Integers, FiniteSets

CONSTANTS
    CableStill,  \* the pin keeps still in the windows where a change is lost (Deaf)
    FlagsAtomic, \* the read-modify-writes of udc_irq_type are not interrupted
    MaxPosts     \* bound on the posts the task has not pended for when something new happens

ASSUME DriverAssumption ==
    /\ {CableStill, FlagsAtomic} \subseteq BOOLEAN
    /\ MaxPosts \in Nat

VARIABLES
    pin,            \* the cable-detect pin: "in" or "out"
    edge,           \* the change of the pin that the GPIO latches
    latched,        \* PXFLG: such a change has come
    gpioMasked,     \* IRQ_GPIO_UDC_DETE is disabled
    dev,            \* "stopped" clock, "started", soft-"connected"
    bus,            \* the bits of INTRUSB and INTRIN
    suspendOn,      \* INTRUSBE lets a suspend interrupt
    udcMasked,      \* IRQ_UDC is disabled
    udc_irq_type,
    udcEvent,       \* the count of the semaphore
    cable_stat,
    protocool_stat,
    g_timeout,      \* the task pends with a time-out
    attached,       \* UDC_SW_CONNECT: the LUNs are the host's
    pc,             \* where the task is
    ret,            \* where it goes on after disable_device or an answer
    seen,           \* what check_gpio has returned
    reg,            \* udc_irq_type as the task has loaded it
    appReg,         \* as the application has loaded it, or NoRead
    msg,            \* the event the upper layer is asked about
    res,            \* its answer
    early,          \* the upper layer has answered a post that nobody pended for
    view            \* what it believes: "none", "power", "usb" (history)

gpioVars == <<edge, latched, gpioMasked>>
devVars == <<dev, bus, suspendOn, udcMasked>>
flagVars == <<udc_irq_type, udcEvent>>
statVars == <<cable_stat, protocool_stat, g_timeout, attached>>
midVars == <<msg, res, view, early>>
ctlVars == <<pc, ret, seen, reg>>
vars == <<pin, gpioVars, devVars, flagVars, statVars, midVars, ctlVars, appReg>>

Level == {"in", "out"}
Flag == {"udc", "gpio", "disable"}
BusEvent == {"reset", "suspend", "ep0"}
MidEvent == {"POWER_IN", "POWER_OUT", "USB_IN", "UNINSTALL"}
NoRead == {"none"}

Opposite(level) == IF level = "in" THEN "out" ELSE "in"

\* The parts of the task's loop.
OffPc == {"off1", "off2", "off3", "off4"}
IstPc == {"ist", "arm", "decide", "powerOut", "remove", "rearm", "istEnd"}
ProcPc == {"proc", "suspend", "stillIn", "stillArm", "stillTell", "endpoints", "ask", "answered",
           "refused", "ep0", "procEnd"}
DirectPc == {"clear20", "store20", "uninstall", "directPower"}
TestPc == {"test20", "test10", "clear10", "store10", "test1", "clear1", "store1"}
Pc == {"pend", "upper"} \cup OffPc \cup IstPc \cup ProcPc \cup DirectPc \cup TestPc

InUdcPass ==
    \/ pc \in ProcPc \cup {"test1", "clear1", "store1"}
    \/ pc \in OffPc \cup {"upper"} /\ ret \in ProcPc

\* Where a change of the pin is lost: from the first sample of gpio_ist to the
\* enable_irq that clears the latch, and where disable_device follows, which
\* clears the flags and the semaphore.
Deaf ==
    \/ pc \in (IstPc \ {"ist"}) \cup OffPc \cup DirectPc \cup {"answered", "refused"}
    \/ pc = "upper" /\ ret \in IstPc \cup DirectPc \cup {"answered"}
    \/ "disable" \in udc_irq_type \/ appReg # NoRead
    \/ ("gpio" \in udc_irq_type \/ (latched /\ ~gpioMasked)) /\ InUdcPass

\* The end of init_udc.
Init ==
    /\ pin \in Level
    /\ edge = "in" /\ latched = FALSE
    /\ gpioMasked = (pin = "in")
    /\ udc_irq_type = (IF pin = "in" THEN {"gpio"} ELSE {})
    /\ udcEvent = (IF pin = "in" THEN 1 ELSE 0)
    /\ dev = "stopped" /\ bus = {} /\ suspendOn = FALSE /\ udcMasked = TRUE
    /\ cable_stat = "out" /\ protocool_stat = "out"
    /\ g_timeout = FALSE /\ attached = FALSE
    /\ pc = "pend" /\ ret = "pend" /\ seen = "out" /\ reg = {} /\ appReg = NoRead
    /\ msg = "POWER_OUT" /\ res = "no" /\ view = "none" /\ early = FALSE

UdcLine == bus \cap ({"reset", "ep0"} \cup IF suspendOn THEN {"suspend"} ELSE {}) # {}
StorePc == {"store20", "store10", "store1"}
Interruptible == FlagsAtomic => pc \notin StorePc /\ appReg = NoRead
UdcPending == Interruptible /\ ~udcMasked /\ dev # "stopped" /\ UdcLine
GpioPending == Interruptible /\ ~gpioMasked /\ latched
InterruptPending == UdcPending \/ GpioPending

(***************************************************************************)
(* The cable, the host and the application (external).                     *)
(***************************************************************************)
PinMoves ==
    /\ ~InterruptPending
    /\ CableStill => ~Deaf
    /\ udcEvent < MaxPosts
    /\ pin' = Opposite(pin)
    /\ latched' = (latched \/ pin' = edge)
    /\ UNCHANGED <<edge, gpioMasked, devVars, flagVars, statVars, midVars, ctlVars, appReg>>

\* A bus without a host is idle, which the controller takes for a suspend.
HostActs ==
    /\ dev = "connected"
    /\ udcEvent < MaxPosts
    /\ \E e \in BusEvent \ bus :
        /\ pin = "in" \/ e = "suspend"
        /\ bus' = bus \cup {e}
    /\ UNCHANGED <<pin, gpioVars, dev, suspendOn, udcMasked, flagVars, statVars, midVars, ctlVars,
                   appReg>>

\* connect_udc(1), which the application calls at boot, on a device that is enabled and
\* that nobody is about to disable.  (Nothing in the driver asks for either; the
\* application's connect_udc(0) is left out.)
SoftConnect ==
    /\ dev = "started" /\ pc \notin OffPc
    /\ dev' = "connected"
    /\ UNCHANGED <<pin, gpioVars, bus, suspendOn, udcMasked, flagVars, statVars, midVars, ctlVars,
                   appReg>>

(***************************************************************************)
(* The interrupt handlers, and udc_disable_device_directly_global, which   *)
(* another task runs.                                                      *)
(***************************************************************************)

\* Mutated: the semaphore is not posted.
UdcIntrSilent ==
    /\ UdcPending
    /\ udcMasked' = TRUE
    /\ udc_irq_type' = udc_irq_type \cup {"udc"}
    /\ UNCHANGED <<pin, gpioVars, dev, bus, suspendOn, udcEvent, statVars, midVars, ctlVars,
                   appReg>>

\* Mutated: the interrupt is not disabled.
UdcIntrUnmasked ==
    /\ UdcPending
    /\ udc_irq_type' = udc_irq_type \cup {"udc"}
    /\ udcEvent' = udcEvent + 1
    /\ UNCHANGED <<pin, gpioVars, devVars, statVars, midVars, ctlVars, appReg>>

UdcIntr ==
    /\ UdcPending
    /\ udcMasked' = TRUE
    /\ udc_irq_type' = udc_irq_type \cup {"udc"}
    /\ udcEvent' = udcEvent + 1
    /\ UNCHANGED <<pin, gpioVars, dev, bus, suspendOn, statVars, midVars, ctlVars, appReg>>

\* gpio_handler leaves the latch as it is.
GpioIntr ==
    /\ GpioPending
    /\ gpioMasked' = TRUE
    /\ udc_irq_type' = udc_irq_type \cup {"gpio"}
    /\ udcEvent' = udcEvent + 1
    /\ UNCHANGED <<pin, edge, latched, devVars, statVars, midVars, ctlVars, appReg>>

\* udc_detect_status has told the application that USB is connected.
AppLoads ==
    /\ ~InterruptPending
    /\ FlagsAtomic => pc \notin StorePc
    /\ CableStill => "gpio" \notin udc_irq_type
    /\ appReg = NoRead /\ udcEvent < MaxPosts /\ protocool_stat = "in"
    /\ appReg' = udc_irq_type
    /\ UNCHANGED <<pin, gpioVars, devVars, flagVars, statVars, midVars, ctlVars>>

AppStores ==
    /\ ~InterruptPending
    /\ appReg # NoRead
    /\ udc_irq_type' = appReg \cup {"disable"}
    /\ udcEvent' = udcEvent + 1
    /\ appReg' = NoRead
    /\ UNCHANGED <<pin, gpioVars, devVars, statVars, midVars, ctlVars>>

(***************************************************************************)
(* Steps of the task.  Tell posts an event to the upper layer and pends    *)
(* for its answer; Disable is BusNotify(UDC_REMOVE), which runs            *)
(* disable_device.                                                         *)
(***************************************************************************)
At(label) ==
    /\ ~InterruptPending
    /\ FlagsAtomic => appReg = NoRead
    /\ pc = label

Goto(label) == pc' = label /\ UNCHANGED ret
Tell(e, back) == msg' = e /\ pc' = "upper" /\ ret' = back
Disable(back) == pc' = "off1" /\ ret' = back /\ UNCHANGED msg

envVars == <<pin, appReg>>

\* The answer.  An UNINSTALL ends USB; a refused USB_IN changes nothing.  After an
\* answer too many, each pend returns at once, maybe before res has been set.
UpperAnswers ==
    /\ At("upper")
    /\ Goto(ret)
    /\ \E a \in {"yes", "no"} :
        /\ msg # "USB_IN" => a = res
        /\ res' \in {a} \cup IF early THEN {res} ELSE {}
        /\ view' = CASE msg = "POWER_IN" -> "power"
                     [] msg \in {"POWER_OUT", "UNINSTALL"} -> "none"
                     [] OTHER -> IF a = "yes" THEN "usb" ELSE view
    /\ UNCHANGED <<envVars, gpioVars, devVars, flagVars, statVars, msg, early, seen, reg>>

(***************************************************************************)
(* disable_device, and what mass_detect does after it.                     *)
(***************************************************************************)

\* Soft-disconnect; the interrupt registers are read, which clears them.
Off1 ==
    /\ At("off1")
    /\ dev' = (IF dev = "stopped" THEN "stopped" ELSE "started")
    /\ bus' = {}
    /\ Goto("off2")
    /\ UNCHANGED <<envVars, gpioVars, suspendOn, udcMasked, flagVars, statVars, midVars, seen, reg>>

\* Mutated: the flags survive.
Off2Keeps ==
    /\ At("off2")
    /\ Goto("off3")
    /\ UNCHANGED <<envVars, gpioVars, devVars, flagVars, statVars, midVars, seen, reg>>

Off2 ==
    /\ At("off2")
    /\ udc_irq_type' = {}
    /\ Goto("off3")
    /\ UNCHANGED <<envVars, gpioVars, devVars, udcEvent, statVars, midVars, seen, reg>>

Off3 ==
    /\ At("off3")
    /\ udcEvent' = 0
    /\ Goto("off4")
    /\ UNCHANGED <<envVars, gpioVars, devVars, udc_irq_type, statVars, midVars, seen, reg>>

Off4 ==
    /\ At("off4")
    /\ dev' = "stopped"
    /\ udcMasked' = TRUE
    /\ attached' = FALSE
    /\ Goto(ret)
    /\ UNCHANGED <<envVars, gpioVars, bus, suspendOn, flagVars, cable_stat, protocool_stat,
                   g_timeout, midVars, seen, reg>>

(***************************************************************************)
(* udc_task_entry.                                                         *)
(***************************************************************************)
Pend ==
    /\ At("pend")
    /\ udcEvent > 0
    /\ udcEvent' = udcEvent - 1
    /\ Goto("test20")
    /\ UNCHANGED <<envVars, gpioVars, devVars, udc_irq_type, statVars, midVars, seen, reg>>

\* No host has sent a set-up packet: the cable is taken for one of a charger.
TimeOut ==
    /\ At("pend")
    /\ udcEvent = 0 /\ g_timeout
    /\ g_timeout' = FALSE
    /\ Tell("POWER_IN", "test20")
    /\ UNCHANGED <<envVars, gpioVars, devVars, flagVars, cable_stat, protocool_stat, attached, res,
                   view, early, seen, reg>>

\* udc_irq_type &= ~flag, in two steps.
Load(from, to) ==
    /\ At(from)
    /\ reg' = udc_irq_type
    /\ Goto(to)
    /\ UNCHANGED <<envVars, gpioVars, devVars, flagVars, statVars, midVars, seen>>

Store(from, flag, to) ==
    /\ At(from)
    /\ udc_irq_type' = reg \ {flag}
    /\ Goto(to)
    /\ UNCHANGED <<envVars, gpioVars, devVars, udcEvent, statVars, midVars, seen, reg>>

ClearFlag ==
    \/ Load("clear20", "store20") \/ Store("store20", "disable", "uninstall")
    \/ Load("clear10", "store10") \/ Store("store10", "gpio", "ist")
    \/ Load("clear1", "store1") \/ Store("store1", "udc", "proc")

\* udc_disable_device_directly.  Only a device in use clears its flag.
Test20 ==
    /\ At("test20")
    /\ IF "disable" \in udc_irq_type /\ cable_stat = "in"
       THEN IF protocool_stat = "in"
            THEN protocool_stat' = "out" /\ Disable("clear20")
            ELSE Tell("POWER_IN", "test10") /\ UNCHANGED protocool_stat
       ELSE Goto("test10") /\ UNCHANGED <<protocool_stat, msg>>
    /\ UNCHANGED <<envVars, gpioVars, devVars, flagVars, cable_stat, g_timeout, attached, res,
                   view, early, seen, reg>>

TellNext(from, e, to) ==
    /\ At(from)
    /\ Tell(e, to)
    /\ UNCHANGED <<envVars, gpioVars, devVars, flagVars, statVars, res, view, early, seen, reg>>

Uninstall == TellNext("uninstall", "UNINSTALL", "directPower")
DirectPower == TellNext("directPower", "POWER_IN", "test10")

Test10 ==
    /\ At("test10")
    /\ Goto(IF "gpio" \in udc_irq_type THEN "clear10" ELSE "test1")
    /\ UNCHANGED <<envVars, gpioVars, devVars, flagVars, statVars, midVars, seen, reg>>

Test1 ==
    /\ At("test1")
    /\ Goto(IF "udc" \in udc_irq_type THEN "clear1" ELSE "pend")
    /\ UNCHANGED <<envVars, gpioVars, devVars, flagVars, statVars, midVars, seen, reg>>

(***************************************************************************)
(* gpio_ist.  check_gpio takes the majority of five samples: what the pin  *)
(* was at some moment in between.                                          *)
(***************************************************************************)
CheckGpio(from, to) ==
    /\ At(from)
    /\ seen' = pin
    /\ Goto(to)
    /\ UNCHANGED <<envVars, gpioVars, devVars, flagVars, statVars, midVars, reg>>

\* gpio_intr_init, which also clears the latch.
GpioIntrInit(from, to) ==
    /\ At(from)
    /\ edge' = Opposite(seen)
    /\ latched' = FALSE
    /\ Goto(to)
    /\ UNCHANGED <<envVars, gpioMasked, devVars, flagVars, statVars, midVars, seen, reg>>

Ist == CheckGpio("ist", "arm")
\* Mutated: the same edge is awaited again.
ArmSame ==
    /\ At("arm")
    /\ edge' = seen
    /\ latched' = FALSE
    /\ Goto("decide")
    /\ UNCHANGED <<envVars, gpioMasked, devVars, flagVars, statVars, midVars, seen, reg>>
Arm == GpioIntrInit("arm", "decide")
Rearm == GpioIntrInit("rearm", "istEnd")

FalseChange ==
    /\ At("decide")
    /\ pin = cable_stat
    /\ seen' = pin
    /\ Goto("rearm")
    /\ UNCHANGED <<envVars, gpioVars, devVars, flagVars, statVars, midVars, reg>>

CableOut ==
    /\ At("decide")
    /\ cable_stat = "in" /\ pin = "out"
    /\ cable_stat' = "out"
    /\ protocool_stat' = "out"
    /\ IF protocool_stat = "in"
       THEN Tell("UNINSTALL", "powerOut")
       ELSE Tell("POWER_OUT", "remove")
    /\ UNCHANGED <<envVars, gpioVars, devVars, flagVars, g_timeout, attached, res, view, early,
                   seen, reg>>

PowerOut == TellNext("powerOut", "POWER_OUT", "remove")

Remove ==
    /\ At("remove")
    /\ Disable("istEnd")
    /\ UNCHANGED <<envVars, gpioVars, devVars, flagVars, statVars, res, view, early, seen, reg>>

\* UDC_JUDGE enables a device that is not enabled yet.
CableIn ==
    /\ At("decide")
    /\ cable_stat = "out" /\ pin = "in"
    /\ cable_stat' = "in"
    /\ g_timeout' = TRUE
    /\ IF dev = "stopped"
       THEN dev' = "started" /\ udcMasked' = FALSE
       ELSE UNCHANGED <<dev, udcMasked>>
    /\ Goto("istEnd")
    /\ UNCHANGED <<envVars, gpioVars, bus, suspendOn, flagVars, protocool_stat, attached, midVars,
                   seen, reg>>

\* Mutated: the interrupt is not enabled again.
IstEndMasked ==
    /\ At("istEnd")
    /\ Goto("test1")
    /\ UNCHANGED <<envVars, gpioVars, devVars, flagVars, statVars, midVars, seen, reg>>

\* enable_irq clears the latch of a GPIO interrupt before it enables it.
IstEnd ==
    /\ At("istEnd")
    /\ latched' = FALSE
    /\ gpioMasked' = FALSE
    /\ Goto("test1")
    /\ UNCHANGED <<envVars, edge, devVars, flagVars, statVars, midVars, seen, reg>>

(***************************************************************************)
(* udc4755_proc, as far as it is about the cable and the bus.              *)
(***************************************************************************)

\* Mutated: a reset attaches the LUNs whatever the upper layer has said.
ProcAttaches ==
    /\ At("proc")
    /\ \E readIn \in BOOLEAN :
        bus' = bus \ ({"reset", "suspend"}
                      \cup IF readIn /\ "reset" \in bus THEN {"ep0"} ELSE {})
    /\ attached' = (attached \/ "reset" \in bus)
    /\ suspendOn' = (IF "reset" \in bus THEN protocool_stat = "in" ELSE suspendOn)
    /\ Goto(IF "suspend" \in bus THEN "suspend" ELSE "endpoints")
    /\ UNCHANGED <<envVars, gpioVars, dev, udcMasked, flagVars, cable_stat, protocool_stat,
                   g_timeout, midVars, seen, reg>>

\* INTRUSB is read.  udc_reset also reads INTRIN if a transfer was under way.
Proc ==
    /\ At("proc")
    /\ \E readIn \in BOOLEAN :
        bus' = bus \ ({"reset", "suspend"}
                      \cup IF readIn /\ "reset" \in bus THEN {"ep0"} ELSE {})
    /\ attached' = (attached \/ ("reset" \in bus /\ protocool_stat = "in"))
    /\ suspendOn' = (IF "reset" \in bus THEN protocool_stat = "in" ELSE suspendOn)
    /\ Goto(IF "suspend" \in bus THEN "suspend" ELSE "endpoints")
    /\ UNCHANGED <<envVars, gpioVars, dev, udcMasked, flagVars, cable_stat, protocool_stat,
                   g_timeout, midVars, seen, reg>>

Suspend ==
    /\ At("suspend")
    /\ attached' = FALSE
    /\ suspendOn' = FALSE
    /\ protocool_stat' = "out"
    /\ IF protocool_stat = "in"
       THEN Tell("UNINSTALL", "stillIn") /\ UNCHANGED dev
       ELSE /\ dev' = (IF dev = "started" THEN "connected" ELSE dev)
            /\ Goto("endpoints") /\ UNCHANGED msg
    /\ UNCHANGED <<envVars, gpioVars, bus, udcMasked, flagVars, cable_stat, g_timeout, res, view,
                   early, seen, reg>>

\* A suspend with the cable still in: power is left.
StillIn == CheckGpio("stillIn", IF pin = "in" THEN "stillArm" ELSE "endpoints")
StillArm == GpioIntrInit("stillArm", "stillTell")
StillTell == TellNext("stillTell", "POWER_IN", "endpoints")

\* INTRIN is read.
Endpoints ==
    /\ At("endpoints")
    /\ bus' = bus \ {"ep0"}
    /\ Goto(IF "ep0" \notin bus THEN "procEnd"
            ELSE IF protocool_stat = "out" /\ cable_stat = "in" THEN "ask" ELSE "ep0")
    /\ UNCHANGED <<envVars, gpioVars, dev, suspendOn, udcMasked, flagVars, statVars, midVars, seen,
                   reg>>

\* The first control transfer after the cable: the upper layer decides.
Ask ==
    /\ At("ask")
    /\ IF pin = "in"
       THEN Tell("USB_IN", "answered")
       ELSE Goto("ep0") /\ UNCHANGED msg
    /\ UNCHANGED <<envVars, gpioVars, devVars, flagVars, statVars, res, view, early, seen, reg>>

Allowed ==
    /\ At("answered")
    /\ res = "yes"
    /\ protocool_stat' = "in"
    /\ suspendOn' = TRUE
    /\ attached' = TRUE
    /\ Goto("ep0")
    /\ UNCHANGED <<envVars, gpioVars, dev, bus, udcMasked, flagVars, cable_stat, g_timeout, midVars,
                   seen, reg>>

Refuse ==
    /\ At("answered")
    /\ res = "no"
    /\ Disable("refused")
    /\ UNCHANGED <<envVars, gpioVars, devVars, flagVars, statVars, res, view, early, seen, reg>>

\* A cable that has gone meanwhile is reported (nobody pends for the answer) and
\* awaited again, but cable_stat stays.
Refused ==
    /\ At("refused")
    /\ IF pin = "out"
       THEN /\ edge' = "in" /\ latched' = FALSE /\ gpioMasked' = FALSE
            /\ view' = "none" /\ early' = TRUE
            /\ protocool_stat' = "out"
       ELSE UNCHANGED <<gpioVars, view, early, protocool_stat>>
    /\ Goto("procEnd")
    /\ UNCHANGED <<envVars, devVars, flagVars, cable_stat, g_timeout, attached, msg, res, seen,
                   reg>>

\* ep0_handler.  The host's first packet is a set-up packet; g_timeout is clear
\* when later stages of the transfers come.
Ep0 ==
    /\ At("ep0")
    /\ g_timeout' = FALSE
    /\ Goto("procEnd")
    /\ UNCHANGED <<envVars, gpioVars, devVars, flagVars, cable_stat, protocool_stat, attached,
                   midVars, seen, reg>>

ProcEnd ==
    /\ At("procEnd")
    /\ udcMasked' = FALSE
    /\ Goto("pend")
    /\ UNCHANGED <<envVars, gpioVars, dev, bus, suspendOn, flagVars, statVars, midVars, seen, reg>>

(***************************************************************************)
(* The specification.                                                      *)
(***************************************************************************)
DisableDevice == Off1 \/ Off2 \/ Off3 \/ Off4

GpioIst ==
    \/ Ist \/ Arm \/ FalseChange \/ Rearm \/ IstEnd
    \/ CableIn \/ CableOut \/ PowerOut \/ Remove

UdcProc ==
    \/ Proc \/ Suspend \/ StillIn \/ StillArm \/ StillTell
    \/ Endpoints \/ Ask \/ Allowed \/ Refuse \/ Refused \/ Ep0 \/ ProcEnd

UdcTask ==
    \/ Pend \/ TimeOut \/ Test20 \/ Uninstall \/ DirectPower \/ Test10 \/ Test1
    \/ ClearFlag \/ DisableDevice \/ GpioIst \/ UdcProc

Interrupt == UdcIntr \/ GpioIntr
Application == AppLoads \/ AppStores

Next ==
    \/ PinMoves \/ HostActs \/ SoftConnect
    \/ Application \/ Interrupt
    \/ UdcTask \/ UpperAnswers

Spec == Init /\ [][Next]_vars

\* Pending interrupts are taken, the tasks run when they can, the upper layer answers.
Fairness ==
    /\ WF_vars(Interrupt)
    /\ WF_vars(UdcTask)
    /\ WF_vars(UpperAnswers)
    /\ WF_vars(AppStores)

FairSpec == Spec /\ Fairness

(***************************************************************************)
(* Properties.                                                             *)
(***************************************************************************)

\* Types; an interrupt handler that has posted is masked until the task has seen
\* its flag, so the count of the semaphore does not run away.
Switches ==
    /\ latched \in BOOLEAN /\ gpioMasked \in BOOLEAN
    /\ udcMasked \in BOOLEAN /\ suspendOn \in BOOLEAN
    /\ g_timeout \in BOOLEAN /\ attached \in BOOLEAN /\ early \in BOOLEAN

Registers ==
    /\ dev \in {"stopped", "started", "connected"}
    /\ bus \subseteq BusEvent
    /\ udc_irq_type \subseteq Flag /\ reg \subseteq Flag
    /\ appReg = NoRead \/ appReg \subseteq Flag

Beliefs ==
    /\ pin \in Level /\ edge \in Level /\ seen \in Level
    /\ cable_stat \in Level /\ protocool_stat \in Level
    /\ msg \in MidEvent /\ res \in {"yes", "no"}
    /\ view \in {"none", "power", "usb"}

Places == pc \in Pc /\ ret \in Pc

Types == Registers /\ Beliefs /\ Places

TypeOK == Switches /\ Types /\ udcEvent \in 0 .. MaxPosts + 3

\* An interrupt that is disabled will be enabled again: its flag is set and the
\* task will look at it, or the task is in the pass that ends with enable_irq, or
\* the device has been stopped.
Awake == udcEvent > 0 \/ pc # "pend"
In(part) == pc \in part \/ (pc \in OffPc \cup {"upper"} /\ ret \in part)
MaskedIsOwed ==
    /\ gpioMasked => ("gpio" \in udc_irq_type /\ Awake) \/ In(IstPc)
    /\ udcMasked => \/ "udc" \in udc_irq_type /\ Awake
                    \/ In(ProcPc) \/ dev = "stopped" \/ pc \in OffPc

\* The GPIO triggers in the correct status: with nothing left to do, it awaits the
\* change that the cable can make from where it is, and the cable is where the
\* driver believes it to be.
Idle == pc = "pend" /\ udcEvent = 0 /\ ~latched /\ ~gpioMasked
TriggersRight == Idle => edge = Opposite(pin) /\ cable_stat = pin

\* A pass never touches the registers of a device whose clock is stopped.
NoPassWhenStopped == pc \in {"proc", "endpoints"} => dev # "stopped"

\* The upper layer and the driver agree on who owns the LUNs: they are the host's
\* only while the upper layer believes in a USB connection, and after an unplug
\* until disable_device has given them back; and the upper layer is told of the
\* end only of a connection that it has allowed, once.
UpperAgrees ==
    /\ attached => \/ view = "usb"
                   \/ In({"powerOut", "remove"})
                   \/ pc \in OffPc /\ ret = "istEnd"
    /\ pc = "upper" /\ msg = "UNINSTALL" => view = "usb"

\* A reset or a control transfer is read by a pass, unless the device is stopped.
EventServed == \A e \in {"reset", "ep0"} : (e \in bus) ~> (e \notin bus)

(***************************************************************************)
(* The inductive invariant behind NoPassWhenStopped, for FlagsAtomic.      *)
(***************************************************************************)
MidBack == {"test20", "test10", "directPower", "powerOut", "remove", "stillIn", "endpoints",
            "answered"}

\* Where the task goes on after an answer and after disable_device.
Returns ==
    /\ pc = "upper" => ret \in MidBack
    /\ pc \in OffPc => ret \in {"clear20", "istEnd", "refused"}

\* What was loaded is what there is.
NothingOverwritten ==
    /\ appReg # NoRead => appReg = udc_irq_type /\ pc \notin StorePc
    /\ pc \in StorePc => reg = udc_irq_type

\* disable_device silences the device before it clears the flags.
Silenced ==
    /\ pc \in {"off2", "off3", "off4"} => bus = {} /\ dev # "connected"
    /\ pc \in {"off3", "off4"} => "udc" \notin udc_irq_type

\* A stopped device has no flag, and no pass.
StoppedIsQuiet ==
    dev = "stopped" =>
        /\ "udc" \notin udc_irq_type
        /\ ~In({"clear1", "store1", "proc", "suspend", "stillIn", "stillArm", "stillTell",
                "endpoints"})

FlagsInv == Returns /\ NothingOverwritten /\ Silenced /\ StoppedIsQuiet

(***************************************************************************)
(* The inductive invariant behind TypeOK, for any cable and any updates of *)
(* the flags.                                                              *)
(***************************************************************************)

\* What is stopped or being disabled has no event, until it is enabled again.
StoppedIsClear ==
    /\ dev = "stopped" => bus = {}
    /\ pc \in {"off2", "off3", "off4"} => bus = {} /\ dev # "connected"

\* The posts that can still come before anything new happens: of a change of the
\* pin, of the application, and of the device.  A pass that is not masked may be
\* interrupted, and leave what it has not read to the enable_irq at its end.
PassPc == ProcPc \ {"proc"}
LeftByPass == IF In({"ask", "answered", "refused", "ep0", "procEnd"}) THEN bus ELSE bus \ {"ep0"}
GpioDue == IF latched /\ ~gpioMasked THEN 1 ELSE 0
AppDue == IF appReg # NoRead THEN 1 ELSE 0
UdcDue ==
    IF udcMasked
    THEN IF In(PassPc) /\ LeftByPass # {} THEN 1 ELSE 0
    ELSE IF bus = {} THEN 0 ELSE IF In(PassPc) THEN 2 ELSE 1

PostsLeft ==
    /\ udcEvent \in Nat
    /\ udcEvent + GpioDue + AppDue + UdcDue <= MaxPosts + 3

PostsInv == Returns /\ StoppedIsClear /\ Switches /\ Types /\ PostsLeft

(***************************************************************************)
(* The inductive invariant behind UpperAgrees, for CableStill.             *)
(***************************************************************************)

\* The cable is in while the upper layer is asked about it, and refuses.
CableAsked ==
    /\ ~early
    /\ In({"answered", "refused"}) => pin = "in"

\* A connection is one that the upper layer has allowed, of a cable that is in;
\* the first control transfer has ended the time-out.
Allowance ==
    /\ protocool_stat = "in" =>
           /\ view = "usb" /\ cable_stat = "in"
           /\ g_timeout => pc = "ep0"
    /\ In({"ask", "answered"}) => cable_stat = "in"
    /\ pc = "upper" /\ ret = "answered" => msg = "USB_IN"
    /\ pc = "answered" /\ res = "yes" => view = "usb"

\* The driver has ended the connection before it says so.
EndedBeforeTold ==
    /\ pc = "upper" /\ msg # "USB_IN" => protocool_stat = "out"
    /\ In({"clear20", "store20", "uninstall", "directPower", "powerOut", "remove", "stillIn",
           "stillArm", "stillTell"}) => protocool_stat = "out"
    /\ In({"clear20", "store20", "uninstall"}) => view = "usb"
    /\ pc = "upper" /\ msg = "UNINSTALL" => view = "usb"

\* The LUNs are given back where a connection ends.
Ownership ==
    attached =>
        \/ protocool_stat = "in"
        \/ In({"powerOut", "remove"})
        \/ pc \in OffPc /\ ret \in {"istEnd", "clear20"}

StatusTypes == {pin, cable_stat, protocool_stat} \subseteq Level

AgreeInv == StatusTypes /\ Returns /\ CableAsked /\ Allowance /\ EndedBeforeTold /\ Ownership

(***************************************************************************)
(* With both, the inductive invariant behind TriggersRight and             *)
(* MaskedIsOwed.                                                           *)
(***************************************************************************)

\* While the interrupt is enabled and has not come, it awaits the change that the
\* cable can make, and the cable is as the driver has recorded it.
Awaited ==
    /\ ~gpioMasked /\ ~latched => edge = Opposite(pin) /\ cable_stat = pin
    /\ pc = "stillArm" /\ ~gpioMasked /\ ~latched => seen = pin

\* gpio_ist runs with the interrupt disabled, and the pin keeps still.
IstAgrees ==
    /\ "gpio" \in udc_irq_type => gpioMasked
    /\ In(IstPc) => gpioMasked /\ "gpio" \notin udc_irq_type
    /\ pc \in {"clear10", "store10"} => "gpio" \in udc_irq_type
    /\ pc \in {"arm", "rearm"} => seen = pin
    /\ In({"decide", "powerOut", "remove", "istEnd"}) => edge = Opposite(pin)
    /\ In({"powerOut", "remove", "rearm", "istEnd"}) => cable_stat = pin

\* A change of the cable is not pending when the flags are wiped: not with a
\* request of the application, and in a pass only if the cable is no longer in.
NoneWiped ==
    /\ "disable" \in udc_irq_type \/ appReg # NoRead =>
           "gpio" \notin udc_irq_type /\ (latched => gpioMasked)
    /\ pc \in OffPc /\ ret = "clear20" => "gpio" \notin udc_irq_type /\ (latched => gpioMasked)
    /\ InUdcPass /\ ("gpio" \in udc_irq_type \/ (latched /\ ~gpioMasked)) => pin # cable_stat
    /\ In({"ask", "answered", "refused"}) => cable_stat = "in"

\* A flag has its post, except while the task is about to test it anyway.
PostOwed ==
    /\ "gpio" \in udc_irq_type /\ (pc = "pend" \/ InUdcPass) => udcEvent > 0
    /\ "udc" \in udc_irq_type => udcMasked /\ ~In(ProcPc)
    /\ In(ProcPc) => udcMasked
    /\ "udc" \in udc_irq_type /\ pc = "pend" => udcEvent > 0
    /\ pc \in {"clear1", "store1"} => "udc" \in udc_irq_type
    /\ udcEvent \in Nat

CableInv ==
    FlagsInv /\ AgreeInv /\ Awaited /\ IstAgrees /\ NoneWiped /\ PostOwed /\ MaskedIsOwed
================================================================================

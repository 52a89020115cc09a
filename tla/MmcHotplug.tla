------------------------------- MODULE MmcHotplug -------------------------------
(***************************************************************************)
(* Detection of the memory card                                            *)
(* (src/soc_src/jz4755/drv/mmc/mmc_hotplug.c) and the serialised access to *)
(* it (src/soc_src/common/mmc_lib/mmc_api.c): the card-detect interrupt,   *)
(* the task it wakes, and the tasks that use the card meanwhile.           *)
(*                                                                         *)
(* Interrupts come before any task.  The clients have a lower priority     *)
(* than detect_intr_task (MMC_THREAD_PRIO 6, UDC_THREAD_PRIO 7): they run  *)
(* while it waits.                                                         *)
(***************************************************************************)
EXTENDS Integers, FiniteSets

CONSTANTS
    Client,          \* tasks that call MMC_Initialize and the MMC_*Block functions
    AloneAtFirstUse, \* no other task runs between a test of pSemMMC and its creation
    DmaHangs         \* the DMA of a transfer does not end without its card

HotplugTask == "detect_intr_task"
Task == Client \cup {HotplugTask}
NoLock == "NULL"

ASSUME HotplugAssumption ==
    /\ IsFiniteSet(Client)
    /\ HotplugTask \notin Client /\ NoLock \notin Task
    /\ {AloneAtFirstUse, DmaHangs} \subseteq BOOLEAN

VARIABLES
    quick,         \* the user is quick: a card may be out and in within a pass of the task
    faulty,        \* mmc_init_card may fail on a card that stays
    slot,          \* what the card-detect pin says: "in" or "out"
    armed,         \* the level the pin interrupts at, "none" before gpio_intr_init
    masked,        \* the interrupt is disabled
    g_card_state,
    event,         \* the count of mmc_detect_event
    seen,          \* the pin as the pass has sampled it
    identity,      \* the card in the slot: "new", being initialised ("busy"), "known"
    sd2_0,         \* the cards are addressed by block, as ours want it
    pSemMMC,       \* the lock: NoLock, or named by the task that created it
    count,         \* the counts of the locks
    pc,            \* where each task is
    job,           \* what its call does with the card: "init", "block" ("init" outside of one)
    on             \* the lock a blocked task waits for, or NoLock

pinVars == <<quick, faulty, slot, armed, masked>>
cardVars == <<identity, sd2_0>>
lockVars == <<pSemMMC, count, on>>
vars == <<pinVars, g_card_state, event, seen, cardVars, lockVars, pc, job>>

Level == {"in", "out"}
Inside == {"check", "identify", "select", "command", "transfer", "hung"}
HotplugPc == {"pend", "delay", "record", "arm", "unmask"}

Opposite(level) == IF level = "in" THEN "out" ELSE "in"

\* mmc_detect_init up to os_TaskCreate, which runs the task.
Init ==
    /\ quick \in BOOLEAN
    /\ faulty \in BOOLEAN /\ ~(quick /\ faulty)
    /\ slot \in Level
    /\ armed = "none"
    /\ masked = TRUE
    /\ g_card_state = "out"
    /\ event = 1
    /\ seen = "out"
    /\ identity = "new"
    /\ sd2_0 = FALSE
    /\ pSemMMC = NoLock
    /\ count = [t \in Task |-> 0]
    /\ pc = [t \in Task |-> IF t = HotplugTask THEN "pend" ELSE "idle"]
    /\ job = [t \in Task |-> "init"]
    /\ on = [t \in Task |-> NoLock]

InterruptPending == ~masked /\ slot = armed

HotplugWaits ==
    \/ pc[HotplugTask] = "pend" /\ event = 0
    \/ pc[HotplugTask] \in {"delay", "blocked", "identify", "select"}

\* The processor is the task's.
Runs(t) ==
    /\ ~InterruptPending
    /\ IF AloneAtFirstUse /\ \E u \in Task : pc[u] = "create"
       THEN pc[t] = "create"
       ELSE t = HotplugTask \/ HotplugWaits

Goto(t, label) == pc' = [pc EXCEPT ![t] = label]

(***************************************************************************)
(* The slot, and the interrupt.                                            *)
(***************************************************************************)

\* A pass that has seen the card is not over.
InPass == seen = "in" /\ pc[HotplugTask] \notin {"pend", "delay"}

\* The card is pulled out.  A transfer that was under way may never end.
CardLeaves ==
    /\ slot = "in" /\ ~InterruptPending
    /\ slot' = "out"
    /\ identity' = "new"
    /\ \E lost \in SUBSET {t \in Client : DmaHangs /\ pc[t] = "transfer"} :
        pc' = [t \in Task |-> IF t \in lost THEN "hung" ELSE pc[t]]
    /\ UNCHANGED <<quick, faulty, armed, masked, g_card_state, event, seen, sd2_0, lockVars, job>>

CardEnters ==
    /\ slot = "out" /\ ~InterruptPending
    /\ quick \/ ~InPass
    /\ slot' = "in"
    /\ UNCHANGED <<quick, faulty, armed, masked, g_card_state, event, seen, cardVars, lockVars, pc, job>>

\* Mutated: the state is left to the task.
DetectIntrLeaves ==
    /\ InterruptPending
    /\ masked' = TRUE
    /\ event' = 1
    /\ UNCHANGED <<quick, faulty, slot, armed, g_card_state, seen, cardVars, lockVars, pc, job>>

\* Mutated: the semaphore is not set to 0 before the post.
DetectIntrCounts ==
    /\ InterruptPending
    /\ masked' = TRUE
    /\ g_card_state' = "out"
    /\ event' = event + 1
    /\ UNCHANGED <<quick, faulty, slot, armed, seen, cardVars, lockVars, pc, job>>

\* detect_intr_handler.
DetectIntr ==
    /\ InterruptPending
    /\ masked' = TRUE
    /\ g_card_state' = "out"
    /\ event' = 1
    /\ UNCHANGED <<quick, faulty, slot, armed, seen, cardVars, lockVars, pc, job>>

\* The end of mmc_detect_init: the first level is "in", request_irq enables.
DetectInit ==
    /\ armed = "none"
    /\ pc[HotplugTask] = "delay"
    /\ armed' = "in"
    /\ masked' = FALSE
    /\ UNCHANGED <<quick, faulty, slot, g_card_state, event, seen, cardVars, lockVars, pc, job>>

(***************************************************************************)
(* detect_intr_task.                                                       *)
(***************************************************************************)
Pend ==
    /\ Runs(HotplugTask)
    /\ pc[HotplugTask] = "pend"
    /\ event > 0
    /\ event' = event - 1
    /\ Goto(HotplugTask, "delay")
    /\ UNCHANGED <<pinVars, g_card_state, seen, cardVars, lockVars, job>>

\* is_mmc_card_in.  mmc_detect_init returns before the first delay is over.
Sample ==
    /\ Runs(HotplugTask)
    /\ pc[HotplugTask] = "delay"
    /\ armed # "none"
    /\ seen' = slot
    /\ Goto(HotplugTask, "record")
    /\ UNCHANGED <<pinVars, g_card_state, event, cardVars, lockVars, job>>

\* Mutated: the card is not initialised while a client uses it.
RecordIfFree ==
    /\ Runs(HotplugTask)
    /\ pc[HotplugTask] = "record"
    /\ g_card_state' = seen
    /\ Goto(HotplugTask, IF seen = "in" /\ \A t \in Task : pc[t] \notin Inside
                         THEN "first" ELSE "arm")
    /\ UNCHANGED <<pinVars, event, seen, cardVars, lockVars, job>>

Record ==
    /\ Runs(HotplugTask)
    /\ pc[HotplugTask] = "record"
    /\ g_card_state' = seen
    /\ Goto(HotplugTask, IF seen = "in" THEN "first" ELSE "arm")
    /\ UNCHANGED <<pinVars, event, seen, cardVars, lockVars, job>>

\* Mutated: a card that has gone is not waited for.
ArmOnce ==
    /\ Runs(HotplugTask)
    /\ pc[HotplugTask] = "arm"
    /\ armed' = "out"
    /\ Goto(HotplugTask, "unmask")
    /\ UNCHANGED <<quick, faulty, slot, masked, g_card_state, event, seen, cardVars, lockVars, job>>

\* detect_intr_init: interrupt when the card is no longer as it was seen.
Arm ==
    /\ Runs(HotplugTask)
    /\ pc[HotplugTask] = "arm"
    /\ armed' = Opposite(seen)
    /\ Goto(HotplugTask, "unmask")
    /\ UNCHANGED <<quick, faulty, slot, masked, g_card_state, event, seen, cardVars, lockVars, job>>

Unmask ==
    /\ Runs(HotplugTask)
    /\ pc[HotplugTask] = "unmask"
    /\ masked' = FALSE
    /\ Goto(HotplugTask, "pend")
    /\ UNCHANGED <<quick, faulty, slot, armed, g_card_state, event, seen, cardVars, lockVars, job>>

(***************************************************************************)
(* mmc_enter and mmc_exit.  A post gives the lock to a task that waits for *)
(* it, detect_intr_task first.  There is a lock when they are called: by   *)
(* MMC_Initialize, which creates it, or for a card that detect_intr_task   *)
(* has reported, which calls MMC_Initialize before any client runs.        *)
(***************************************************************************)
Enter(t) ==
    /\ Runs(t)
    /\ pc[t] = "enter"
    /\ \/ /\ count[pSemMMC] > 0
          /\ count' = [count EXCEPT ![pSemMMC] = @ - 1]
          /\ Goto(t, "check")
          /\ UNCHANGED on
       \/ /\ count[pSemMMC] = 0
          /\ on' = [on EXCEPT ![t] = pSemMMC]
          /\ Goto(t, "blocked")
          /\ UNCHANGED count
    /\ UNCHANGED <<pinVars, g_card_state, event, seen, cardVars, pSemMMC, job>>

Waiting == {u \in Task : pc[u] = "blocked" /\ on[u] = pSemMMC}

\* Where a task goes when it has left the card.
After(t) == IF t = HotplugTask THEN "arm" ELSE "idle"

\* Mutated: the lock is posted twice.
ExitTwice(t) ==
    /\ count' = [count EXCEPT ![pSemMMC] = @ + 1]
    /\ \/ Waiting = {} /\ Goto(t, After(t))
       \/ \E u \in Waiting : pc' = [pc EXCEPT ![t] = After(t), ![u] = "check"]
    /\ job' = [job EXCEPT ![t] = "init"]
    /\ UNCHANGED <<pSemMMC, on>>

Exit(t) ==
    /\ \/ /\ Waiting = {}
          /\ count' = [count EXCEPT ![pSemMMC] = @ + 1]
          /\ Goto(t, After(t))
          /\ UNCHANGED on
       \/ \E u \in Waiting :
            /\ HotplugTask \in Waiting => u = HotplugTask
            /\ pc' = [pc EXCEPT ![t] = After(t), ![u] = "check"]
            /\ on' = [on EXCEPT ![u] = NoLock]
            /\ UNCHANGED count
    /\ job' = [job EXCEPT ![t] = "init"]
    /\ UNCHANGED pSemMMC

(***************************************************************************)
(* MMC_Initialize.                                                         *)
(***************************************************************************)

\* The modes of the card are reset before the lock is claimed, whoever uses it.
\* (The test of pSemMMC follows in this step: another task's step in between
\* finds them reset, too.)
FirstUse(t) ==
    /\ Runs(t)
    /\ pc[t] = "first"
    /\ sd2_0' = FALSE
    /\ job' = [job EXCEPT ![t] = "init"]
    /\ Goto(t, IF pSemMMC = NoLock THEN "create" ELSE "enter")
    /\ UNCHANGED <<pinVars, g_card_state, event, seen, identity, lockVars>>

\* The first call creates the lock.  (os_SemaphoreCreate finds a free event
\* control block.)
Create(t) ==
    /\ Runs(t)
    /\ pc[t] = "create"
    /\ pSemMMC' = t
    /\ count' = [count EXCEPT ![t] = 1]
    /\ Goto(t, "enter")
    /\ UNCHANGED <<pinVars, g_card_state, event, seen, cardVars, on, job>>

\* mmc_check_status, under the lock.
CheckFails(t) ==
    /\ Runs(t)
    /\ pc[t] = "check"
    /\ g_card_state = "out"
    /\ Exit(t)
    /\ UNCHANGED <<pinVars, g_card_state, event, seen, cardVars>>

BeginIdentify(t) ==
    /\ Runs(t)
    /\ pc[t] = "check" /\ job[t] = "init"
    /\ g_card_state = "in"
    /\ identity' = IF slot = "in" THEN "busy" ELSE "new"
    /\ Goto(t, "identify")
    /\ UNCHANGED <<pinVars, g_card_state, event, seen, sd2_0, lockVars, job>>

\* mmc_init_card, as far as the card's CSD: sd_unpack_csd sets the mode, but not if
\* there was an error in it, which a CRC error is not for mmc_init_card.
UnpackCsd(t) ==
    /\ ~InterruptPending
    /\ pc[t] = "identify"
    /\ identity = "busy"
    /\ sd2_0' = TRUE \/ (faulty /\ sd2_0' = sd2_0)
    /\ Goto(t, "select")
    /\ UNCHANGED <<pinVars, g_card_state, event, seen, identity, lockVars, job>>

\* mmc_init_card fails: its card has gone or does not answer.  It stays reported.
InitFails(t) ==
    /\ ~InterruptPending
    /\ pc[t] = "identify"
    /\ identity # "busy" \/ faulty
    /\ identity' = "new"
    /\ Exit(t)
    /\ UNCHANGED <<pinVars, g_card_state, event, seen, sd2_0>>

\* mmc_select_card, whose result nothing looks at.
EndIdentify(t) ==
    /\ ~InterruptPending
    /\ pc[t] = "select"
    /\ identity' = IF identity = "busy" THEN "known" ELSE identity
    /\ Exit(t)
    /\ UNCHANGED <<pinVars, g_card_state, event, seen, sd2_0>>

(***************************************************************************)
(* The clients.                                                            *)
(***************************************************************************)

\* MMC_LB_Init.
Mount(c) ==
    /\ Runs(c)
    /\ pc[c] = "idle"
    /\ Goto(c, "first")
    /\ UNCHANGED <<pinVars, g_card_state, event, seen, cardVars, lockVars, job>>

\* MMC_ReadMultiBlock and its like: the file system calls them after MMC_LB_Init,
\* read_dev_sector and write_dev_sector when they have seen a card.
Access(c) ==
    /\ Runs(c)
    /\ pc[c] = "idle"
    /\ pSemMMC # NoLock \/ g_card_state = "in"
    /\ job' = [job EXCEPT ![c] = "block"]
    /\ Goto(c, "enter")
    /\ UNCHANGED <<pinVars, g_card_state, event, seen, cardVars, lockVars>>

CheckPasses(c) ==
    /\ Runs(c)
    /\ pc[c] = "check" /\ job[c] = "block"
    /\ g_card_state = "in"
    /\ Goto(c, "command")
    /\ UNCHANGED <<pinVars, g_card_state, event, seen, cardVars, lockVars, job>>

\* The block is addressed by what sd2_0 is now.
BeginTransfer(c) ==
    /\ Runs(c)
    /\ pc[c] = "command"
    /\ Goto(c, "transfer")
    /\ UNCHANGED <<pinVars, g_card_state, event, seen, cardVars, lockVars, job>>

EndTransfer(c) ==
    /\ Runs(c)
    /\ pc[c] = "transfer"
    /\ Exit(c)
    /\ UNCHANGED <<pinVars, g_card_state, event, seen, cardVars>>

Initialize(t) ==
    \/ FirstUse(t) \/ Create(t) \/ Enter(t) \/ CheckFails(t)
    \/ BeginIdentify(t) \/ UnpackCsd(t) \/ InitFails(t) \/ EndIdentify(t)

Detect == Pend \/ Sample \/ Record \/ Arm \/ Unmask \/ Initialize(HotplugTask)

Serve(c) == Initialize(c) \/ CheckPasses(c) \/ BeginTransfer(c) \/ EndTransfer(c)

Next ==
    \/ CardLeaves \/ CardEnters
    \/ DetectInit \/ DetectIntr
    \/ Detect
    \/ \E c \in Client : Mount(c) \/ Access(c) \/ Serve(c)

Spec == Init /\ [][Next]_vars

\* Interrupts are taken, and tasks that can run do, the clients when
\* detect_intr_task waits.  Nothing forces a card to move or a client to call.
FairSpec ==
    /\ Spec
    /\ WF_vars(DetectInit) /\ WF_vars(DetectIntr) /\ WF_vars(Detect)
    /\ \A c \in Client : WF_vars(Serve(c))

(***************************************************************************)
(* Properties.                                                             *)
(***************************************************************************)

\* The types; mmc_detect_event holds at most the one post of the last interrupt
\* (the os_SemaphoreSet of detect_intr_handler).
TypeOK ==
    /\ {quick, faulty, sd2_0} \subseteq BOOLEAN
    /\ slot \in Level
    /\ armed \in Level \cup {"none"}
    /\ masked \in BOOLEAN
    /\ g_card_state \in Level
    /\ event \in {0, 1}
    /\ seen \in Level
    /\ identity \in {"new", "busy", "known"}
    /\ pSemMMC \in Task \cup {NoLock}
    /\ count \in [Task -> Nat]
    /\ pc \in [Task -> HotplugPc \cup Inside \cup {"idle", "first", "create", "enter", "blocked"}]
    /\ job \in [Task -> {"init", "block"}] /\ job[HotplugTask] = "init"
    /\ on \in [Task -> Task \cup {NoLock}]

\* One task at a time operates the card: commands of two would interleave on the
\* bus, and mmcinfo is written by MMC_Initialize and read by the others
\* (mmc_enter: "request the right of operating mmc to OS").
OneAtATime == \A t, u \in Task : pc[t] \in Inside /\ pc[u] \in Inside => t = u

\* A task that has reset the modes and not claimed the lock yet.
Clearing(t) == job[t] = "init" /\ pc[t] \in {"enter", "blocked"}

\* A call addresses a card that is reported but not initialised, or by the wrong mode,
\* only while another task waits in MMC_Initialize: detect_intr_task, for a call that
\* held the lock when it recorded the card, or a client that has reset the modes
\* without the lock.  Every call that enters when none waits finds MMC_Initialize
\* done, or no card reported.  (A card that is exchanged within the 300 ms and the
\* initialisation of a pass goes unnoticed, and every call can meet it, as it can one
\* on which mmc_init_card fails.)
UnknownOnlyWhileInitializing ==
    [][\A c \in Client :
          /\ ~quick /\ ~faulty
          /\ pc[c] = "command" /\ pc'[c] = "transfer" /\ g_card_state = "in"
          => (identity = "known" /\ sd2_0) \/ \E t \in Task \ {c} : Clearing(t)]_vars

\* A card that stays in, or out, is in the end reported so for good: the last
\* change of the pin is never missed, wherever in a pass of the task it falls
\* (mmc_check_status: "CARD IN return 1, otherwise return 0").
CardStateSettles == \A level \in Level : <>[](slot = level) => <>[](g_card_state = level)

\* A card that stays in is initialised, unless it was exchanged within a pass or
\* mmc_init_card fails; and it stays so, with its mode, once no client mounts it again.
CardIsInitialised ==
    <>[](slot = "in" /\ ~quick /\ ~faulty) =>
        /\ []<>(identity = "known")
        /\ <>[](\A c \in Client : pc[c] # "first") => <>[](identity = "known" /\ sd2_0)

(***************************************************************************)
(* The inductive invariant behind OneAtATime, for AloneAtFirstUse.         *)
(***************************************************************************)

\* While there is no lock nobody uses the card, at most one task is about to
\* create it, and a card is not reported before detect_intr_task is about to.
NoLockYet ==
    pSemMMC = NoLock =>
        /\ \A t \in Task : pc[t] \notin Inside \cup {"enter", "blocked"}
        /\ \A t, u \in Task : pc[t] = "create" /\ pc[u] = "create" => t = u
        /\ g_card_state = "in" => pc[HotplugTask] \in {"first", "create"}

\* Once there is one, it is never created again, it is free if nobody is inside
\* and taken by the one task that is, and all that are blocked wait for it.
LockHeld ==
    pSemMMC # NoLock =>
        /\ \A t \in Task : pc[t] # "create"
        /\ count[pSemMMC] = 0 <=> \E t \in Task : pc[t] \in Inside
        /\ count[pSemMMC] \in {0, 1}
        /\ \A t \in Task : pc[t] = "blocked" => on[t] = pSemMMC /\ count[pSemMMC] = 0

LockInv == TypeOK /\ OneAtATime /\ NoLockYet /\ LockHeld

(***************************************************************************)
(* With it, the inductive invariant behind UnknownOnlyWhileInitializing.   *)
(***************************************************************************)

\* A card that is being initialised is not known.
NotYetKnown == \A t \in Task : pc[t] \in {"identify", "select"} => identity # "known"

\* The card in the slot is initialised, or a client is about to have done it.
Known ==
    \/ identity = "known"
    \/ identity = "busy" /\ \E c \in Client : pc[c] \in {"identify", "select"}

\* The mode is the card's, or a client that has reset it is about to set it.
ModeIsSet ==
    \/ sd2_0
    \/ \E c \in Client :
          job[c] = "init" /\ pc[c] \in {"create", "enter", "blocked", "check", "identify"}

\* In a pass that has seen the card it is the one that the pass initialises.
PassOfTheCard ==
    /\ pc[HotplugTask] \in {"first", "create", "enter", "blocked", "check", "identify", "select"}
          => seen = "in"
    /\ pc[HotplugTask] \in {"identify", "select"} /\ slot = "in" => identity = "busy"
    /\ pc[HotplugTask] = "select" => ModeIsSet

\* A card that is still reported is the one of the last pass, and its leaving interrupts.
ReportedIsKnown ==
    g_card_state = "in" =>
        /\ seen = "in"
        /\ pc[HotplugTask] \in {"pend", "delay", "record"} => ~masked /\ armed = "out"
        /\ pc[HotplugTask] = "unmask" => armed = "out"
        /\ pc[HotplugTask] \in HotplugPc /\ slot = "in" => Known /\ ModeIsSet

KnownInv == ~quick /\ ~faulty => NotYetKnown /\ PassOfTheCard /\ ReportedIsKnown
================================================================================

---------------------------- MODULE MmcHotplugProofs ----------------------------
(***************************************************************************)
(* Proofs about MmcHotplug: whoever operates the memory card does so alone *)
(* (mmc_enter and mmc_exit of src/soc_src/common/mmc_lib/mmc_api.c), and   *)
(* after it has been initialised, for any number of tasks, when the lock   *)
(* is not created twice.                                                   *)
(***************************************************************************)
EXTENDS MmcHotplug, TLAPS

\* The steps of TypeOK, OneAtATime, NoLockYet and LockHeld that leave the lock,
\* the tasks and the reported card alone.
LEMMA QuietStep ==
    ASSUME LockInv, UNCHANGED <<lockVars, pc>>, TypeOK',
           g_card_state' \in {g_card_state, "out"}
    PROVE  LockInv'
  BY DEF LockInv, OneAtATime, NoLockYet, LockHeld, lockVars

\* A task that goes from one place outside the card to another.
LEMMA MoveOutside ==
    ASSUME LockInv, NEW t \in Task, NEW label, Goto(t, label), TypeOK',
           UNCHANGED lockVars,
           pc[t] \notin Inside \cup {"blocked"},
           label \notin Inside \cup {"blocked", "create"},
           label = "enter" => pSemMMC # NoLock,
           g_card_state' = "in" /\ pSemMMC = NoLock => pc'[HotplugTask] \in {"first", "create"}
    PROVE  LockInv'
<1>1. \A u \in Task : /\ u # t => pc'[u] = pc[u]
                      /\ u = t => pc'[u] = label
  BY DEF LockInv, TypeOK, Goto
<1>2. OneAtATime'
  BY <1>1 DEF LockInv, OneAtATime
<1>3. NoLockYet'
  BY <1>1 DEF LockInv, NoLockYet, lockVars
<1>4. LockHeld'
  <2> SUFFICES ASSUME pSemMMC # NoLock
               PROVE  LockHeld'
    BY DEF LockHeld, lockVars
  <2>1. (\E u \in Task : pc'[u] \in Inside) <=> (\E u \in Task : pc[u] \in Inside)
    BY <1>1
  <2> QED
    BY <1>1, <2>1 DEF LockInv, LockHeld, lockVars
<1> QED
  BY <1>2, <1>3, <1>4 DEF LockInv

\* A task that stays inside the card.
LEMMA MoveInside ==
    ASSUME LockInv, NEW S \in SUBSET Task, NEW label \in Inside,
           pc' = [u \in Task |-> IF u \in S THEN label ELSE pc[u]],
           \A u \in S : pc[u] \in Inside,
           TypeOK', UNCHANGED <<lockVars, g_card_state>>
    PROVE  LockInv'
<1>1. \A u \in Task : /\ u \notin S => pc'[u] = pc[u]
                      /\ u \in S => pc'[u] = label /\ pc[u] \in Inside
  OBVIOUS
<1>2. \A u \in Task : pc'[u] \in Inside <=> pc[u] \in Inside
  BY <1>1
<1>3. \A u \in Task : pc[u] \notin Inside => pc'[u] = pc[u]
  BY <1>1
<1>4. \A u \in Task : pc'[u] \notin Inside => pc'[u] = pc[u]
  BY <1>1
<1>5. "create" \notin Inside /\ "enter" \notin Inside /\ "blocked" \notin Inside /\ "first" \notin Inside
  BY DEF Inside
<1>6. OneAtATime'
  BY <1>2 DEF LockInv, OneAtATime
<1>7. NoLockYet'
  BY <1>2, <1>3, <1>4, <1>5 DEF LockInv, NoLockYet, lockVars, HotplugTask, Task
<1>8. LockHeld'
  BY <1>2, <1>3, <1>4, <1>5 DEF LockInv, LockHeld, lockVars
<1> QED
  BY <1>6, <1>7, <1>8 DEF LockInv

\* mmc_enter with the lock free: the task is inside, the lock taken.
LEMMA EnterFree ==
    ASSUME LockInv, NEW t \in Task, pc[t] = "enter", TypeOK',
           count[pSemMMC] > 0, count' = [count EXCEPT ![pSemMMC] = @ - 1],
           Goto(t, "check"), UNCHANGED <<on, pSemMMC, g_card_state>>
    PROVE  LockInv'
<1>1. pSemMMC \in Task /\ pSemMMC # NoLock
  BY DEF LockInv, NoLockYet, TypeOK
<1>2. count[pSemMMC] = 1 /\ \A u \in Task : pc[u] \notin Inside
  BY <1>1 DEF LockInv, LockHeld
<1>3. count'[pSemMMC] = 0
  BY <1>1, <1>2 DEF LockInv, TypeOK
<1>4. \A u \in Task : /\ u # t => pc'[u] = pc[u]
                      /\ u = t => pc'[u] = "check"
  BY DEF LockInv, TypeOK, Goto
<1>5. OneAtATime'
  BY <1>2, <1>4 DEF OneAtATime
<1>6. NoLockYet'
  BY <1>1 DEF NoLockYet
<1>7. LockHeld'
  BY <1>1, <1>2, <1>3, <1>4 DEF LockInv, LockHeld, Inside
<1> QED
  BY <1>5, <1>6, <1>7 DEF LockInv

\* mmc_enter with the lock taken: the task waits for it.
LEMMA EnterTaken ==
    ASSUME LockInv, NEW t \in Task, pc[t] = "enter", TypeOK',
           count[pSemMMC] = 0, on' = [on EXCEPT ![t] = pSemMMC],
           Goto(t, "blocked"), UNCHANGED <<count, pSemMMC, g_card_state>>
    PROVE  LockInv'
<1>1. pSemMMC \in Task /\ pSemMMC # NoLock
  BY DEF LockInv, NoLockYet, TypeOK
<1>2. \A u \in Task : /\ u # t => pc'[u] = pc[u] /\ on'[u] = on[u]
                      /\ u = t => pc'[u] = "blocked" /\ on'[u] = pSemMMC
  BY DEF LockInv, TypeOK, Goto
<1>3. OneAtATime'
  BY <1>2 DEF LockInv, OneAtATime, Inside
<1>4. NoLockYet'
  BY <1>1 DEF NoLockYet
<1>5. (\E u \in Task : pc'[u] \in Inside) <=> (\E u \in Task : pc[u] \in Inside)
  BY <1>2 DEF Inside
<1>6. LockHeld'
  BY <1>1, <1>2, <1>5 DEF LockInv, LockHeld
<1> QED
  BY <1>3, <1>4, <1>6 DEF LockInv

\* mmc_exit: the task leaves, and the lock is free or with one that waited.
LEMMA ExitStep ==
    ASSUME LockInv, NEW t \in Task, pc[t] \in Inside, Exit(t), TypeOK',
           UNCHANGED g_card_state
    PROVE  LockInv'
<1>1. pSemMMC \in Task /\ pSemMMC # NoLock
  BY DEF LockInv, NoLockYet, TypeOK
<1>2. /\ count[pSemMMC] = 0
      /\ \A u \in Task : pc[u] \in Inside => u = t
  BY <1>1 DEF LockInv, LockHeld, OneAtATime
<1>3. After(t) \notin Inside \cup {"create", "blocked"}
  BY DEF After, Inside
<1>4. UNCHANGED pSemMMC
  BY DEF Exit
<1>5. NoLockYet'
  BY <1>1, <1>4 DEF NoLockYet
<1>6. CASE /\ Waiting = {}
           /\ count' = [count EXCEPT ![pSemMMC] = @ + 1]
           /\ Goto(t, After(t))
           /\ UNCHANGED on
  <2>1. \A u \in Task : /\ u # t => pc'[u] = pc[u]
                        /\ u = t => pc'[u] = After(t)
    BY <1>6 DEF LockInv, TypeOK, Goto
  <2>2. \A u \in Task : pc'[u] \notin Inside
    BY <1>2, <1>3, <2>1
  <2>3. count'[pSemMMC] = 1
    BY <1>1, <1>2, <1>6 DEF LockInv, TypeOK
  <2>4. \A u \in Task : pc[u] # "blocked"
    BY <1>1, <1>6 DEF LockInv, LockHeld, Waiting
  <2>5. OneAtATime'
    BY <2>2 DEF OneAtATime
  <2>6. LockHeld'
    BY <1>1, <1>3, <1>4, <2>1, <2>2, <2>3, <2>4 DEF LockInv, LockHeld
  <2> QED
    BY <1>5, <2>5, <2>6 DEF LockInv
<1>7. CASE \E u \in Waiting : /\ pc' = [pc EXCEPT ![t] = After(t), ![u] = "check"]
                              /\ on' = [on EXCEPT ![u] = NoLock]
                              /\ UNCHANGED count
  <2>1. PICK w \in Waiting : /\ pc' = [pc EXCEPT ![t] = After(t), ![w] = "check"]
                             /\ on' = [on EXCEPT ![w] = NoLock]
                             /\ UNCHANGED count
    BY <1>7
  <2>2. w \in Task /\ w # t
    BY <2>1 DEF Waiting, Inside
  <2>3. \A u \in Task : /\ u \notin {t, w} => pc'[u] = pc[u] /\ on'[u] = on[u]
                        /\ u = t => pc'[u] = After(t)
                        /\ u = w => pc'[u] = "check"
    BY <2>1, <2>2 DEF LockInv, TypeOK
  <2>4. \A u \in Task : pc'[u] \in Inside <=> u = w
    BY <1>2, <1>3, <2>2, <2>3 DEF Inside
  <2>5. OneAtATime'
    BY <2>4 DEF OneAtATime
  <2>6. LockHeld'
    BY <1>1, <1>2, <1>3, <1>4, <2>1, <2>2, <2>3, <2>4 DEF LockInv, LockHeld, Inside
  <2> QED
    BY <1>5, <2>5, <2>6 DEF LockInv
<1> QED
  BY <1>6, <1>7 DEF Exit

\* Creation of the lock, by the one task that is about to.
LEMMA CreateStep ==
    ASSUME LockInv, NEW t \in Task, pc[t] = "create", TypeOK',
           pSemMMC' = t, count' = [count EXCEPT ![t] = 1], Goto(t, "enter"),
           UNCHANGED on
    PROVE  LockInv'
<1> USE HotplugAssumption
<1>1. pSemMMC = NoLock /\ t # NoLock
  BY DEF LockInv, LockHeld
<1>2. \A u \in Task : /\ u # t => pc'[u] = pc[u]
                      /\ u = t => pc'[u] = "enter"
  BY DEF LockInv, TypeOK, Goto
<1>3. \A u \in Task : pc'[u] \notin Inside \cup {"blocked", "create"}
  BY <1>1, <1>2 DEF LockInv, NoLockYet, Inside
<1>4. count'[t] = 1
  BY DEF LockInv, TypeOK
<1>5. OneAtATime'
  BY <1>3 DEF OneAtATime
<1>6. NoLockYet' /\ LockHeld'
  BY <1>1, <1>3, <1>4 DEF NoLockYet, LockHeld
<1> QED
  BY <1>5, <1>6 DEF LockInv

\* The test of pSemMMC that finds none: no other task is about to create it.
LEMMA FirstUseStep ==
    ASSUME LockInv, AloneAtFirstUse, NEW t \in Task, pc[t] = "first", Runs(t), TypeOK',
           pSemMMC = NoLock, Goto(t, "create"), UNCHANGED <<lockVars, g_card_state>>
    PROVE  LockInv'
<1>1. \A u \in Task : /\ u # t => pc'[u] = pc[u]
                      /\ u = t => pc'[u] = "create"
  BY DEF LockInv, TypeOK, Goto
<1>2. \A u \in Task : pc[u] # "create"
  BY DEF Runs
<1>3. \A u \in Task : pc'[u] \notin Inside \cup {"enter", "blocked"}
  BY <1>1 DEF LockInv, NoLockYet, Inside
<1>4. OneAtATime'
  BY <1>3 DEF OneAtATime
<1>5. NoLockYet'
  BY <1>1, <1>2, <1>3 DEF LockInv, NoLockYet, Task
<1>6. LockHeld'
  BY DEF LockHeld, lockVars
<1> QED
  BY <1>4, <1>5, <1>6 DEF LockInv

\* The steps of MMC_Initialize keep the types.
LEMMA InitializeTypes ==
    ASSUME TypeOK, NEW t \in Task, Initialize(t) \/ (t \in Client /\ EndTransfer(t))
    PROVE  TypeOK'
<1> USE DEF TypeOK, HotplugPc, Inside, Level, lockVars, pinVars, cardVars
<1>1. CASE FirstUse(t)
  <2>1. job' \in [Task -> {"init", "block"}] /\ job'[HotplugTask] = "init"
    BY <1>1 DEF FirstUse, Task
  <2>2. pc' \in [Task -> HotplugPc \cup Inside \cup {"idle", "first", "create", "enter", "blocked"}]
    BY <1>1 DEF FirstUse, Goto
  <2> QED
    BY <1>1, <2>1, <2>2 DEF FirstUse
<1>2. CASE Create(t)
  BY <1>2 DEF Create, Goto
<1>3. CASE Enter(t)
  <2>1. pSemMMC \in Task => count[pSemMMC] \in Nat
    OBVIOUS
  <2>2. CASE /\ count[pSemMMC] > 0
             /\ count' = [count EXCEPT ![pSemMMC] = @ - 1]
             /\ Goto(t, "check")
             /\ UNCHANGED on
    <3>1. CASE pSemMMC \in Task
      <4>1. count[pSemMMC] - 1 \in Nat
        BY <2>1, <2>2, <3>1
      <4> QED
        BY <1>3, <2>2, <4>1 DEF Enter, Goto
    <3>2. CASE pSemMMC \notin Task
      <4>1. count' = count
        BY <2>2, <3>2
      <4> QED
        BY <1>3, <2>2, <4>1 DEF Enter, Goto
    <3> QED
      BY <3>1, <3>2
  <2>3. CASE /\ on' = [on EXCEPT ![t] = pSemMMC]
             /\ Goto(t, "blocked")
             /\ UNCHANGED count
    BY <1>3, <2>3 DEF Enter, Goto
  <2> QED
    BY <1>3, <2>2, <2>3 DEF Enter
<1>4. ASSUME Exit(t)
      PROVE  /\ count' \in [Task -> Nat]
             /\ pc' \in [Task -> HotplugPc \cup Inside \cup {"idle", "first", "create", "enter", "blocked"}]
             /\ job' \in [Task -> {"init", "block"}] /\ job'[HotplugTask] = "init"
             /\ on' \in [Task -> Task \cup {NoLock}]
             /\ UNCHANGED pSemMMC
  <2>1. After(t) \in {"arm", "idle"}
    BY DEF After
  <2>2. \A u \in Waiting : u \in Task
    BY DEF Waiting
  <2>3. job' \in [Task -> {"init", "block"}] /\ job'[HotplugTask] = "init"
    BY <1>4 DEF Exit, Task
  <2>4. CASE /\ count' = [count EXCEPT ![pSemMMC] = @ + 1]
             /\ Goto(t, After(t))
             /\ UNCHANGED on
    <3>1. CASE pSemMMC \in Task
      <4>1. count[pSemMMC] + 1 \in Nat
        BY <3>1
      <4> QED
        BY <1>4, <2>1, <2>4, <2>3, <4>1 DEF Goto, Exit
    <3>2. CASE pSemMMC \notin Task
      <4>1. count' = count
        BY <2>4, <3>2
      <4> QED
        BY <1>4, <2>1, <2>4, <2>3, <4>1 DEF Goto, Exit
    <3> QED
      BY <3>1, <3>2
  <2>5. CASE \E u \in Waiting : /\ pc' = [pc EXCEPT ![t] = After(t), ![u] = "check"]
                                /\ on' = [on EXCEPT ![u] = NoLock]
                                /\ UNCHANGED count
    BY <1>4, <2>1, <2>2, <2>5, <2>3 DEF Exit
  <2> QED
    BY <1>4, <2>4, <2>5 DEF Exit
<1>5. CASE CheckFails(t)
  BY <1>4, <1>5 DEF CheckFails
<1>6. CASE BeginIdentify(t)
  BY <1>6 DEF BeginIdentify, Goto
<1>7. CASE InitFails(t) \/ EndIdentify(t)
  BY <1>4, <1>7 DEF InitFails, EndIdentify
<1>8. CASE UnpackCsd(t)
  BY <1>8 DEF UnpackCsd, Goto
<1>9. CASE t \in Client /\ EndTransfer(t)
  BY <1>4, <1>9 DEF EndTransfer
<1> QED
  BY <1>1, <1>2, <1>3, <1>5, <1>6, <1>7, <1>8, <1>9 DEF Initialize

\* Every step keeps the types.
LEMMA StepTypes == TypeOK /\ [Next]_vars => TypeOK'
<1> SUFFICES ASSUME TypeOK, [Next]_vars PROVE TypeOK'
  OBVIOUS
<1> USE DEF TypeOK, HotplugPc, Inside, Level, lockVars, pinVars, cardVars, Goto
<1>1. HotplugTask \in Task /\ HotplugTask \notin Client /\ Client \subseteq Task
  BY HotplugAssumption DEF Task
<1>2. CASE CardLeaves
  BY <1>2 DEF CardLeaves
<1>3. CASE CardEnters
  BY <1>3 DEF CardEnters
<1>4. CASE DetectInit
  BY <1>4 DEF DetectInit
<1>5. CASE DetectIntr
  BY <1>5 DEF DetectIntr
<1>6. CASE Pend
  BY <1>1, <1>6 DEF Pend
<1>7. CASE Sample
  BY <1>1, <1>7 DEF Sample
<1>8. CASE Record
  BY <1>1, <1>8 DEF Record
<1>9. CASE Arm
  BY <1>1, <1>9 DEF Arm, Opposite
<1>10. CASE Unmask
  BY <1>1, <1>10 DEF Unmask
<1>11. ASSUME NEW c \in Client, Mount(c) \/ Access(c) \/ CheckPasses(c) \/ BeginTransfer(c) PROVE TypeOK'
  BY <1>1, <1>11 DEF Mount, Access, CheckPasses, BeginTransfer
<1>12. ASSUME NEW t \in Task, Initialize(t) \/ (t \in Client /\ EndTransfer(t)) PROVE TypeOK'
  BY <1>12, InitializeTypes
<1>13. CASE UNCHANGED vars
  BY <1>13 DEF vars
<1> QED
  BY <1>1, <1>2, <1>3, <1>4, <1>5, <1>6, <1>7, <1>8, <1>9, <1>10, <1>11, <1>12, <1>13
     DEF Next, Detect, Serve

\* Every step keeps the invariant, as long as no other task runs between a test of
\* pSemMMC and its creation.
LEMMA LockStep == AloneAtFirstUse /\ LockInv /\ [Next]_vars => LockInv'
<1> SUFFICES ASSUME AloneAtFirstUse, LockInv, [Next]_vars PROVE LockInv'
  OBVIOUS
<1> USE HotplugAssumption
<1>1. TypeOK'
  BY StepTypes DEF LockInv
<1>2. HotplugTask \in Task /\ Client \subseteq Task /\ HotplugTask \notin Client
  BY DEF Task
<1>3. \A t \in Task : pc[t] \in {"enter", "blocked"} \cup Inside => pSemMMC # NoLock
  BY DEF LockInv, NoLockYet
<1>4. CASE CardLeaves
  <2>1. PICK lost \in SUBSET {t \in Client : DmaHangs /\ pc[t] = "transfer"} :
           pc' = [t \in Task |-> IF t \in lost THEN "hung" ELSE pc[t]]
    BY <1>4 DEF CardLeaves
  <2>2. lost \in SUBSET Task /\ (\A u \in lost : pc[u] \in Inside) /\ "hung" \in Inside
    BY <1>2, <2>1 DEF Inside
  <2> QED
    BY <1>1, <1>4, <2>1, <2>2, MoveInside DEF CardLeaves
<1>5. CASE CardEnters \/ DetectInit
  BY <1>1, <1>5, QuietStep DEF CardEnters, DetectInit
<1>6. CASE DetectIntr
  BY <1>1, <1>6, QuietStep DEF DetectIntr
<1>7. CASE Pend
  <2>1. ~(g_card_state = "in" /\ pSemMMC = NoLock)
    BY <1>7 DEF Pend, LockInv, NoLockYet
  <2> QED
    BY <1>1, <1>2, <1>7, <2>1, MoveOutside DEF Pend, Inside, lockVars
<1>8. CASE Sample
  <2>1. ~(g_card_state = "in" /\ pSemMMC = NoLock)
    BY <1>8 DEF Sample, LockInv, NoLockYet
  <2> QED
    BY <1>1, <1>2, <1>8, <2>1, MoveOutside DEF Sample, Inside, lockVars
<1>9. CASE Record
  <2>1. pc'[HotplugTask] = IF seen = "in" THEN "first" ELSE "arm"
    BY <1>2, <1>9 DEF Record, Goto, LockInv, TypeOK
  <2> QED
    BY <1>1, <1>2, <1>9, <2>1, MoveOutside DEF Record, Inside
<1>10. CASE Arm
  <2>1. ~(g_card_state = "in" /\ pSemMMC = NoLock)
    BY <1>10 DEF Arm, LockInv, NoLockYet
  <2> QED
    BY <1>1, <1>2, <1>10, <2>1, MoveOutside DEF Arm, Inside, lockVars
<1>11. CASE Unmask
  <2>1. ~(g_card_state = "in" /\ pSemMMC = NoLock)
    BY <1>11 DEF Unmask, LockInv, NoLockYet
  <2> QED
    BY <1>1, <1>2, <1>11, <2>1, MoveOutside DEF Unmask, Inside, lockVars
<1>12. ASSUME NEW t \in Task, FirstUse(t) PROVE LockInv'
  <2>1. CASE pSemMMC = NoLock
    BY <1>1, <1>12, <2>1, FirstUseStep DEF FirstUse
  <2>2. CASE pSemMMC # NoLock
    BY <1>1, <1>12, <2>2, MoveOutside DEF FirstUse, Inside, lockVars
  <2> QED
    BY <2>1, <2>2
<1>13. ASSUME NEW t \in Task, Create(t) PROVE LockInv'
  BY <1>1, <1>13, CreateStep DEF Create
<1>14. ASSUME NEW t \in Task, Enter(t) PROVE LockInv'
  BY <1>1, <1>14, EnterFree, EnterTaken DEF Enter
<1>15. ASSUME NEW t \in Task, CheckFails(t) \/ InitFails(t) \/ EndIdentify(t) PROVE LockInv'
  BY <1>1, <1>15, ExitStep DEF CheckFails, InitFails, EndIdentify, Inside
<1>16. ASSUME NEW t \in Task, NEW label \in Inside, Goto(t, label), pc[t] \in Inside,
              UNCHANGED <<lockVars, g_card_state>>
       PROVE  LockInv'
  <2>1. pc' = [u \in Task |-> IF u \in {t} THEN label ELSE pc[u]]
    BY <1>16 DEF Goto, LockInv, TypeOK
  <2>2. {t} \in SUBSET Task /\ \A u \in {t} : pc[u] \in Inside
    BY <1>16
  <2> QED
    BY <1>1, <1>16, <2>1, <2>2, MoveInside
<1>17. ASSUME NEW t \in Task, BeginIdentify(t) \/ UnpackCsd(t) PROVE LockInv'
  BY <1>16, <1>17 DEF BeginIdentify, UnpackCsd, Inside
<1>18. ASSUME NEW c \in Client, CheckPasses(c) \/ BeginTransfer(c) PROVE LockInv'
  BY <1>2, <1>16, <1>18 DEF CheckPasses, BeginTransfer, Inside
<1>19. ASSUME NEW c \in Client, EndTransfer(c) PROVE LockInv'
  BY <1>1, <1>2, <1>19, ExitStep DEF EndTransfer, Inside
<1>20. ASSUME NEW c \in Client, Mount(c) PROVE LockInv'
  <2>1. pc'[HotplugTask] = pc[HotplugTask]
    BY <1>2, <1>20 DEF Mount, Goto, LockInv, TypeOK
  <2>2. g_card_state = "in" /\ pSemMMC = NoLock => pc[HotplugTask] \in {"first", "create"}
    BY DEF LockInv, NoLockYet
  <2> QED
    BY <1>1, <1>2, <1>20, <2>1, <2>2, MoveOutside DEF Mount, Inside, lockVars
<1>21. ASSUME NEW c \in Client, Access(c) PROVE LockInv'
  <2>1. pSemMMC # NoLock
    <3>1. pc[c] = "idle" /\ Runs(c) /\ (pSemMMC # NoLock \/ g_card_state = "in")
      BY <1>21 DEF Access
    <3>2. HotplugWaits
      BY <1>2, <3>1 DEF Runs
    <3>3. pc[HotplugTask] \notin {"first", "create"}
      BY <3>2 DEF HotplugWaits
    <3> QED
      BY <3>1, <3>3 DEF LockInv, NoLockYet
  <2> QED
    BY <1>1, <1>2, <1>21, <2>1, MoveOutside DEF Access, Inside, lockVars
<1>22. CASE UNCHANGED vars
  BY <1>1, <1>22, QuietStep DEF vars
<1> QED
  BY <1>2, <1>4, <1>5, <1>6, <1>7, <1>8, <1>9, <1>10, <1>11, <1>12, <1>13, <1>14, <1>15,
     <1>17, <1>18, <1>19, <1>20, <1>21, <1>22 DEF Next, Detect, Serve, Initialize

\* Initially there is no lock and no card is reported.
LEMMA InitLock == Init => LockInv
<1> SUFFICES ASSUME Init PROVE LockInv
  OBVIOUS
<1>1. TypeOK
  BY DEF Init, TypeOK, Level, HotplugPc, Inside, Task
<1>2. \A t \in Task : pc[t] \in {"pend", "idle"}
  BY DEF Init
<1>3. OneAtATime /\ NoLockYet /\ LockHeld
  BY <1>2 DEF Init, OneAtATime, NoLockYet, LockHeld, Inside
<1> QED
  BY <1>1, <1>3 DEF LockInv

\* mmc_exit moves the task that leaves, and maybe one that waited to the check.
LEMMA ExitMoves ==
    ASSUME TypeOK, NEW t \in Task, pc[t] \in Inside, Exit(t)
    PROVE  /\ pc'[t] = After(t)
           /\ \A u \in Task \ {t} :
                 pc'[u] = pc[u] \/ (pc[u] = "blocked" /\ pc'[u] = "check")
<1>1. CASE Goto(t, After(t))
  BY <1>1 DEF TypeOK, Goto
<1>2. CASE \E u \in Waiting : pc' = [pc EXCEPT ![t] = After(t), ![u] = "check"]
  <2>1. PICK w \in Waiting : pc' = [pc EXCEPT ![t] = After(t), ![w] = "check"]
    BY <1>2
  <2>2. w \in Task /\ w # t /\ pc[w] = "blocked"
    BY <2>1 DEF Waiting, Inside
  <2> QED
    BY <2>1, <2>2 DEF TypeOK
<1> QED
  BY <1>1, <1>2 DEF Exit

\* A step of a client that neither begins nor ends an initialisation of the card,
\* and moves detect_intr_task at most from its wait for the lock to the check.  If it
\* resets the modes it is going to claim the lock.
LEMMA ClientStep ==
    ASSUME KnownInv, TypeOK, NEW c \in Client,
           UNCHANGED <<pinVars, g_card_state, seen, identity>>,
           pc[c] \notin {"identify", "select"}, pc'[c] \notin {"identify", "select"},
           \A u \in Task \ {c} :
              /\ pc'[u] = pc[u] \/ (pc[u] = "blocked" /\ pc'[u] = "check")
              /\ job'[u] = job[u],
           ModeIsSet => ModeIsSet' \/ g_card_state = "out",
           pc[HotplugTask] = "select" /\ ModeIsSet => ModeIsSet'
    PROVE  KnownInv'
<1> SUFFICES ASSUME ~quick, ~faulty PROVE NotYetKnown' /\ PassOfTheCard' /\ ReportedIsKnown'
  BY DEF KnownInv, pinVars
<1>1. HotplugTask \in Task \ {c} /\ c \in Task /\ Client \subseteq Task
  BY HotplugAssumption DEF Task
<1>2. pc'[HotplugTask] = pc[HotplugTask] \/ (pc[HotplugTask] = "blocked" /\ pc'[HotplugTask] = "check")
  BY <1>1
<1>3. NotYetKnown /\ PassOfTheCard /\ ReportedIsKnown
  BY DEF KnownInv
<1>4. NotYetKnown'
  BY <1>1, <1>3 DEF NotYetKnown
<1>5. PassOfTheCard'
  BY <1>2, <1>3 DEF PassOfTheCard, pinVars
<1>6. \A d \in Client : pc[d] \in {"identify", "select"} => pc'[d] \in {"identify", "select"}
  BY <1>1
<1>7. Known => Known'
  BY <1>6 DEF Known
<1> QED
  BY <1>2, <1>3, <1>4, <1>5, <1>7 DEF ReportedIsKnown, HotplugPc, pinVars

\* What the mode owes to the clients stays when none of them moves.
LEMMA ModeStays ==
    ASSUME \A c \in Client : pc'[c] = pc[c] /\ job'[c] = job[c],
           sd2_0 => sd2_0', ModeIsSet
    PROVE  ModeIsSet'
  BY DEF ModeIsSet

\* The steps of detect_intr_task around MMC_Initialize.
LEMMA DetectStep ==
    ASSUME KnownInv, TypeOK, Pend \/ Sample \/ Record \/ Arm \/ Unmask
    PROVE  KnownInv'
<1> SUFFICES ASSUME ~quick, ~faulty PROVE NotYetKnown' /\ PassOfTheCard' /\ ReportedIsKnown'
  BY DEF KnownInv, pinVars, Pend, Sample, Record, Arm, Unmask
<1>1. HotplugTask \in Task /\ HotplugTask \notin Client /\ Client \subseteq Task
  BY HotplugAssumption DEF Task
<1>2. NotYetKnown /\ PassOfTheCard /\ ReportedIsKnown
  BY DEF KnownInv
<1>3. ASSUME NEW label, Goto(HotplugTask, label)
      PROVE  /\ pc'[HotplugTask] = label
             /\ \A c \in Client : pc'[c] = pc[c]
  BY <1>1, <1>3 DEF TypeOK, Goto
<1>4. ASSUME NEW label \in HotplugPc \cup {"first"}, Goto(HotplugTask, label),
             UNCHANGED <<cardVars, job>>
      PROVE  NotYetKnown' /\ (Known /\ ModeIsSet => Known' /\ ModeIsSet')
  <2>1. UNCHANGED identity /\ UNCHANGED sd2_0 /\ UNCHANGED job
    BY <1>4 DEF cardVars
  <2>2. NotYetKnown'
    BY <1>1, <1>2, <1>3, <1>4, <2>1 DEF NotYetKnown, HotplugPc, Task
  <2>3. Known => Known'
    BY <1>3, <1>4, <2>1 DEF Known
  <2>4. ModeIsSet => ModeIsSet'
    BY <1>3, <1>4, <2>1, ModeStays
  <2> QED
    BY <2>2, <2>3, <2>4
<1>5. CASE Pend
  <2>1. pc[HotplugTask] = "pend" /\ pc'[HotplugTask] = "delay" /\ NotYetKnown' /\ (Known /\ ModeIsSet => Known' /\ ModeIsSet')
    BY <1>3, <1>4, <1>5 DEF Pend, HotplugPc
  <2> QED
    BY <1>2, <1>5, <2>1 DEF Pend, PassOfTheCard, ReportedIsKnown, HotplugPc, pinVars
<1>6. CASE Sample
  <2>1. pc[HotplugTask] = "delay" /\ pc'[HotplugTask] = "record" /\ NotYetKnown' /\ (Known /\ ModeIsSet => Known' /\ ModeIsSet')
    BY <1>3, <1>4, <1>6 DEF Sample, HotplugPc
  <2>2. g_card_state = "in" => seen' = "in"
    BY <1>2, <1>6, <2>1 DEF Sample, Runs, InterruptPending, ReportedIsKnown, TypeOK, Level
  <2> QED
    BY <1>2, <1>6, <2>1, <2>2 DEF Sample, PassOfTheCard, ReportedIsKnown, HotplugPc, pinVars
<1>7. CASE Record
  <2>1. pc'[HotplugTask] = (IF seen = "in" THEN "first" ELSE "arm") /\ NotYetKnown'
    BY <1>3, <1>4, <1>7 DEF Record, HotplugPc
  <2> QED
    BY <1>7, <2>1 DEF Record, PassOfTheCard, ReportedIsKnown, HotplugPc
<1>8. CASE Arm
  <2>1. pc[HotplugTask] = "arm" /\ pc'[HotplugTask] = "unmask" /\ NotYetKnown' /\ (Known /\ ModeIsSet => Known' /\ ModeIsSet')
    BY <1>3, <1>4, <1>8 DEF Arm, HotplugPc
  <2> QED
    BY <1>2, <1>8, <2>1 DEF Arm, Opposite, PassOfTheCard, ReportedIsKnown, HotplugPc
<1>9. CASE Unmask
  <2>1. pc[HotplugTask] = "unmask" /\ pc'[HotplugTask] = "pend"
    BY <1>3, <1>9 DEF Unmask
  <2>2. masked' = FALSE /\ NotYetKnown' /\ (Known /\ ModeIsSet => Known' /\ ModeIsSet')
    BY <1>4, <1>9 DEF Unmask, HotplugPc
  <2> QED
    BY <1>2, <1>9, <2>1, <2>2 DEF Unmask, PassOfTheCard, ReportedIsKnown, HotplugPc
<1> QED
  BY <1>5, <1>6, <1>7, <1>8, <1>9

\* The steps of MMC_Initialize in detect_intr_task.
LEMMA DetectInitializes ==
    ASSUME KnownInv, LockInv, Initialize(HotplugTask)
    PROVE  KnownInv'
<1> SUFFICES ASSUME ~quick, ~faulty PROVE NotYetKnown' /\ PassOfTheCard' /\ ReportedIsKnown'
  BY DEF KnownInv, pinVars, Initialize, FirstUse, Create, Enter, CheckFails, BeginIdentify,
         UnpackCsd, InitFails, EndIdentify
<1> DEFINE H == HotplugTask
<1>1. H \in Task /\ H \notin Client /\ Client \subseteq Task /\ TypeOK
  BY HotplugAssumption DEF Task, LockInv
<1>2. NotYetKnown /\ PassOfTheCard /\ ReportedIsKnown
  BY DEF KnownInv
<1>3. ASSUME NEW label, Goto(H, label)
      PROVE  /\ pc'[H] = label
             /\ \A u \in Task \ {H} : pc'[u] = pc[u]
  BY <1>1, <1>3 DEF TypeOK, Goto
<1>4. ASSUME pc[H] \in Inside, Exit(H)
      PROVE  /\ pc'[H] = "arm"
             /\ \A u \in Task : pc'[u] \notin {"identify", "select"}
             /\ \A c \in Client : /\ job'[c] = job[c]
                                  /\ pc'[c] = pc[c] \/ (pc[c] = "blocked" /\ pc'[c] = "check")
  <2>1. \A u \in Task \ {H} : pc[u] \notin Inside
    BY <1>1, <1>4 DEF LockInv, OneAtATime
  <2>2. /\ pc'[H] = "arm"
        /\ \A u \in Task \ {H} : pc'[u] = pc[u] \/ (pc[u] = "blocked" /\ pc'[u] = "check")
    BY <1>1, <1>4, ExitMoves DEF After
  <2>3. \A c \in Client : job'[c] = job[c]
    BY <1>1, <1>4 DEF Exit, TypeOK
  <2> QED
    BY <1>1, <2>1, <2>2, <2>3 DEF Inside
<1>5. CASE FirstUse(H) \/ Create(H) \/ Enter(H)
  <2>1. /\ pc[H] \in {"first", "create", "enter"}
        /\ pc'[H] \in {"create", "enter", "check", "blocked"}
        /\ \A u \in Task \ {H} : pc'[u] = pc[u]
        /\ UNCHANGED <<pinVars, g_card_state, seen, identity>>
    BY <1>1, <1>3, <1>5 DEF FirstUse, Create, Enter, cardVars
  <2>2. NotYetKnown'
    BY <1>2, <2>1 DEF NotYetKnown
  <2> QED
    BY <1>2, <2>1, <2>2 DEF PassOfTheCard, ReportedIsKnown, HotplugPc
<1>6. CASE CheckFails(H)
  <2>1. pc'[H] = "arm" /\ NotYetKnown'
    BY <1>4, <1>6 DEF CheckFails, Inside, NotYetKnown
  <2> QED
    BY <1>6, <2>1 DEF CheckFails, PassOfTheCard, ReportedIsKnown
<1>7. CASE BeginIdentify(H)
  <2>1. pc[H] = "check" /\ pc'[H] = "identify" /\ identity' = IF slot = "in" THEN "busy" ELSE "new"
    BY <1>3, <1>7 DEF BeginIdentify
  <2>2. NotYetKnown'
    BY <2>1 DEF NotYetKnown
  <2> QED
    BY <1>2, <1>7, <2>1, <2>2 DEF BeginIdentify, PassOfTheCard, ReportedIsKnown, HotplugPc, pinVars
<1>8. CASE UnpackCsd(H)
  <2>1. /\ pc[H] = "identify" /\ pc'[H] = "select"
        /\ \A u \in Task \ {H} : pc'[u] = pc[u]
        /\ sd2_0' = TRUE /\ identity' = "busy"
        /\ UNCHANGED <<pinVars, g_card_state, seen>>
    BY <1>3, <1>8 DEF UnpackCsd
  <2>2. NotYetKnown' /\ ModeIsSet'
    BY <1>2, <2>1 DEF NotYetKnown, ModeIsSet
  <2> QED
    BY <1>2, <2>1, <2>2 DEF PassOfTheCard, ReportedIsKnown, HotplugPc, pinVars
<1>9. CASE InitFails(H)
  <2>1. pc[H] = "identify" /\ pc'[H] = "arm" /\ NotYetKnown'
    BY <1>4, <1>9 DEF InitFails, Inside, NotYetKnown
  <2>2. slot # "in"
    BY <1>2, <1>9, <2>1 DEF InitFails, PassOfTheCard
  <2> QED
    BY <1>2, <1>9, <2>1, <2>2 DEF InitFails, PassOfTheCard, ReportedIsKnown, pinVars
<1>10. CASE EndIdentify(H)
  <2>1. pc[H] = "select" /\ pc'[H] = "arm" /\ NotYetKnown'
    BY <1>4, <1>10 DEF EndIdentify, Inside, NotYetKnown
  <2>2. slot = "in" => Known'
    BY <1>2, <1>10, <2>1 DEF EndIdentify, PassOfTheCard, Known
  <2>3. ModeIsSet
    BY <1>2, <2>1 DEF PassOfTheCard
  <2>4. ModeIsSet'
    BY <1>4, <1>10, <2>3 DEF EndIdentify, Inside, ModeIsSet
  <2> QED
    BY <1>2, <1>10, <2>1, <2>2, <2>4 DEF EndIdentify, PassOfTheCard, ReportedIsKnown, pinVars
<1> QED
  BY <1>5, <1>6, <1>7, <1>8, <1>9, <1>10 DEF Initialize

\* The initialisation of the card by a client: detect_intr_task is not at it too.
LEMMA ClientInitializes ==
    ASSUME KnownInv, LockInv, NEW c \in Client,
           BeginIdentify(c) \/ UnpackCsd(c) \/ InitFails(c) \/ EndIdentify(c)
    PROVE  KnownInv'
<1> SUFFICES ASSUME ~quick, ~faulty PROVE NotYetKnown' /\ PassOfTheCard' /\ ReportedIsKnown'
  BY DEF KnownInv, pinVars, BeginIdentify, UnpackCsd, InitFails, EndIdentify
<1> DEFINE H == HotplugTask
<1>1. H \in Task \ {c} /\ c \in Task /\ Client \subseteq Task /\ TypeOK
  BY HotplugAssumption DEF Task, LockInv
<1>2. NotYetKnown /\ PassOfTheCard /\ ReportedIsKnown
  BY DEF KnownInv
<1>3. pc[c] \in {"check", "identify", "select"} /\ pc[c] \in Inside
  BY DEF BeginIdentify, UnpackCsd, InitFails, EndIdentify, Inside
<1>4. \A u \in Task \ {c} : pc[u] \notin Inside
  BY <1>1, <1>3 DEF LockInv, OneAtATime
<1>5. pc[H] \notin {"identify", "select"}
  BY <1>1, <1>4 DEF Inside
<1>6. ASSUME NEW label, Goto(c, label)
      PROVE  /\ pc'[c] = label
             /\ \A u \in Task \ {c} : pc'[u] = pc[u]
  BY <1>1, <1>6 DEF TypeOK, Goto
<1>7. ASSUME Exit(c)
      PROVE  /\ \A u \in Task : pc'[u] \notin {"identify", "select"}
             /\ \A u \in Task \ {c} : /\ job'[u] = job[u]
                                      /\ pc'[u] = pc[u] \/ (pc[u] = "blocked" /\ pc'[u] = "check")
  <2>1. /\ pc'[c] = "idle"
        /\ \A u \in Task \ {c} : pc'[u] = pc[u] \/ (pc[u] = "blocked" /\ pc'[u] = "check")
    BY <1>1, <1>3, <1>7, ExitMoves DEF After
  <2>2. \A u \in Task \ {c} : job'[u] = job[u]
    BY <1>1, <1>7 DEF Exit, TypeOK
  <2> QED
    BY <1>4, <2>1, <2>2 DEF Inside
<1>8. CASE BeginIdentify(c)
  <2>1. /\ pc'[c] = "identify" /\ job[c] = "init"
        /\ \A u \in Task \ {c} : pc'[u] = pc[u]
        /\ identity' = IF slot = "in" THEN "busy" ELSE "new"
        /\ UNCHANGED <<pinVars, g_card_state, seen, sd2_0, job>>
    BY <1>6, <1>8 DEF BeginIdentify
  <2>2. NotYetKnown'
    BY <2>1 DEF NotYetKnown
  <2>3. slot = "in" => Known'
    BY <2>1 DEF Known
  <2>4. ModeIsSet'
    BY <2>1 DEF ModeIsSet
  <2> QED
    BY <1>1, <1>2, <1>5, <2>1, <2>2, <2>3, <2>4 DEF PassOfTheCard, ReportedIsKnown, pinVars
<1>9. CASE UnpackCsd(c)
  <2>1. /\ pc'[c] = "select" /\ sd2_0' = TRUE /\ identity' = "busy"
        /\ \A u \in Task \ {c} : pc'[u] = pc[u]
        /\ UNCHANGED <<pinVars, g_card_state, seen>>
    BY <1>6, <1>9 DEF UnpackCsd
  <2>2. NotYetKnown' /\ Known' /\ ModeIsSet'
    BY <2>1 DEF NotYetKnown, Known, ModeIsSet
  <2> QED
    BY <1>1, <1>2, <1>5, <2>1, <2>2 DEF PassOfTheCard, ReportedIsKnown, pinVars
<1>10. CASE InitFails(c)
  <2>1. NotYetKnown'
    BY <1>7, <1>10 DEF InitFails, NotYetKnown
  <2>2. pc[c] = "identify" /\ identity # "busy"
    BY <1>10 DEF InitFails
  <2>3. ~Known
    BY <1>1, <1>2, <2>2 DEF NotYetKnown, Known
  <2>4. UNCHANGED <<pinVars, g_card_state, seen>>
    BY <1>10 DEF InitFails
  <2>5. \/ pc'[H] = pc[H]
        \/ pc[H] = "blocked" /\ pc'[H] = "check"
    BY <1>1, <1>7, <1>10 DEF InitFails
  <2> QED
    BY <1>2, <1>5, <2>1, <2>3, <2>4, <2>5 DEF PassOfTheCard, ReportedIsKnown, HotplugPc, pinVars
<1>11. CASE EndIdentify(c)
  <2>1. NotYetKnown'
    BY <1>7, <1>11 DEF EndIdentify, NotYetKnown
  <2>2. Known => Known'
    BY <1>11 DEF EndIdentify, Known
  <2>3. ModeIsSet => ModeIsSet'
    BY <1>1, <1>7, <1>11 DEF EndIdentify, ModeIsSet
  <2>4. UNCHANGED <<pinVars, g_card_state, seen>>
    BY <1>11 DEF EndIdentify
  <2>5. \/ pc'[H] = pc[H]
        \/ pc[H] = "blocked" /\ pc'[H] = "check"
    BY <1>1, <1>7, <1>11 DEF EndIdentify
  <2> QED
    BY <1>2, <1>5, <2>1, <2>2, <2>3, <2>4, <2>5
       DEF PassOfTheCard, ReportedIsKnown, HotplugPc, pinVars
<1> QED
  BY <1>8, <1>9, <1>10, <1>11

\* A step of a client outside the initialisation leaves the mode set, or the client
\* on the way to set it.
LEMMA ModeOfClient ==
    ASSUME TypeOK, NEW c \in Client, ModeIsSet,
           \/ FirstUse(c) \/ Create(c) \/ Enter(c) \/ Mount(c) \/ Access(c)
           \/ CheckPasses(c) \/ BeginTransfer(c),
           \A u \in Task \ {c} : pc'[u] = pc[u] /\ job'[u] = job[u]
    PROVE  ModeIsSet'
<1>1. c \in Task /\ Client \subseteq Task
  BY DEF Task
<1>2. CASE FirstUse(c)
  <2>1. job'[c] = "init" /\ pc'[c] \in {"create", "enter"}
    BY <1>1, <1>2 DEF FirstUse, Goto, TypeOK
  <2> QED
    BY <2>1 DEF ModeIsSet
<1>3. CASE Create(c) \/ Enter(c)
  <2>1. pc'[c] \in {"enter", "blocked", "check"} /\ UNCHANGED <<sd2_0, job>>
    BY <1>1, <1>3 DEF Create, Enter, Goto, TypeOK, cardVars
  <2> QED
    BY <1>1, <2>1 DEF ModeIsSet
<1>4. CASE Mount(c) \/ Access(c) \/ CheckPasses(c) \/ BeginTransfer(c)
  <2>1. /\ pc[c] \in {"idle", "command"} \/ job[c] = "block"
        /\ UNCHANGED sd2_0
    BY <1>4 DEF Mount, Access, CheckPasses, BeginTransfer, cardVars
  <2> QED
    BY <1>1, <2>1 DEF ModeIsSet
<1> QED
  BY <1>2, <1>3, <1>4

\* Every step of the system.
LEMMA KnownStep ==
    ASSUME KnownInv, LockInv, [Next]_vars
    PROVE  KnownInv'
<1>1. HotplugTask \in Task /\ HotplugTask \notin Client /\ Client \subseteq Task /\ TypeOK
  BY HotplugAssumption DEF Task, LockInv
<1>2. CASE CardLeaves
  <2>1. \A t \in Task : \/ pc'[t] = pc[t]
                        \/ t \in Client /\ pc[t] = "transfer" /\ pc'[t] = "hung"
    BY <1>1, <1>2 DEF CardLeaves
  <2>2. slot' = "out" /\ identity' = "new" /\ UNCHANGED <<quick, faulty, armed, masked, g_card_state, seen>>
    BY <1>2 DEF CardLeaves
  <2>3. ModeIsSet => ModeIsSet'
    BY <1>1, <1>2, <2>1 DEF CardLeaves, ModeIsSet
  <2>4. pc'[HotplugTask] = pc[HotplugTask]
    BY <1>1, <2>1
  <2> QED
    BY <2>2, <2>3, <2>4 DEF KnownInv, NotYetKnown, PassOfTheCard, ReportedIsKnown
<1>3. CASE CardEnters
  <2>1. UNCHANGED <<cardVars, pc, job>>
    BY <1>3 DEF CardEnters
  <2>2. UNCHANGED <<NotYetKnown, ModeIsSet>>
    BY <2>1 DEF cardVars, NotYetKnown, ModeIsSet
  <2> QED
    BY <1>3, <2>1, <2>2 DEF CardEnters, KnownInv, PassOfTheCard, ReportedIsKnown, InPass,
       InterruptPending, HotplugPc
<1>4. CASE DetectInit
  <2>1. UNCHANGED <<cardVars, pc, job>>
    BY <1>4 DEF DetectInit
  <2>2. UNCHANGED <<NotYetKnown, Known, ModeIsSet>>
    BY <2>1 DEF cardVars, NotYetKnown, Known, ModeIsSet
  <2> QED
    BY <1>4, <2>1, <2>2 DEF DetectInit, KnownInv, PassOfTheCard, ReportedIsKnown
<1>5. CASE DetectIntr
  <2>1. UNCHANGED <<cardVars, pc, job>>
    BY <1>5 DEF DetectIntr
  <2>2. UNCHANGED <<NotYetKnown, ModeIsSet>>
    BY <2>1 DEF cardVars, NotYetKnown, ModeIsSet
  <2> QED
    BY <1>5, <2>1, <2>2 DEF DetectIntr, KnownInv, PassOfTheCard, ReportedIsKnown, cardVars
<1>6. CASE Pend \/ Sample \/ Record \/ Arm \/ Unmask
  BY <1>1, <1>6, DetectStep
<1>7. CASE Initialize(HotplugTask)
  BY <1>7, DetectInitializes
<1>8. ASSUME NEW c \in Client, FirstUse(c) \/ Create(c) \/ Enter(c) \/ Mount(c) \/ Access(c)
                               \/ CheckPasses(c) \/ BeginTransfer(c)
      PROVE  KnownInv'
  <2>1. /\ UNCHANGED <<pinVars, g_card_state, seen, identity>>
        /\ pc[c] \notin {"identify", "select"} /\ pc'[c] \notin {"identify", "select"}
        /\ \A u \in Task \ {c} : pc'[u] = pc[u] /\ job'[u] = job[u]
    BY <1>1, <1>8
       DEF FirstUse, Create, Enter, Mount, Access, CheckPasses, BeginTransfer, Goto, TypeOK, cardVars
  <2>2. ModeIsSet => ModeIsSet'
    BY <1>1, <1>8, <2>1, ModeOfClient
  <2> QED
    BY <1>1, <2>1, <2>2, ClientStep
<1>9. ASSUME NEW c \in Client, CheckFails(c) \/ EndTransfer(c) PROVE KnownInv'
  <2>1. /\ UNCHANGED <<pinVars, g_card_state, seen, identity, sd2_0>>
        /\ pc[c] \in {"check", "transfer"} /\ pc[c] \in Inside /\ Exit(c)
        /\ pc[c] = "check" => g_card_state = "out"
    BY <1>9 DEF CheckFails, EndTransfer, cardVars, Inside
  <2>2. /\ pc'[c] = "idle"
        /\ \A u \in Task \ {c} : /\ pc'[u] = pc[u] \/ (pc[u] = "blocked" /\ pc'[u] = "check")
                                 /\ job'[u] = job[u]
    BY <1>1, <2>1, ExitMoves DEF After, Exit, TypeOK
  <2>3. pc[HotplugTask] # "select"
    BY <1>1, <2>1 DEF LockInv, OneAtATime, Inside
  <2>4. ModeIsSet => ModeIsSet' \/ g_card_state = "out"
    BY <1>1, <2>1, <2>2 DEF ModeIsSet
  <2> QED
    BY <1>1, <2>1, <2>2, <2>3, <2>4, ClientStep
<1>10. ASSUME NEW c \in Client, BeginIdentify(c) \/ UnpackCsd(c) \/ InitFails(c) \/ EndIdentify(c)
       PROVE  KnownInv'
  BY <1>10, ClientInitializes
<1>11. CASE UNCHANGED vars
  BY <1>11 DEF vars, pinVars, cardVars, KnownInv, NotYetKnown, PassOfTheCard, ReportedIsKnown,
     Known, ModeIsSet
<1> QED
  BY <1>2, <1>3, <1>4, <1>5, <1>6, <1>7, <1>8, <1>9, <1>10, <1>11
     DEF Next, Detect, Serve, Initialize

\* The processor is a client's only when detect_intr_task waits.
LEMMA MovesAlone ==
    ASSUME LockInv, NEW c \in Client, Runs(c), pc[c] \in Inside
    PROVE  HotplugWaits /\ ~InterruptPending
<1>1. c # HotplugTask /\ c \in Task
  BY HotplugAssumption DEF Task
<1>2. pc[c] # "create"
  BY DEF Inside
<1> QED
  BY <1>1, <1>2 DEF Runs

\* A client that goes from the check to a transfer does so in BeginTransfer.
LEMMA MovesToTransfer ==
    ASSUME LockInv, Next, NEW c \in Client, pc[c] = "command", pc'[c] = "transfer"
    PROVE  BeginTransfer(c)
<1>1. HotplugTask \in Task /\ HotplugTask \notin Client /\ Client \subseteq Task /\ TypeOK
  BY HotplugAssumption DEF Task, LockInv
<1>2. c \in Task
  BY <1>1
<1>3. ~CardLeaves
  BY <1>2 DEF CardLeaves
<1>4. ~(CardEnters \/ DetectInit \/ DetectIntr)
  BY DEF CardEnters, DetectInit, DetectIntr
<1>5. ~(Pend \/ Sample \/ Record \/ Arm \/ Unmask)
  BY <1>1, <1>2 DEF Pend, Sample, Record, Arm, Unmask, Goto, TypeOK
<1>6. ASSUME NEW t \in Task, pc[t] \in Inside, Exit(t) PROVE FALSE
  <2>1. CASE t = c
    BY <1>1, <1>6, <2>1, ExitMoves DEF After
  <2>2. CASE t # c
    BY <1>1, <1>2, <1>6, <2>2, ExitMoves
  <2> QED
    BY <2>1, <2>2
<1>7. ASSUME NEW t \in Task, Initialize(t) PROVE FALSE
  <2>1. CASE CheckFails(t) \/ InitFails(t) \/ EndIdentify(t)
    BY <1>6, <2>1 DEF CheckFails, InitFails, EndIdentify, Inside
  <2>2. CASE FirstUse(t) \/ Create(t) \/ Enter(t) \/ BeginIdentify(t) \/ UnpackCsd(t)
    BY <1>1, <1>2, <2>2 DEF FirstUse, Create, Enter, BeginIdentify, UnpackCsd, Goto, TypeOK
  <2> QED
    BY <1>7, <2>1, <2>2 DEF Initialize
<1>8. PICK d \in Client : \/ Mount(d) \/ Access(d) \/ CheckPasses(d)
                          \/ BeginTransfer(d) \/ EndTransfer(d)
  BY <1>1, <1>3, <1>4, <1>5, <1>7 DEF Next, Detect, Serve
<1>9. ~EndTransfer(d)
  BY <1>1, <1>6 DEF EndTransfer, Inside
<1>10. d = c
  BY <1>1, <1>2, <1>8, <1>9 DEF Mount, Access, CheckPasses, BeginTransfer, Goto, TypeOK
<1> QED
  BY <1>8, <1>9, <1>10 DEF Mount, Access, CheckPasses

\* The types of the variables; mmc_detect_event never counts more than one post.
THEOREM TypeCorrect == Spec => []TypeOK
<1>1. Init => TypeOK
  BY InitLock DEF LockInv
<1> QED
  BY <1>1, StepTypes, PTL DEF Spec

\* Commands of two tasks never interleave on the card (mmc_enter, mmc_exit), if no
\* task runs between another's test of pSemMMC and its creation of it.
THEOREM Exclusion == AloneAtFirstUse => (Spec => []OneAtATime)
<1> SUFFICES ASSUME AloneAtFirstUse PROVE Spec => []OneAtATime
  OBVIOUS
<1>1. LockInv /\ [Next]_vars => LockInv'
  BY LockStep
<1>2. LockInv => OneAtATime
  BY DEF LockInv
<1> QED
  BY InitLock, <1>1, <1>2, PTL DEF Spec

\* A client that addresses a card that is reported finds it initialised and its mode
\* set, unless another task waits in MMC_Initialize: detect_intr_task, when the client
\* held the lock as it reported the card, or one that has reset the modes before it
\* claims the lock; if no card is exchanged within a pass or fails mmc_init_card; for
\* any number of clients, and transfers that hang.
THEOREM UseAfterInitialize == AloneAtFirstUse => (Spec => UnknownOnlyWhileInitializing)
<1> SUFFICES ASSUME AloneAtFirstUse PROVE Spec => UnknownOnlyWhileInitializing
  OBVIOUS
<1> DEFINE Meets == \A c \in Client :
                        /\ ~quick /\ ~faulty
                        /\ pc[c] = "command" /\ pc'[c] = "transfer" /\ g_card_state = "in"
                        => (identity = "known" /\ sd2_0) \/ \E t \in Task \ {c} : Clearing(t)
<1>1. Init => LockInv /\ KnownInv
  BY InitLock DEF Init, KnownInv, NotYetKnown, PassOfTheCard, ReportedIsKnown, Task
<1>2. LockInv /\ [Next]_vars => LockInv'
  BY LockStep
<1>3. KnownInv /\ LockInv /\ [Next]_vars => KnownInv'
  BY KnownStep
<1>4. LockInv /\ KnownInv /\ [Next]_vars => [Meets]_vars
  <2> SUFFICES ASSUME LockInv, KnownInv, Next,
                      NEW c \in Client, ~quick, ~faulty,
                      pc[c] = "command", pc'[c] = "transfer", g_card_state = "in"
               PROVE  (identity = "known" /\ sd2_0) \/ \E t \in Task \ {c} : Clearing(t)
    BY DEF vars
  <2>1. BeginTransfer(c)
    BY MovesToTransfer
  <2>2. HotplugTask \in Task /\ c \in Task /\ c # HotplugTask /\ Client \subseteq Task
    BY HotplugAssumption DEF Task
  <2>3. \A t \in Task \ {c} : pc[t] \notin Inside \cup {"create"}
    BY <2>2 DEF LockInv, OneAtATime, NoLockYet, LockHeld, Inside
  <2>4. HotplugWaits /\ ~InterruptPending
    BY <2>1, <2>2, MovesAlone DEF BeginTransfer, Inside
  <2>5. pc[HotplugTask] \in {"pend", "delay", "blocked"}
    BY <2>2, <2>3, <2>4 DEF HotplugWaits, Inside
  <2>6. CASE pc[HotplugTask] \in {"pend", "delay"}
    <3>1. Known /\ ModeIsSet
      BY <2>4, <2>6 DEF KnownInv, ReportedIsKnown, InterruptPending, LockInv, TypeOK, Level, HotplugPc
    <3>2. identity = "known"
      BY <2>2, <2>3, <3>1 DEF Known, Inside
    <3>3. ASSUME NEW d \in Client, job[d] = "init",
                 pc[d] \in {"create", "enter", "blocked", "check", "identify"}
          PROVE  d \in Task \ {c} /\ Clearing(d)
      BY <2>2, <2>3, <3>3 DEF Clearing, Inside
    <3> QED
      BY <3>1, <3>2, <3>3 DEF ModeIsSet
  <2>7. CASE pc[HotplugTask] = "blocked"
    BY <2>2, <2>7 DEF Clearing, LockInv, TypeOK
  <2> QED
    BY <2>5, <2>6, <2>7
<1> QED
  BY <1>1, <1>2, <1>3, <1>4, PTL DEF Spec, UnknownOnlyWhileInitializing
================================================================================

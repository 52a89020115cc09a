----------------------------- MODULE UdcDriverProofs -----------------------------
(***************************************************************************)
(* Proofs about UdcDriver (src/soc_src/jz4755/drv/udc/udc.c): no pass      *)
(* reads a device that has been stopped, when the updates of udc_irq_type  *)
(* are not interrupted; and the driver and the upper layer agree on who    *)
(* owns the LUNs, when the cable keeps still in the windows in which the   *)
(* driver is deaf to it.  That the semaphore does not run away needs       *)
(* neither.  All hold for any bound on the posts.                          *)
(***************************************************************************)
EXTENDS UdcDriver, TLAPS

\* The task never goes on at another place after an answer or after disable_device.
LEMMA ReturnsStep ==
    ASSUME Returns, [Next]_vars
    PROVE  Returns'
<1> USE DEF Returns, MidBack, OffPc, At, Goto, Tell, Disable, ctlVars
<1>1. CASE PinMoves \/ HostActs \/ SoftConnect
  BY <1>1 DEF PinMoves, HostActs, SoftConnect
<1>2. CASE Application
  BY <1>2 DEF Application, AppLoads, AppStores
<1>3. CASE Interrupt
  BY <1>3 DEF Interrupt, UdcIntr, GpioIntr, UdcPending, UdcLine, GpioPending, Interruptible
<1>4. CASE UpperAnswers
  BY <1>4 DEF UpperAnswers
<1>5. CASE Pend \/ TimeOut \/ Test20
  BY <1>5 DEF Pend, TimeOut, Test20
<1>6. CASE Uninstall \/ DirectPower \/ Test10 \/ Test1
  BY <1>6 DEF Uninstall, DirectPower, Test10, Test1, TellNext
<1>7. CASE ClearFlag
  BY <1>7 DEF ClearFlag, Load, Store
<1>8. CASE DisableDevice
  BY <1>8 DEF DisableDevice, Off1, Off2, Off3, Off4
<1>9. CASE Ist \/ Arm \/ FalseChange \/ Rearm \/ IstEnd
  BY <1>9 DEF Ist, CheckGpio, Arm, GpioIntrInit, FalseChange, Rearm, IstEnd
<1>10. CASE CableIn \/ CableOut \/ PowerOut \/ Remove
  BY <1>10 DEF CableIn, CableOut, PowerOut, TellNext, Remove
<1>11. CASE Proc \/ Suspend \/ StillIn \/ StillArm \/ StillTell
  BY <1>11 DEF Proc, Suspend, StillIn, CheckGpio, StillArm, GpioIntrInit, StillTell,
               TellNext
<1>12. CASE Endpoints \/ Ask \/ Allowed \/ Refuse
  BY <1>12 DEF Endpoints, Ask, Allowed, Refuse
<1>13. CASE Refused \/ Ep0 \/ ProcEnd
  BY <1>13 DEF Refused, Ep0, ProcEnd
<1>14. CASE UNCHANGED vars
  BY <1>14 DEF vars
<1> QED
  BY <1>1, <1>2, <1>3, <1>4, <1>5, <1>6, <1>7, <1>8, <1>9, <1>10, <1>11, <1>12, <1>13, <1>14
     DEF Next, UdcTask, GpioIst, UdcProc

\* While a flag is between its load and its store, nothing else sets one.
LEMMA OverwriteStep ==
    ASSUME Returns, NothingOverwritten, FlagsAtomic, [Next]_vars
    PROVE  NothingOverwritten'
<1> USE DEF Returns, MidBack, OffPc, NothingOverwritten, StorePc, At, Goto, Tell, Disable,
            flagVars, ctlVars, envVars
<1>1. CASE PinMoves \/ HostActs \/ SoftConnect
  BY <1>1 DEF PinMoves, HostActs, SoftConnect
<1>2. CASE Application
  BY <1>2 DEF Application, AppLoads, AppStores
<1>3. CASE Interrupt
  BY <1>3 DEF Interrupt, UdcIntr, GpioIntr, UdcPending, UdcLine, GpioPending, Interruptible
<1>4. CASE UpperAnswers
  BY <1>4 DEF UpperAnswers
<1>5. CASE Pend \/ TimeOut \/ Test20
  BY <1>5 DEF Pend, TimeOut, Test20
<1>6. CASE Uninstall \/ DirectPower \/ Test10 \/ Test1
  BY <1>6 DEF Uninstall, DirectPower, Test10, Test1, TellNext
<1>7. CASE ClearFlag
  BY <1>7 DEF ClearFlag, Load, Store
<1>8. CASE DisableDevice
  BY <1>8 DEF DisableDevice, Off1, Off2, Off3, Off4
<1>9. CASE Ist \/ Arm \/ FalseChange \/ Rearm \/ IstEnd
  BY <1>9 DEF Ist, CheckGpio, Arm, GpioIntrInit, FalseChange, Rearm, IstEnd
<1>10. CASE CableIn \/ CableOut \/ PowerOut \/ Remove
  BY <1>10 DEF CableIn, CableOut, PowerOut, TellNext, Remove
<1>11. CASE Proc \/ Suspend \/ StillIn \/ StillArm \/ StillTell
  BY <1>11 DEF Proc, Suspend, StillIn, CheckGpio, StillArm, GpioIntrInit, StillTell,
               TellNext
<1>12. CASE Endpoints \/ Ask \/ Allowed \/ Refuse
  BY <1>12 DEF Endpoints, Ask, Allowed, Refuse
<1>13. CASE Refused \/ Ep0 \/ ProcEnd
  BY <1>13 DEF Refused, Ep0, ProcEnd
<1>14. CASE UNCHANGED vars
  BY <1>14 DEF vars
<1> QED
  BY <1>1, <1>2, <1>3, <1>4, <1>5, <1>6, <1>7, <1>8, <1>9, <1>10, <1>11, <1>12, <1>13, <1>14
     DEF Next, UdcTask, GpioIst, UdcProc

\* Nothing comes from the device while disable_device is at work.
LEMMA SilencedStep ==
    ASSUME Returns, Silenced, NothingOverwritten, FlagsAtomic, [Next]_vars
    PROVE  Silenced'
<1> USE DEF Returns, MidBack, OffPc, Silenced, NothingOverwritten, At, Goto, Tell, Disable,
            devVars, flagVars, ctlVars, envVars
<1>1. CASE PinMoves \/ HostActs \/ SoftConnect
  BY <1>1 DEF PinMoves, HostActs, SoftConnect
<1>2. CASE Application
  BY <1>2 DEF Application, AppLoads, AppStores
<1>3. CASE Interrupt
  BY <1>3 DEF Interrupt, UdcIntr, GpioIntr, UdcPending, UdcLine, GpioPending, Interruptible
<1>4. CASE UpperAnswers
  BY <1>4 DEF UpperAnswers
<1>5. CASE Pend \/ TimeOut \/ Test20
  BY <1>5 DEF Pend, TimeOut, Test20
<1>6. CASE Uninstall \/ DirectPower \/ Test10 \/ Test1
  BY <1>6 DEF Uninstall, DirectPower, Test10, Test1, TellNext
<1>7. CASE ClearFlag
  BY <1>7 DEF ClearFlag, Load, Store
<1>8. CASE DisableDevice
  BY <1>8 DEF DisableDevice, Off1, Off2, Off3, Off4
<1>9. CASE Ist \/ Arm \/ FalseChange \/ Rearm \/ IstEnd
  BY <1>9 DEF Ist, CheckGpio, Arm, GpioIntrInit, FalseChange, Rearm, IstEnd
<1>10. CASE CableIn \/ CableOut \/ PowerOut \/ Remove
  BY <1>10 DEF CableIn, CableOut, PowerOut, TellNext, Remove
<1>11. CASE Proc \/ Suspend \/ StillIn \/ StillArm \/ StillTell
  BY <1>11 DEF Proc, Suspend, StillIn, CheckGpio, StillArm, GpioIntrInit, StillTell,
               TellNext
<1>12. CASE Endpoints \/ Ask \/ Allowed \/ Refuse
  BY <1>12 DEF Endpoints, Ask, Allowed, Refuse
<1>13. CASE Refused \/ Ep0 \/ ProcEnd
  BY <1>13 DEF Refused, Ep0, ProcEnd
<1>14. CASE UNCHANGED vars
  BY <1>14 DEF vars
<1> QED
  BY <1>1, <1>2, <1>3, <1>4, <1>5, <1>6, <1>7, <1>8, <1>9, <1>10, <1>11, <1>12, <1>13, <1>14
     DEF Next, UdcTask, GpioIst, UdcProc

\* A device that is stopped stays quiet until it is enabled.
LEMMA StoppedStep ==
    ASSUME Returns, Silenced, NothingOverwritten, StoppedIsQuiet, FlagsAtomic, [Next]_vars
    PROVE  StoppedIsQuiet'
<1> USE DEF Returns, MidBack, OffPc, Silenced, NothingOverwritten, StoppedIsQuiet, In,
            StorePc, At, Goto, Tell, Disable, devVars, flagVars, ctlVars, envVars
<1>1. CASE PinMoves \/ HostActs \/ SoftConnect
  BY <1>1 DEF PinMoves, HostActs, SoftConnect
<1>2. CASE Application
  BY <1>2 DEF Application, AppLoads, AppStores
<1>3. CASE Interrupt
  BY <1>3 DEF Interrupt, UdcIntr, GpioIntr, UdcPending, UdcLine, GpioPending, Interruptible
<1>4. CASE UpperAnswers
  BY <1>4 DEF UpperAnswers
<1>5. CASE Pend \/ TimeOut \/ Test20
  BY <1>5 DEF Pend, TimeOut, Test20
<1>6. CASE Uninstall \/ DirectPower \/ Test10 \/ Test1
  BY <1>6 DEF Uninstall, DirectPower, Test10, Test1, TellNext
<1>7. CASE ClearFlag
  BY <1>7 DEF ClearFlag, Load, Store
<1>8. CASE DisableDevice
  BY <1>8 DEF DisableDevice, Off1, Off2, Off3, Off4
<1>9. CASE Ist \/ Arm \/ FalseChange \/ Rearm \/ IstEnd
  BY <1>9 DEF Ist, CheckGpio, Arm, GpioIntrInit, FalseChange, Rearm, IstEnd
<1>10. CASE CableIn \/ CableOut \/ PowerOut \/ Remove
  BY <1>10 DEF CableIn, CableOut, PowerOut, TellNext, Remove
<1>11. CASE Proc \/ Suspend \/ StillIn \/ StillArm \/ StillTell
  BY <1>11 DEF Proc, Suspend, StillIn, CheckGpio, StillArm, GpioIntrInit, StillTell,
               TellNext
<1>12. CASE Endpoints \/ Ask \/ Allowed \/ Refuse
  BY <1>12 DEF Endpoints, Ask, Allowed, Refuse
<1>13. CASE Refused \/ Ep0 \/ ProcEnd
  BY <1>13 DEF Refused, Ep0, ProcEnd
<1>14. CASE UNCHANGED vars
  BY <1>14 DEF vars
<1> QED
  BY <1>1, <1>2, <1>3, <1>4, <1>5, <1>6, <1>7, <1>8, <1>9, <1>10, <1>11, <1>12, <1>13, <1>14
     DEF Next, UdcTask, GpioIst, UdcProc

\* The two states of the driver and the pin are in or out.
LEMMA StatusStep ==
    ASSUME StatusTypes, [Next]_vars
    PROVE  StatusTypes'
<1> USE DEF StatusTypes, Level, Opposite, At, Goto, Tell, Disable, statVars, envVars
<1>1. CASE PinMoves \/ HostActs \/ SoftConnect
  BY <1>1 DEF PinMoves, HostActs, SoftConnect
<1>2. CASE Application
  BY <1>2 DEF Application, AppLoads, AppStores
<1>3. CASE Interrupt
  BY <1>3 DEF Interrupt, UdcIntr, GpioIntr, UdcPending, UdcLine, GpioPending, Interruptible
<1>4. CASE UpperAnswers
  BY <1>4 DEF UpperAnswers
<1>5. CASE Pend \/ TimeOut \/ Test20
  BY <1>5 DEF Pend, TimeOut, Test20
<1>6. CASE Uninstall \/ DirectPower \/ Test10 \/ Test1
  BY <1>6 DEF Uninstall, DirectPower, Test10, Test1, TellNext
<1>7. CASE ClearFlag
  BY <1>7 DEF ClearFlag, Load, Store
<1>8. CASE DisableDevice
  BY <1>8 DEF DisableDevice, Off1, Off2, Off3, Off4
<1>9. CASE Ist \/ Arm \/ FalseChange \/ Rearm \/ IstEnd
  BY <1>9 DEF Ist, CheckGpio, Arm, GpioIntrInit, FalseChange, Rearm, IstEnd
<1>10. CASE CableIn \/ CableOut \/ PowerOut \/ Remove
  BY <1>10 DEF CableIn, CableOut, PowerOut, TellNext, Remove
<1>11. CASE Proc \/ Suspend \/ StillIn \/ StillArm \/ StillTell
  BY <1>11 DEF Proc, Suspend, StillIn, CheckGpio, StillArm, GpioIntrInit, StillTell,
               TellNext
<1>12. CASE Endpoints \/ Ask \/ Allowed \/ Refuse
  BY <1>12 DEF Endpoints, Ask, Allowed, Refuse
<1>13. CASE Refused \/ Ep0 \/ ProcEnd
  BY <1>13 DEF Refused, Ep0, ProcEnd
<1>14. CASE UNCHANGED vars
  BY <1>14 DEF vars
<1> QED
  BY <1>1, <1>2, <1>3, <1>4, <1>5, <1>6, <1>7, <1>8, <1>9, <1>10, <1>11, <1>12, <1>13, <1>14
     DEF Next, UdcTask, GpioIst, UdcProc

\* With the pin still, the cable stays in while the upper layer is asked about it.
LEMMA AskedStep ==
    ASSUME StatusTypes, Returns, CableAsked, CableStill, [Next]_vars
    PROVE  CableAsked'
<1> USE DEF StatusTypes, Level, CableAsked, Returns, MidBack, OffPc, In, Deaf, At, Goto,
            Tell, Disable, midVars, ctlVars, envVars
<1>1. CASE PinMoves \/ HostActs \/ SoftConnect
  BY <1>1 DEF PinMoves, HostActs, SoftConnect
<1>2. CASE Application
  BY <1>2 DEF Application, AppLoads, AppStores
<1>3. CASE Interrupt
  BY <1>3 DEF Interrupt, UdcIntr, GpioIntr, UdcPending, UdcLine, GpioPending, Interruptible
<1>4. CASE UpperAnswers
  BY <1>4 DEF UpperAnswers
<1>5. CASE Pend \/ TimeOut \/ Test20
  BY <1>5 DEF Pend, TimeOut, Test20
<1>6. CASE Uninstall \/ DirectPower \/ Test10 \/ Test1
  BY <1>6 DEF Uninstall, DirectPower, Test10, Test1, TellNext
<1>7. CASE ClearFlag
  BY <1>7 DEF ClearFlag, Load, Store
<1>8. CASE DisableDevice
  BY <1>8 DEF DisableDevice, Off1, Off2, Off3, Off4
<1>9. CASE Ist \/ Arm \/ FalseChange \/ Rearm \/ IstEnd
  BY <1>9 DEF Ist, CheckGpio, Arm, GpioIntrInit, FalseChange, Rearm, IstEnd
<1>10. CASE CableIn \/ CableOut \/ PowerOut \/ Remove
  BY <1>10 DEF CableIn, CableOut, PowerOut, TellNext, Remove
<1>11. CASE Proc \/ Suspend \/ StillIn \/ StillArm \/ StillTell
  BY <1>11 DEF Proc, Suspend, StillIn, CheckGpio, StillArm, GpioIntrInit, StillTell,
               TellNext
<1>12. CASE Endpoints \/ Ask \/ Allowed \/ Refuse
  BY <1>12 DEF Endpoints, Ask, Allowed, Refuse
<1>13. CASE Refused \/ Ep0 \/ ProcEnd
  BY <1>13 DEF Refused, Ep0, ProcEnd
<1>14. CASE UNCHANGED vars
  BY <1>14 DEF vars
<1> QED
  BY <1>1, <1>2, <1>3, <1>4, <1>5, <1>6, <1>7, <1>8, <1>9, <1>10, <1>11, <1>12, <1>13, <1>14
     DEF Next, UdcTask, GpioIst, UdcProc

\* A connection is made by an answer and ended before the next.
LEMMA AllowanceStep ==
    ASSUME StatusTypes, Returns, CableAsked, Allowance, EndedBeforeTold, [Next]_vars
    PROVE  Allowance'
<1> USE DEF StatusTypes, Level, CableAsked, Returns, MidBack, OffPc, Allowance,
            EndedBeforeTold, In, At, Goto, Tell, Disable, statVars, midVars, ctlVars,
            envVars
<1>1. CASE PinMoves \/ HostActs \/ SoftConnect
  BY <1>1 DEF PinMoves, HostActs, SoftConnect
<1>2. CASE Application
  BY <1>2 DEF Application, AppLoads, AppStores
<1>3. CASE Interrupt
  BY <1>3 DEF Interrupt, UdcIntr, GpioIntr, UdcPending, UdcLine, GpioPending, Interruptible
<1>4. CASE UpperAnswers
  BY <1>4 DEF UpperAnswers
<1>5. CASE Pend \/ TimeOut \/ Test20
  BY <1>5 DEF Pend, TimeOut, Test20
<1>6. CASE Uninstall \/ DirectPower \/ Test10 \/ Test1
  BY <1>6 DEF Uninstall, DirectPower, Test10, Test1, TellNext
<1>7. CASE ClearFlag
  BY <1>7 DEF ClearFlag, Load, Store
<1>8. CASE DisableDevice
  BY <1>8 DEF DisableDevice, Off1, Off2, Off3, Off4
<1>9. CASE Ist \/ Arm \/ FalseChange \/ Rearm \/ IstEnd
  BY <1>9 DEF Ist, CheckGpio, Arm, GpioIntrInit, FalseChange, Rearm, IstEnd
<1>10. CASE CableIn \/ CableOut \/ PowerOut \/ Remove
  BY <1>10 DEF CableIn, CableOut, PowerOut, TellNext, Remove
<1>11. CASE Proc \/ Suspend \/ StillIn \/ StillArm \/ StillTell
  BY <1>11 DEF Proc, Suspend, StillIn, CheckGpio, StillArm, GpioIntrInit, StillTell,
               TellNext
<1>12. CASE Endpoints \/ Ask \/ Allowed \/ Refuse
  BY <1>12 DEF Endpoints, Ask, Allowed, Refuse
<1>13. CASE Refused \/ Ep0 \/ ProcEnd
  BY <1>13 DEF Refused, Ep0, ProcEnd
<1>14. CASE UNCHANGED vars
  BY <1>14 DEF vars
<1> QED
  BY <1>1, <1>2, <1>3, <1>4, <1>5, <1>6, <1>7, <1>8, <1>9, <1>10, <1>11, <1>12, <1>13, <1>14
     DEF Next, UdcTask, GpioIst, UdcProc

\* The driver ends a connection before it tells of the end.
LEMMA EndedStep ==
    ASSUME StatusTypes, Returns, Allowance, EndedBeforeTold, [Next]_vars
    PROVE  EndedBeforeTold'
<1> USE DEF StatusTypes, Level, CableAsked, Returns, MidBack, OffPc, Allowance,
            EndedBeforeTold, In, At, Goto, Tell, Disable, statVars, midVars, ctlVars,
            envVars
<1>1. CASE PinMoves \/ HostActs \/ SoftConnect
  BY <1>1 DEF PinMoves, HostActs, SoftConnect
<1>2. CASE Application
  BY <1>2 DEF Application, AppLoads, AppStores
<1>3. CASE Interrupt
  BY <1>3 DEF Interrupt, UdcIntr, GpioIntr, UdcPending, UdcLine, GpioPending, Interruptible
<1>4. CASE UpperAnswers
  BY <1>4 DEF UpperAnswers
<1>5. CASE Pend \/ TimeOut \/ Test20
  BY <1>5 DEF Pend, TimeOut, Test20
<1>6. CASE Uninstall \/ DirectPower \/ Test10 \/ Test1
  BY <1>6 DEF Uninstall, DirectPower, Test10, Test1, TellNext
<1>7. CASE ClearFlag
  BY <1>7 DEF ClearFlag, Load, Store
<1>8. CASE DisableDevice
  BY <1>8 DEF DisableDevice, Off1, Off2, Off3, Off4
<1>9. CASE Ist \/ Arm \/ FalseChange \/ Rearm \/ IstEnd
  BY <1>9 DEF Ist, CheckGpio, Arm, GpioIntrInit, FalseChange, Rearm, IstEnd
<1>10. CASE CableIn \/ CableOut \/ PowerOut \/ Remove
  BY <1>10 DEF CableIn, CableOut, PowerOut, TellNext, Remove
<1>11. CASE Proc \/ Suspend \/ StillIn \/ StillArm \/ StillTell
  BY <1>11 DEF Proc, Suspend, StillIn, CheckGpio, StillArm, GpioIntrInit, StillTell,
               TellNext
<1>12. CASE Endpoints \/ Ask \/ Allowed \/ Refuse
  BY <1>12 DEF Endpoints, Ask, Allowed, Refuse
<1>13. CASE Refused \/ Ep0 \/ ProcEnd
  BY <1>13 DEF Refused, Ep0, ProcEnd
<1>14. CASE UNCHANGED vars
  BY <1>14 DEF vars
<1> QED
  BY <1>1, <1>2, <1>3, <1>4, <1>5, <1>6, <1>7, <1>8, <1>9, <1>10, <1>11, <1>12, <1>13, <1>14
     DEF Next, UdcTask, GpioIst, UdcProc

\* disable_device follows each end of a connection that does not give the LUNs back itself.
LEMMA OwnershipStep ==
    ASSUME StatusTypes, Returns, CableAsked, Allowance, EndedBeforeTold, Ownership, [Next]_vars
    PROVE  Ownership'
<1> USE DEF StatusTypes, Level, CableAsked, Returns, MidBack, OffPc, Allowance,
            EndedBeforeTold, Ownership, In, At, Goto, Tell, Disable, statVars, midVars,
            ctlVars, envVars
<1>1. CASE PinMoves \/ HostActs \/ SoftConnect
  BY <1>1 DEF PinMoves, HostActs, SoftConnect
<1>2. CASE Application
  BY <1>2 DEF Application, AppLoads, AppStores
<1>3. CASE Interrupt
  BY <1>3 DEF Interrupt, UdcIntr, GpioIntr, UdcPending, UdcLine, GpioPending, Interruptible
<1>4. CASE UpperAnswers
  BY <1>4 DEF UpperAnswers
<1>5. CASE Pend \/ TimeOut \/ Test20
  BY <1>5 DEF Pend, TimeOut, Test20
<1>6. CASE Uninstall \/ DirectPower \/ Test10 \/ Test1
  BY <1>6 DEF Uninstall, DirectPower, Test10, Test1, TellNext
<1>7. CASE ClearFlag
  BY <1>7 DEF ClearFlag, Load, Store
<1>8. CASE DisableDevice
  BY <1>8 DEF DisableDevice, Off1, Off2, Off3, Off4
<1>9. CASE Ist \/ Arm \/ FalseChange \/ Rearm \/ IstEnd
  BY <1>9 DEF Ist, CheckGpio, Arm, GpioIntrInit, FalseChange, Rearm, IstEnd
<1>10. CASE CableIn \/ CableOut \/ PowerOut \/ Remove
  BY <1>10 DEF CableIn, CableOut, PowerOut, TellNext, Remove
<1>11. CASE Proc \/ Suspend \/ StillIn \/ StillArm \/ StillTell
  BY <1>11 DEF Proc, Suspend, StillIn, CheckGpio, StillArm, GpioIntrInit, StillTell,
               TellNext
<1>12. CASE Endpoints \/ Ask \/ Allowed \/ Refuse
  BY <1>12 DEF Endpoints, Ask, Allowed, Refuse
<1>13. CASE Refused \/ Ep0 \/ ProcEnd
  BY <1>13 DEF Refused, Ep0, ProcEnd
<1>14. CASE UNCHANGED vars
  BY <1>14 DEF vars
<1> QED
  BY <1>1, <1>2, <1>3, <1>4, <1>5, <1>6, <1>7, <1>8, <1>9, <1>10, <1>11, <1>12, <1>13, <1>14
     DEF Next, UdcTask, GpioIst, UdcProc

\* What is awaited stays right.
LEMMA AwaitedStep ==
    ASSUME FlagsAtomic, CableStill, FlagsInv, AgreeInv, Awaited, IstAgrees, NoneWiped,
           PostOwed, MaskedIsOwed, [Next]_vars
    PROVE  Awaited'
<1> USE DEF FlagsInv, AgreeInv, Returns, MidBack, StatusTypes, Level, Opposite, CableAsked,
            NothingOverwritten, StoppedIsQuiet, Awaited, IstAgrees, NoneWiped, PostOwed,
            MaskedIsOwed, Awake, In, InUdcPass, Deaf, IstPc, OffPc, ProcPc, DirectPc,
            TestPc, StorePc, UdcPending, UdcLine, GpioPending, Interruptible,
            InterruptPending, At, Goto, Tell, Disable, envVars, gpioVars, devVars, flagVars,
            statVars, midVars, ctlVars
<1>1. CASE PinMoves \/ HostActs \/ SoftConnect
  BY <1>1 DEF PinMoves, HostActs, SoftConnect
<1>2. CASE Application
  BY <1>2 DEF Application, AppLoads, AppStores
<1>3. CASE Interrupt
  BY <1>3 DEF Interrupt, UdcIntr, GpioIntr, UdcPending, UdcLine, GpioPending, Interruptible
<1>4. CASE UpperAnswers
  BY <1>4 DEF UpperAnswers
<1>5. CASE Pend \/ TimeOut \/ Test20
  BY <1>5 DEF Pend, TimeOut, Test20
<1>6. CASE Uninstall \/ DirectPower \/ Test10 \/ Test1
  BY <1>6 DEF Uninstall, DirectPower, Test10, Test1, TellNext
<1>7. CASE ClearFlag
  BY <1>7 DEF ClearFlag, Load, Store
<1>8. CASE DisableDevice
  BY <1>8 DEF DisableDevice, Off1, Off2, Off3, Off4
<1>9. CASE Ist \/ Arm \/ FalseChange \/ Rearm \/ IstEnd
  BY <1>9 DEF Ist, CheckGpio, Arm, GpioIntrInit, FalseChange, Rearm, IstEnd
<1>10. CASE CableIn \/ CableOut \/ PowerOut \/ Remove
  BY <1>10 DEF CableIn, CableOut, PowerOut, TellNext, Remove
<1>11. CASE Proc \/ Suspend \/ StillIn \/ StillArm \/ StillTell
  BY <1>11 DEF Proc, Suspend, StillIn, CheckGpio, StillArm, GpioIntrInit, StillTell,
               TellNext
<1>12. CASE Endpoints \/ Ask \/ Allowed \/ Refuse
  BY <1>12 DEF Endpoints, Ask, Allowed, Refuse
<1>13. CASE Refused \/ Ep0 \/ ProcEnd
  BY <1>13 DEF Refused, Ep0, ProcEnd
<1>14. CASE UNCHANGED vars
  BY <1>14 DEF vars
<1> QED
  BY <1>1, <1>2, <1>3, <1>4, <1>5, <1>6, <1>7, <1>8, <1>9, <1>10, <1>11, <1>12, <1>13, <1>14
     DEF Next, UdcTask, GpioIst, UdcProc

\* gpio_ist sees one state of the pin.
LEMMA IstStep ==
    ASSUME FlagsAtomic, CableStill, FlagsInv, AgreeInv, Awaited, IstAgrees, NoneWiped,
           PostOwed, MaskedIsOwed, [Next]_vars
    PROVE  IstAgrees'
<1> USE DEF FlagsInv, AgreeInv, Returns, MidBack, StatusTypes, Level, Opposite, CableAsked,
            NothingOverwritten, StoppedIsQuiet, Awaited, IstAgrees, NoneWiped, PostOwed,
            MaskedIsOwed, Awake, In, InUdcPass, Deaf, IstPc, OffPc, ProcPc, DirectPc,
            TestPc, StorePc, UdcPending, UdcLine, GpioPending, Interruptible,
            InterruptPending, At, Goto, Tell, Disable, envVars, gpioVars, devVars, flagVars,
            statVars, midVars, ctlVars
<1>1. CASE PinMoves \/ HostActs \/ SoftConnect
  BY <1>1 DEF PinMoves, HostActs, SoftConnect
<1>2. CASE Application
  BY <1>2 DEF Application, AppLoads, AppStores
<1>3. CASE Interrupt
  BY <1>3 DEF Interrupt, UdcIntr, GpioIntr, UdcPending, UdcLine, GpioPending, Interruptible
<1>4. CASE UpperAnswers
  BY <1>4 DEF UpperAnswers
<1>5. CASE Pend \/ TimeOut \/ Test20
  BY <1>5 DEF Pend, TimeOut, Test20
<1>6. CASE Uninstall \/ DirectPower \/ Test10 \/ Test1
  BY <1>6 DEF Uninstall, DirectPower, Test10, Test1, TellNext
<1>7. CASE ClearFlag
  BY <1>7 DEF ClearFlag, Load, Store
<1>8. CASE DisableDevice
  BY <1>8 DEF DisableDevice, Off1, Off2, Off3, Off4
<1>9. CASE Ist \/ Arm \/ FalseChange \/ Rearm \/ IstEnd
  BY <1>9 DEF Ist, CheckGpio, Arm, GpioIntrInit, FalseChange, Rearm, IstEnd
<1>10. CASE CableIn \/ CableOut \/ PowerOut \/ Remove
  BY <1>10 DEF CableIn, CableOut, PowerOut, TellNext, Remove
<1>11. CASE Proc \/ Suspend \/ StillIn \/ StillArm \/ StillTell
  BY <1>11 DEF Proc, Suspend, StillIn, CheckGpio, StillArm, GpioIntrInit, StillTell,
               TellNext
<1>12. CASE Endpoints \/ Ask \/ Allowed \/ Refuse
  BY <1>12 DEF Endpoints, Ask, Allowed, Refuse
<1>13. CASE Refused \/ Ep0 \/ ProcEnd
  BY <1>13 DEF Refused, Ep0, ProcEnd
<1>14. CASE UNCHANGED vars
  BY <1>14 DEF vars
<1> QED
  BY <1>1, <1>2, <1>3, <1>4, <1>5, <1>6, <1>7, <1>8, <1>9, <1>10, <1>11, <1>12, <1>13, <1>14
     DEF Next, UdcTask, GpioIst, UdcProc

\* No change of the cable is pending where the flags are wiped.
LEMMA WipedStep ==
    ASSUME FlagsAtomic, CableStill, FlagsInv, AgreeInv, Awaited, IstAgrees, NoneWiped,
           PostOwed, MaskedIsOwed, [Next]_vars
    PROVE  NoneWiped'
<1> USE DEF FlagsInv, AgreeInv, Returns, MidBack, StatusTypes, Level, Opposite, CableAsked,
            NothingOverwritten, StoppedIsQuiet, Awaited, IstAgrees, NoneWiped, PostOwed,
            MaskedIsOwed, Awake, In, InUdcPass, Deaf, IstPc, OffPc, ProcPc, DirectPc,
            TestPc, StorePc, UdcPending, UdcLine, GpioPending, Interruptible,
            InterruptPending, At, Goto, Tell, Disable, envVars, gpioVars, devVars, flagVars,
            statVars, midVars, ctlVars
<1>1. CASE PinMoves \/ HostActs \/ SoftConnect
  BY <1>1 DEF PinMoves, HostActs, SoftConnect
<1>2. CASE Application
  BY <1>2 DEF Application, AppLoads, AppStores
<1>3. CASE Interrupt
  BY <1>3 DEF Interrupt, UdcIntr, GpioIntr, UdcPending, UdcLine, GpioPending, Interruptible
<1>4. CASE UpperAnswers
  BY <1>4 DEF UpperAnswers
<1>5. CASE Pend \/ TimeOut \/ Test20
  BY <1>5 DEF Pend, TimeOut, Test20
<1>6. CASE Uninstall \/ DirectPower \/ Test10 \/ Test1
  BY <1>6 DEF Uninstall, DirectPower, Test10, Test1, TellNext
<1>7. CASE ClearFlag
  BY <1>7 DEF ClearFlag, Load, Store
<1>8. CASE DisableDevice
  BY <1>8 DEF DisableDevice, Off1, Off2, Off3, Off4
<1>9. CASE Ist \/ Arm \/ FalseChange \/ Rearm \/ IstEnd
  BY <1>9 DEF Ist, CheckGpio, Arm, GpioIntrInit, FalseChange, Rearm, IstEnd
<1>10. CASE CableIn \/ CableOut \/ PowerOut \/ Remove
  BY <1>10 DEF CableIn, CableOut, PowerOut, TellNext, Remove
<1>11. CASE Proc \/ Suspend \/ StillIn \/ StillArm \/ StillTell
  BY <1>11 DEF Proc, Suspend, StillIn, CheckGpio, StillArm, GpioIntrInit, StillTell,
               TellNext
<1>12. CASE Endpoints \/ Ask \/ Allowed \/ Refuse
  BY <1>12 DEF Endpoints, Ask, Allowed, Refuse
<1>13. CASE Refused \/ Ep0 \/ ProcEnd
  BY <1>13 DEF Refused, Ep0, ProcEnd
<1>14. CASE UNCHANGED vars
  BY <1>14 DEF vars
<1> QED
  BY <1>1, <1>2, <1>3, <1>4, <1>5, <1>6, <1>7, <1>8, <1>9, <1>10, <1>11, <1>12, <1>13, <1>14
     DEF Next, UdcTask, GpioIst, UdcProc

\* Flags keep their posts.
LEMMA PostStep ==
    ASSUME FlagsAtomic, CableStill, FlagsInv, AgreeInv, Awaited, IstAgrees, NoneWiped,
           PostOwed, MaskedIsOwed, [Next]_vars
    PROVE  PostOwed'
<1> USE DEF FlagsInv, AgreeInv, Returns, MidBack, StatusTypes, Level, Opposite, CableAsked,
            NothingOverwritten, StoppedIsQuiet, Awaited, IstAgrees, NoneWiped, PostOwed,
            MaskedIsOwed, Awake, In, InUdcPass, Deaf, IstPc, OffPc, ProcPc, DirectPc,
            TestPc, StorePc, UdcPending, UdcLine, GpioPending, Interruptible,
            InterruptPending, At, Goto, Tell, Disable, envVars, gpioVars, devVars, flagVars,
            statVars, midVars, ctlVars
<1>1. CASE PinMoves \/ HostActs \/ SoftConnect
  BY <1>1 DEF PinMoves, HostActs, SoftConnect
<1>2. CASE Application
  BY <1>2 DEF Application, AppLoads, AppStores
<1>3. CASE Interrupt
  BY <1>3 DEF Interrupt, UdcIntr, GpioIntr, UdcPending, UdcLine, GpioPending, Interruptible
<1>4. CASE UpperAnswers
  BY <1>4 DEF UpperAnswers
<1>5. CASE Pend \/ TimeOut \/ Test20
  BY <1>5 DEF Pend, TimeOut, Test20
<1>6. CASE Uninstall \/ DirectPower \/ Test10 \/ Test1
  BY <1>6 DEF Uninstall, DirectPower, Test10, Test1, TellNext
<1>7. CASE ClearFlag
  BY <1>7 DEF ClearFlag, Load, Store
<1>8. CASE DisableDevice
  BY <1>8 DEF DisableDevice, Off1, Off2, Off3, Off4
<1>9. CASE Ist \/ Arm \/ FalseChange \/ Rearm \/ IstEnd
  BY <1>9 DEF Ist, CheckGpio, Arm, GpioIntrInit, FalseChange, Rearm, IstEnd
<1>10. CASE CableIn \/ CableOut \/ PowerOut \/ Remove
  BY <1>10 DEF CableIn, CableOut, PowerOut, TellNext, Remove
<1>11. CASE Proc \/ Suspend \/ StillIn \/ StillArm \/ StillTell
  BY <1>11 DEF Proc, Suspend, StillIn, CheckGpio, StillArm, GpioIntrInit, StillTell,
               TellNext
<1>12. CASE Endpoints \/ Ask \/ Allowed \/ Refuse
  BY <1>12 DEF Endpoints, Ask, Allowed, Refuse
<1>13. CASE Refused \/ Ep0 \/ ProcEnd
  BY <1>13 DEF Refused, Ep0, ProcEnd
<1>14. CASE UNCHANGED vars
  BY <1>14 DEF vars
<1> QED
  BY <1>1, <1>2, <1>3, <1>4, <1>5, <1>6, <1>7, <1>8, <1>9, <1>10, <1>11, <1>12, <1>13, <1>14
     DEF Next, UdcTask, GpioIst, UdcProc

\* Each interrupt that is disabled is owed.
LEMMA MaskedStep ==
    ASSUME FlagsAtomic, CableStill, FlagsInv, AgreeInv, Awaited, IstAgrees, NoneWiped,
           PostOwed, MaskedIsOwed, [Next]_vars
    PROVE  MaskedIsOwed'
<1> USE DEF FlagsInv, AgreeInv, Returns, MidBack, StatusTypes, Level, Opposite, CableAsked,
            NothingOverwritten, StoppedIsQuiet, Awaited, IstAgrees, NoneWiped, PostOwed,
            MaskedIsOwed, Awake, In, InUdcPass, Deaf, IstPc, OffPc, ProcPc, DirectPc,
            TestPc, StorePc, UdcPending, UdcLine, GpioPending, Interruptible,
            InterruptPending, At, Goto, Tell, Disable, envVars, gpioVars, devVars, flagVars,
            statVars, midVars, ctlVars
<1>1. CASE PinMoves \/ HostActs \/ SoftConnect
  BY <1>1 DEF PinMoves, HostActs, SoftConnect
<1>2. CASE Application
  BY <1>2 DEF Application, AppLoads, AppStores
<1>3. CASE Interrupt
  BY <1>3 DEF Interrupt, UdcIntr, GpioIntr, UdcPending, UdcLine, GpioPending, Interruptible
<1>4. CASE UpperAnswers
  BY <1>4 DEF UpperAnswers
<1>5. CASE Pend \/ TimeOut \/ Test20
  BY <1>5 DEF Pend, TimeOut, Test20
<1>6. CASE Uninstall \/ DirectPower \/ Test10 \/ Test1
  BY <1>6 DEF Uninstall, DirectPower, Test10, Test1, TellNext
<1>7. CASE ClearFlag
  BY <1>7 DEF ClearFlag, Load, Store
<1>8. CASE DisableDevice
  BY <1>8 DEF DisableDevice, Off1, Off2, Off3, Off4
<1>9. CASE Ist \/ Arm \/ FalseChange \/ Rearm \/ IstEnd
  BY <1>9 DEF Ist, CheckGpio, Arm, GpioIntrInit, FalseChange, Rearm, IstEnd
<1>10. CASE CableIn \/ CableOut \/ PowerOut \/ Remove
  BY <1>10 DEF CableIn, CableOut, PowerOut, TellNext, Remove
<1>11. CASE Proc \/ Suspend \/ StillIn \/ StillArm \/ StillTell
  BY <1>11 DEF Proc, Suspend, StillIn, CheckGpio, StillArm, GpioIntrInit, StillTell,
               TellNext
<1>12. CASE Endpoints \/ Ask \/ Allowed \/ Refuse
  BY <1>12 DEF Endpoints, Ask, Allowed, Refuse
<1>13. CASE Refused \/ Ep0 \/ ProcEnd
  BY <1>13 DEF Refused, Ep0, ProcEnd
<1>14. CASE UNCHANGED vars
  BY <1>14 DEF vars
<1> QED
  BY <1>1, <1>2, <1>3, <1>4, <1>5, <1>6, <1>7, <1>8, <1>9, <1>10, <1>11, <1>12, <1>13, <1>14
     DEF Next, UdcTask, GpioIst, UdcProc

\* A device that is stopped has no event to tell, whatever interrupts do meanwhile.
LEMMA ClearStep ==
    ASSUME Returns, StoppedIsClear, [Next]_vars
    PROVE  StoppedIsClear'
<1> USE DEF Returns, MidBack, OffPc, StoppedIsClear, At, Goto, Tell, Disable,
            devVars, flagVars, ctlVars, envVars
<1>1. CASE PinMoves \/ HostActs \/ SoftConnect
  BY <1>1 DEF PinMoves, HostActs, SoftConnect
<1>2. CASE Application
  BY <1>2 DEF Application, AppLoads, AppStores
<1>3. CASE Interrupt
  BY <1>3 DEF Interrupt, UdcIntr, GpioIntr, UdcPending, UdcLine, GpioPending, Interruptible
<1>4. CASE UpperAnswers
  BY <1>4 DEF UpperAnswers
<1>5. CASE Pend \/ TimeOut \/ Test20
  BY <1>5 DEF Pend, TimeOut, Test20
<1>6. CASE Uninstall \/ DirectPower \/ Test10 \/ Test1
  BY <1>6 DEF Uninstall, DirectPower, Test10, Test1, TellNext
<1>7. CASE ClearFlag
  BY <1>7 DEF ClearFlag, Load, Store
<1>8. CASE DisableDevice
  BY <1>8 DEF DisableDevice, Off1, Off2, Off3, Off4
<1>9. CASE Ist \/ Arm \/ FalseChange \/ Rearm \/ IstEnd
  BY <1>9 DEF Ist, CheckGpio, Arm, GpioIntrInit, FalseChange, Rearm, IstEnd
<1>10. CASE CableIn \/ CableOut \/ PowerOut \/ Remove
  BY <1>10 DEF CableIn, CableOut, PowerOut, TellNext, Remove
<1>11. CASE Proc \/ Suspend \/ StillIn \/ StillArm \/ StillTell
  BY <1>11 DEF Proc, Suspend, StillIn, CheckGpio, StillArm, GpioIntrInit, StillTell,
               TellNext
<1>12. CASE Endpoints \/ Ask \/ Allowed \/ Refuse
  BY <1>12 DEF Endpoints, Ask, Allowed, Refuse
<1>13. CASE Refused \/ Ep0 \/ ProcEnd
  BY <1>13 DEF Refused, Ep0, ProcEnd
<1>14. CASE UNCHANGED vars
  BY <1>14 DEF vars
<1> QED
  BY <1>1, <1>2, <1>3, <1>4, <1>5, <1>6, <1>7, <1>8, <1>9, <1>10, <1>11, <1>12, <1>13, <1>14
     DEF Next, UdcTask, GpioIst, UdcProc

\* The switches are on or off.
LEMMA SwitchesStep ==
    ASSUME Switches, [Next]_vars
    PROVE  Switches'
<1> USE DEF Switches, At, Goto, Tell, Disable, gpioVars, devVars, flagVars, statVars, midVars,
            ctlVars, envVars
<1>1. CASE PinMoves \/ HostActs \/ SoftConnect
  BY <1>1 DEF PinMoves, HostActs, SoftConnect
<1>2. CASE Application
  BY <1>2 DEF Application, AppLoads, AppStores
<1>3. CASE Interrupt
  BY <1>3 DEF Interrupt, UdcIntr, GpioIntr, UdcPending, UdcLine, GpioPending, Interruptible
<1>4. CASE UpperAnswers
  BY <1>4 DEF UpperAnswers
<1>5. CASE Pend \/ TimeOut \/ Test20
  BY <1>5 DEF Pend, TimeOut, Test20
<1>6. CASE Uninstall \/ DirectPower \/ Test10 \/ Test1
  BY <1>6 DEF Uninstall, DirectPower, Test10, Test1, TellNext
<1>7. CASE ClearFlag
  BY <1>7 DEF ClearFlag, Load, Store
<1>8. CASE DisableDevice
  BY <1>8 DEF DisableDevice, Off1, Off2, Off3, Off4
<1>9. CASE Ist \/ Arm \/ FalseChange \/ Rearm \/ IstEnd
  BY <1>9 DEF Ist, CheckGpio, Arm, GpioIntrInit, FalseChange, Rearm, IstEnd
<1>10. CASE CableIn \/ CableOut \/ PowerOut \/ Remove
  BY <1>10 DEF CableIn, CableOut, PowerOut, TellNext, Remove
<1>11. CASE Proc \/ Suspend \/ StillIn \/ StillArm \/ StillTell
  BY <1>11 DEF Proc, Suspend, StillIn, CheckGpio, StillArm, GpioIntrInit, StillTell,
               TellNext
<1>12. CASE Endpoints \/ Ask \/ Allowed \/ Refuse
  BY <1>12 DEF Endpoints, Ask, Allowed, Refuse
<1>13. CASE Refused \/ Ep0 \/ ProcEnd
  BY <1>13 DEF Refused, Ep0, ProcEnd
<1>14. CASE UNCHANGED vars
  BY <1>14 DEF vars
<1> QED
  BY <1>1, <1>2, <1>3, <1>4, <1>5, <1>6, <1>7, <1>8, <1>9, <1>10, <1>11, <1>12, <1>13, <1>14
     DEF Next, UdcTask, GpioIst, UdcProc

\* The registers and the flags have their bits.
LEMMA RegistersStep ==
    ASSUME Registers, [Next]_vars
    PROVE  Registers'
<1> USE DEF Registers, Flag, BusEvent, At, Goto, Tell, Disable, devVars, flagVars, ctlVars,
            envVars
<1>1. CASE PinMoves \/ HostActs \/ SoftConnect
  BY <1>1 DEF PinMoves, HostActs, SoftConnect
<1>2. CASE Application
  BY <1>2 DEF Application, AppLoads, AppStores
<1>3. CASE Interrupt
  BY <1>3 DEF Interrupt, UdcIntr, GpioIntr, UdcPending, UdcLine, GpioPending, Interruptible
<1>4. CASE UpperAnswers
  BY <1>4 DEF UpperAnswers
<1>5. CASE Pend \/ TimeOut \/ Test20
  BY <1>5 DEF Pend, TimeOut, Test20
<1>6. CASE Uninstall \/ DirectPower \/ Test10 \/ Test1
  BY <1>6 DEF Uninstall, DirectPower, Test10, Test1, TellNext
<1>7. CASE ClearFlag
  BY <1>7 DEF ClearFlag, Load, Store
<1>8. CASE DisableDevice
  BY <1>8 DEF DisableDevice, Off1, Off2, Off3, Off4
<1>9. CASE Ist \/ Arm \/ FalseChange \/ Rearm \/ IstEnd
  BY <1>9 DEF Ist, CheckGpio, Arm, GpioIntrInit, FalseChange, Rearm, IstEnd
<1>10. CASE CableIn \/ CableOut \/ PowerOut \/ Remove
  BY <1>10 DEF CableIn, CableOut, PowerOut, TellNext, Remove
<1>11. CASE Proc \/ Suspend \/ StillIn \/ StillArm \/ StillTell
  BY <1>11 DEF Proc, Suspend, StillIn, CheckGpio, StillArm, GpioIntrInit, StillTell,
               TellNext
<1>12. CASE Endpoints \/ Ask \/ Allowed \/ Refuse
  BY <1>12 DEF Endpoints, Ask, Allowed, Refuse
<1>13. CASE Refused \/ Ep0 \/ ProcEnd
  BY <1>13 DEF Refused, Ep0, ProcEnd
<1>14. CASE UNCHANGED vars
  BY <1>14 DEF vars
<1> QED
  BY <1>1, <1>2, <1>3, <1>4, <1>5, <1>6, <1>7, <1>8, <1>9, <1>10, <1>11, <1>12, <1>13, <1>14
     DEF Next, UdcTask, GpioIst, UdcProc

\* Levels, events and answers are of their kinds.
LEMMA BeliefsStep ==
    ASSUME Beliefs, [Next]_vars
    PROVE  Beliefs'
<1> USE DEF Beliefs, Level, MidEvent, Opposite, At, Goto, Tell, Disable, gpioVars, statVars,
            midVars, ctlVars, envVars
<1>1. CASE PinMoves \/ HostActs \/ SoftConnect
  BY <1>1 DEF PinMoves, HostActs, SoftConnect
<1>2. CASE Application
  BY <1>2 DEF Application, AppLoads, AppStores
<1>3. CASE Interrupt
  BY <1>3 DEF Interrupt, UdcIntr, GpioIntr, UdcPending, UdcLine, GpioPending, Interruptible
<1>4. CASE UpperAnswers
  BY <1>4 DEF UpperAnswers
<1>5. CASE Pend \/ TimeOut \/ Test20
  BY <1>5 DEF Pend, TimeOut, Test20
<1>6. CASE Uninstall \/ DirectPower \/ Test10 \/ Test1
  BY <1>6 DEF Uninstall, DirectPower, Test10, Test1, TellNext
<1>7. CASE ClearFlag
  BY <1>7 DEF ClearFlag, Load, Store
<1>8. CASE DisableDevice
  BY <1>8 DEF DisableDevice, Off1, Off2, Off3, Off4
<1>9. CASE Ist \/ Arm \/ FalseChange \/ Rearm \/ IstEnd
  BY <1>9 DEF Ist, CheckGpio, Arm, GpioIntrInit, FalseChange, Rearm, IstEnd
<1>10. CASE CableIn \/ CableOut \/ PowerOut \/ Remove
  BY <1>10 DEF CableIn, CableOut, PowerOut, TellNext, Remove
<1>11. CASE Proc \/ Suspend \/ StillIn \/ StillArm \/ StillTell
  BY <1>11 DEF Proc, Suspend, StillIn, CheckGpio, StillArm, GpioIntrInit, StillTell,
               TellNext
<1>12. CASE Endpoints \/ Ask \/ Allowed \/ Refuse
  BY <1>12 DEF Endpoints, Ask, Allowed, Refuse
<1>13. CASE Refused \/ Ep0 \/ ProcEnd
  BY <1>13 DEF Refused, Ep0, ProcEnd
<1>14. CASE UNCHANGED vars
  BY <1>14 DEF vars
<1> QED
  BY <1>1, <1>2, <1>3, <1>4, <1>5, <1>6, <1>7, <1>8, <1>9, <1>10, <1>11, <1>12, <1>13, <1>14
     DEF Next, UdcTask, GpioIst, UdcProc

\* The task is always in a part of its loop.
LEMMA PlacesStep ==
    ASSUME Places, [Next]_vars
    PROVE  Places'
<1> USE DEF Places, Pc, OffPc, IstPc, ProcPc, DirectPc, TestPc, At, Goto, Tell, Disable, ctlVars,
            envVars
<1>1. CASE PinMoves \/ HostActs \/ SoftConnect
  BY <1>1 DEF PinMoves, HostActs, SoftConnect
<1>2. CASE Application
  BY <1>2 DEF Application, AppLoads, AppStores
<1>3. CASE Interrupt
  BY <1>3 DEF Interrupt, UdcIntr, GpioIntr, UdcPending, UdcLine, GpioPending, Interruptible
<1>4. CASE UpperAnswers
  BY <1>4 DEF UpperAnswers
<1>5. CASE Pend \/ TimeOut \/ Test20
  BY <1>5 DEF Pend, TimeOut, Test20
<1>6. CASE Uninstall \/ DirectPower \/ Test10 \/ Test1
  BY <1>6 DEF Uninstall, DirectPower, Test10, Test1, TellNext
<1>7. CASE ClearFlag
  BY <1>7 DEF ClearFlag, Load, Store
<1>8. CASE DisableDevice
  BY <1>8 DEF DisableDevice, Off1, Off2, Off3, Off4
<1>9. CASE Ist \/ Arm \/ FalseChange \/ Rearm \/ IstEnd
  BY <1>9 DEF Ist, CheckGpio, Arm, GpioIntrInit, FalseChange, Rearm, IstEnd
<1>10. CASE CableIn \/ CableOut \/ PowerOut \/ Remove
  BY <1>10 DEF CableIn, CableOut, PowerOut, TellNext, Remove
<1>11. CASE Proc \/ Suspend \/ StillIn \/ StillArm \/ StillTell
  BY <1>11 DEF Proc, Suspend, StillIn, CheckGpio, StillArm, GpioIntrInit, StillTell,
               TellNext
<1>12. CASE Endpoints \/ Ask \/ Allowed \/ Refuse
  BY <1>12 DEF Endpoints, Ask, Allowed, Refuse
<1>13. CASE Refused \/ Ep0 \/ ProcEnd
  BY <1>13 DEF Refused, Ep0, ProcEnd
<1>14. CASE UNCHANGED vars
  BY <1>14 DEF vars
<1> QED
  BY <1>1, <1>2, <1>3, <1>4, <1>5, <1>6, <1>7, <1>8, <1>9, <1>10, <1>11, <1>12, <1>13, <1>14
     DEF Next, UdcTask, GpioIst, UdcProc

\* No step of the system gives back more posts than it takes.
LEMMA PostsStep ==
    ASSUME Returns, StoppedIsClear, Types, PostsLeft, [Next]_vars
    PROVE  PostsLeft'
<1> USE DriverAssumption
    DEF Returns, MidBack, StoppedIsClear, PostsLeft, GpioDue, AppDue, UdcDue, LeftByPass, PassPc,
        In, OffPc, ProcPc, At, Goto, Tell, Disable, gpioVars, devVars, flagVars, ctlVars, envVars
<1>1. CASE PinMoves \/ HostActs \/ SoftConnect
  BY <1>1 DEF PinMoves, HostActs, SoftConnect
<1>2. CASE Application
  BY <1>2 DEF Application, AppLoads, AppStores
<1>3. CASE Interrupt
  BY <1>3 DEF Interrupt, UdcIntr, GpioIntr, UdcPending, UdcLine, GpioPending, Interruptible
<1>4. CASE UpperAnswers
  BY <1>4 DEF UpperAnswers
<1>5. CASE Pend \/ TimeOut \/ Test20
  BY <1>5 DEF Pend, TimeOut, Test20
<1>6. CASE Uninstall \/ DirectPower \/ Test10 \/ Test1
  BY <1>6 DEF Uninstall, DirectPower, Test10, Test1, TellNext
<1>7. CASE ClearFlag
  BY <1>7 DEF ClearFlag, Load, Store
<1>8. CASE DisableDevice
  BY <1>8 DEF DisableDevice, Off1, Off2, Off3, Off4
<1>9. CASE Ist \/ Arm \/ FalseChange \/ Rearm \/ IstEnd
  BY <1>9 DEF Ist, CheckGpio, Arm, GpioIntrInit, FalseChange, Rearm, IstEnd
<1>10. CASE CableIn \/ CableOut \/ PowerOut \/ Remove
  BY <1>10 DEF CableIn, CableOut, PowerOut, TellNext, Remove
<1>11. CASE Proc
  \* An interrupt that is enabled would have come before: nothing is left to read.
  <2>1. ~InterruptPending /\ Interruptible /\ pc = "proc"
    BY <1>11 DEF Proc, Interruptible, StorePc
  <2>2. ~udcMasked => bus \subseteq {"suspend"}
    BY <2>1 DEF InterruptPending, UdcPending, UdcLine, Types, Registers, BusEvent
  <2>3. bus' \subseteq bus \ {"reset", "suspend"} /\ pc' \in {"suspend", "endpoints"}
    BY <1>11 DEF Proc
  <2>4. UdcDue' = 0
    BY <1>11, <2>1, <2>2, <2>3 DEF Proc, Types, Registers, BusEvent
  <2>5. UdcDue \in {0, 1} /\ GpioDue' = GpioDue /\ AppDue' = AppDue /\ udcEvent' = udcEvent
    BY <1>11, <2>1 DEF Proc
  <2> QED
    BY <2>4, <2>5
<1>12. CASE Suspend \/ StillIn \/ StillArm \/ StillTell
  BY <1>12 DEF Suspend, StillIn, CheckGpio, StillArm, GpioIntrInit, StillTell, TellNext
<1>13. CASE Endpoints \/ Ask \/ Allowed \/ Refuse
  BY <1>13 DEF Endpoints, Ask, Allowed, Refuse
<1>14. CASE Refused \/ Ep0 \/ ProcEnd
  BY <1>14 DEF Refused, Ep0, ProcEnd
<1>15. CASE UNCHANGED vars
  BY <1>15 DEF vars
<1> QED
  BY <1>1, <1>2, <1>3, <1>4, <1>5, <1>6, <1>7, <1>8, <1>9, <1>10, <1>11, <1>12, <1>13, <1>14, <1>15
     DEF Next, UdcTask, GpioIst, UdcProc

\* The flags and the stopped device, in every reachable state.
LEMMA FlagsInvariant == FlagsAtomic => (Spec => []FlagsInv)
<1> SUFFICES ASSUME FlagsAtomic PROVE Spec => []FlagsInv
  OBVIOUS
<1>1. Init => FlagsInv
  BY DEF Init, FlagsInv, Returns, NothingOverwritten, Silenced, StoppedIsQuiet, In, OffPc, StorePc
<1>2. FlagsInv /\ [Next]_vars => FlagsInv'
  BY ReturnsStep, OverwriteStep, SilencedStep, StoppedStep DEF FlagsInv
<1> QED
  BY <1>1, <1>2, PTL DEF Spec

\* The connection and its owner, in every reachable state.
LEMMA AgreeInvariant == CableStill => (Spec => []AgreeInv)
<1> SUFFICES ASSUME CableStill PROVE Spec => []AgreeInv
  OBVIOUS
<1>1. Init => AgreeInv
  BY DEF Init, AgreeInv, StatusTypes, Level, Returns, CableAsked, Allowance, EndedBeforeTold,
         Ownership, In, OffPc
<1>2. AgreeInv /\ [Next]_vars => AgreeInv'
  BY StatusStep, ReturnsStep, AskedStep, AllowanceStep, EndedStep, OwnershipStep DEF AgreeInv
<1> QED
  BY <1>1, <1>2, PTL DEF Spec

\* The cable, its interrupt and its flag, in every reachable state.
LEMMA CableInvariant == FlagsAtomic /\ CableStill => (Spec => []CableInv)
<1> SUFFICES ASSUME FlagsAtomic, CableStill PROVE Spec => []CableInv
  OBVIOUS
<1>1. Init => Awaited /\ IstAgrees /\ NoneWiped /\ PostOwed /\ MaskedIsOwed
  <2> SUFFICES ASSUME Init
               PROVE  Awaited /\ IstAgrees /\ NoneWiped /\ PostOwed /\ MaskedIsOwed
    OBVIOUS
  <2>1. CASE pin = "in"
    <3>1. gpioMasked /\ udc_irq_type = {"gpio"} /\ udcEvent = 1
      BY <2>1 DEF Init
    <3> QED
      BY <2>1, <3>1 DEF Init, Awaited, IstAgrees, NoneWiped, PostOwed, MaskedIsOwed, Awake, In,
           InUdcPass, NoRead, IstPc, OffPc, ProcPc
  <2>2. CASE pin = "out"
    <3>1. ~gpioMasked /\ udc_irq_type = {} /\ udcEvent = 0
      BY <2>2 DEF Init
    <3> QED
      BY <2>2, <3>1 DEF Init, Awaited, IstAgrees, NoneWiped, PostOwed, MaskedIsOwed, In,
           InUdcPass, Opposite, NoRead, IstPc, OffPc, ProcPc
  <2> QED
    BY <2>1, <2>2 DEF Init, Level
<1>2. FlagsInv /\ AgreeInv /\ (Awaited /\ IstAgrees /\ NoneWiped /\ PostOwed /\ MaskedIsOwed)
      /\ [Next]_vars => (Awaited /\ IstAgrees /\ NoneWiped /\ PostOwed /\ MaskedIsOwed)'
  BY AwaitedStep, IstStep, WipedStep, PostStep, MaskedStep
<1>3. Spec => []FlagsInv
  BY FlagsInvariant
<1>4. Spec => []AgreeInv
  BY AgreeInvariant
<1> QED
  BY <1>1, <1>2, <1>3, <1>4, PTL DEF Spec, CableInv

LEMMA PostsInvariant == Spec => []PostsInv
<1>1. Init => Returns /\ StoppedIsClear
  BY DEF Init, Returns, StoppedIsClear, OffPc
<1>2. Init => Switches
  BY DEF Init, Switches
<1>3. Init => Types
  BY DEF Init, Types, Registers, Beliefs, Places, Pc, OffPc, Level, Flag, BusEvent, MidEvent, NoRead
<1>4. Init => PostsLeft
  <2> SUFFICES ASSUME Init PROVE PostsLeft
    OBVIOUS
  <2>1. udcEvent \in Nat /\ udcEvent <= 1 /\ GpioDue = 0 /\ AppDue = 0 /\ UdcDue = 0
    BY DEF Init, GpioDue, AppDue, UdcDue, In, PassPc, ProcPc, OffPc
  <2> QED
    BY <2>1, DriverAssumption DEF PostsLeft
<1>5. PostsInv /\ [Next]_vars => PostsInv'
  BY ReturnsStep, ClearStep, SwitchesStep, RegistersStep, BeliefsStep, PlacesStep, PostsStep
     DEF PostsInv, Types
<1> QED
  BY <1>1, <1>2, <1>3, <1>4, <1>5, PTL DEF Spec, PostsInv

(***************************************************************************)
(* The theorems.                                                           *)
(***************************************************************************)

\* No pass of udc4755_proc reads a device whose clock disable_device has stopped,
\* as long as the updates of udc_irq_type are not interrupted; the cable may move
\* at any time.
THEOREM PassesNeedAClock == FlagsAtomic => (Spec => []NoPassWhenStopped)
<1> SUFFICES ASSUME FlagsAtomic PROVE Spec => []NoPassWhenStopped
  OBVIOUS
<1>1. FlagsInv => NoPassWhenStopped
  BY DEF FlagsInv, StoppedIsQuiet, NoPassWhenStopped, In
<1>2. Spec => []FlagsInv
  BY FlagsInvariant
<1> QED
  BY <1>1, <1>2, PTL

\* The LUNs are the host's only in a connection that the upper layer has allowed,
\* and each such connection is reported ended once, as long as the cable keeps
\* still where the driver is deaf to it; the updates of udc_irq_type may be torn.
THEOREM LunsHaveOneOwner == CableStill => (Spec => []UpperAgrees)
<1> SUFFICES ASSUME CableStill PROVE Spec => []UpperAgrees
  OBVIOUS
<1>1. AgreeInv => UpperAgrees
  BY DEF AgreeInv, StatusTypes, Level, Returns, MidBack, Allowance, EndedBeforeTold, Ownership,
         UpperAgrees, In, OffPc
<1>2. Spec => []AgreeInv
  BY AgreeInvariant
<1> QED
  BY <1>1, <1>2, PTL

\* With both, the GPIO awaits the next change of the cable and the driver knows
\* where the cable is, whenever it has nothing left to do.
THEOREM CableFollowed == FlagsAtomic /\ CableStill => (Spec => []TriggersRight)
<1> SUFFICES ASSUME FlagsAtomic, CableStill PROVE Spec => []TriggersRight
  OBVIOUS
<1>1. CableInv => TriggersRight
  BY DEF CableInv, Awaited, TriggersRight, Idle
<1>2. Spec => []CableInv
  BY CableInvariant
<1> QED
  BY <1>1, <1>2, PTL

\* With both, no interrupt stays disabled for ever: it is owed by a flag with its
\* post, or by the pass under way.
THEOREM NoInterruptForgotten == FlagsAtomic /\ CableStill => (Spec => []MaskedIsOwed)
<1> SUFFICES ASSUME FlagsAtomic, CableStill PROVE Spec => []MaskedIsOwed
  OBVIOUS
<1>1. CableInv => MaskedIsOwed
  BY DEF CableInv
<1>2. Spec => []CableInv
  BY CableInvariant
<1> QED
  BY <1>1, <1>2, PTL

\* The count of the semaphore stays within three of the posts that were there when
\* something new last happened, because each handler masks its interrupt until the
\* task has seen its flag; wherever the cable moves, and if the updates of
\* udc_irq_type are torn.
THEOREM PostsBounded == Spec => []TypeOK
<1>1. PostsInv => TypeOK
  <2> SUFFICES ASSUME PostsInv PROVE TypeOK
    OBVIOUS
  <2>1. GpioDue \in {0, 1} /\ AppDue \in {0, 1} /\ UdcDue \in {0, 1, 2}
    BY DEF GpioDue, AppDue, UdcDue
  <2> QED
    BY <2>1, DriverAssumption DEF PostsInv, PostsLeft, TypeOK
<1>2. Spec => []PostsInv
  BY PostsInvariant
<1> QED
  BY <1>1, <1>2, PTL
================================================================================

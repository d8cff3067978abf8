-------------------------- MODULE RtsUdcLinkProofs --------------------------
(***************************************************************************)
(* Theorems about the Realtek controller: RtsUdcLink for every set of      *)
(* drivers and functions and every bound, and RtsUdcFifo for every         *)
(* assignment of endpoints to FIFOs in which the video endpoints have      *)
(* FIFOs of their own.                                                     *)
(***************************************************************************)
EXTENDS RtsUdcLink, RtsUdcFifo, TLAPS

(* Where the class thread may be told to return to. *)
RetOK == ret[Class] \in {"idle", "unbind", "sc_stop"}

(* The driver pointer of the controller is clear wherever the class code   *)
(* is about to change udc->driver.                                         *)
DriverInv ==
  /\ RetOK
  /\ ReportsToBoundDriver
  /\ pc[Class] \in {"bind", "start", "clear"} => rtsDriver = NoDriver

(* Without (de)activation and soft resets functions never leave "idle" and *)
(* the gadget is never deactivated.                                        *)
FuncsQuiet == deactivated = FALSE /\ \A f \in Funcs : pc[f] = "idle"

Serving == driverUp /\ rtsDriver # NoDriver /\ rtsDriver = udcDriver

(* The strengthening of VisibleOnlyWhileBound: what                        *)
(* each program point of the class thread knows about the driver and the   *)
(* controller.                                                             *)
VisibleInv ==
  funcOps = {} =>
  /\ FuncsQuiet
  /\ connectEn \/ gadgetstart => Serving
  /\ connectEn => vbuson /\ gadgetstart
  /\ pc[Class] \in {"disc_set", "unbind", "stop", "sc_stop", "clear", "final_pulldown"}
       => ~connectEn /\ ~gadgetstart
  /\ pc[Class] \in {"start", "sc_start", "conn", "pullup", "conn_set", "disc",
                    "pulldown", "disc_set", "unbind", "sc_stop"}
       => driverUp /\ udcDriver # NoDriver
  /\ pc[Class] \in {"conn", "pullup", "conn_set"}
       => rtsDriver = udcDriver /\ ret[Class] = "idle"
  /\ pc[Class] = "idle" /\ udcDriver # NoDriver => driverUp
  /\ pc[Class] = "bind" => udcDriver # NoDriver
  /\ pc[Class] = "final_pulldown" => udcDriver = NoDriver

-----------------------------------------------------------------------------

(* What the parts of usb_gadget_connect and usb_gadget_disconnect do, for  *)
(* any thread that runs them.                                              *)
ConnStep(t) ==
  \/ ConnectCheck(t) \/ PullupOn(t) \/ ConnectSet(t)
  \/ DisconnectCheck(t) \/ PullupOff(t) \/ DisconnectSet(t)

(* Program points stay among those of the code. *)
LEMMA ControlStep == ControlType /\ [Next]_vars => ControlType'
<1> SUFFICES ASSUME ControlType, [Next]_vars PROVE ControlType'
  OBVIOUS
<1> USE DEF ControlType, PCs
<1>1. CASE ClassOp
  BY <1>1 DEF ClassOp, ClassIdle, RegisterDriver, UnregisterDriver,
    SoftConnect, SoftDisconnect, DriverRemove, Goto, Call, Threads, Class
<1>2. ASSUME NEW t \in Threads, ConnStep(t) PROVE ControlType'
  BY <1>2 DEF ConnStep, ConnectCheck, PullupOn, ConnectSet, DisconnectCheck,
    PullupOff, DisconnectSet, Goto, Return
<1>3. CASE BindOk \/ BindFail \/ Unbind \/ UdcStop \/ ClearDriver \/ FinalPulldown
  BY <1>3 DEF BindOk, BindFail, Unbind, UdcStop, ClearDriver, FinalPulldown,
    Goto, Threads, Class
<1>4. CASE UdcStart
  BY <1>4 DEF UdcStart, Goto, Call, Threads, Class
<1>5. ASSUME NEW f \in Funcs, FuncOp(f) \/ DeactivateSet(f) \/ SoftResetOn(f)
      PROVE ControlType'
  BY <1>5 DEF FuncOp, FuncMay, FuncDeactivate, FuncActivate, SoftResetOff,
    DeactivateSet, SoftResetOn, Goto, Call, Threads
<1>6. CASE VbusChange \/ PhyIrq
  BY <1>6 DEF VbusChange, PhyIrq
<1>7. CASE UNCHANGED vars
  BY <1>7 DEF vars
<1>8. QED
  BY <1>1, <1>2, <1>3, <1>4, <1>5, <1>6, <1>7
    DEF Next, Step, ClassStep, FuncStep, ConnStep, Threads

(* The pointers and the latched status keep their types. *)
LEMMA DataStep == DataType /\ [Next]_vars => DataType'
<1> SUFFICES ASSUME DataType, [Next]_vars PROVE DataType'
  OBVIOUS
<1> USE DEF DataType, clsVars, rtsVars, gadVars, phyVars
<1>1. CASE ClassOp
  BY <1>1 DEF ClassOp, ClassIdle, RegisterDriver, UnregisterDriver,
    SoftConnect, SoftDisconnect, DriverRemove
<1>2. ASSUME NEW t \in Threads, ConnStep(t) PROVE DataType'
  BY <1>2 DEF ConnStep, ConnectCheck, PullupOn, ConnectSet, DisconnectCheck,
    PullupOff, DisconnectSet
<1>3. CASE BindOk
  BY <1>3 DEF BindOk
<1>4. CASE BindFail \/ Unbind \/ UdcStop \/ ClearDriver \/ FinalPulldown
  BY <1>4 DEF BindFail, Unbind, UdcStop, ClearDriver, FinalPulldown
<1>5. CASE UdcStart
  BY <1>5 DEF UdcStart
<1>6. ASSUME NEW f \in Funcs, FuncOp(f) \/ DeactivateSet(f) \/ SoftResetOn(f)
      PROVE DataType'
  BY <1>6 DEF FuncOp, FuncMay, FuncDeactivate, FuncActivate, SoftResetOff,
    DeactivateSet, SoftResetOn
<1>7. CASE VbusChange \/ PhyIrq
  BY <1>7 DEF VbusChange, PhyIrq, VbusSession
<1>8. CASE UNCHANGED vars
  BY <1>8 DEF vars
<1>9. QED
  BY <1>1, <1>2, <1>3, <1>4, <1>5, <1>6, <1>7, <1>8
    DEF Next, Step, ClassStep, FuncStep, ConnStep, Threads

(* The flags stay Boolean. *)
LEMMA FlagStep == FlagType /\ [Next]_vars => FlagType'
<1> SUFFICES ASSUME FlagType, [Next]_vars PROVE FlagType'
  OBVIOUS
<1> USE DEF FlagType, clsVars, rtsVars, gadVars, phyVars
<1>1. CASE ClassOp
  BY <1>1, Zenon DEF ClassOp, ClassIdle, RegisterDriver, UnregisterDriver,
    SoftConnect, SoftDisconnect, DriverRemove
<1>2. ASSUME NEW t \in Threads, ConnStep(t) PROVE FlagType'
  <2>1. CASE PullupOn(t)
    <3>1. connectEn' \in BOOLEAN
      BY <2>1 DEF PullupOn
    <3>2. gadgetstart' = TRUE /\ UNCHANGED <<driverUp, vbuson, gadVars, phyVars, leaked, alive>>
      BY <2>1 DEF PullupOn
    <3>3. QED
      BY <3>1, <3>2
  <2>2. CASE PullupOff(t)
    BY <2>2 DEF PullupOff
  <2>3. CASE ConnectCheck(t) \/ ConnectSet(t)
    BY <2>3 DEF ConnectCheck, ConnectSet
  <2>4. CASE DisconnectCheck(t) \/ DisconnectSet(t)
    BY <2>4 DEF DisconnectCheck, DisconnectSet
  <2>5. QED
    BY <1>2, <2>1, <2>2, <2>3, <2>4 DEF ConnStep
<1>3. CASE BindOk
  <2>1. deactivated' \in BOOLEAN
    BY <1>3 DEF BindOk
  <2>2. driverUp' = TRUE /\ UNCHANGED <<rtsVars, connected, phyVars, leaked, alive>>
    BY <1>3 DEF BindOk
  <2>3. QED
    BY <2>1, <2>2
<1>4. CASE BindFail \/ Unbind \/ UdcStop \/ ClearDriver \/ FinalPulldown
  <2>1. CASE BindFail \/ Unbind
    BY <2>1 DEF BindFail, Unbind
  <2>2. CASE UdcStop \/ ClearDriver
    BY <2>2 DEF UdcStop, ClearDriver
  <2>3. CASE FinalPulldown
    BY <2>3 DEF FinalPulldown
  <2>4. QED
    BY <1>4, <2>1, <2>2, <2>3
<1>5. CASE UdcStart
  BY <1>5 DEF UdcStart
<1>6. ASSUME NEW f \in Funcs, FuncOp(f) \/ DeactivateSet(f) \/ SoftResetOn(f)
      PROVE FlagType'
  <2>1. CASE FuncDeactivate(f)
    BY <2>1 DEF FuncDeactivate
  <2>2. CASE FuncActivate(f)
    BY <2>2 DEF FuncActivate
  <2>3. CASE SoftResetOff(f) \/ SoftResetOn(f) \/ DeactivateSet(f)
    BY <2>3 DEF SoftResetOff, SoftResetOn, DeactivateSet
  <2>4. QED
    BY <1>6, <2>1, <2>2, <2>3 DEF FuncOp
<1>7. CASE VbusChange \/ PhyIrq
  BY <1>7 DEF VbusChange, PhyIrq, VbusSession
<1>8. CASE UNCHANGED vars
  BY <1>8 DEF vars
<1>9. QED
  BY <1>1, <1>2, <1>3, <1>4, <1>5, <1>6, <1>7, <1>8
    DEF Next, Step, ClassStep, FuncStep, ConnStep, Threads

(* What the functions do was chosen once. *)
LEMMA ScenarioStep == ScenarioType /\ [Next]_vars => ScenarioType'
  BY DEF ScenarioType, Next, vars

(* usb_function_activate never takes the count below zero. *)
LEMMA CountStep == ScenarioType /\ CountType /\ [Next]_vars => CountType'
<1> SUFFICES ASSUME ScenarioType, CountType, [Next]_vars PROVE CountType'
  OBVIOUS
<1> USE DEF CountType
<1>1. CASE BindOk
  BY <1>1, LinkAssumption DEF LinkAssumption, ScenarioType, BindOk
<1>2. ASSUME NEW f \in Funcs, FuncDeactivate(f) \/ FuncActivate(f)
      PROVE CountType'
  BY <1>2, LinkAssumption DEF LinkAssumption, FuncDeactivate, FuncActivate
<1>3. CASE UNCHANGED deactivations
  BY <1>3
<1>4. QED
  BY <1>1, <1>2, <1>3
    DEF Next, Step, vars, gadVars, ClassOp, ClassStep, FuncOp, FuncStep, RegisterDriver,
      UnregisterDriver, SoftConnect, SoftDisconnect, DriverRemove, ConnectCheck,
      PullupOn, ConnectSet, DisconnectCheck, PullupOff, DisconnectSet, BindFail,
      UdcStart, Unbind, UdcStop, ClearDriver, FinalPulldown, SoftResetOff,
      DeactivateSet, SoftResetOn, VbusChange, PhyIrq

(* Type correctness of every step of the class code, the functions and the *)
(* PHY interrupt.                                                          *)
THEOREM TypeCorrect == Spec => []TypeOK
<1>1. Init => ControlType
  BY DEF Init, ControlType, PCs
<1>2. Init => DataType
  BY DEF Init, DataType
<1>3. Init => CountType
  BY LinkAssumption DEF LinkAssumption, Init, CountType
<1>4. Init => FlagType
  BY DEF Init, FlagType
<1>5. Init => ScenarioType
  BY DEF Init, ScenarioType
<1>6. QED
  BY <1>1, <1>2, <1>3, <1>4, <1>5, ScenarioStep, ControlStep, FlagStep, DataStep, CountStep, PTL DEF Spec, TypeOK

(* The inductive step of DriverInv, one case per group of actions. *)
LEMMA DriverStep == ControlType /\ DriverInv /\ [Next]_vars => DriverInv'
<1> SUFFICES ASSUME ControlType, DriverInv, [Next]_vars PROVE DriverInv'
  OBVIOUS
<1> USE LinkAssumption DEF LinkAssumption, DriverInv, RetOK, ReportsToBoundDriver
<1>1. CASE ClassOp
  BY <1>1 DEF ClassOp, ControlType, ClassIdle, RegisterDriver, UnregisterDriver,
    SoftConnect, SoftDisconnect, DriverRemove, Goto, Call, Threads, Class,
    clsVars, rtsVars, gadVars, phyVars
<1>2. ASSUME NEW t \in Threads,
             ConnStep(t)
      PROVE DriverInv'
  BY <1>2 DEF ControlType, ConnStep, ConnectCheck, PullupOn, ConnectSet, DisconnectCheck,
    PullupOff, DisconnectSet, Goto, Return, Threads, Class,
    clsVars, rtsVars, gadVars, phyVars
<1>3. CASE BindOk \/ BindFail \/ Unbind \/ UdcStop \/ ClearDriver \/ FinalPulldown
  BY <1>3 DEF ControlType, BindOk, BindFail, Unbind, UdcStop, ClearDriver,
    FinalPulldown, Goto, Threads, Class, clsVars, rtsVars, gadVars, phyVars
<1>4. CASE UdcStart
  BY <1>4 DEF ControlType, UdcStart, Goto, Call, Threads, Class, clsVars
<1>5. CASE \E f \in Funcs : FuncOp(f) \/ DeactivateSet(f) \/ SoftResetOn(f)
  BY <1>5 DEF ControlType, FuncOp, FuncMay, FuncDeactivate, FuncActivate, SoftResetOff,
    DeactivateSet, SoftResetOn, Goto, Call, Threads, Class,
    clsVars, rtsVars, gadVars, phyVars
<1>6. CASE VbusChange \/ PhyIrq
  BY <1>6 DEF ControlType, VbusChange, PhyIrq, VbusSession, clsVars, rtsVars, phyVars
<1>7. CASE UNCHANGED vars
  BY <1>7 DEF vars, clsVars, rtsVars
<1>8. QED
  BY <1>1, <1>2, <1>3, <1>4, <1>5, <1>6, <1>7 DEF Next, Step, ClassStep, FuncStep, ConnStep, Threads

(* rtsusb->gadget_driver is NULL or udc->driver, whatever class operations, *)
(* functions and interrupts interleave.                                     *)
THEOREM ReportsCorrect == Spec => []ReportsToBoundDriver
<1>1. Init => DriverInv
  BY LinkAssumption DEF LinkAssumption, Init, DriverInv, RetOK, ReportsToBoundDriver, Class, Threads
<1>2. DriverInv => ReportsToBoundDriver
  BY DEF DriverInv
<1>3. QED
  BY <1>1, <1>2, TypeCorrect, DriverStep, PTL DEF Spec, TypeOK

(* The inductive step of VisibleInv, for gadget drivers whose functions    *)
(* neither deactivate the gadget nor reset the link.                       *)
LEMMA VisibleStep ==
  ControlType /\ FlagType /\ DriverInv /\ VisibleInv /\ [Next]_vars => VisibleInv'
<1> SUFFICES ASSUME ControlType, FlagType, DriverInv, VisibleInv, [Next]_vars,
                    funcOps = {}
             PROVE VisibleInv'
  BY DEF Next, Step, vars, VisibleInv
<1> USE LinkAssumption DEF LinkAssumption, ControlType, FlagType, DriverInv, RetOK,
      ReportsToBoundDriver, VisibleInv, FuncsQuiet, Serving, Threads, Class
<1>1. CASE ClassOp
  BY <1>1 DEF ClassOp, ClassIdle, RegisterDriver, UnregisterDriver,
    SoftConnect, SoftDisconnect, DriverRemove, Goto, Call,
    clsVars, rtsVars, gadVars, phyVars
<1>2. CASE ConnStep(Class)
  <2>1. CASE PullupOn(Class)
    <3>1. connectEn' => connectEn \/ vbuson
      BY <2>1 DEF PullupOn
    <3>2. QED
      BY <2>1, <3>1 DEF PullupOn, Goto, clsVars, gadVars
  <2>2. CASE PullupOff(Class)
    BY <2>2 DEF PullupOff, Goto, clsVars, gadVars
  <2>3. CASE ConnectCheck(Class) \/ ConnectSet(Class)
    BY <2>3 DEF ConnectCheck, ConnectSet, Goto, Return, clsVars, rtsVars
  <2>4. CASE DisconnectCheck(Class) \/ DisconnectSet(Class)
    BY <2>4 DEF DisconnectCheck, DisconnectSet, Goto, Return, clsVars, rtsVars
  <2>5. QED
    BY <1>2, <2>1, <2>2, <2>3, <2>4 DEF ConnStep
<1>3. CASE BindOk \/ BindFail
  <2>1. CASE BindOk
    <3>1. deactivated' = FALSE
      BY <2>1 DEF BindOk
    <3>2. /\ pc[Class] = "bind" /\ pc' = [pc EXCEPT ![Class] = "start"]
          /\ driverUp' = TRUE /\ UNCHANGED <<ret, udcDriver, rtsVars>>
      BY <2>1 DEF BindOk, Goto
    <3>3. QED
      BY <3>1, <3>2 DEF rtsVars
  <2>2. CASE BindFail
    BY <2>2 DEF BindFail, Goto, rtsVars, gadVars
  <2>3. QED
    BY <1>3, <2>1, <2>2
<1>4. CASE UdcStart
  <2>1. CASE rtsDriver = NoDriver
    BY <1>4, <2>1 DEF UdcStart, Goto, Call, clsVars, gadVars
  <2>2. CASE rtsDriver # NoDriver
    BY <1>4, <2>2 DEF UdcStart, Goto, Call, clsVars, gadVars
  <2>3. QED
    BY <2>1, <2>2
<1>5. CASE Unbind \/ UdcStop \/ ClearDriver \/ FinalPulldown
  <2>1. CASE Unbind
    BY <2>1 DEF Unbind, Goto, clsVars, rtsVars, gadVars
  <2>2. CASE UdcStop
    BY <2>2 DEF UdcStop, Goto, clsVars, gadVars
  <2>3. CASE ClearDriver
    BY <2>3 DEF ClearDriver, Goto, rtsVars, gadVars
  <2>4. CASE FinalPulldown
    BY <2>4 DEF FinalPulldown, Goto, clsVars, gadVars
  <2>5. QED
    BY <1>5, <2>1, <2>2, <2>3, <2>4
<1>6. ASSUME NEW f \in Funcs, FuncOp(f) \/ FuncStep(f) PROVE FALSE
  BY <1>6 DEF FuncOp, FuncStep, FuncMay, FuncDeactivate, FuncActivate, SoftResetOff,
    DeactivateSet, SoftResetOn, ConnectCheck, PullupOn, ConnectSet, DisconnectCheck,
    PullupOff, DisconnectSet
<1>7. CASE VbusChange \/ PhyIrq
  BY <1>7 DEF VbusChange, PhyIrq, VbusSession, clsVars, rtsVars, gadVars
<1>8. CASE UNCHANGED vars
  BY <1>8 DEF vars, clsVars, rtsVars, gadVars
<1>9. QED
  BY <1>1, <1>2, <1>3, <1>4, <1>5, <1>6, <1>7, <1>8 DEF Next, Step, ClassStep, ConnStep

(* The pull-up is on only while a driver is bound, the controller reports  *)
(* to it, a VBUS session lasts and the gadget is started: VBUS interrupts  *)
(* in the middle of rts_gadget_udc_start, of the disconnect before an      *)
(* unbind or of rts_usb_driver_remove cannot break this.                   *)
THEOREM VisibleCorrect == Spec => []VisibleOnlyWhileBound
<1>1. Init => VisibleInv
  BY LinkAssumption DEF LinkAssumption, Init, VisibleInv, FuncsQuiet, Class, Threads
<1>2. Init => DriverInv
  BY LinkAssumption DEF LinkAssumption, Init, DriverInv, RetOK, ReportsToBoundDriver, Class, Threads
<1>3. VisibleInv => VisibleOnlyWhileBound
  BY DEF VisibleInv, Serving, VisibleOnlyWhileBound
<1>4. QED
  BY <1>1, <1>2, <1>3, TypeCorrect, DriverStep, VisibleStep, PTL DEF Spec, TypeOK
-----------------------------------------------------------------------------

(* Where the gadget is known not to be connected.                          *)
Apart == {"bind", "start", "unbind", "stop", "sc_stop", "clear", "final_pulldown"}

(* A connect that has switched the pull-up on, and a gadget that says it   *)
(* is connected until its disconnect has switched it off again, keep the   *)
(* gadget started and follow VBUS.                                         *)
ConnectedInv ==
  funcOps = {} =>
  /\ connected /\ pc[Class] # "disc_set" => gadgetstart /\ (vbuson => connectEn)
  /\ pc[Class] = "conn_set" => gadgetstart /\ (vbuson => connectEn)
  /\ pc[Class] \in Apart => ~connected
  /\ pc[Class] = "idle" /\ udcDriver = NoDriver => ~connected

(* The inductive step of ConnectedInv; VisibleInv says that a soft connect *)
(* of a started gadget finds the controller's driver set.                  *)
LEMMA ConnectedStep ==
  ControlType /\ FlagType /\ DriverInv /\ VisibleInv /\ ConnectedInv /\ [Next]_vars => ConnectedInv'
<1> SUFFICES ASSUME ControlType, FlagType, DriverInv, VisibleInv, ConnectedInv, [Next]_vars,
                    funcOps = {}
             PROVE ConnectedInv'
  BY DEF Next, Step, vars, ConnectedInv
<1>a. FuncsQuiet /\ RetOK /\ Class \in Threads /\ ControlType
  BY DEF VisibleInv, DriverInv, Threads
<1>b. connectEn \/ gadgetstart => rtsDriver # NoDriver
  BY DEF VisibleInv, Serving
<1>c. pc[Class] = "start" => rtsDriver = NoDriver
  BY DEF DriverInv
<1>d. pc[Class] = "conn_set" => udcDriver # NoDriver /\ ret[Class] = "idle"
  BY DEF VisibleInv
<1> USE <1>a, <1>b, <1>c, <1>d DEF ControlType, FlagType, FuncsQuiet, RetOK, ConnectedInv, Apart
<1>1. CASE ClassOp
  BY <1>1 DEF ClassOp, ClassIdle, RegisterDriver, UnregisterDriver, SoftConnect,
    SoftDisconnect, DriverRemove, Goto, Call, clsVars, rtsVars, gadVars
<1>2. CASE ConnStep(Class)
  <2>1. CASE PullupOn(Class)
    <3>1. connectEn' <=> connectEn \/ vbuson
      BY <2>1 DEF PullupOn
    <3>2. QED
      BY <2>1, <3>1 DEF PullupOn, Goto, clsVars, gadVars
  <2>2. CASE PullupOff(Class)
    BY <2>2 DEF PullupOff, Goto, clsVars, gadVars
  <2>3. CASE ConnectCheck(Class) \/ ConnectSet(Class)
    BY <2>3 DEF ConnectCheck, ConnectSet, Goto, Return, clsVars, rtsVars
  <2>4. CASE DisconnectCheck(Class) \/ DisconnectSet(Class)
    BY <2>4 DEF DisconnectCheck, DisconnectSet, Goto, Return, clsVars, rtsVars
  <2>5. QED
    BY <1>2, <2>1, <2>2, <2>3, <2>4 DEF ConnStep
<1>3. CASE BindOk \/ BindFail
  BY <1>3 DEF BindOk, BindFail, Goto, rtsVars, gadVars
<1>4. CASE UdcStart
  BY <1>4 DEF UdcStart, Goto, Call, clsVars, gadVars
<1>5. CASE Unbind \/ UdcStop \/ ClearDriver \/ FinalPulldown
  BY <1>5 DEF Unbind, UdcStop, ClearDriver, FinalPulldown, Goto, clsVars, rtsVars, gadVars
<1>6. ASSUME NEW f \in Funcs, FuncOp(f) \/ FuncStep(f) PROVE FALSE
  BY <1>6 DEF FuncOp, FuncStep, FuncMay, FuncDeactivate, FuncActivate, SoftResetOff,
    DeactivateSet, SoftResetOn, ConnectCheck, PullupOn, ConnectSet, DisconnectCheck,
    PullupOff, DisconnectSet
<1>7. CASE VbusChange \/ PhyIrq
  BY <1>7 DEF VbusChange, PhyIrq, VbusSession, clsVars, rtsVars, gadVars
<1>8. CASE UNCHANGED vars
  BY <1>8 DEF vars, clsVars, rtsVars, gadVars
<1>9. QED
  BY <1>1, <1>2, <1>3, <1>4, <1>5, <1>6, <1>7, <1>8 DEF Next, Step, ClassStep, ConnStep

(* Once a connect has returned and nothing is under way, a VBUS session    *)
(* means the pull-up is on (usb_gadget_connect), whatever VBUS did between *)
(* the pullup operation and the store to gadget->connected.                *)
THEOREM ConnectedCorrect == Spec => []ConnectedIsVisible
<1>1. Init => VisibleInv /\ DriverInv /\ ConnectedInv
  BY LinkAssumption DEF LinkAssumption, Init, VisibleInv, FuncsQuiet, DriverInv, RetOK,
    ReportsToBoundDriver, ConnectedInv, Apart, Class, Threads
<1>2. ConnectedInv => ConnectedIsVisible
  BY DEF ConnectedInv, ConnectedIsVisible, Class, Threads
<1>3. QED
  BY <1>1, <1>2, TypeCorrect, DriverStep, VisibleStep, ConnectedStep, PTL DEF Spec, TypeOK

-----------------------------------------------------------------------------
(* Every claim names an endpoint and every work item a video endpoint. *)
THEOREM FifoTypeCorrect == FifoSpec => []FifoTypeOK
<1>1. FifoInit => FifoTypeOK
  BY DEF FifoInit, FifoTypeOK
<1>2. FifoTypeOK /\ [FifoNext]_fifoVars => FifoTypeOK'
  <2> SUFFICES ASSUME FifoTypeOK, [FifoNext]_fifoVars PROVE FifoTypeOK'
    OBVIOUS
  <2> USE FifoAssumption DEF FifoAssumption, FifoTypeOK
  <2>1. ASSUME NEW e \in Eps, EpEnable(e) PROVE FifoTypeOK'
    BY <2>1 DEF EpEnable
  <2>2. ASSUME NEW e \in Eps, EpDisable(e) PROVE FifoTypeOK'
    <3>1. hwEn' \subseteq Eps /\ claim' \in [Fifos -> Eps \cup {NoEp}]
      BY <2>2 DEF EpDisable, SetEpDisable
    <3>2. enabled' \subseteq Eps /\ configured' \subseteq Eps /\ disWork' \subseteq Video
      BY <2>2 DEF EpDisable
    <3>3. QED
      BY <3>1, <3>2
  <2>3. ASSUME NEW e \in Eps, VideoDisableWork(e) PROVE FifoTypeOK'
    BY <2>3 DEF VideoDisableWork
  <2>4. CASE UNCHANGED fifoVars
    BY <2>4 DEF fifoVars
  <2>5. QED
    BY <2>1, <2>2, <2>3, <2>4 DEF FifoNext
<1>3. QED
  BY <1>1, <1>2, PTL DEF FifoSpec

(* An endpoint the hardware serves keeps its claim: only its own disable   *)
(* clears it, and that clears the enable bit too.                          *)
LEMMA ClaimStep == FifoTypeOK /\ ServedHoldsClaim /\ [FifoNext]_fifoVars => ServedHoldsClaim'
<1> SUFFICES ASSUME FifoTypeOK, ServedHoldsClaim, [FifoNext]_fifoVars PROVE ServedHoldsClaim'
  OBVIOUS
<1> USE FifoAssumption DEF FifoAssumption, FifoTypeOK, ServedHoldsClaim
<1>1. ASSUME NEW e \in Eps, EpEnable(e) PROVE ServedHoldsClaim'
  <2>1. CASE ~MayClaim(e)
    BY <1>1, <2>1 DEF EpEnable
  <2>2. CASE MayClaim(e)
    <3> SUFFICES ASSUME NEW d \in hwEn' PROVE claim'[FifoOf[d]] = d
      BY <1>1 DEF EpEnable
    <3>1. d \in hwEn \/ d = e
      BY <1>1, <2>2 DEF EpEnable
    <3>2. claim' = [claim EXCEPT ![FifoOf[e]] = e]
      BY <1>1, <2>2 DEF EpEnable
    <3>3. d # e => FifoOf[d] # FifoOf[e]
      BY <3>1, <2>2 DEF MayClaim
    <3>4. QED
      BY <3>1, <3>2, <3>3
  <2>3. QED
    BY <2>1, <2>2
<1>2. ASSUME NEW e \in Eps, EpDisable(e) PROVE ServedHoldsClaim'
  BY <1>2 DEF EpDisable, SetEpDisable
<1>3. ASSUME NEW e \in Eps, VideoDisableWork(e) PROVE ServedHoldsClaim'
  BY <1>3 DEF VideoDisableWork
<1>4. CASE UNCHANGED fifoVars
  BY <1>4 DEF fifoVars
<1>5. QED
  BY <1>1, <1>2, <1>3, <1>4 DEF FifoNext

(* Two endpoints with their enable bits set never share a FIFO, whatever   *)
(* sequence of enables, failed enables, disables and late work items led   *)
(* there.                                                                  *)
THEOREM FifoExclusiveCorrect == FifoSpec => []FifoExclusive
<1>1. FifoInit => ServedHoldsClaim
  BY DEF FifoInit, ServedHoldsClaim
<1>2. ServedHoldsClaim => FifoExclusive
  BY DEF ServedHoldsClaim, FifoExclusive
<1>3. QED
  BY <1>1, <1>2, FifoTypeCorrect, ClaimStep, PTL DEF FifoSpec
=============================================================================

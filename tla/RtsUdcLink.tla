----------------------------- MODULE RtsUdcLink -----------------------------
(***************************************************************************)
(* The link side of one Realtek USB device controller: who may switch the  *)
(* D+ pull-up on, and to which gadget driver the controller then reports   *)
(* what the host does.  Three kinds of actor interleave:                   *)
(*                                                                         *)
(*   - the UDC class code (drivers/usb/gadget/udc/core.c), one operation   *)
(*     at a time because each one holds the mutex udc_lock throughout;     *)
(*   - the functions of the bound gadget driver, which may deactivate and  *)
(*     activate the gadget (composite.c) and ask for a soft reset, without *)
(*     udc_lock;                                                           *)
(*   - the PHY interrupt (drivers/usb/realtek/core.c), which reports VBUS. *)
(*                                                                         *)
(* The driver's spinlock is held for the length of one action, so the      *)
(* model only records whether a path returned without releasing it.        *)
(***************************************************************************)
EXTENDS Naturals

CONSTANTS
  Drivers,    \* gadget drivers that may register
  NoDriver,   \* the NULL of the driver pointers
  Funcs,      \* functions of a bound gadget driver, each a thread
  FuncOps,    \* what they may do: a subset of {"deactivate", "soft_reset"}
  MaxDeact    \* bound on cdev->deactivations

ASSUME LinkAssumption ==
  /\ NoDriver \notin Drivers
  /\ "class" \notin Funcs
  /\ FuncOps \subseteq {"deactivate", "soft_reset"}
  /\ MaxDeact \in Nat
  /\ "deactivate" \in FuncOps => MaxDeact > 0

Class == "class"
Threads == Funcs \cup {Class}

(* Program points between two critical sections of a thread. *)
PCs == {"idle", "bind", "start", "sc_start", "conn", "pullup", "conn_set",
        "disc", "pulldown", "disc_set", "unbind", "stop", "sc_stop", "clear",
        "final_pulldown", "deact_set", "reset"}

VARIABLES
  pc,           \* program point of each thread
  ret,          \* where usb_gadget_connect/disconnect return to
  udcDriver,    \* udc->driver
  driverUp,     \* bind() has succeeded and unbind() has not run
  rtsDriver,    \* rtsusb->gadget_driver
  gadgetstart,  \* rtsusb->gadgetstart
  vbuson,       \* rtsusb->vbuson
  connectEn,    \* CONNECT_EN of USB_CTRL: the pull-up itself
  connected,    \* gadget->connected
  deactivated,  \* gadget->deactivated
  deactivations,\* cdev->deactivations
  phyInt,       \* VBUS interrupt enabled in USB_DPHYCFG2
  vbusLine,     \* the wire
  vbusBits,     \* the latched "on" and "down" status bits
  leaked,       \* rtsusb->lock was left held by a path that returned
  alive,        \* the platform device has not been removed
  funcOps       \* what the functions of this gadget do, chosen once

clsVars  == <<udcDriver, driverUp>>
rtsVars  == <<rtsDriver, gadgetstart, vbuson, connectEn>>
gadVars  == <<connected, deactivated, deactivations>>
phyVars  == <<phyInt, vbusLine, vbusBits>>
vars == <<pc, ret, clsVars, rtsVars, gadVars, phyVars, leaked, alive, funcOps>>

ControlType ==
  /\ pc \in [Threads -> PCs]
  /\ ret \in [Threads -> PCs]

DataType ==
  /\ udcDriver \in Drivers \cup {NoDriver}
  /\ rtsDriver \in Drivers \cup {NoDriver}
  /\ vbusBits \in SUBSET {"on", "down"}

ScenarioType == funcOps \in SUBSET FuncOps
CountType == deactivations \in 0..MaxDeact

FlagType ==
  /\ driverUp \in BOOLEAN /\ gadgetstart \in BOOLEAN /\ vbuson \in BOOLEAN
  /\ connectEn \in BOOLEAN /\ connected \in BOOLEAN /\ deactivated \in BOOLEAN
  /\ phyInt \in BOOLEAN /\ vbusLine \in BOOLEAN
  /\ leaked \in BOOLEAN /\ alive \in BOOLEAN

(* Type correctness of the program points and of the data they guard; the  *)
(* count of deactivations never falls below zero.                          *)
TypeOK == ControlType /\ DataType /\ ScenarioType /\ CountType /\ FlagType

(* After rts_usb_driver_probe: nothing bound, VBUS interrupt masked; VBUS  *)
(* already seen on at probe is reported by usb_gadget_vbus_connect, which  *)
(* finds gadgetstart = 0 and only records it.                              *)
Init ==
  /\ pc = [t \in Threads |-> "idle"]
  /\ ret = [t \in Threads |-> "idle"]
  /\ udcDriver = NoDriver /\ driverUp = FALSE
  /\ rtsDriver = NoDriver /\ gadgetstart = FALSE
  /\ vbusLine \in BOOLEAN /\ vbuson = vbusLine
  /\ connectEn = FALSE
  /\ connected = FALSE /\ deactivated = FALSE /\ deactivations = 0
  /\ phyInt = FALSE /\ vbusBits = {}
  /\ leaked = FALSE /\ alive = TRUE
  /\ funcOps \in SUBSET FuncOps

Goto(t, l) == pc' = [pc EXCEPT ![t] = l]
Call(t, l, r) == Goto(t, l) /\ ret' = [ret EXCEPT ![t] = r]
Return(t) == Goto(t, ret[t])

(***************************************************************************)
(* usb_gadget_connect and usb_gadget_disconnect, called by the class code  *)
(* and, through (de)activation, by functions.  Neither takes a lock of its *)
(* own: the test of gadget->deactivated, the pullup operation and the      *)
(* store to gadget->connected are three separate steps.                    *)
(***************************************************************************)
ConnectCheck(t) ==
  /\ pc[t] = "conn"
  /\ IF deactivated
       THEN connected' = TRUE /\ Return(t)
       ELSE Goto(t, "pullup") /\ UNCHANGED connected
  /\ UNCHANGED <<ret, clsVars, rtsVars, deactivated, deactivations, phyVars,
                 leaked, alive>>

(* rts_gadget_pullup(g, 1): the bit is only set when VBUS is known on. *)
PullupOn(t) ==
  /\ pc[t] = "pullup" /\ ~leaked
  /\ gadgetstart' = TRUE
  /\ connectEn' = (connectEn \/ vbuson)
  /\ Goto(t, "conn_set")
  /\ UNCHANGED <<ret, clsVars, rtsDriver, vbuson, gadVars, phyVars, leaked, alive>>

ConnectSet(t) ==
  /\ pc[t] = "conn_set"
  /\ connected' = TRUE
  /\ Return(t)
  /\ UNCHANGED <<ret, clsVars, rtsVars, deactivated, deactivations, phyVars,
                 leaked, alive>>

DisconnectCheck(t) ==
  /\ pc[t] = "disc"
  /\ IF deactivated
       THEN connected' = FALSE /\ Return(t)
       ELSE Goto(t, "pulldown") /\ UNCHANGED connected
  /\ UNCHANGED <<ret, clsVars, rtsVars, deactivated, deactivations, phyVars,
                 leaked, alive>>

(* Mutated form: gadgetstart survives the disconnect. *)
PullupOff_KeepsStart(t) ==
  /\ pc[t] = "pulldown" /\ ~leaked
  /\ connectEn' = FALSE
  /\ Goto(t, "disc_set")
  /\ UNCHANGED <<ret, clsVars, rtsDriver, gadgetstart, vbuson, gadVars, phyVars,
                 leaked, alive>>

(* rts_gadget_pullup(g, 0). *)
PullupOff(t) ==
  /\ pc[t] = "pulldown" /\ ~leaked
  /\ gadgetstart' = FALSE
  /\ connectEn' = FALSE
  /\ Goto(t, "disc_set")
  /\ UNCHANGED <<ret, clsVars, rtsDriver, vbuson, gadVars, phyVars, leaked, alive>>

(* connected = 0, then udc->driver->disconnect(). *)
DisconnectSet(t) ==
  /\ pc[t] = "disc_set"
  /\ connected' = FALSE
  /\ Return(t)
  /\ UNCHANGED <<ret, clsVars, rtsVars, deactivated, deactivations, phyVars,
                 leaked, alive>>

(***************************************************************************)
(* Class operations, serialised by udc_lock.                               *)
(***************************************************************************)
ClassIdle == alive /\ pc[Class] = "idle"

(* usb_gadget_probe_driver finding this UDC free; enters udc_bind_to_driver. *)
RegisterDriver(d) ==
  /\ ClassIdle /\ udcDriver = NoDriver
  /\ udcDriver' = d
  /\ Goto(Class, "bind")
  /\ UNCHANGED <<ret, driverUp, rtsVars, gadVars, phyVars, leaked, alive>>

(* driver->bind(): a fresh composite device, possibly with a function that *)
(* deactivates the gadget until its user-space daemon is ready.            *)
BindOk ==
  /\ pc[Class] = "bind"
  /\ driverUp' = TRUE
  /\ \E n \in IF "deactivate" \in funcOps THEN {0, 1} ELSE {0} :
       /\ deactivations' = n
       /\ deactivated' = (deactivated \/ n = 1)
  /\ Goto(Class, "start")
  /\ UNCHANGED <<ret, udcDriver, rtsVars, connected, phyVars, leaked, alive>>

BindFail ==
  /\ pc[Class] = "bind"
  /\ udcDriver' = NoDriver
  /\ Goto(Class, "idle")
  /\ UNCHANGED <<ret, driverUp, rtsVars, gadVars, phyVars, leaked, alive>>

(* rts_gadget_udc_start.  The -EBUSY path returns with the lock held.      *)
(* udc_bind_to_driver unbinds on an error; soft_connect_store ignores it.  *)
UdcStart ==
  /\ pc[Class] \in {"start", "sc_start"} /\ ~leaked
  /\ phyInt' = TRUE
  /\ IF rtsDriver # NoDriver
       THEN /\ leaked' = TRUE
            /\ UNCHANGED <<rtsDriver, gadgetstart>>
       ELSE /\ rtsDriver' = udcDriver
            /\ gadgetstart' = TRUE
            /\ UNCHANGED leaked
  /\ IF pc[Class] = "start" /\ rtsDriver # NoDriver
       THEN Goto(Class, "unbind") /\ UNCHANGED ret
       ELSE Call(Class, "conn", "idle")
  /\ UNCHANGED <<clsVars, vbuson, connectEn, gadVars, vbusLine, vbusBits, alive>>

(* usb_gadget_unregister_driver -> usb_gadget_remove_driver. *)
UnregisterDriver ==
  /\ ClassIdle /\ udcDriver # NoDriver
  /\ Call(Class, "disc", "unbind")
  /\ UNCHANGED <<clsVars, rtsVars, gadVars, phyVars, leaked, alive>>

(* driver->unbind(): returns once the functions' own calls have finished. *)
Unbind ==
  /\ pc[Class] = "unbind"
  /\ \A f \in Funcs : pc[f] = "idle"
  /\ driverUp' = FALSE
  /\ Goto(Class, "stop")
  /\ UNCHANGED <<ret, udcDriver, rtsVars, gadVars, phyVars, leaked, alive>>

(* Mutated form: the controller keeps its driver pointer. *)
UdcStop_KeepsDriver ==
  /\ pc[Class] \in {"stop", "sc_stop"} /\ ~leaked
  /\ gadgetstart' = FALSE
  /\ Goto(Class, IF pc[Class] = "stop" THEN "clear" ELSE "idle")
  /\ UNCHANGED <<ret, clsVars, rtsDriver, vbuson, connectEn, gadVars, phyVars,
                 leaked, alive>>

(* rts_gadget_udc_stop clears the driver and gadgetstart, not the pull-up. *)
UdcStop ==
  /\ pc[Class] \in {"stop", "sc_stop"} /\ ~leaked
  /\ rtsDriver' = NoDriver
  /\ gadgetstart' = FALSE
  /\ Goto(Class, IF pc[Class] = "stop" THEN "clear" ELSE "idle")
  /\ UNCHANGED <<ret, clsVars, vbuson, connectEn, gadVars, phyVars, leaked, alive>>

ClearDriver ==
  /\ pc[Class] = "clear"
  /\ udcDriver' = NoDriver
  /\ Goto(Class, IF alive THEN "idle" ELSE "final_pulldown")
  /\ UNCHANGED <<ret, driverUp, rtsVars, gadVars, phyVars, leaked, alive>>

(* soft_connect_store: "connect" and "disconnect" written to sysfs. *)
SoftConnect ==
  /\ ClassIdle /\ udcDriver # NoDriver
  /\ Goto(Class, "sc_start")
  /\ UNCHANGED <<ret, clsVars, rtsVars, gadVars, phyVars, leaked, alive>>

SoftDisconnect ==
  /\ ClassIdle /\ udcDriver # NoDriver
  /\ Call(Class, "disc", "sc_stop")
  /\ UNCHANGED <<clsVars, rtsVars, gadVars, phyVars, leaked, alive>>

(* rts_usb_driver_remove: usb_del_gadget_udc, then rts_gadget_pullup(0). *)
DriverRemove ==
  /\ ClassIdle
  /\ alive' = FALSE
  /\ IF udcDriver # NoDriver
       THEN Call(Class, "disc", "unbind")
       ELSE Goto(Class, "final_pulldown") /\ UNCHANGED ret
  /\ UNCHANGED <<clsVars, rtsVars, gadVars, phyVars, leaked>>

FinalPulldown ==
  /\ pc[Class] = "final_pulldown" /\ ~leaked
  /\ gadgetstart' = FALSE
  /\ connectEn' = FALSE
  /\ Goto(Class, "idle")
  /\ UNCHANGED <<ret, clsVars, rtsDriver, vbuson, gadVars, phyVars, leaked, alive>>

(***************************************************************************)
(* Functions of the bound driver.                                          *)
(***************************************************************************)
FuncMay(f, op) == pc[f] = "idle" /\ driverUp /\ op \in funcOps

(* usb_function_deactivate -> usb_gadget_deactivate; cdev->lock is dropped *)
(* around the call, so only the counter itself is protected by it.         *)
FuncDeactivate(f) ==
  /\ FuncMay(f, "deactivate") /\ deactivations < MaxDeact
  /\ deactivations' = deactivations + 1
  /\ IF deactivations > 0 \/ deactivated
       THEN UNCHANGED <<pc, ret, deactivated>>
       ELSE IF connected
         THEN Call(f, "disc", "deact_set") /\ UNCHANGED deactivated
         ELSE deactivated' = TRUE /\ UNCHANGED <<pc, ret>>
  /\ UNCHANGED <<clsVars, rtsVars, connected, phyVars, leaked, alive>>

(* "we want to reconnect it in usb_gadget_activate()" *)
DeactivateSet(f) ==
  /\ pc[f] = "deact_set"
  /\ connected' = TRUE
  /\ deactivated' = TRUE
  /\ Goto(f, "idle")
  /\ UNCHANGED <<ret, clsVars, rtsVars, deactivations, phyVars, leaked, alive>>

(* usb_function_activate -> usb_gadget_activate on the last activation. *)
FuncActivate(f) ==
  /\ FuncMay(f, "deactivate") /\ deactivations > 0
  /\ deactivations' = deactivations - 1
  /\ IF deactivations = 1 /\ deactivated
       THEN /\ deactivated' = FALSE
            /\ IF connected THEN Call(f, "conn", "idle")
                            ELSE UNCHANGED <<pc, ret>>
       ELSE UNCHANGED <<pc, ret, deactivated>>
  /\ UNCHANGED <<clsVars, rtsVars, connected, phyVars, leaked, alive>>

(* rts_usb_device_soft_reset: off, 5 ms, on; no lock and no condition. *)
SoftResetOff(f) ==
  /\ FuncMay(f, "soft_reset")
  /\ connectEn' = FALSE
  /\ Goto(f, "reset")
  /\ UNCHANGED <<ret, clsVars, rtsDriver, gadgetstart, vbuson, gadVars, phyVars,
                 leaked, alive>>

SoftResetOn(f) ==
  /\ pc[f] = "reset"
  /\ connectEn' = TRUE
  /\ Goto(f, "idle")
  /\ UNCHANGED <<ret, clsVars, rtsDriver, gadgetstart, vbuson, gadVars, phyVars,
                 leaked, alive>>

(***************************************************************************)
(* VBUS: the wire, and the PHY interrupt that follows it.                  *)
(***************************************************************************)
VbusChange ==
  /\ vbusLine' = ~vbusLine
  /\ vbusBits' = vbusBits \cup {IF vbusLine THEN "down" ELSE "on"}
  /\ UNCHANGED <<pc, ret, clsVars, rtsVars, gadVars, phyInt, leaked, alive>>

(* Mutated form: a session that starts does not switch the pull-up on. *)
VbusSession_NoConnect(on) ==
  /\ vbuson' = on
  /\ connectEn' = (connectEn /\ gadgetstart /\ on)

(* rts_gadget_vbus_session(g, on). *)
VbusSession(on) ==
  /\ vbuson' = on
  /\ connectEn' = (gadgetstart /\ on)

(* Mutated form: both bits set is taken for a session that starts. *)
PhyIrq_BothIsOn ==
  /\ alive \/ pc[Class] # "idle"
  /\ phyInt /\ ~leaked /\ vbusBits # {}
  /\ VbusSession("on" \in vbusBits)
  /\ vbusBits' = {}
  /\ UNCHANGED <<pc, ret, clsVars, rtsDriver, gadgetstart, gadVars, phyInt,
                 vbusLine, leaked, alive>>

(* rts_usb_phy_irq.  Writing the status back acknowledges the bits left    *)
(* set in it: "on" alone, "down" alone, and only "on" when both are set,   *)
(* where the handler treats the session as ended.                          *)
PhyIrq ==
  /\ alive \/ pc[Class] # "idle"
  /\ phyInt /\ ~leaked /\ vbusBits # {}
  /\ VbusSession(vbusBits = {"on"})
  /\ vbusBits' = IF "on" \in vbusBits THEN vbusBits \ {"on"} ELSE {}
  /\ UNCHANGED <<pc, ret, clsVars, rtsDriver, gadgetstart, gadVars, phyInt,
                 vbusLine, leaked, alive>>

ClassStep ==
  \/ ConnectCheck(Class) \/ PullupOn(Class) \/ ConnectSet(Class)
  \/ DisconnectCheck(Class) \/ PullupOff(Class) \/ DisconnectSet(Class)
  \/ BindOk \/ BindFail \/ UdcStart \/ Unbind \/ UdcStop \/ ClearDriver
  \/ FinalPulldown

ClassOp ==
  \/ \E d \in Drivers : RegisterDriver(d)
  \/ UnregisterDriver \/ SoftConnect \/ SoftDisconnect \/ DriverRemove

FuncStep(f) ==
  \/ ConnectCheck(f) \/ PullupOn(f) \/ ConnectSet(f)
  \/ DisconnectCheck(f) \/ PullupOff(f) \/ DisconnectSet(f)
  \/ DeactivateSet(f) \/ SoftResetOn(f)

FuncOp(f) == FuncDeactivate(f) \/ FuncActivate(f) \/ SoftResetOff(f)

Step ==
  \/ ClassOp \/ ClassStep
  \/ \E f \in Funcs : FuncOp(f) \/ FuncStep(f)
  \/ VbusChange \/ PhyIrq

Next == Step /\ UNCHANGED funcOps

Spec == Init /\ [][Next]_vars

(* A thread that has entered an operation keeps running; nothing obliges   *)
(* anybody to start one, and the wire may stay as it is.                   *)
FairSpec ==
  /\ Spec
  /\ WF_vars(ClassStep /\ UNCHANGED funcOps)
  /\ \A f \in Funcs : WF_vars(FuncStep(f) /\ UNCHANGED funcOps)
  /\ WF_vars(PhyIrq /\ UNCHANGED funcOps)

(***************************************************************************)
(* Properties.                                                             *)
(***************************************************************************)

(* The controller never reports to a driver other than the one the class   *)
(* code has bound: rtsusb->gadget_driver is NULL or udc->driver, through   *)
(* every interleaving of registering, soft connects and removal.           *)
ReportsToBoundDriver == rtsDriver \in {NoDriver, udcDriver}

(* When the functions neither deactivate the gadget nor reset the link,    *)
(* the host sees the pull-up only between bind() and unbind() of the       *)
(* driver the controller reports to: no setup or reset callback can reach  *)
(* a driver that is being torn down, or the NULL pointer; and only during  *)
(* a VBUS session of a started gadget.                                     *)
VisibleOnlyWhileBound ==
  funcOps = {} /\ connectEn =>
    /\ driverUp /\ rtsDriver # NoDriver /\ rtsDriver = udcDriver
    /\ vbuson /\ gadgetstart

(* usb_gadget_connect's "pullup is always enabled unless                   *)
(* usb_gadget_disconnect() has been used": once a connect has returned and *)
(* nothing is under way, a VBUS session means the pull-up is on.           *)
ConnectedIsVisible ==
  (/\ funcOps = {} /\ \A t \in Threads : pc[t] = "idle"
   /\ connected /\ vbuson) => connectEn

(* Every class operation returns to its caller. *)
OperationsReturn == pc[Class] # "idle" ~> pc[Class] = "idle"

(* A VBUS session that ends is noticed: with the interrupt unmasked and    *)
(* the wire staying down, the driver ends its session.                     *)
VbusLossNoticed ==
  [](<>[](phyInt /\ ~vbusLine /\ alive /\ ~leaked) => <>[](~vbuson))
=============================================================================

----------------------------- MODULE UsbControl -----------------------------
(***************************************************************************)
(* Control transfers: endpoint 0 of the Realtek controller                 *)
(* (drivers/usb/realtek/core.c) with the composite framework above it      *)
(* (drivers/usb/gadget/composite.c).  The host sends a SETUP, the          *)
(* interrupt handler answers it itself, or asks the framework, which       *)
(* answers or lets a function answer later from a thread of its own; at    *)
(* the same time the class code may take the gadget driver away.           *)
(*                                                                         *)
(* Both boards have one processor: the interrupt handler with all the      *)
(* callbacks it makes is one action, and so is every section with          *)
(* interrupts disabled.  The hardware and the host go on in between.       *)
(***************************************************************************)
EXTENDS Naturals, SequencesExt, FiniteSets

CONSTANTS
  MaxPacket,   \* ep0 maxpacket
  Requests,    \* the SETUP packets of the host: [kind, in, w (wLength), arg]
  Functions,   \* Functions[c]: the functions of configuration c, a sequence
  Scenarios    \* what may happen: <<events, kinds>>, events among "abort" and
               \* "unbind", kinds the kinds of requests the host sends

Configs == DOMAIN Functions
FuncsOf(c) == IF c = 0 THEN {} ELSE ToSet(Functions[c])
AllFuncs == UNION {FuncsOf(c) : c \in Configs}

(* A packet holds something, bConfigurationValue 0 means unconfigured, and   *)
(* configurations have finitely many functions.                              *)
ASSUME ControlAssumption ==
  /\ MaxPacket \in Nat \ {0}
  /\ \A r \in Requests : r.in \in BOOLEAN /\ r.w \in Nat
  /\ 0 \notin Configs /\ IsFiniteSet(AllFuncs)

(* cdev->req, cdev->os_desc_req, and rtsusb->ep0_req, which answers GET_STATUS. *)
Reqs == {"cdev", "os", "own"}
StatusLen == 2

VARIABLES
  scen,      \* the scenario, chosen once
  host,      \* [at, got]: where the host is and how much of the data stage is over
  setup,     \* USB_EP0_SETUP_DATA
  irq,       \* USB_IRQ_STATUS: "se0", "setup", "in", "out"
  ep0,       \* the endpoint, see Ep0Type
  comp,      \* [config, active, delayed]: cdev->config, its functions that are
             \* set up, and cdev->delayed_status
  owed,      \* functions that still have to call usb_composite_setup_continue
  cls,       \* how far the class code is with taking the driver away
  touched    \* history: a request was used while it was on the queue

Events == scen[1]
controlVars == <<scen, host, setup, irq, ep0, comp, owed, cls, touched>>

(* queue, and request.length and .actual of each request; in: dir_in; ie: the *)
(* enabled interrupts; armed, bc: the buffer and its byte count; csh, stall:  *)
(* the answers to the status stage; pend: setup_pending and os_desc_pending;  *)
(* ans (history): the length of the data stage that was answered.             *)
Ep0Type ==
  [queue : Seq(Reqs), len : [Reqs -> Nat], act : [Reqs -> Nat], in : BOOLEAN,
   ie : SUBSET {"in", "out"}, armed : {"none", "in", "out"}, bc : 0..MaxPacket,
   csh : BOOLEAN, stall : BOOLEAN, pend : SUBSET {"cdev", "os"}, ans : Nat]

(* The endpoint, the configuration and the host are in known states. *)
ControlTypeOK ==
  /\ host \in [at : {"off", "reset", "idle", "wait"}, got : Nat]
  /\ setup \in Requests /\ irq \subseteq {"se0", "setup", "in", "out"}
  /\ ep0 \in Ep0Type
  /\ comp \in [config : Configs \cup {0}, active : SUBSET AllFuncs, delayed : Nat]
  /\ owed \subseteq AllFuncs /\ cls \in {"bound", "off", "gone", "unbound"}
  /\ touched \in BOOLEAN

Unconfigured == [config |-> 0, active |-> {}, delayed |-> 0]
NoEp0 ==
  [queue |-> << >>, len |-> [r \in Reqs |-> 0], act |-> [r \in Reqs |-> 0], in |-> FALSE,
   ie |-> {}, armed |-> "none", bc |-> 0, csh |-> FALSE, stall |-> FALSE, pend |-> {}, ans |-> 0]

ControlInit ==
  /\ scen \in Scenarios
  /\ host = [at |-> "off", got |-> 0] /\ setup \in Requests /\ setup.kind \in scen[2]
  /\ irq = {} /\ ep0 = NoEp0
  /\ comp = Unconfigured /\ owed = {} /\ cls = "bound" /\ touched = FALSE

-----------------------------------------------------------------------------
(* Endpoint 0. *)

Dir(e) == IF e.in THEN "in" ELSE "out"
Packet(e, r) == IF e.len[r] - e.act[r] > MaxPacket THEN MaxPacket ELSE e.len[r] - e.act[r]

Stall(e) == [e EXCEPT !.stall = TRUE]      \* rts_set_cxstall
Ack(e) == [e EXCEPT !.csh = TRUE]          \* rts_set_cxdone

(* rts_start_ep0_transfer *)
Start(e, r) == [e EXCEPT !.ie = @ \cup {Dir(e)}, !.armed = Dir(e), !.bc = Packet(e, r)]

(* list_del_init *)
Unlink(q, r) ==
  IF Contains(q, r) THEN RemoveAt(q, CHOOSE i \in 1..Len(q) : q[i] = r) ELSE q

(* rts_done with the completion callback.  After OUT data the filter of the  *)
(* functions may refuse (ok is FALSE).  Lengths are of no interest any more. *)
Done(e, r, ok) ==
  LET d == [e EXCEPT !.queue = Unlink(@, r), !.ie = @ \ {Dir(e)}, !.pend = @ \ {r},
                     !.len[r] = 0, !.act[r] = 0, !.bc = 0,
                     !.armed = IF @ = Dir(e) THEN "none" ELSE @]
  IN  IF e.in \/ ok THEN Ack(d) ELSE Stall(d)

(* rts_ep_queue on endpoint 0: an empty request is completed at once. *)
Queue(e, r, n, ok) ==
  LET q == [e EXCEPT !.queue = Append(@, r), !.len[r] = n, !.act[r] = 0, !.ans = n]
  IN  IF n = 0 THEN Done(q, r, ok) ELSE Start(q, r)

(* composite_ep0_queue: setup_pending is set when usb_ep_queue has returned. *)
CompositeQueue(e, r, n, ok) == [Queue(e, r, n, ok) EXCEPT !.pend = @ \cup {r}]

(* rts_ep_dequeue *)
Dequeue(e, r) == IF e.queue = << >> THEN e ELSE Done(e, r, TRUE)

(* Mutated form: only a short packet ends a transfer. *)
ShortPacketEnds(e, r) == e.act[r] < MaxPacket
LastPacket(e, r) == e.act[r] = e.len[r] \/ e.act[r] < MaxPacket

(* rts_ep0_transfer_process: a packet of the first request went through. *)
Process(e, ok) ==
  LET r == Head(e.queue)
      q == [e EXCEPT !.act[r] = @ + Packet(e, r)]
  IN  IF e.queue = << >> THEN e
      ELSE IF LastPacket(q, r) THEN Done(q, r, ok) ELSE Start(q, r)

-----------------------------------------------------------------------------
(* The interrupt handler.  Acknowledging one bit writes back the whole       *)
(* status register and so acknowledges every bit that is set.                *)

(* reset_config *)
ResetConfig(c) == IF c.config = 0 THEN c ELSE Unconfigured

(* rts_usb_se0_irq: usb_gadget_udc_reset, which is composite_disconnect. *)
IrqReset ==
  /\ "se0" \in irq
  /\ irq' = {} /\ comp' = ResetConfig(comp)
  /\ UNCHANGED <<scen, host, setup, ep0, owed, cls, touched>>

IntVal == irq \cap (ep0.ie \cup {"setup"})
Late(e, ok) ==
  LET i == IF "in" \in IntVal THEN Process(e, ok) ELSE e
  IN  IF "out" \in IntVal THEN Process(i, ok) ELSE i

IrqData(ok) ==
  /\ irq \cap {"se0", "setup"} = {} /\ IntVal # {}
  /\ irq' = {} /\ ep0' = Late(ep0, ok)
  /\ UNCHANGED <<scen, host, setup, comp, owed, cls, touched>>

(* rts_usb_ep0_irq with a SETUP: its answer leaves the endpoint in e, and    *)
(* the data bits that were read with it are processed last.  used are the    *)
(* requests it fills in.                                                     *)
Answer(e, used, ok) ==
  /\ irq' = {} /\ ep0' = Late(e, ok)
  /\ touched' = (\E r \in used : Contains(ep0.queue, r))
  /\ UNCHANGED <<scen, host, setup, cls>>
Received(kinds) == irq \cap {"se0", "setup"} = {"setup"} /\ setup.kind \in kinds /\ ~touched
Ep0Setup == [ep0 EXCEPT !.in = setup.in]
Quiet == UNCHANGED <<comp, owed>>

(* SET_ADDRESS, SET_FEATURE and CLEAR_FEATURE are answered by the driver,    *)
(* and so is GET_STATUS.                                                     *)
SetupFeature(good) ==
  /\ Received({"feature"})
  /\ Answer(IF good THEN Ack(Ep0Setup) ELSE Stall(Ep0Setup), {}, TRUE) /\ Quiet

(* For endpoint 0 itself (status0) it is stalled and answered as well; for a *)
(* recipient it does not know it is stalled.                                 *)
SetupGetStatus(known) ==
  /\ Received({"status", "status0"}) /\ Quiet
  /\ LET e == IF setup.kind = "status" THEN Ep0Setup ELSE Stall(Ep0Setup)
     IN  IF known THEN Answer(Queue(e, "own", StatusLen, TRUE), {"own"}, TRUE)
         ELSE Answer(Stall(e), {}, TRUE)

(* composite_setup: descriptors and numbers of at most wLength bytes, in     *)
(* cdev->req or in the request for OS descriptors, or a stall.               *)
SetupRead(r, n, ok) ==
  /\ Received({"read"})
  /\ Answer(CompositeQueue(Ep0Setup, r, n, ok), {"cdev", r}, ok) /\ Quiet
SetupUnknown ==
  /\ Received({"read", "func"})
  /\ Answer(Stall(Ep0Setup), {"cdev"}, TRUE) /\ Quiet

(* OUT data larger than the buffer of cdev->req: refused before anything. *)
SetupTooLong ==
  /\ Received({"func"}) /\ ~setup.in
  /\ Answer(Stall(Ep0Setup), {}, TRUE) /\ Quiet

(* A request for the configuration or one of its functions (ss_config_setup): *)
(* it is answered in cdev->req, queued without composite_ep0_queue.          *)
SetupFunction(ok) ==
  /\ Received({"func"}) /\ comp.config # 0
  /\ Answer(Queue(Ep0Setup, "cdev", setup.w, ok), {"cdev"}, ok) /\ Quiet

(* Mutated form: the functions before the one that failed are not disabled. *)
NotDisabled(c, k) ==
  [Unconfigured EXCEPT !.active = {Functions[c][i] : i \in 1..(k - 1)}]
SetAltFailed(c, k) == Unconfigured

Configured(c, late) == [config |-> c, active |-> FuncsOf(c), delayed |-> Cardinality(late)]

(* set_config: function k, if there is one (k > 0), fails in set_alt; those  *)
(* in late ask for a delayed status.                                         *)
SetupConfig(k, late, ok) ==
  LET c == setup.arg
  IN  /\ Received({"config"})
      /\ \/ /\ c \notin Configs \cup {0} /\ k = 0 /\ late = {}
            /\ Answer(Stall(Ep0Setup), {"cdev"}, ok) /\ Quiet
         \/ /\ c = 0 /\ k = 0 /\ late = {}
            /\ comp' = ResetConfig(comp) /\ UNCHANGED owed
            /\ Answer(CompositeQueue(Ep0Setup, "cdev", 0, ok), {"cdev"}, ok)
         \/ /\ c \in Configs /\ k \in 1..Len(Functions[c])
            /\ late \subseteq {Functions[c][i] : i \in 1..(k - 1)}
            /\ comp' = SetAltFailed(c, k) /\ owed' = owed \cup late
            /\ Answer(Stall(Ep0Setup), {"cdev"}, ok)
         \/ /\ c \in Configs /\ k = 0 /\ late \subseteq FuncsOf(c)
            /\ comp' = Configured(c, late) /\ owed' = owed \cup late
            /\ Answer(IF late = {} THEN CompositeQueue(Ep0Setup, "cdev", 0, ok) ELSE Ep0Setup,
                      {"cdev"}, ok)

(* SET_INTERFACE for the function in arg: set_alt disables it and sets it up *)
(* again.  An altsetting it does not have is refused before that.            *)
SetupInterface(res, ok) ==
  LET f == setup.arg
  IN  /\ Received({"interface"})
      /\ \/ /\ res = "refused" \/ f \notin FuncsOf(comp.config)
            /\ Answer(Stall(Ep0Setup), {"cdev"}, ok) /\ Quiet
         \/ /\ res = "fails" /\ f \in FuncsOf(comp.config)
            /\ comp' = [comp EXCEPT !.active = @ \ {f}] /\ UNCHANGED owed
            /\ Answer(Stall(Ep0Setup), {"cdev"}, ok)
         \/ /\ res = "delays" /\ f \in FuncsOf(comp.config)
            /\ comp' = [comp EXCEPT !.active = @ \cup {f}, !.delayed = @ + 1]
            /\ owed' = owed \cup {f}
            /\ Answer(Ep0Setup, {"cdev"}, ok)
         \/ /\ res = "works" /\ f \in FuncsOf(comp.config)
            /\ comp' = [comp EXCEPT !.active = @ \cup {f}] /\ UNCHANGED owed
            /\ Answer(CompositeQueue(Ep0Setup, "cdev", 0, ok), {"cdev"}, ok)

IrqSetup(ok) ==
  \/ \E good \in BOOLEAN : SetupFeature(good)
  \/ \E known \in BOOLEAN : SetupGetStatus(known)
  \/ \E r \in {"cdev", "os"}, n \in 0..setup.w : SetupRead(r, n, ok)
  \/ SetupUnknown \/ SetupTooLong
  \/ SetupFunction(ok)
  \/ \E k \in 0..Cardinality(AllFuncs), late \in SUBSET AllFuncs : SetupConfig(k, late, ok)
  \/ \E res \in {"works", "delays", "fails", "refused"} : SetupInterface(res, ok)

Irq == IrqReset \/ \E ok \in BOOLEAN : IrqData(ok) \/ IrqSetup(ok)

-----------------------------------------------------------------------------
(* Threads. *)

(* usb_composite_setup_continue; a call that nobody waits for is ignored. *)
Continue(f, ok) ==
  /\ f \in owed /\ owed' = owed \ {f} /\ ~touched
  /\ comp' = [comp EXCEPT !.delayed = IF @ = 0 THEN 0 ELSE @ - 1]
  /\ IF comp.delayed = 1
     THEN /\ ep0' = CompositeQueue(ep0, "cdev", 0, ok)
          /\ touched' = Contains(ep0.queue, "cdev")
     ELSE UNCHANGED <<ep0, touched>>
  /\ UNCHANGED <<scen, host, setup, irq, cls>>

Gone == [at |-> "off", got |-> 0]

(* usb_gadget_remove_driver: the pull-up goes off, *)
DriverPullupOff ==
  /\ "unbind" \in Events /\ cls = "bound" /\ cls' = "off" /\ host' = Gone
  /\ UNCHANGED <<scen, setup, irq, ep0, comp, owed, touched>>

(* composite_disconnect is called (an interrupt that was pending is taken as *)
(* soon as rts_gadget_pullup enables interrupts again, so before this call), *)
DisconnectDriver ==
  /\ cls = "off" /\ irq = {} /\ cls' = "gone"
  /\ comp' = ResetConfig(comp)
  /\ UNCHANGED <<scen, host, setup, irq, ep0, owed, touched>>

(* composite_dev_cleanup takes the pending requests off the queue *)
Cleanup(e) ==
  LET os == IF "os" \in e.pend THEN Dequeue(e, "os") ELSE e
  IN  IF "cdev" \in os.pend THEN Dequeue(os, "cdev") ELSE os

(* and frees them, after __composite_unbind has removed the functions, whose *)
(* threads end.                                                              *)
DriverUnbind ==
  /\ cls = "gone" /\ cls' = "unbound" /\ ~touched
  /\ ep0' = [Cleanup(ep0) EXCEPT !.pend = {}]
  /\ touched' = \E r \in {"cdev", "os"} : Contains(Cleanup(ep0).queue, r)
  /\ comp' = [comp EXCEPT !.active = {}] /\ owed' = {}
  /\ UNCHANGED <<scen, host, setup, irq>>

(* composite_bind of the next driver, and the pull-up. *)
Bind ==
  /\ cls = "unbound" /\ cls' = "bound" /\ ~touched
  /\ comp' = Unconfigured /\ ep0' = [ep0 EXCEPT !.pend = {}]
  /\ UNCHANGED <<scen, host, setup, irq, owed, touched>>

-----------------------------------------------------------------------------
(* The host and the hardware.  Unless it aborts, a host waits for the end of *)
(* a transfer before it does anything else.                                  *)

MayBegin == host.at \in {"off", "idle", "reset"} \/ (host.at = "wait" /\ "abort" \in Events)
Fresh == [ep0 EXCEPT !.csh = FALSE, !.stall = FALSE, !.armed = "none", !.ans = 0]

BusReset ==
  /\ cls = "bound" /\ MayBegin /\ host.at # "reset"
  /\ host' = [at |-> "reset", got |-> 0] /\ irq' = irq \cup {"se0"} /\ ep0' = Fresh
  /\ UNCHANGED <<scen, setup, comp, owed, cls, touched>>

(* A bus reset takes longer than the handler, which has run before the SETUP. *)
SendSetup(r) ==
  /\ r.kind \in scen[2] /\ MayBegin /\ host.at # "off" /\ "se0" \notin irq
  /\ host' = [at |-> "wait", got |-> 0] /\ setup' = r
  /\ irq' = irq \cup {"setup"} /\ ep0' = Fresh
  /\ UNCHANGED <<scen, comp, owed, cls, touched>>

Unplug ==
  /\ MayBegin /\ host.at # "off" /\ host' = Gone
  /\ UNCHANGED <<scen, setup, irq, ep0, comp, owed, cls, touched>>

DataPacket ==
  /\ host.at = "wait" /\ "setup" \notin irq /\ ~ep0.stall
  /\ ep0.armed = IF setup.in THEN "in" ELSE "out"
  /\ host' = [host EXCEPT !.got = @ + ep0.bc] /\ irq' = irq \cup {ep0.armed}
  /\ ep0' = [ep0 EXCEPT !.armed = "none"]
  /\ UNCHANGED <<scen, setup, comp, owed, cls, touched>>

StatusStage ==
  /\ host.at = "wait" /\ "setup" \notin irq /\ (ep0.csh \/ ep0.stall)
  /\ host' = [at |-> "idle", got |-> 0]
  /\ UNCHANGED <<scen, setup, irq, ep0, comp, owed, cls, touched>>

Wire == DataPacket \/ StatusStage

ControlNext ==
  \/ Irq
  \/ \E f \in AllFuncs, ok \in BOOLEAN : Continue(f, ok)
  \/ DriverPullupOff \/ DisconnectDriver \/ DriverUnbind \/ Bind
  \/ BusReset \/ Unplug \/ \E r \in Requests : SendSetup(r)
  \/ Wire

ControlSpec == ControlInit /\ [][ControlNext]_controlVars

-----------------------------------------------------------------------------
(* "Once a gadget driver submits a request, that request may not be examined *)
(* or modified until it is given back" (udc/core.c): no request is filled in *)
(* again, queued or freed while it is on the queue of endpoint 0.            *)
RequestIdle == ~touched

(* So it is for a host that waits for its answers; and for one that sends    *)
(* only what cdev->req and composite_ep0_queue answer, whenever the driver   *)
(* is taken away.  Then, too, the status stage is acknowledged only after    *)
(* all of the data stage that was answered, in whatever packets.             *)
Orderly ==
  /\ "abort" \notin Events /\ "status0" \notin scen[2]
  /\ "unbind" \in Events => {"status", "func"} \cap scen[2] = {}
ControlSound ==
  Orderly => /\ RequestIdle
             /\ host.at = "wait" /\ ep0.csh /\ ~ep0.stall => host.got = ep0.ans

(* Functions are set up only for the configuration that is chosen, through   *)
(* functions that fail half way, resets and unplugging; a status is delayed  *)
(* only while somebody is going to continue; and the driver is unbound only  *)
(* when nothing is configured, the WARN_ON of __composite_unbind.            *)
ConfigExact ==
  /\ comp.active \subseteq FuncsOf(comp.config)
  /\ "abort" \notin Events => comp.delayed <= Cardinality(owed)
  /\ cls \in {"gone", "unbound"} => comp.config = 0

(* Endpoint 0 and the composite framework together. *)
ControlExact == ControlTypeOK /\ ControlSound /\ ConfigExact

(* Every control transfer of a host that waits for it is answered, also when *)
(* several functions delay it and continue in any order.                     *)
ControlAnswered == host.at = "wait" ~> host.at # "wait"
=============================================================================

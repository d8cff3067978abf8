------------------------------ MODULE RtsUdcEp ------------------------------
(***************************************************************************)
(* One data endpoint of the Realtek USB device controller                  *)
(* (drivers/usb/realtek/core.c): its request queue, the transfer engine    *)
(* behind it, and who gives requests back.  Its kind selects the code path: *)
(*                                                                         *)
(*   "out"    bulk OUT and audio endpoints, completed in the interrupt     *)
(*   "intr"   interrupt IN endpoints, acknowledged after the processing    *)
(*   "bulkin" bulk IN endpoints, completed by a work item without the lock *)
(*   "uvc"    video IN endpoints, likewise, and disabled by a work item    *)
(*                                                                         *)
(* Both boards have one processor: the interrupt handler is interrupted by *)
(* nobody, but the completion callback it makes may call back into the     *)
(* driver; the work item may be interrupted between any two steps, also by *)
(* a setup request that disables the endpoint.  A request is one transfer. *)
(* What besides queueing happens to an endpoint depends on the function    *)
(* that uses it: the scenario, chosen once, says which operations occur.   *)
(***************************************************************************)
EXTENDS Naturals, SequencesExt

CONSTANTS
  Reqs,      \* the requests a function has allocated
  NoReq,     \* no request
  Scenarios  \* pairs of a kind of endpoint and a set of operations

Kinds == {"out", "intr", "bulkin", "uvc"}
OpNames == {"dequeue", "disable", "halt", "host_halt"}

ASSUME EpAssumption ==
  /\ NoReq \notin Reqs
  /\ Scenarios \subseteq Kinds \X SUBSET OpNames

VARIABLES
  scen,       \* the scenario
  queue,      \* priv_ep->queue
  owner,      \* who holds each request: "func", "udc", or "twice" when it
              \* was given back without being held
  enabled,    \* usb_ep.enabled, kept by the UDC core
  configured, \* priv_ep->epnum # 0
  epEnable,   \* priv_ep->ep_enable
  stall, wedged, stopped,
  irqEn,      \* completion interrupt enabled
  armed,      \* the request the engine was last started with
  done,       \* the latched completion status bit
  sent,       \* requests the engine finished since they were queued
  work,       \* the completion work item is pending
  disWork,    \* the deferred disable work item is pending
  hpc, cur, saved,   \* completion path: program point, its request, the
                     \* value of stopped it will restore
  fpc, fsaved        \* caller of disable or dequeue: the same

epVars == <<enabled, configured, epEnable>>
haltVars == <<stall, wedged>>
hwVars == <<irqEn, armed, done, sent>>
hVars == <<work, hpc, cur, saved>>
fVars == <<fpc, fsaved, disWork>>
vars == <<scen, queue, owner, epVars, haltVars, stopped, hwVars, hVars, fVars>>

Kind == scen[1]
Ops == scen[2]

(* Queue entries and program points; no request is ever recorded as given  *)
(* to nobody.                                                              *)
TypeOK ==
  /\ scen \in Scenarios
  /\ queue \in Seq(Reqs) /\ owner \in [Reqs -> {"func", "udc", "twice"}]
  /\ enabled \in BOOLEAN /\ configured \in BOOLEAN /\ epEnable \in BOOLEAN
  /\ stall \in BOOLEAN /\ wedged \in BOOLEAN /\ stopped \in BOOLEAN
  /\ irqEn \in BOOLEAN /\ done \in BOOLEAN /\ work \in BOOLEAN
  /\ disWork \in BOOLEAN /\ saved \in BOOLEAN /\ fsaved \in BOOLEAN
  /\ armed \in Reqs \cup {NoReq} /\ cur \in Reqs \cup {NoReq}
  /\ sent \subseteq Reqs
  /\ hpc \in {"idle", "picked", "given", "restored", "ack"}
  /\ fpc \in {"idle", "disable", "dequeue"}

Init ==
  /\ scen \in Scenarios
  /\ queue = << >> /\ owner = [r \in Reqs |-> "func"]
  /\ enabled = FALSE /\ configured = FALSE /\ epEnable = FALSE
  /\ stall = FALSE /\ wedged = FALSE /\ stopped = FALSE
  /\ irqEn = FALSE /\ armed = NoReq /\ done = FALSE /\ sent = {}
  /\ work = FALSE /\ disWork = FALSE
  /\ hpc = "idle" /\ cur = NoReq /\ saved = FALSE
  /\ fpc = "idle" /\ fsaved = FALSE

Give(r) == owner' = [owner EXCEPT ![r] = IF @ = "udc" THEN "func" ELSE "twice"]

(* Mutated form: a status bit left from an earlier transfer stays set. *)
IrqEnable_KeepsStatus == irqEn' = TRUE /\ UNCHANGED done

(* rts_set_ep_irq_enable; the MC endpoints also clear the status bit. *)
IrqEnable == irqEn' = TRUE /\ done' = (done /\ Kind = "intr")

(***************************************************************************)
(* Calls of the function driver, through udc/core.c.                       *)
(***************************************************************************)

(* rts_set_mc_disable, for the endpoints behind a memory controller FIFO. *)
StopEngine == armed' = IF Kind = "intr" THEN armed ELSE NoReq

(* usb_ep_enable -> rts_ep_enable -> rts_config_ep. *)
EpEnable ==
  /\ ~enabled /\ fpc = "idle"
  /\ enabled' = TRUE /\ configured' = TRUE /\ epEnable' = TRUE
  /\ stall' = FALSE
  /\ StopEngine
  /\ UNCHANGED <<queue, owner, wedged, stopped, irqEn, done, sent, hVars, fVars>>

MayStart == configured /\ ~stall /\ ~stopped

(* usb_ep_queue -> rts_ep_queue, also from a completion callback. *)
EpQueue(r) ==
  /\ enabled /\ owner[r] = "func" /\ fpc \in {"idle", "dequeue"}
  /\ queue' = Append(queue, r)
  /\ owner' = [owner EXCEPT ![r] = "udc"]
  /\ sent' = sent \ {r}
  /\ IF queue = << >> /\ configured /\ ~stall
       THEN IrqEnable ELSE UNCHANGED <<irqEn, done>>
  /\ armed' = IF queue = << >> /\ MayStart THEN r ELSE armed
  /\ UNCHANGED <<epVars, haltVars, stopped, hVars, fVars>>

(* Mutated form: the request stays on the list. *)
TakeOff_NoDel(r) == UNCHANGED <<queue, irqEn>> /\ stopped' = TRUE /\ Give(r)

(* list_del_init: a request that is not queued is on no list. *)
Unlinked(q, r) ==
  IF Contains(q, r) THEN RemoveAt(q, CHOOSE i \in 1..Len(q) : q[i] = r) ELSE q

(* The part of rts_done and rts_done_wq before the callback. *)
TakeOff(r) ==
  /\ queue' = Unlinked(queue, r)
  /\ irqEn' = (irqEn /\ queue' # << >>)
  /\ stopped' = TRUE
  /\ Give(r)

(* usb_ep_dequeue -> rts_ep_dequeue: any request, as long as some request  *)
(* is queued.  The engine is not stopped.                                  *)
EpDequeue(r) ==
  /\ "dequeue" \in Ops /\ enabled /\ fpc = "idle"
  /\ queue # << >>
  /\ TakeOff(r)
  /\ fsaved' = stopped /\ fpc' = "dequeue"
  /\ UNCHANGED <<epVars, haltVars, armed, done, sent, hVars, disWork>>

EpDequeueEnd ==
  /\ fpc = "dequeue"
  /\ stopped' = fsaved /\ fpc' = "idle"
  /\ UNCHANGED <<queue, owner, epVars, haltVars, hwVars, hVars, fsaved, disWork>>

(* rts_ep_disable, from process context or a setup request: never while    *)
(* the interrupt handler is in a callback of this endpoint.                *)
EpDisable ==
  /\ "disable" \in Ops /\ enabled /\ fpc = "idle"
  /\ Kind \in {"out", "intr"} => hpc = "idle"
  /\ epEnable' = FALSE
  /\ StopEngine
  /\ IF Kind = "uvc"
       THEN disWork' = TRUE /\ enabled' = FALSE /\ UNCHANGED fpc
       ELSE fpc' = "disable" /\ UNCHANGED <<disWork, enabled>>
  /\ UNCHANGED <<queue, owner, configured, haltVars, stopped, irqEn, done, sent,
                 hVars, fsaved>>

(* One turn of the loop that empties the queue. *)
EpDisableDrain ==
  /\ fpc = "disable" /\ queue # << >>
  /\ queue' = Tail(queue)
  /\ irqEn' = (irqEn /\ Len(queue) > 1)
  /\ Give(Head(queue))
  /\ UNCHANGED <<epVars, haltVars, stopped, armed, done, sent, hVars, fVars>>

Reset ==
  /\ configured' = FALSE /\ epEnable' = FALSE
  /\ stall' = FALSE /\ wedged' = FALSE /\ stopped' = FALSE

EpDisableEnd ==
  /\ fpc = "disable" /\ queue = << >>
  /\ Reset /\ enabled' = FALSE /\ fpc' = "idle"
  /\ UNCHANGED <<queue, owner, hwVars, hVars, fsaved, disWork>>

(* rts_done_uvc_in_disable: a work item of the same single-threaded queue  *)
(* as the completions.                                                     *)
UvcDisableWork ==
  /\ disWork /\ hpc = "idle"
  /\ disWork' = FALSE
  /\ queue' = << >>
  /\ owner' = [r \in Reqs |-> IF Contains(queue, r) THEN "func" ELSE owner[r]]
  /\ irqEn' = (irqEn /\ queue = << >>)
  /\ Reset
  /\ UNCHANGED <<enabled, armed, done, sent, hVars, fpc, fsaved>>

(* rts_set_halt_and_wedge. *)
SetHalt(wedge) ==
  /\ "halt" \in Ops /\ enabled /\ fpc = "idle"
  /\ stall' = TRUE /\ stopped' = TRUE
  /\ wedged' = (wedged \/ wedge)
  /\ UNCHANGED <<queue, owner, epVars, hwVars, hVars, fVars>>

ClearHaltBody ==
  /\ stall' = FALSE /\ wedged' = FALSE /\ stopped' = FALSE
  /\ IF queue # << >> THEN IrqEnable ELSE UNCHANGED <<irqEn, done>>
  /\ UNCHANGED <<queue, owner, epVars, armed, sent, hVars, fVars>>

ClearHalt == "halt" \in Ops /\ enabled /\ fpc = "idle" /\ ClearHaltBody

(* SET_FEATURE and CLEAR_FEATURE(ENDPOINT_HALT) from the host. *)
HostSetHalt ==
  /\ "host_halt" \in Ops /\ epEnable
  /\ stall' = TRUE
  /\ UNCHANGED <<queue, owner, epVars, wedged, stopped, hwVars, hVars, fVars>>

HostClearHalt ==
  /\ "host_halt" \in Ops /\ epEnable /\ stall /\ ~wedged
  /\ ClearHaltBody

(***************************************************************************)
(* The transfer engine and the host that polls it.                         *)
(***************************************************************************)
Transfer ==
  /\ armed # NoReq /\ epEnable /\ ~stall
  /\ sent' = sent \cup {armed}
  /\ armed' = NoReq
  /\ done' = TRUE
  /\ UNCHANGED <<queue, owner, epVars, haltVars, stopped, irqEn, hVars, fVars>>

(***************************************************************************)
(* Completion.  The handler looks at the status bit, not at the enable bit *)
(* (another endpoint may have raised the interrupt).                       *)
(***************************************************************************)
(* Mutated form: nothing is started. *)
StartNext_None == UNCHANGED armed

(* rts_start_next_request *)
StartNext == armed' = IF queue = << >> THEN armed ELSE Head(queue)

(* Bulk OUT, audio and interrupt endpoints: the whole completion in the    *)
(* handler, with the lock dropped around the callback.                     *)
IrqComplete ==
  /\ Kind \in {"out", "intr"} /\ hpc = "idle" /\ done /\ epEnable
  /\ done' = (Kind = "intr")
  /\ IF queue = << >>
       THEN /\ hpc' = IF Kind = "intr" THEN "ack" ELSE "idle"
            /\ UNCHANGED <<queue, owner, stopped, irqEn, cur, saved>>
       ELSE /\ TakeOff(Head(queue))
            /\ cur' = Head(queue) /\ saved' = stopped /\ hpc' = "given"
  /\ UNCHANGED <<epVars, haltVars, armed, sent, work, fVars>>

(* After the callback: restore stopped and start the next request. *)
IrqFinish ==
  /\ Kind \in {"out", "intr"} /\ hpc = "given" /\ fpc = "idle"
  /\ stopped' = saved
  /\ StartNext
  /\ hpc' = IF Kind = "intr" THEN "ack" ELSE "idle"
  /\ UNCHANGED <<queue, owner, epVars, haltVars, irqEn, done, sent, work, cur,
                 saved, fVars>>

(* rts_usb_intrep_irq acknowledges what it has seen last of all. *)
IntrAck ==
  /\ hpc = "ack"
  /\ done' = FALSE /\ hpc' = "idle"
  /\ UNCHANGED <<queue, owner, epVars, haltVars, stopped, irqEn, armed, sent,
                 work, cur, saved, fVars>>

(* Bulk IN and video endpoints: the handler only queues the work item. *)
IrqQueueWork ==
  /\ Kind \in {"bulkin", "uvc"} /\ done /\ epEnable
  /\ done' = FALSE /\ work' = TRUE
  /\ UNCHANGED <<queue, owner, epVars, haltVars, stopped, irqEn, armed, sent,
                 hpc, cur, saved, fVars>>

WorkPick ==
  /\ work /\ hpc = "idle"
  /\ work' = FALSE
  /\ IF queue = << >> THEN UNCHANGED <<hpc, cur>>
     ELSE hpc' = "picked" /\ cur' = Head(queue)
  /\ UNCHANGED <<queue, owner, epVars, haltVars, stopped, hwVars, saved, fVars>>

(* rts_done_wq up to and including the callback. *)
WorkGive ==
  /\ hpc = "picked"
  /\ TakeOff(cur)
  /\ saved' = stopped /\ hpc' = "given"
  /\ UNCHANGED <<epVars, haltVars, armed, done, sent, work, cur, fVars>>

WorkRestore ==
  /\ Kind \in {"bulkin", "uvc"} /\ hpc = "given"
  /\ stopped' = saved /\ hpc' = "restored"
  /\ UNCHANGED <<queue, owner, epVars, haltVars, hwVars, work, cur, saved, fVars>>

WorkStartNext ==
  /\ hpc = "restored"
  /\ StartNext
  /\ hpc' = "idle"
  /\ UNCHANGED <<queue, owner, epVars, haltVars, stopped, irqEn, done, sent,
                 work, cur, saved, fVars>>

Complete ==
  \/ IrqFinish \/ IntrAck \/ WorkPick \/ WorkGive \/ WorkRestore \/ WorkStartNext

Caller == EpDequeueEnd \/ EpDisableDrain \/ EpDisableEnd

Step ==
  \/ EpEnable \/ EpDisable \/ Caller
  \/ \E r \in Reqs : EpQueue(r) \/ EpDequeue(r)
  \/ \E wedge \in BOOLEAN : SetHalt(wedge)
  \/ ClearHalt \/ HostSetHalt \/ HostClearHalt
  \/ Transfer \/ IrqComplete \/ IrqQueueWork \/ Complete \/ UvcDisableWork

Next == Step /\ UNCHANGED scen

Spec == Init /\ [][Next]_vars

(* The host polls, an enabled interrupt is served, and code that has       *)
(* started goes on.                                                        *)
FairSpec ==
  /\ Spec
  /\ WF_vars(Transfer /\ UNCHANGED scen)
  /\ WF_vars(irqEn /\ (IrqComplete \/ IrqQueueWork) /\ UNCHANGED scen)
  /\ WF_vars(Complete /\ UNCHANGED scen)
  /\ WF_vars(Caller /\ UNCHANGED scen)
  /\ WF_vars(UvcDisableWork /\ UNCHANGED scen)

(***************************************************************************)
(* Properties.                                                             *)
(***************************************************************************)

(* "If and only if @req is successfully queued ... @req->complete() will   *)
(* be called exactly once": no request is given back that is not held, as  *)
(* long as nothing is cancelled that is not queued and no endpoint is      *)
(* disabled whose work item may already have picked a request.             *)
CompletesOnce ==
  "dequeue" \in Ops \/ ("disable" \in Ops /\ Kind \in {"bulkin", "uvc"})
    \/ \A r \in Reqs : owner[r] # "twice"

(* A request the driver holds is on the queue or in the hands of the       *)
(* completion path, and what is queued is held: no list_del of one path    *)
(* loses a request of another.  An endpoint that is disabled holds none,   *)
(* except the video endpoints, which leave that to a work item.            *)
NoneForgotten ==
  /\ IsInjective(queue)
  /\ \A r \in Reqs : owner[r] = "udc" <=> Contains(queue, r)
  /\ Kind # "uvc" /\ ~enabled => queue = << >>

(* "when the Gadget core and UDC are finished with the request": the       *)
(* engine never works on the buffer of a request that was given back.      *)
EngineOwnsBuffer == armed # NoReq => owner[armed] = "udc"

(* Endpoints completed under the lock whose requests are not dequeued and  *)
(* that are not halted: a halt that is cleared in a completion callback,   *)
(* and a dequeue, let the engine start a request that is about to go.      *)
Orderly == Kind = "out" /\ Ops \subseteq {"disable"}

(* For those the engine leaves a buffer alone once it was given back.      *)
NoUseAfterGiveback == Orderly => EngineOwnsBuffer

(* So a request of any kind of endpoint is given back once, is never lost  *)
(* from the queue, and where the lock is held is left alone afterwards.    *)
RequestOnce == TypeOK /\ CompletesOnce /\ NoneForgotten /\ NoUseAfterGiveback

(* A request is reported complete only when its own transfer has finished, *)
(* whatever status bits were left from before a disable.                   *)
SentBeforeGiven ==
  [][Orderly =>
      \A r \in Reqs : (hpc # "given" /\ hpc' = "given" /\ cur' = r) => r \in sent]_vars

(* Every request queued on an endpoint that stays enabled and is not       *)
(* halted for ever is completed while the host polls.                      *)
RequestsComplete ==
  <>[](enabled /\ ~stall) => \A r \in Reqs : owner[r] = "udc" ~> owner[r] # "udc"

(* So it is where neither halts nor the late acknowledgement of interrupt  *)
(* endpoints interfere, also when the endpoint is disabled and enabled     *)
(* again, and when the unlocked work item starts a request twice.          *)
UnhaltedRequestsComplete ==
  <>[](Kind \in {"out", "bulkin"} /\ Ops \subseteq {"disable"} /\ enabled)
    => \A r \in Reqs : owner[r] = "udc" ~> owner[r] # "udc"
=============================================================================

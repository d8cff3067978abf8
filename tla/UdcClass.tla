------------------------------ MODULE UdcClass ------------------------------
(***************************************************************************)
(* The UDC class (drivers/usb/gadget/udc/core.c): controllers and gadget   *)
(* drivers come and go in any order, and the class pairs them.  Every      *)
(* operation holds the mutex udc_lock from end to end and is one action.   *)
(* What driver->bind() or the controller's udc_start answers is the        *)
(* environment's choice.                                                   *)
(***************************************************************************)
EXTENDS Naturals, SequencesExt

CONSTANTS
  Udcs,        \* controllers
  Gadgets,     \* gadget drivers
  NULL,        \* no driver, no name
  UdcName,     \* driver->udc_name: a controller, or NULL for "any"
  ExistingOnly,\* the drivers with match_existing_only set
  BindResults  \* what binding may answer: a subset of {"ok", "fail", "defer"}

(* A driver names a controller or none, and binding has an answer. *)
ASSUME ClassAssumption ==
  /\ NULL \notin Udcs /\ NULL \notin Gadgets
  /\ UdcName \in [Gadgets -> Udcs \cup {NULL}]
  /\ BindResults \subseteq {"ok", "fail", "defer"}

VARIABLES
  udcList,     \* udc_list, in order
  driver,      \* udc->driver of every controller
  pendingList, \* gadget_driver_pending_list, in order
  link,        \* state of driver->pending as a list node
  registered,  \* drivers whose registration returned 0 and still stands
  smooth       \* every bind so far has succeeded

classVars == <<udcList, driver, pendingList, link, registered, smooth>>

(* A list node is zero until first used, linked while on the list, looped  *)
(* on itself by list_del_init and poisoned by list_del.                    *)
Links == {"zero", "linked", "self", "poison"}

(* Both lists hold known objects; a list_del or list_add went to a node    *)
(* in a known state.                                                       *)
ClassTypeOK ==
  /\ udcList \in Seq(Udcs) /\ driver \in [Udcs -> Gadgets \cup {NULL}]
  /\ pendingList \in Seq(Gadgets) /\ link \in [Gadgets -> Links]
  /\ registered \subseteq Gadgets /\ smooth \in BOOLEAN

ClassInit ==
  /\ udcList = << >> /\ driver = [u \in Udcs |-> NULL]
  /\ pendingList = << >> /\ link = [d \in Gadgets |-> "zero"]
  /\ registered = {} /\ smooth = TRUE

Listed(u) == Contains(udcList, u)
Pending(d) == Contains(pendingList, d)
Bound(d) == \E u \in Udcs : driver[u] = d
MatchesName(d, u) == UdcName[d] \in {NULL, u}

(* list_del, or list_del_init, of the node of x. *)
Delete(list, x) ==
  IF Contains(list, x) THEN RemoveAt(list, CHOOSE i \in 1..Len(list) : list[i] = x) ELSE list

Enlist(list, d) == pendingList' = list /\ link' = [link EXCEPT ![d] = "linked"]
NoListChange == UNCHANGED <<pendingList, link>>

ReleaseNode(d) ==
  /\ pendingList' = Delete(pendingList, d)
  /\ link' = [link EXCEPT ![d] = "self"]

(* driver->bind() followed by the controller's udc_start. *)
BindAnswer(r) == r \in BindResults /\ smooth' = (smooth /\ r = "ok")

(* The i-th pending driver is the first one that matches u. *)
FirstWaiting(u, i) ==
  /\ MatchesName(pendingList[i], u)
  /\ \A j \in 1..(i - 1) : ~MatchesName(pendingList[j], u)

(* check_pending_gadget_drivers(u) after udc->driver has become drv: only  *)
(* the first driver that matches is tried; it leaves the list unless it    *)
(* asked to be tried again.  ok says whether the result is zero.           *)
CheckPending(u, drv, ok) ==
  \/ /\ \A i \in 1..Len(pendingList) : ~MatchesName(pendingList[i], u)
     /\ ok /\ driver' = drv /\ NoListChange /\ UNCHANGED smooth
  \/ \E i \in 1..Len(pendingList), r \in BindResults :
       /\ FirstWaiting(u, i) /\ BindAnswer(r)
       /\ ok <=> r = "ok"
       /\ driver' = IF r = "ok" THEN [drv EXCEPT ![u] = pendingList[i]] ELSE drv
       /\ IF r = "defer" THEN NoListChange ELSE ReleaseNode(pendingList[i])

(* usb_add_gadget_udc: the controller is listed, offered to the drivers    *)
(* that wait, and taken off the list again when that fails.                *)
AddGadgetUdc(u) ==
  /\ ~Listed(u)
  /\ \E ok \in BOOLEAN :
       /\ CheckPending(u, driver, ok)
       /\ udcList' = IF ok THEN Append(udcList, u) ELSE udcList
  /\ UNCHANGED registered

(* The driver of a controller that leaves goes to the head of the list. *)
Displace(d) ==
  IF d # NULL THEN Enlist(<<d>> \o pendingList, d) ELSE NoListChange

(* usb_del_gadget_udc *)
DelGadgetUdc(u) ==
  /\ Listed(u)
  /\ udcList' = Delete(udcList, u)
  /\ driver' = [driver EXCEPT ![u] = NULL]
  /\ Displace(driver[u])
  /\ UNCHANGED <<registered, smooth>>

(* The controller usb_gadget_probe_driver settles on: the named one if it  *)
(* is listed and free, else the first free one of an unnamed driver.       *)
Fits(d, u) == driver[u] = NULL /\ MatchesName(d, u)
Candidate(d, i) == Fits(d, udcList[i]) /\ \A j \in 1..(i - 1) : ~Fits(d, udcList[j])
NoCandidate(d) == \A i \in 1..Len(udcList) : ~Fits(d, udcList[i])

(* usb_gadget_probe_driver: the driver is bound, or else waits unless it   *)
(* must not.                                                               *)
ProbeDriver(d) ==
  /\ d \notin registered
  /\ \/ \E i \in 1..Len(udcList), r \in BindResults :
          /\ Candidate(d, i) /\ BindAnswer(r) /\ NoListChange
          /\ IF r = "ok"
               THEN /\ driver' = [driver EXCEPT ![udcList[i]] = d]
                    /\ registered' = registered \cup {d}
               ELSE UNCHANGED <<driver, registered>>
     \/ /\ NoCandidate(d) /\ UNCHANGED <<driver, smooth>>
        /\ IF d \in ExistingOnly
             THEN NoListChange /\ UNCHANGED registered
             ELSE Enlist(Append(pendingList, d), d) /\ registered' = registered \cup {d}
  /\ UNCHANGED udcList

(* Mutated form: nobody is offered the controller that becomes free. *)
Unbind_NoOffer(u) ==
  driver' = [driver EXCEPT ![u] = NULL] /\ NoListChange /\ UNCHANGED smooth

(* Unbinds and offers the controller to the next one that waits, ignoring  *)
(* how that ends.                                                          *)
UnbindAndOffer(u) ==
  \E ok \in BOOLEAN : CheckPending(u, [driver EXCEPT ![u] = NULL], ok)

(* usb_gadget_unregister_driver: a driver that is not bound is taken off   *)
(* the pending list with list_del, without asking whether it is on it.     *)
UnregisterGadgetDriver(d) ==
  /\ d \in registered
  /\ registered' = registered \ {d}
  /\ IF \E u \in Udcs : Listed(u) /\ driver[u] = d
       THEN UnbindAndOffer(CHOOSE u \in Udcs : Listed(u) /\ driver[u] = d)
       ELSE /\ pendingList' = Delete(pendingList, d)
            /\ link' = [link EXCEPT ![d] = "poison"]
            /\ UNCHANGED <<driver, smooth>>
  /\ UNCHANGED udcList

ClassNext ==
  \/ \E u \in Udcs : AddGadgetUdc(u) \/ DelGadgetUdc(u)
  \/ \E d \in Gadgets : ProbeDriver(d) \/ UnregisterGadgetDriver(d)

ClassSpec == ClassInit /\ [][ClassNext]_classVars

(***************************************************************************)
(* Properties.                                                             *)
(***************************************************************************)

(* The unconditional list_del of usb_gadget_unregister_driver never meets  *)
(* a node that was never initialised or was already deleted, even for a    *)
(* registration whose bind failed later on.                                *)
ListDelSafe ==
  \A d \in registered : Bound(d) \/ link[d] \in {"linked", "self"}

(* A driver has at most one place: bound to one controller or once on the  *)
(* pending list, and its list node agrees.  A node linked twice would      *)
(* corrupt the list, and so would list_del of the wrong node.              *)
OnePlace ==
  /\ IsInjective(pendingList)
  /\ \A d \in Gadgets :
       /\ link[d] = "linked" <=> Pending(d)
       /\ Bound(d) => ~Pending(d)
       /\ \A u, v \in Udcs : driver[u] = d /\ driver[v] = d => u = v
  /\ \A u \in Udcs : driver[u] # NULL => Listed(u)
  /\ ListDelSafe

(* A registration that returned zero is never lost while binding does not  *)
(* fail for good: the driver is bound or waiting, however controllers come *)
(* and go, and only registered drivers are.                                *)
RegistrationKept ==
  smooth => \A d \in Gadgets : d \in registered <=> Bound(d) \/ Pending(d)

(* "Maybe there is someone waiting for this UDC?": while binding succeeds, *)
(* no driver waits for the controller it names when that one is free.      *)
NamedNeverWaits ==
  smooth => \A d \in Gadgets : \A u \in Udcs :
    Pending(d) /\ UdcName[d] = u /\ Listed(u) => driver[u] # NULL

(* A driver is bound to one controller or pending, through every bind that *)
(* fails; unregistering never deletes a node that is not on a list; while  *)
(* binds succeed no registration is lost, and no driver waits for the free *)
(* controller it names (usb_add_gadget_udc, usb_del_gadget_udc,            *)
(* usb_gadget_probe_driver, usb_gadget_unregister_driver).                 *)
PairingSound == ClassTypeOK /\ OnePlace /\ RegistrationKept /\ NamedNeverWaits
=============================================================================

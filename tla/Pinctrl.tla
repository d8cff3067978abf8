------------------------------ MODULE Pinctrl ------------------------------
(***************************************************************************)
(* Pin ownership: the pin control core (drivers/pinctrl/core.c), its mux   *)
(* side (pinmux.c) and the operations of the RTS3917 controller            *)
(* (pinctrl-rts3917.c).  Devices select states, a state is a list of       *)
(* settings and a setting muxes a group of pins; GPIO users claim single   *)
(* pins.  pinctrl_commit_state holds no lock: it releases and takes pins   *)
(* one by one, and the steps of several devices and GPIO users interleave. *)
(* The order of the pins within a group is left open.                      *)
(***************************************************************************)
EXTENDS Integers, Sequences

CONSTANTS
  Devs,          \* devices with pin states
  Pins,
  States,        \* names of pin states: "default", "sleep", ...
  None,          \* no state, no owner, no setting
  Gpio,          \* the GPIO function of a pad
  Settings,      \* Settings[d][s]: the settings of a state, a sequence of pin groups
  PadOf,         \* the pad configuration field that switches a pin
  Hogs,          \* devices that are the controller itself (pinctrl_force_*)
  MaxUsers       \* bound on the references to a handle

(* A setting of a state is given by its device, state and place in the list. *)
SettingIds == UNION {{<<d, s, k>> : k \in 1..Len(Settings[d][s])} : d \in Devs, s \in States}
PinsOf(x) == Settings[x[1]][x[2]][x[3]]

(* Groups of one state do not overlap, and pins that share a pad field are *)
(* muxed together.                                                         *)
ASSUME PinctrlAssumption ==
  /\ Settings \in [Devs -> [States -> Seq(SUBSET Pins)]]
  /\ None \notin Devs /\ None \notin States /\ None \notin SettingIds
  /\ Hogs \subseteq Devs
  /\ MaxUsers \in Nat \ {0}
  /\ \A x, y \in SettingIds : x[1] = y[1] /\ x[2] = y[2] /\ x # y => PinsOf(x) \cap PinsOf(y) = {}
  /\ \A x \in SettingIds : \A p \in PinsOf(x), q \in Pins : PadOf[p] = PadOf[q] => q \in PinsOf(x)

VARIABLES
  usecount,    \* pin_desc.mux_usecount
  muxOwner,    \* pin_desc.mux_owner
  muxSetting,  \* pin_desc.mux_setting
  gpioOwner,   \* the pins whose pin_desc.gpio_owner is set
  mask,        \* rts_pinctrl.pinsmask, as a set of pins
  pad,         \* what each pad field is switched to: a setting, Gpio or None
  users,       \* the reference count of a device's handle, 0 without one
  cur,         \* p->state
  op,          \* the select or release a device is executing
  ranged,      \* the controller's GPIO range, all its pins, is registered
  line         \* gpiolib's view of a pin: "free", "granted" or "on"

pinVars == <<usecount, muxOwner, muxSetting, gpioOwner, mask, pad>>
vars == <<pinVars, users, cur, op, ranged, line>>

Pads == {PadOf[p] : p \in Pins}
Idle == [at |-> "idle"]
(* "off" disables setting k of the old state, "on" requests the pins of    *)
(* setting k of state st, "err" gives back the pins of a setting that      *)
(* failed and "undo" disables settings k.. of st below `upto`.  `left` are *)
(* the pins of the setting not yet visited, back the state to return to.   *)
Busy == [at : {"off", "on", "err", "undo"}, st : States \cup {None}, back : States \cup {None},
         k : Nat, upto : Nat, left : SUBSET Pins]

(* Owners are devices, users of a pin are counted and an operation is well formed. *)
TypeOK ==
  /\ usecount \in [Pins -> Nat] /\ muxOwner \in [Pins -> Devs \cup {None}]
  /\ muxSetting \in [Pins -> SettingIds \cup {None}]
  /\ gpioOwner \subseteq Pins /\ mask \subseteq Pins
  /\ pad \in [Pads -> SettingIds \cup {Gpio, None}]
  /\ users \in [Devs -> 0..MaxUsers] /\ cur \in [Devs -> States \cup {None}]
  /\ op \in [Devs -> Busy \cup {Idle}]
  /\ ranged \in BOOLEAN /\ line \in [Pins -> {"free", "granted", "on"}]

Init ==
  /\ usecount = [p \in Pins |-> 0] /\ muxOwner = [p \in Pins |-> None]
  /\ muxSetting = [p \in Pins |-> None] /\ gpioOwner = {} /\ mask = {}
  /\ pad = [x \in Pads |-> None]
  /\ users = [d \in Devs |-> 0] /\ cur = [d \in Devs |-> None] /\ op = [d \in Devs |-> Idle]
  /\ ranged = FALSE /\ line = [p \in Pins |-> "free"]

-----------------------------------------------------------------------------
(* pin_request and pin_free on behalf of a device.  The controller is not  *)
(* strict, so that it is the mask of rts_pmx_request that keeps devices    *)
(* and GPIO users apart.                                                   *)

(* Mutated form: the controller's request accepts a pin in its mask. *)
MuxRequestOK_NoMask(d, p) == usecount[p] = 0 \/ muxOwner[p] = d
MuxRequestOK(d, p) ==
  IF usecount[p] > 0 THEN muxOwner[p] = d ELSE p \notin mask

MuxRequest(d, p) ==
  /\ usecount' = [usecount EXCEPT ![p] = @ + 1]
  /\ muxOwner' = [muxOwner EXCEPT ![p] = d]
  /\ mask' = mask \cup {p}
  /\ UNCHANGED <<muxSetting, gpioOwner, pad>>

MuxFree(p) ==
  /\ usecount' = [usecount EXCEPT ![p] = IF @ > 0 THEN @ - 1 ELSE 0]
  /\ IF usecount[p] = 1
     THEN /\ mask' = mask \ {p}
          /\ muxOwner' = [muxOwner EXCEPT ![p] = None]
          /\ muxSetting' = [muxSetting EXCEPT ![p] = None]
     ELSE UNCHANGED <<mask, muxOwner, muxSetting>>
  /\ UNCHANGED <<gpioOwner, pad>>

(* pinmux_disable_setting frees a pin only if the setting is still active on it. *)
DisablePin(x, p) == IF muxSetting[p] = x THEN MuxFree(p) ELSE UNCHANGED pinVars

-----------------------------------------------------------------------------
(* Handles. *)

PinctrlGet(d) ==
  /\ users[d] < MaxUsers /\ (users[d] > 0 \/ op[d] = Idle)
  /\ users' = [users EXCEPT ![d] = @ + 1]
  /\ UNCHANGED <<pinVars, cur, op, ranged, line>>

(* The operation that visits setting k of state s, or what follows when    *)
(* the state has no such setting.                                          *)
OffAt(d, s, k, to) ==
  [at |-> "off", st |-> to, back |-> s, k |-> k, upto |-> 0, left |-> Settings[d][s][k]]
OnAt(d, s, k, back) ==
  [at |-> "on", st |-> s, back |-> back, k |-> k, upto |-> 0, left |-> Settings[d][s][k]]
UndoAt(d, s, k, upto, back) ==
  [at |-> "undo", st |-> s, back |-> back, k |-> k, upto |-> upto, left |-> Settings[d][s][k]]

(* Start applying state s, which may be empty; p->state is NULL meanwhile. *)
StartOn(d, s, back) ==
  IF s # None /\ Len(Settings[d][s]) > 0
  THEN op' = [op EXCEPT ![d] = OnAt(d, s, 1, back)] /\ cur' = [cur EXCEPT ![d] = None]
  ELSE op' = [op EXCEPT ![d] = Idle] /\ cur' = [cur EXCEPT ![d] = s]

(* Forget the old state s, then apply `to` (None: the handle is released). *)
StartOff(d, to) ==
  IF cur[d] # None /\ Len(Settings[d][cur[d]]) > 0
  THEN op' = [op EXCEPT ![d] = OffAt(d, cur[d], 1, to)] /\ UNCHANGED cur
  ELSE StartOn(d, to, cur[d])

(* Mutated form: a handle may be put once too often. *)
MayPut_Always(d) == op[d] = Idle
MayPut(d) == users[d] > 0 /\ (users[d] = 1 => op[d] = Idle)
ReleaseState(d) == StartOff(d, None)

(* pinctrl_put: the last reference disables the settings of the current state. *)
PinctrlPut(d) ==
  /\ MayPut(d)
  /\ users' = [users EXCEPT ![d] = @ - 1]
  /\ IF users[d] = 1 THEN ReleaseState(d) ELSE UNCHANGED <<cur, op>>
  /\ UNCHANGED <<pinVars, ranged, line>>

(* pinctrl_select_state returns at once for the current state;             *)
(* pinctrl_force_default and pinctrl_force_sleep commit it again.          *)
SelectState(d, s) ==
  /\ users[d] > 0 /\ op[d] = Idle
  /\ cur[d] # s \/ d \in Hogs
  /\ StartOff(d, s)
  /\ UNCHANGED <<pinVars, users, ranged, line>>

-----------------------------------------------------------------------------
(* The steps of pinctrl_commit_state and of pinctrl_free. *)

Visit(d, p) == op' = [op EXCEPT ![d].left = @ \ {p}] /\ UNCHANGED cur
Elsewhere == UNCHANGED <<users, ranged, line>>

DisableOldPin(d) ==
  /\ op[d].at = "off"
  /\ \E p \in op[d].left : DisablePin(<<d, op[d].back, op[d].k>>, p) /\ Visit(d, p)
  /\ Elsewhere

DisableOldNext(d) ==
  /\ op[d].at = "off" /\ op[d].left = {}
  /\ IF op[d].k < Len(Settings[d][op[d].back])
     THEN /\ op' = [op EXCEPT ![d] = OffAt(d, op[d].back, op[d].k + 1, op[d].st)]
          /\ UNCHANGED cur
     ELSE StartOn(d, op[d].st, op[d].back)
  /\ UNCHANGED pinVars /\ Elsewhere

(* Leaving a state that could not be applied: return to the old one, once. *)
(* Mutated form: the old state is tried for ever.                          *)
ReturnBack_Forever(d) == StartOn(d, op[d].back, op[d].back)
ReturnBack(d) == StartOn(d, op[d].back, None)

(* Setting k failed: undo the ones before it. *)
Unapply(d) ==
  IF op[d].k > 1
  THEN op' = [op EXCEPT ![d] = UndoAt(d, op[d].st, 1, op[d].k, op[d].back)] /\ UNCHANGED cur
  ELSE ReturnBack(d)

RequestPin(d) ==
  /\ op[d].at = "on"
  /\ \E p \in op[d].left : MuxRequestOK(d, p) /\ MuxRequest(d, p) /\ Visit(d, p)
  /\ Elsewhere

(* A pin is refused: the pins of this setting taken so far are freed. *)
RefusePin(d) ==
  /\ op[d].at = "on"
  /\ \E p \in op[d].left : ~MuxRequestOK(d, p)
  /\ op' = [op EXCEPT ![d].at = "err", ![d].left = Settings[d][op[d].st][op[d].k] \ @]
  /\ UNCHANGED <<pinVars, cur>> /\ Elsewhere

FreeTakenPin(d) ==
  /\ op[d].at = "err"
  /\ \E p \in op[d].left : MuxFree(p) /\ Visit(d, p)
  /\ Elsewhere

FreeTakenDone(d) ==
  /\ op[d].at = "err" /\ op[d].left = {}
  /\ Unapply(d)
  /\ UNCHANGED pinVars /\ Elsewhere

(* All pins are taken: record the setting and switch the pads. *)
SetMux(d) ==
  /\ op[d].at = "on" /\ op[d].left = {}
  /\ LET x == <<d, op[d].st, op[d].k>> IN
       /\ muxSetting' = [p \in Pins |-> IF p \in PinsOf(x) THEN x ELSE muxSetting[p]]
       /\ pad' = [f \in Pads |-> IF \E p \in PinsOf(x) : PadOf[p] = f THEN x ELSE pad[f]]
  /\ IF op[d].k < Len(Settings[d][op[d].st])
     THEN /\ op' = [op EXCEPT ![d] = OnAt(d, op[d].st, op[d].k + 1, op[d].back)]
          /\ UNCHANGED cur
     ELSE op' = [op EXCEPT ![d] = Idle] /\ cur' = [cur EXCEPT ![d] = op[d].st]
  /\ UNCHANGED <<usecount, muxOwner, gpioOwner, mask>> /\ Elsewhere

(* set_mux, or applying a pin configuration (a setting without pins),      *)
(* fails.  muxSetting is set and cleared again in between.                 *)
SetMuxFails(d) ==
  /\ op[d].at = "on" /\ op[d].left = {}
  /\ muxSetting' = [p \in Pins |-> IF p \in Settings[d][op[d].st][op[d].k] THEN None ELSE muxSetting[p]]
  /\ op' = [op EXCEPT ![d].at = "err", ![d].left = Settings[d][op[d].st][op[d].k]]
  /\ UNCHANGED <<usecount, muxOwner, gpioOwner, mask, pad, cur>> /\ Elsewhere

UndoPin(d) ==
  /\ op[d].at = "undo"
  /\ \E p \in op[d].left : DisablePin(<<d, op[d].st, op[d].k>>, p) /\ Visit(d, p)
  /\ Elsewhere

(* Mutated form: the walk over the settings to undo stops one too early. *)
UndoMore_OneShort(o) == o.k + 2 < o.upto
UndoMore(o) == o.k + 1 < o.upto

UndoNext(d) ==
  /\ op[d].at = "undo" /\ op[d].left = {}
  /\ IF UndoMore(op[d])
     THEN op' = [op EXCEPT ![d] = UndoAt(d, @.st, @.k + 1, @.upto, @.back)] /\ UNCHANGED cur
     ELSE ReturnBack(d)
  /\ UNCHANGED pinVars /\ Elsewhere

Step(d) ==
  \/ DisableOldPin(d) \/ DisableOldNext(d) \/ RequestPin(d) \/ RefusePin(d) \/ FreeTakenPin(d)
  \/ FreeTakenDone(d) \/ SetMux(d) \/ SetMuxFails(d) \/ UndoPin(d) \/ UndoNext(d)

-----------------------------------------------------------------------------
(* GPIO users. *)

(* pinctrl_gpio_request is deferred as long as no range is registered. *)
GpioRequest(p) ==
  /\ line[p] = "free" /\ ranged
  /\ p \notin gpioOwner /\ p \notin mask
  /\ gpioOwner' = gpioOwner \cup {p} /\ mask' = mask \cup {p}
  /\ line' = [line EXCEPT ![p] = "granted"]
  /\ UNCHANGED <<usecount, muxOwner, muxSetting, pad, users, cur, op, ranged>>

(* rts_gpio_enable, after the controller's mutex is released. *)
GpioEnable(p) ==
  /\ line[p] = "granted"
  /\ line' = [line EXCEPT ![p] = "on"]
  /\ pad' = [pad EXCEPT ![PadOf[p]] = Gpio]
  /\ UNCHANGED <<usecount, muxOwner, muxSetting, gpioOwner, mask, users, cur, op, ranged>>

GpioFree(p) ==
  /\ line[p] = "on" /\ line' = [line EXCEPT ![p] = "free"]
  /\ mask' = mask \ {p} /\ gpioOwner' = gpioOwner \ {p}
  /\ UNCHANGED <<usecount, muxOwner, muxSetting, pad, users, cur, op, ranged>>

AddGpioRange ==
  /\ ~ranged /\ ranged' = TRUE
  /\ UNCHANGED <<pinVars, users, cur, op, line>>

Next ==
  \/ \E d \in Devs : PinctrlGet(d) \/ PinctrlPut(d) \/ Step(d) \/ \E s \in States : SelectState(d, s)
  \/ \E p \in Pins : GpioRequest(p) \/ GpioEnable(p) \/ GpioFree(p)
  \/ AddGpioRange

(* A thread inside pinctrl_commit_state never waits for another one. *)
Spec == Init /\ [][Next]_vars /\ \A d \in Devs : WF_vars(Step(d))

-----------------------------------------------------------------------------
(* A pin is in the controller's mask exactly when it is claimed, and never *)
(* by a device and a GPIO user at once (pin_request, rts_pmx_request).     *)
PinExclusive ==
  \A p \in Pins : /\ p \in mask <=> usecount[p] > 0 \/ p \in gpioOwner
                  /\ ~(usecount[p] > 0 /\ p \in gpioOwner)
                  /\ usecount[p] > 0 <=> muxOwner[p] # None
                  /\ line[p] # "free" <=> p \in gpioOwner

(* A device between two operations owns exactly the pins of its current    *)
(* state, each once and for the right setting, and none without a state,   *)
(* whatever failures and returns its selects went through                  *)
(* (pinctrl_commit_state, pinctrl_free).                                   *)
SettledHoldsState ==
  \A d \in Devs : op[d] = Idle =>
   /\ users[d] = 0 => cur[d] = None
   /\ \A p \in Pins :
      IF muxOwner[p] = d
      THEN usecount[p] = 1 /\ muxSetting[p] \in SettingIds
             /\ muxSetting[p][1] = d /\ muxSetting[p][2] = cur[d] /\ p \in PinsOf(muxSetting[p])
      ELSE cur[d] # None => \A k \in 1..Len(Settings[d][cur[d]]) : p \notin Settings[d][cur[d]][k]

(* The pads of a settled device and of a GPIO in use serve their owner:    *)
(* nobody else has switched them, not even through a pin that shares the   *)
(* field (rts_pmx_enable, rts_gpio_enable).                                *)
PadServesOwner ==
  \A p \in Pins : /\ muxSetting[p] # None /\ op[muxOwner[p]] = Idle => pad[PadOf[p]] = muxSetting[p]
                  /\ line[p] = "on" => pad[PadOf[p]] = Gpio

(* A selection that has returned holds the pins of its state and no others, *)
(* and a pad serves the owner of its pin, whatever failed on the way       *)
(* (pinctrl_commit_state, rts_pmx_enable).                                 *)
PadsSettled == SettledHoldsState /\ PadServesOwner

(* A select whose new state fails, and whose old one fails too, comes to   *)
(* an end: "There's no infinite recursive loop here because p->state is    *)
(* NULL" (pinctrl_commit_state).                                           *)
SelectReturns == \A d \in Devs : op[d] # Idle ~> op[d] = Idle
=============================================================================

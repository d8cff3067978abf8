--------------------------- MODULE PinctrlProofs ---------------------------
(***************************************************************************)
(* Theorems about Pinctrl, for every set of devices, states and pin        *)
(* groups.  PinExclusive is inductive together with the types of the pin   *)
(* descriptors: no step needs to know which pins an operation walks over.  *)
(* PadsSettled needs just that: for every program point of                 *)
(* pinctrl_commit_state and its roll-back, which settings are active on    *)
(* all of their pins, on some, or on none (OpInv, HoldsInv), and which     *)
(* pads they switch (PadInv).                                              *)
(* At the end, the banks of RtsGpioIrq, for every table of banks and every *)
(* set of lines: that no edge is lost needs that the handler's copy of the *)
(* enable register is that of the lines still enabled (CopyArmed), that    *)
(* values are kept that the copy of an unfinished write is right for the   *)
(* other lines (ValueInv).                                                 *)
(***************************************************************************)
EXTENDS Pinctrl, RtsGpioIrq, TLAPS

(* The pin descriptors are well typed. *)
PinTypes ==
  /\ usecount \in [Pins -> Nat]
  /\ muxOwner \in [Pins -> Devs \cup {None}]
  /\ line \in [Pins -> {"free", "granted", "on"}]

PinInv == PinTypes /\ PinExclusive

(* The owner None is told apart from the devices. *)
LEMMA NoneIsNoDev == None \notin Devs
BY PinctrlAssumption DEF PinctrlAssumption

(* pin_request for a device, once it is admitted, keeps the descriptors    *)
(* consistent (pin_request, rts_pmx_request).                              *)
LEMMA MuxRequestKeeps ==
  ASSUME PinInv, NEW d \in Devs, NEW p, MuxRequestOK(d, p), MuxRequest(d, p), line' = line
  PROVE  PinInv'
<1> USE NoneIsNoDev DEF PinInv, PinTypes
<1>1. PinTypes'
  <2>1. usecount' \in [Pins -> Nat]
    <3>1. CASE p \in Pins
      BY <3>1 DEF MuxRequest
    <3>2. CASE p \notin Pins
      BY <3>2, Zenon DEF MuxRequest
    <3>3. QED
      BY <3>1, <3>2
  <2>2. muxOwner' \in [Pins -> Devs \cup {None}]
    BY DEF MuxRequest
  <2>3. QED
    BY <2>1, <2>2
<1>2. ASSUME NEW q \in Pins, q # p
      PROVE  usecount'[q] = usecount[q] /\ muxOwner'[q] = muxOwner[q] /\ (q \in mask' <=> q \in mask)
  BY <1>2 DEF MuxRequest
<1>3. ASSUME p \in Pins
      PROVE  usecount'[p] > 0 /\ muxOwner'[p] = d /\ p \in mask' /\ p \notin gpioOwner
  BY <1>3 DEF MuxRequest, MuxRequestOK, PinExclusive
<1>4. PinExclusive'
  BY <1>2, <1>3 DEF PinExclusive, MuxRequest
<1>5. QED
  BY <1>1, <1>4

(* pin_free for a device keeps the descriptors consistent, even of a pin   *)
(* it does not own (pin_free, rts_pmx_free).                               *)
LEMMA MuxFreeKeeps ==
  ASSUME PinInv, NEW p, MuxFree(p), line' = line
  PROVE  PinInv'
<1> USE NoneIsNoDev DEF PinInv, PinTypes
<1>1. PinTypes'
  <2>1. usecount' \in [Pins -> Nat]
    <3>1. CASE p \in Pins
      BY <3>1 DEF MuxFree
    <3>2. CASE p \notin Pins
      BY <3>2, Zenon DEF MuxFree
    <3>3. QED
      BY <3>1, <3>2
  <2>2. muxOwner' \in [Pins -> Devs \cup {None}]
    BY DEF MuxFree
  <2>3. QED
    BY <2>1, <2>2
<1>2. ASSUME NEW q \in Pins, q # p
      PROVE  usecount'[q] = usecount[q] /\ muxOwner'[q] = muxOwner[q] /\ (q \in mask' <=> q \in mask)
  BY <1>2 DEF MuxFree
<1>3. ASSUME p \in Pins, usecount[p] = 1
      PROVE  usecount'[p] = 0 /\ muxOwner'[p] = None /\ p \notin mask' /\ p \notin gpioOwner
  BY <1>3 DEF MuxFree, PinExclusive
<1>4. ASSUME p \in Pins, usecount[p] # 1
      PROVE  (usecount'[p] > 0 <=> usecount[p] > 0) /\ muxOwner'[p] = muxOwner[p] /\ mask' = mask
  BY <1>4 DEF MuxFree
<1>5. PinExclusive'
  BY <1>2, <1>3, <1>4 DEF PinExclusive, MuxFree
<1>6. QED
  BY <1>1, <1>5

(* A step that leaves the descriptors, the mask and the lines alone. *)
LEMMA PinsUntouched ==
  ASSUME PinInv, UNCHANGED <<usecount, muxOwner, gpioOwner, mask, line>>
  PROVE  PinInv'
BY DEF PinInv, PinTypes, PinExclusive

(* pinmux_disable_setting keeps the descriptors consistent. *)
LEMMA DisablePinKeeps ==
  ASSUME PinInv, NEW x, NEW p, DisablePin(x, p), line' = line
  PROVE  PinInv'
<1>1. CASE muxSetting[p] = x
  BY <1>1, MuxFreeKeeps DEF DisablePin
<1>2. CASE muxSetting[p] # x
  BY <1>2, PinsUntouched DEF DisablePin, pinVars
<1>3. QED
  BY <1>1, <1>2

(* Every step of a device keeps the descriptors consistent                 *)
(* (pinctrl_commit_state, pinmux_enable_setting).                          *)
LEMMA DeviceKeeps ==
  ASSUME PinInv, NEW d \in Devs, Step(d)
  PROVE  PinInv'
<1>1. CASE DisableOldPin(d)
  BY <1>1, DisablePinKeeps DEF DisableOldPin, Elsewhere
<1>2. CASE DisableOldNext(d)
  BY <1>2, PinsUntouched DEF DisableOldNext, Elsewhere, pinVars
<1>3. CASE RequestPin(d)
  BY <1>3, MuxRequestKeeps DEF RequestPin, Elsewhere
<1>4. CASE RefusePin(d)
  BY <1>4, PinsUntouched DEF RefusePin, Elsewhere, pinVars
<1>5. CASE FreeTakenPin(d)
  BY <1>5, MuxFreeKeeps DEF FreeTakenPin, Elsewhere
<1>6. CASE FreeTakenDone(d)
  BY <1>6, PinsUntouched DEF FreeTakenDone, Elsewhere, pinVars
<1>7. CASE SetMux(d)
  BY <1>7, PinsUntouched DEF SetMux, Elsewhere
<1>8. CASE SetMuxFails(d)
  BY <1>8, PinsUntouched DEF SetMuxFails, Elsewhere
<1>9. CASE UndoPin(d)
  BY <1>9, DisablePinKeeps DEF UndoPin, Elsewhere
<1>10. CASE UndoNext(d)
  BY <1>10, PinsUntouched DEF UndoNext, Elsewhere, pinVars
<1>11. QED
  BY <1>1, <1>2, <1>3, <1>4, <1>5, <1>6, <1>7, <1>8, <1>9, <1>10 DEF Step

(* The invariant is inductive: one case per operation. *)
LEMMA PinInvStep == PinInv /\ [Next]_vars => PinInv'
<1> SUFFICES ASSUME PinInv, [Next]_vars PROVE PinInv'
  OBVIOUS
<1>1. ASSUME NEW d \in Devs, Step(d) PROVE PinInv'
  BY <1>1, DeviceKeeps
<1>2. ASSUME NEW d \in Devs, PinctrlGet(d) \/ PinctrlPut(d) \/ \E s \in States : SelectState(d, s)
      PROVE  PinInv'
  BY <1>2, PinsUntouched DEF PinctrlGet, PinctrlPut, SelectState, pinVars
<1>3. ASSUME NEW p \in Pins, GpioRequest(p) PROVE PinInv'
  BY <1>3 DEF GpioRequest, PinInv, PinTypes, PinExclusive
<1>4. ASSUME NEW p \in Pins, GpioEnable(p) PROVE PinInv'
  BY <1>4 DEF GpioEnable, PinInv, PinTypes, PinExclusive
<1>5. ASSUME NEW p \in Pins, GpioFree(p) PROVE PinInv'
  BY <1>5 DEF GpioFree, PinInv, PinTypes, PinExclusive
<1>6. CASE AddGpioRange
  BY <1>6, PinsUntouched DEF AddGpioRange, pinVars
<1>7. CASE UNCHANGED vars
  BY <1>7, PinsUntouched DEF vars, pinVars
<1>8. QED
  BY <1>1, <1>2, <1>3, <1>4, <1>5, <1>6, <1>7 DEF Next

(* No pin is ever claimed by a device and a GPIO user at once, and the     *)
(* controller's mask is exact, for every set of devices, states, groups    *)
(* and pins and every interleaving of their steps.                         *)
THEOREM PinExclusiveCorrect == Spec => []PinExclusive
<1>1. Init => PinInv
  BY DEF Init, PinInv, PinTypes, PinExclusive
<1>2. PinInv => PinExclusive
  BY DEF PinInv
<1>3. QED
  BY <1>1, <1>2, PinInvStep, PTL DEF Spec

-----------------------------------------------------------------------------
(***************************************************************************)
(* Which pins a device holds in the middle of pinctrl_commit_state, for an *)
(* operation o and the current state c.  The state it is at: the one it    *)
(* has, the one it leaves, or the one it takes.                            *)
(***************************************************************************)
At(o, c) == IF o = Idle THEN c ELSE IF o.at = "off" THEN o.back ELSE o.st
Count(d, s) == IF s = None THEN 0 ELSE Len(Settings[d][s])

(* Setting k of that state is active on all of its pins. *)
Full(o, k) ==
  \/ o = Idle
  \/ o.at \in {"on", "err"} /\ k < o.k
  \/ o.at = "off" /\ k > o.k
  \/ o.at = "undo" /\ k > o.k /\ k < o.upto

(* It is active on the pins that are not yet visited. *)
Left(o, k, p) == o.at \in {"off", "undo"} /\ k = o.k /\ p \in o.left

(* The device holds p for setting x; None: p is requested and not, or no   *)
(* longer, muxed.                                                          *)
Uses(d, o, c, p, x) ==
  \/ \E k \in 1..Count(d, At(o, c)) :
       /\ x = <<d, At(o, c), k>> /\ p \in Settings[d][At(o, c)][k]
       /\ Full(o, k) \/ Left(o, k, p)
  \/ /\ x = None
     /\ \/ o.at = "on" /\ p \in Settings[d][o.st][o.k] \ o.left
        \/ o.at = "err" /\ p \in o.left

(* An operation is well formed. *)
OpOK(d, o, c) ==
  /\ c \in States \cup {None}
  /\ o = Idle \/ /\ o \in Busy /\ At(o, c) \in States /\ o.k \in 1..Len(Settings[d][At(o, c)])
                 /\ o.left \subseteq Settings[d][At(o, c)][o.k]
                 /\ o.at = "undo" => o.k < o.upto /\ o.upto <= Len(Settings[d][At(o, c)])

OpInv ==
  /\ users \in [Devs -> 0..MaxUsers] /\ cur \in [Devs -> States \cup {None}]
  /\ op \in [Devs -> Busy \cup {Idle}]
  /\ \A d \in Devs : OpOK(d, op[d], cur[d])
  /\ \A d \in Devs : users[d] = 0 => IF op[d] = Idle THEN cur[d] = None
                                     ELSE op[d].at = "off" /\ op[d].st = None

(* A pin that a device owns is owned once, and only on account of one of   *)
(* its settings; a pin that nobody owns is muxed for nobody.               *)
HoldsInv ==
  /\ muxSetting \in [Pins -> SettingIds \cup {None}]
  /\ \A p \in Pins : IF muxOwner[p] = None THEN usecount[p] = 0 /\ muxSetting[p] = None
                                           ELSE usecount[p] = 1
  /\ \A d \in Devs, p \in Pins, x \in SettingIds \cup {None} :
       muxOwner[p] = d /\ muxSetting[p] = x <=> Uses(d, op[d], cur[d], p, x)

(* Pads serve the settings that are complete, and the GPIOs in use.        *)
Steady(o) == o = Idle \/ o.at = "on"
PadInv ==
  /\ pad \in [Pads -> SettingIds \cup {Gpio, None}]
  /\ \A p \in Pins : line[p] = "on" => pad[PadOf[p]] = Gpio
  /\ \A d \in Devs, p \in Pins, x \in SettingIds :
       Steady(op[d]) /\ Uses(d, op[d], cur[d], p, x) => pad[PadOf[p]] = x

-----------------------------------------------------------------------------
(* The settings of a state are sets of pins without a common pin.          *)
LEMMA SettingFacts ==
  ASSUME NEW d \in Devs, NEW s \in States
  PROVE  /\ s # None /\ Len(Settings[d][s]) \in Nat
         /\ \A k \in 1..Len(Settings[d][s]) :
              Settings[d][s][k] \subseteq Pins /\ <<d, s, k>> \in SettingIds
         /\ \A j, k \in 1..Len(Settings[d][s]) : \A p :
              p \in Settings[d][s][j] /\ p \in Settings[d][s][k] => j = k
<1>1. Settings[d][s] \in Seq(SUBSET Pins) /\ s # None
  BY PinctrlAssumption DEF PinctrlAssumption
<1>2. ASSUME NEW k \in 1..Len(Settings[d][s])
      PROVE  Settings[d][s][k] \subseteq Pins /\ <<d, s, k>> \in SettingIds
  <2> DEFINE W == {{<<e, t, i>> : i \in 1..Len(Settings[e][t])} : e \in Devs, t \in States}
             S == {<<d, s, i>> : i \in 1..Len(Settings[d][s])}
  <2>1. S \in W /\ <<d, s, k>> \in S
    OBVIOUS
  <2>2. SettingIds = UNION W
    BY DEF SettingIds
  <2> HIDE DEF W, S
  <2>3. <<d, s, k>> \in SettingIds
    BY <2>1, <2>2
  <2>4. Settings[d][s][k] \in SUBSET Pins
    BY <1>1
  <2> QED
    BY <2>3, <2>4
<1>3. ASSUME NEW j \in 1..Len(Settings[d][s]), NEW k \in 1..Len(Settings[d][s]), j # k
      PROVE  Settings[d][s][j] \cap Settings[d][s][k] = {}
  <2>1. \A x, y \in SettingIds :
          x[1] = y[1] /\ x[2] = y[2] /\ x # y => PinsOf(x) \cap PinsOf(y) = {}
    BY PinctrlAssumption DEF PinctrlAssumption
  <2>2. <<d, s, j>> # <<d, s, k>>
    BY <1>3
  <2> QED
    BY <1>2, <2>1, <2>2 DEF PinsOf
<1> QED
  BY <1>1, <1>2, <1>3

(* The operations that visit setting k of a state are well formed.         *)
LEMMA OpFacts ==
  ASSUME NEW d \in Devs, NEW s \in States, NEW k \in 1..Len(Settings[d][s]),
         NEW t \in States \cup {None}, NEW n \in Nat
  PROVE  /\ LET o == OnAt(d, s, k, t) IN
              /\ o \in Busy /\ o # Idle /\ o.at = "on" /\ o.st = s /\ o.back = t /\ o.k = k
              /\ o.left = Settings[d][s][k] /\ \A c : At(o, c) = s
         /\ LET o == OffAt(d, s, k, t) IN
              /\ o \in Busy /\ o # Idle /\ o.at = "off" /\ o.st = t /\ o.back = s /\ o.k = k
              /\ o.left = Settings[d][s][k] /\ \A c : At(o, c) = s
         /\ LET o == UndoAt(d, s, k, n, t) IN
              /\ o \in Busy /\ o # Idle /\ o.at = "undo" /\ o.st = s /\ o.back = t /\ o.k = k
              /\ o.upto = n /\ o.left = Settings[d][s][k] /\ \A c : At(o, c) = s
<1>0. /\ Len(Settings[d][s]) \in Nat
      /\ \A i \in 1..Len(Settings[d][s]) : Settings[d][s][i] \subseteq Pins
  BY SettingFacts
<1>1. Settings[d][s][k] \subseteq Pins /\ k \in Nat
  BY <1>0
<1>2. LET o == OnAt(d, s, k, t) IN
        o \in Busy /\ o.at = "on" /\ o.st = s /\ o.back = t /\ o.k = k /\ o.left = Settings[d][s][k]
  BY <1>1 DEF OnAt, Busy
<1>3. LET o == OffAt(d, s, k, t) IN
        o \in Busy /\ o.at = "off" /\ o.st = t /\ o.back = s /\ o.k = k /\ o.left = Settings[d][s][k]
  BY <1>1 DEF OffAt, Busy
<1>4. LET o == UndoAt(d, s, k, n, t) IN
        /\ o \in Busy /\ o.at = "undo" /\ o.st = s /\ o.back = t /\ o.k = k
        /\ o.upto = n /\ o.left = Settings[d][s][k]
  BY <1>1 DEF UndoAt, Busy
<1>5. \A o : o = Idle => o.at = "idle"
  BY DEF Idle
<1> QED
  BY <1>2, <1>3, <1>4, <1>5 DEF At

LEMMA UndoFacts ==
  ASSUME NEW d \in Devs, NEW s \in States, NEW k \in 1..Len(Settings[d][s]),
         NEW t \in States \cup {None}, NEW n \in Nat, NEW o, o = UndoAt(d, s, k, n, t)
  PROVE  /\ o \in Busy /\ o # Idle /\ o.at = "undo" /\ o.st = s /\ o.back = t /\ o.k = k
         /\ o.upto = n /\ o.left = Settings[d][s][k] /\ \A c : At(o, c) = s
BY OpFacts

(* Neither a state without settings nor one that is about to be applied    *)
(* holds a pin.                                                            *)
LEMMA UsesStart ==
  ASSUME NEW d \in Devs, NEW s \in States \cup {None}, NEW back \in States \cup {None}
  PROVE  /\ s = None \/ Len(Settings[d][s]) = 0 =>
              OpOK(d, Idle, s) /\ \A p, x : ~Uses(d, Idle, s, p, x)
         /\ s # None /\ Len(Settings[d][s]) > 0 =>
              OpOK(d, OnAt(d, s, 1, back), None) /\ \A p, x : ~Uses(d, OnAt(d, s, 1, back), None, p, x)
<1>1. ASSUME s = None \/ Len(Settings[d][s]) = 0
      PROVE  OpOK(d, Idle, s) /\ \A p, x : ~Uses(d, Idle, s, p, x)
  BY <1>1 DEF OpOK, Uses, Idle, At, Count
<1>2. ASSUME s # None, Len(Settings[d][s]) > 0
      PROVE  OpOK(d, OnAt(d, s, 1, back), None) /\ \A p, x : ~Uses(d, OnAt(d, s, 1, back), None, p, x)
  <2> DEFINE o == OnAt(d, s, 1, back)
  <2>1. /\ o \in Busy /\ o # Idle /\ o.at = "on" /\ o.st = s /\ o.k = 1
        /\ o.left = Settings[d][s][1] /\ At(o, None) = s
    BY <1>2, SettingFacts, OpFacts
  <2> HIDE DEF o
  <2>2. OpOK(d, o, None)
    BY <1>2, <2>1, SettingFacts DEF OpOK
  <2>3. ASSUME NEW p, NEW x PROVE ~Uses(d, o, None, p, x)
    BY <1>2, <2>1, SettingFacts DEF Uses, Count, Full, Left
  <2> QED
    BY <2>2, <2>3 DEF o
<1> QED
  BY <1>1, <1>2

(* The next pin of a setting is released. *)
LEMMA UsesLess ==
  ASSUME NEW d \in Devs, NEW o \in Busy, NEW o2 \in Busy, NEW c, OpOK(d, o, c),
         o.at \in {"off", "undo", "err"}, NEW p \in o.left,
         o2.at = o.at, o2.st = o.st, o2.back = o.back, o2.k = o.k, o2.upto = o.upto,
         o2.left = o.left \ {p}
  PROVE  /\ OpOK(d, o2, c)
         /\ \A q, x : Uses(d, o2, c, q, x) <=> Uses(d, o, c, q, x) /\ q # p
<1>1. o # Idle /\ o2 # Idle /\ At(o2, c) = At(o, c)
  BY DEF Busy, Idle, At
<1>2. OpOK(d, o2, c)
  BY <1>1 DEF OpOK
<1> DEFINE s == At(o, c)
<1>3. /\ s \in States /\ o.k \in 1..Len(Settings[d][s])
      /\ o.left \subseteq Settings[d][s][o.k]
  BY <1>1 DEF OpOK
<1>4. Count(d, s) = Len(Settings[d][s]) /\ s # None
  BY <1>3, SettingFacts DEF Count
<1>5. \A k : Full(o2, k) <=> Full(o, k)
  BY <1>1 DEF Full
<1> HIDE DEF s
<1>6. ASSUME NEW q, NEW x, Uses(d, o2, c, q, x) PROVE Uses(d, o, c, q, x) /\ q # p
  <2>1. CASE o.at = "err"
    BY <1>1, <1>3, <1>4, <1>5, <1>6, <2>1, SettingFacts DEF Uses, Left, Full, s
  <2>2. CASE o.at \in {"off", "undo"}
    <3>1. PICK k \in 1..Count(d, s) : /\ x = <<d, s, k>> /\ q \in Settings[d][s][k]
                                      /\ Full(o, k) \/ Left(o2, k, q)
      BY <1>1, <1>5, <1>6, <2>2 DEF Uses, s
    <3>2. Full(o, k) => k # o.k
      BY <1>1, <1>3, <2>2 DEF Full
    <3>3. q # p
      BY <1>3, <1>4, <3>1, <3>2, SettingFacts DEF Left
    <3> QED
      BY <3>1, <3>3 DEF Uses, Left, s
  <2> QED
    BY <2>1, <2>2
<1>7. ASSUME NEW q, NEW x, Uses(d, o, c, q, x), q # p PROVE Uses(d, o2, c, q, x)
  BY <1>1, <1>5, <1>7 DEF Uses, Left
<1> QED
  BY <1>2, <1>6, <1>7

(* The next pin of a setting is requested. *)
LEMMA UsesMore ==
  ASSUME NEW d \in Devs, NEW o \in Busy, NEW o2 \in Busy, NEW c, OpOK(d, o, c),
         o.at = "on", NEW p \in o.left,
         o2.at = o.at, o2.st = o.st, o2.back = o.back, o2.k = o.k, o2.upto = o.upto,
         o2.left = o.left \ {p}
  PROVE  /\ OpOK(d, o2, c) /\ \A x : ~Uses(d, o, c, p, x)
         /\ \A q, x : Uses(d, o2, c, q, x) <=> Uses(d, o, c, q, x) \/ (q = p /\ x = None)
<1>1. o # Idle /\ o2 # Idle /\ At(o2, c) = At(o, c) /\ At(o, c) = o.st
  BY DEF Busy, Idle, At
<1>2. OpOK(d, o2, c)
  BY <1>1 DEF OpOK
<1>3. /\ o.st \in States /\ o.k \in 1..Len(Settings[d][o.st])
      /\ o.left \subseteq Settings[d][o.st][o.k]
  BY <1>1 DEF OpOK
<1>4. Count(d, o.st) = Len(Settings[d][o.st]) /\ o.st # None
  BY <1>3, SettingFacts DEF Count
<1>5. \A k : Full(o2, k) <=> Full(o, k)
  BY <1>1 DEF Full
<1>6. \A k \in 1..Len(Settings[d][o.st]) : Full(o, k) => k # o.k
  BY <1>1, <1>3 DEF Full
<1>7. \A k, q : ~Left(o, k, q) /\ ~Left(o2, k, q)
  BY DEF Left
<1>8. ASSUME NEW x PROVE ~Uses(d, o, c, p, x)
  BY <1>1, <1>3, <1>4, <1>6, <1>7, SettingFacts DEF Uses
<1>9. ASSUME NEW q, NEW x
      PROVE  Uses(d, o2, c, q, x) <=> Uses(d, o, c, q, x) \/ (q = p /\ x = None)
  BY <1>1, <1>3, <1>5, <1>7 DEF Uses
<1> QED
  BY <1>2, <1>8, <1>9

(* Entering and leaving the walk over the settings that are disabled.      *)
LEMMA UsesOff ==
  ASSUME NEW d \in Devs, NEW s \in States, NEW k \in 1..Len(Settings[d][s]),
         NEW to \in States \cup {None}, NEW c \in States \cup {None}
  PROVE  LET o == OffAt(d, s, k, to) IN
         /\ OpOK(d, o, c)
         /\ \A p, x : Uses(d, o, c, p, x) <=>
              \E j \in 1..Len(Settings[d][s]) : j >= k /\ x = <<d, s, j>> /\ p \in Settings[d][s][j]
<1> DEFINE o == OffAt(d, s, k, to)
<1>1. /\ o \in Busy /\ o # Idle /\ o.at = "off" /\ o.k = k
      /\ o.left = Settings[d][s][k] /\ At(o, c) = s
  BY OpFacts
<1> HIDE DEF o
<1>2. OpOK(d, o, c)
  BY <1>1, SettingFacts DEF OpOK
<1>3. Count(d, s) = Len(Settings[d][s])
  BY SettingFacts DEF Count
<1>4. ASSUME NEW j \in 1..Len(Settings[d][s]), NEW p \in Settings[d][s][j]
      PROVE  Full(o, j) \/ Left(o, j, p) <=> j >= k
  BY <1>1, SettingFacts DEF Full, Left
<1>5. ASSUME NEW p, NEW x
      PROVE  Uses(d, o, c, p, x) <=>
               \E j \in 1..Len(Settings[d][s]) : j >= k /\ x = <<d, s, j>> /\ p \in Settings[d][s][j]
  BY <1>1, <1>3, <1>4 DEF Uses
<1> QED
  BY <1>2, <1>5 DEF o

(* A settled state holds all of its settings.                              *)
LEMMA UsesIdle ==
  ASSUME NEW d \in Devs, NEW s \in States
  PROVE  /\ OpOK(d, Idle, s)
         /\ \A p, x : Uses(d, Idle, s, p, x) <=>
              \E j \in 1..Len(Settings[d][s]) : x = <<d, s, j>> /\ p \in Settings[d][s][j]
<1>1. At(Idle, s) = s /\ Count(d, s) = Len(Settings[d][s]) /\ Idle.at = "idle"
  BY SettingFacts DEF At, Count, Idle
<1>2. \A k : Full(Idle, k)
  BY DEF Full
<1> QED
  BY <1>1, <1>2 DEF OpOK, Uses

(* What is held when a setting is visited completely: the settings beyond  *)
(* it for the old state, the settings before it for a new one.             *)
LEMMA UsesVisited ==
  ASSUME NEW d \in Devs, NEW o \in Busy, NEW c, OpOK(d, o, c), o.left = {}
  PROVE  LET s == At(o, c)
             In(p, x, j) == x = <<d, s, j>> /\ p \in Settings[d][s][j]
             J == 1..Len(Settings[d][s])
         IN  /\ s \in States /\ o.k \in J
             /\ o.at = "off" => \A p, x :
                  Uses(d, o, c, p, x) <=> \E j \in J : j > o.k /\ In(p, x, j)
             /\ o.at = "undo" => \A p, x :
                  Uses(d, o, c, p, x) <=> \E j \in J : j > o.k /\ j < o.upto /\ In(p, x, j)
             /\ o.at = "err" => \A p, x :
                  Uses(d, o, c, p, x) <=> \E j \in J : j < o.k /\ In(p, x, j)
             /\ o.at = "on" => \A p, x :
                  Uses(d, o, c, p, x) <=> \/ \E j \in J : j < o.k /\ In(p, x, j)
                                          \/ x = None /\ p \in Settings[d][s][o.k]
<1> DEFINE s == At(o, c)
<1>1. o # Idle /\ s \in States /\ o.k \in 1..Len(Settings[d][s]) /\ (o.at = "on" => s = o.st)
  BY DEF OpOK, Idle, Busy, At
<1>2. Count(d, s) = Len(Settings[d][s])
  BY <1>1, SettingFacts DEF Count
<1>3. \A k, p : ~Left(o, k, p)
  BY DEF Left
<1> HIDE DEF s
<1>4. ASSUME NEW p, NEW x
      PROVE  Uses(d, o, c, p, x) <=>
               \/ \E k \in 1..Len(Settings[d][s]) :
                    x = <<d, s, k>> /\ p \in Settings[d][s][k] /\ Full(o, k)
               \/ x = None /\ o.at = "on" /\ p \in Settings[d][s][o.k]
  BY <1>1, <1>2, <1>3 DEF Uses, s
<1>5. ASSUME NEW k PROVE Full(o, k) <=> \/ o.at \in {"on", "err"} /\ k < o.k
                                        \/ o.at = "off" /\ k > o.k
                                        \/ o.at = "undo" /\ k > o.k /\ k < o.upto
  BY <1>1 DEF Full
<1> QED
  BY <1>1, <1>4, <1>5 DEF s

-----------------------------------------------------------------------------
(* Device d goes on to operation o and state c; the others stay.           *)
Moves(d, o, c) ==
  /\ op' \in [Devs -> Busy \cup {Idle}] /\ cur' \in [Devs -> States \cup {None}]
  /\ op'[d] = o /\ cur'[d] = c /\ OpOK(d, o, c)
  /\ \A e \in Devs \ {d} : op'[e] = op[e] /\ cur'[e] = cur[e]

(* Whoever has no reference left is settled without a state or on the way. *)
Unused(o, c) == IF o = Idle THEN c = None ELSE o.at = "off" /\ o.st = None

LEMMA OpKeeps ==
  ASSUME OpInv, NEW d \in Devs, NEW o, NEW c, Moves(d, o, c),
         users' \in [Devs -> 0..MaxUsers], \A e \in Devs \ {d} : users'[e] = users[e],
         users'[d] = 0 => Unused(o, c)
  PROVE  OpInv'
BY DEF OpInv, Moves, Unused

(* A step that leaves the pins alone holds the same pins as before.        *)
LEMMA MoveKeeps ==
  ASSUME HoldsInv, PadInv, NEW d \in Devs, NEW o, NEW c, Moves(d, o, c),
         UNCHANGED <<pinVars, line>>,
         \A p, x : Uses(d, o, c, p, x) <=> Uses(d, op[d], cur[d], p, x),
         Steady(o) => Steady(op[d]) \/ \A p, x : ~Uses(d, o, c, p, x)
  PROVE  HoldsInv' /\ PadInv'
<1>1. \A e \in Devs : \A p, x : Uses(e, op[e], cur[e], p, x)' <=> Uses(e, op[e], cur[e], p, x)
  <2>1. ASSUME NEW e \in Devs, NEW p, NEW x
        PROVE  Uses(e, op'[e], cur'[e], p, x) <=> Uses(e, op[e], cur[e], p, x)
    BY DEF Moves
  <2> QED
    BY <2>1
<1>2. HoldsInv'
  BY <1>1 DEF HoldsInv, pinVars
<1>3. ASSUME NEW e \in Devs, NEW p \in Pins, NEW x \in SettingIds,
             Steady(op'[e]), Uses(e, op'[e], cur'[e], p, x)
      PROVE  pad[PadOf[p]] = x
  <2>1. CASE e = d
    BY <1>3, <2>1 DEF Moves, PadInv
  <2>2. CASE e # d
    BY <1>3, <2>2 DEF Moves, PadInv
  <2> QED
    BY <2>1, <2>2
<1>4. PadInv'
  BY <1>3 DEF PadInv, pinVars
<1> QED
  BY <1>2, <1>4

(* pinctrl_commit_state when nothing of the device is held.                *)
LEMMA StartOnMoves ==
  ASSUME OpInv, NEW d \in Devs, NEW s \in States \cup {None}, NEW back \in States \cup {None},
         StartOn(d, s, back)
  PROVE  \E o, c : /\ Moves(d, o, c) /\ \A p, x : ~Uses(d, o, c, p, x)
                   /\ s = None => Unused(o, c)
<1>1. op \in [Devs -> Busy \cup {Idle}] /\ cur \in [Devs -> States \cup {None}]
  BY DEF OpInv
<1>2. CASE s # None /\ Len(Settings[d][s]) > 0
  <2> DEFINE o == OnAt(d, s, 1, back)
  <2>1. o \in Busy /\ OpOK(d, o, None) /\ \A p, x : ~Uses(d, o, None, p, x)
    BY <1>2, UsesStart, OpFacts, SettingFacts
  <2>2. op' = [op EXCEPT ![d] = o] /\ cur' = [cur EXCEPT ![d] = None]
    BY <1>2 DEF StartOn
  <2> HIDE DEF o
  <2>3. Moves(d, o, None)
    BY <1>1, <2>1, <2>2 DEF Moves
  <2> QED
    BY <1>2, <2>1, <2>3
<1>3. CASE ~(s # None /\ Len(Settings[d][s]) > 0)
  <2>1. s = None \/ Len(Settings[d][s]) = 0
    BY <1>3, SettingFacts
  <2>2. OpOK(d, Idle, s) /\ \A p, x : ~Uses(d, Idle, s, p, x)
    BY <2>1, UsesStart
  <2>3. op' = [op EXCEPT ![d] = Idle] /\ cur' = [cur EXCEPT ![d] = s]
    BY <1>3 DEF StartOn
  <2>4. Moves(d, Idle, s)
    BY <1>1, <2>2, <2>3 DEF Moves
  <2> QED
    BY <2>2, <2>4 DEF Unused
<1> QED
  BY <1>2, <1>3

(* The same for a settled device that leaves its state first.              *)
LEMMA StartOffMoves ==
  ASSUME OpInv, NEW d \in Devs, NEW to \in States \cup {None}, op[d] = Idle, StartOff(d, to)
  PROVE  \E o, c : /\ Moves(d, o, c) /\ (to = None => Unused(o, c))
                   /\ \A p, x : Uses(d, o, c, p, x) <=> Uses(d, op[d], cur[d], p, x)
                   /\ Steady(o) => \A p, x : ~Uses(d, o, c, p, x)
<1>1. op \in [Devs -> Busy \cup {Idle}] /\ cur \in [Devs -> States \cup {None}]
  BY DEF OpInv
<1> DEFINE s == cur[d]
<1>2. CASE s # None /\ Len(Settings[d][s]) > 0
  <2> DEFINE o == OffAt(d, s, 1, to)
  <2>0. s \in States /\ 1 \in 1..Len(Settings[d][s])
    BY <1>1, <1>2, SettingFacts
  <2>1. o \in Busy /\ o # Idle /\ o.at = "off" /\ o.st = to
    BY <2>0, OpFacts
  <2>2. /\ OpOK(d, o, s)
        /\ \A p, x : Uses(d, o, s, p, x) <=>
             \E j \in 1..Len(Settings[d][s]) : j >= 1 /\ x = <<d, s, j>> /\ p \in Settings[d][s][j]
    BY <2>0, UsesOff
  <2>3. \A p, x : Uses(d, Idle, s, p, x) <=>
          \E j \in 1..Len(Settings[d][s]) : x = <<d, s, j>> /\ p \in Settings[d][s][j]
    BY <2>0, UsesIdle
  <2>4. op' = [op EXCEPT ![d] = o] /\ cur' = cur
    BY <1>2 DEF StartOff
  <2> HIDE DEF o
  <2>5. Moves(d, o, s)
    BY <1>1, <2>1, <2>2, <2>4 DEF Moves
  <2>6. \A p, x : Uses(d, o, s, p, x) <=> Uses(d, Idle, s, p, x)
    BY <2>2, <2>3
  <2> QED
    BY <2>1, <2>5, <2>6 DEF Unused, Steady
<1>3. CASE ~(s # None /\ Len(Settings[d][s]) > 0)
  <2>1. s \in States \cup {None} /\ (s = None \/ Len(Settings[d][s]) = 0)
    BY <1>1, <1>3, SettingFacts
  <2>2. \A p, x : ~Uses(d, Idle, s, p, x)
    BY <2>1, UsesStart
  <2>3. StartOn(d, to, s)
    BY <1>3 DEF StartOff
  <2> HIDE DEF s
  <2>4. PICK o, c : /\ Moves(d, o, c) /\ \A p, x : ~Uses(d, o, c, p, x)
                    /\ to = None => Unused(o, c)
    BY <2>1, <2>3, StartOnMoves
  <2> QED
    BY <2>2, <2>4 DEF s
<1> QED
  BY <1>2, <1>3

(* A pin that is used only by d is freed, and nothing else changes.        *)
LEMMA FreeHolds ==
  ASSUME PinInv, HoldsInv, PadInv, NEW d \in Devs, NEW o, NEW c, Moves(d, o, c), ~Steady(o),
         NEW p \in Pins, muxOwner[p] = d, MuxFree(p), line' = line,
         \A q, x : Uses(d, o, c, q, x) <=> Uses(d, op[d], cur[d], q, x) /\ q # p
  PROVE  HoldsInv' /\ PadInv'
<1>0. None \notin Devs
  BY NoneIsNoDev
<1>1. /\ usecount[p] = 1 /\ usecount' = [usecount EXCEPT ![p] = IF @ > 0 THEN @ - 1 ELSE 0]
      /\ muxOwner' = [muxOwner EXCEPT ![p] = None]
      /\ muxSetting' = [muxSetting EXCEPT ![p] = None] /\ pad' = pad
  BY <1>0 DEF MuxFree, HoldsInv
<1>2. /\ usecount \in [Pins -> Nat] /\ muxOwner \in [Pins -> Devs \cup {None}]
      /\ muxSetting \in [Pins -> SettingIds \cup {None}]
  BY DEF PinInv, PinTypes, HoldsInv
<1>3. /\ usecount'[p] = 0 /\ muxOwner'[p] = None /\ muxSetting'[p] = None
      /\ muxSetting' \in [Pins -> SettingIds \cup {None}]
      /\ \A q \in Pins \ {p} : /\ usecount'[q] = usecount[q] /\ muxOwner'[q] = muxOwner[q]
                               /\ muxSetting'[q] = muxSetting[q]
  BY <1>1, <1>2
<1>4. ASSUME NEW e \in Devs, NEW q \in Pins, NEW x \in SettingIds \cup {None}
      PROVE  muxOwner'[q] = e /\ muxSetting'[q] = x <=> Uses(e, op'[e], cur'[e], q, x)
  <2>0. /\ muxOwner[q] = e /\ muxSetting[q] = x <=> Uses(e, op[e], cur[e], q, x)
        /\ muxOwner[p] = e /\ muxSetting[p] = x <=> Uses(e, op[e], cur[e], p, x)
    BY DEF HoldsInv
  <2>1. CASE e = d
    BY <1>0, <1>3, <2>0, <2>1 DEF Moves
  <2>2. CASE e # d
    BY <1>0, <1>3, <2>0, <2>2 DEF Moves
  <2> QED
    BY <2>1, <2>2
<1>5. HoldsInv'
  BY <1>3, <1>4 DEF HoldsInv
<1>6. ASSUME NEW e \in Devs, NEW q \in Pins, NEW x \in SettingIds,
             Steady(op'[e]), Uses(e, op'[e], cur'[e], q, x)
      PROVE  pad'[PadOf[q]] = x
  BY <1>1, <1>6 DEF Moves, PadInv
<1>7. PadInv'
  BY <1>1, <1>6 DEF PadInv
<1> QED
  BY <1>5, <1>7

(* A free pin is taken by d, without a setting.                            *)
LEMMA TakeHolds ==
  ASSUME PinInv, HoldsInv, PadInv, NEW d \in Devs, NEW o, NEW c, Moves(d, o, c), Steady(op[d]),
         NEW p \in Pins, muxOwner[p] # d, MuxRequestOK(d, p), MuxRequest(d, p), line' = line,
         \A q, x : Uses(d, o, c, q, x) <=> Uses(d, op[d], cur[d], q, x) \/ (q = p /\ x = None)
  PROVE  HoldsInv' /\ PadInv'
<1>0. None \notin Devs /\ None \notin SettingIds
  BY PinctrlAssumption DEF PinctrlAssumption
<1>2. /\ usecount \in [Pins -> Nat] /\ muxOwner \in [Pins -> Devs \cup {None}]
      /\ muxSetting \in [Pins -> SettingIds \cup {None}]
  BY DEF PinInv, PinTypes, HoldsInv
<1>1. muxOwner[p] = None /\ usecount[p] = 0 /\ muxSetting[p] = None
  BY <1>2 DEF MuxRequestOK, HoldsInv
<1>3. /\ usecount'[p] = 1 /\ muxOwner'[p] = d
      /\ muxSetting' = muxSetting /\ pad' = pad
      /\ \A q \in Pins \ {p} : usecount'[q] = usecount[q] /\ muxOwner'[q] = muxOwner[q]
  BY <1>1, <1>2 DEF MuxRequest
<1>4. ASSUME NEW e \in Devs, NEW q \in Pins, NEW x \in SettingIds \cup {None}
      PROVE  muxOwner'[q] = e /\ muxSetting'[q] = x <=> Uses(e, op'[e], cur'[e], q, x)
  <2>0. /\ muxOwner[q] = e /\ muxSetting[q] = x <=> Uses(e, op[e], cur[e], q, x)
        /\ muxOwner[p] = e /\ muxSetting[p] = x <=> Uses(e, op[e], cur[e], p, x)
    BY DEF HoldsInv
  <2>1. CASE e = d
    BY <1>0, <1>1, <1>3, <2>0, <2>1 DEF Moves
  <2>2. CASE e # d
    BY <1>0, <1>1, <1>3, <2>0, <2>2 DEF Moves
  <2> QED
    BY <2>1, <2>2
<1>5. HoldsInv'
  BY <1>0, <1>1, <1>2, <1>3, <1>4 DEF HoldsInv
<1>6. ASSUME NEW e \in Devs, NEW q \in Pins, NEW x \in SettingIds,
             Steady(op'[e]), Uses(e, op'[e], cur'[e], q, x)
      PROVE  pad[PadOf[q]] = x
  <2>1. CASE e = d
    BY <1>0, <1>6, <2>1 DEF Moves, PadInv
  <2>2. CASE e # d
    BY <1>6, <2>2 DEF Moves, PadInv
  <2> QED
    BY <2>1, <2>2
<1>7. PadInv'
  BY <1>3, <1>6 DEF PadInv
<1> QED
  BY <1>5, <1>7

(* All pins of setting x0 are taken by d: they are muxed for it.           *)
LEMMA MuxHolds ==
  ASSUME PinInv, HoldsInv, PadInv, NEW d \in Devs, NEW o, NEW c, Moves(d, o, c), Steady(op[d]),
         NEW x0 \in SettingIds, x0[1] = d, PinsOf(x0) \subseteq Pins,
         UNCHANGED <<usecount, muxOwner, line>>,
         muxSetting' = [p \in Pins |-> IF p \in PinsOf(x0) THEN x0 ELSE muxSetting[p]],
         pad' = [f \in Pads |-> IF \E p \in PinsOf(x0) : PadOf[p] = f THEN x0 ELSE pad[f]],
         \A p \in PinsOf(x0) : muxOwner[p] = d,
         \A q, x : Uses(d, o, c, q, x) <=>
           IF q \in PinsOf(x0) THEN x = x0 ELSE Uses(d, op[d], cur[d], q, x)
  PROVE  HoldsInv' /\ PadInv'
<1>0. /\ None \notin Devs /\ None \notin SettingIds
      /\ \A p \in PinsOf(x0), q \in Pins : PadOf[p] = PadOf[q] => q \in PinsOf(x0)
  BY PinctrlAssumption DEF PinctrlAssumption
<1>1. muxSetting \in [Pins -> SettingIds \cup {None}] /\ muxSetting' \in [Pins -> SettingIds \cup {None}]
  BY DEF HoldsInv
<1>2. ASSUME NEW e \in Devs, NEW q \in Pins, NEW x \in SettingIds \cup {None}
      PROVE  muxOwner'[q] = e /\ muxSetting'[q] = x <=> Uses(e, op'[e], cur'[e], q, x)
  <2>0. muxOwner[q] = e /\ muxSetting[q] = x <=> Uses(e, op[e], cur[e], q, x)
    BY DEF HoldsInv
  <2>3. muxSetting'[q] = IF q \in PinsOf(x0) THEN x0 ELSE muxSetting[q]
    OBVIOUS
  <2>1. CASE e = d
    BY <2>0, <2>1, <2>3 DEF Moves
  <2>2. CASE e # d
    <3>1. q \in PinsOf(x0) => muxOwner[q] # e /\ ~Uses(e, op[e], cur[e], q, x)
      <4>1. ASSUME q \in PinsOf(x0), Uses(e, op[e], cur[e], q, x) PROVE FALSE
        BY <2>0, <2>2, <4>1
      <4> QED
        BY <2>2, <4>1
    <3> QED
      BY <2>0, <2>2, <2>3, <3>1 DEF Moves
  <2> QED
    BY <2>1, <2>2
<1>3. \A q \in Pins : muxOwner[q] = None => q \notin PinsOf(x0)
  BY <1>0
<1>4. HoldsInv'
  BY <1>1, <1>2, <1>3 DEF HoldsInv
<1>5. ASSUME NEW q \in Pins
      PROVE  pad'[PadOf[q]] = IF q \in PinsOf(x0) THEN x0 ELSE pad[PadOf[q]]
  BY <1>0 DEF Pads
<1>6. ASSUME NEW q \in Pins, line[q] = "on" PROVE pad'[PadOf[q]] = Gpio
  <2>1. usecount[q] = 0
    BY <1>6 DEF PinInv, PinTypes, PinExclusive
  <2>2. q \notin PinsOf(x0)
    BY <1>0, <2>1 DEF HoldsInv
  <2> QED
    BY <1>5, <1>6, <2>2 DEF PadInv
<1>7. ASSUME NEW e \in Devs, NEW q \in Pins, NEW x \in SettingIds,
             Steady(op'[e]), Uses(e, op'[e], cur'[e], q, x)
      PROVE  pad'[PadOf[q]] = x
  <2>1. CASE e = d
    BY <1>5, <1>7, <2>1 DEF Moves, PadInv
  <2>2. CASE e # d
    <3>1. muxOwner[q] = e
      BY <1>7, <2>2 DEF Moves, HoldsInv
    <3> QED
      BY <1>5, <1>7, <2>2, <3>1 DEF Moves, PadInv
  <2> QED
    BY <2>1, <2>2
<1>8. pad' \in [Pads -> SettingIds \cup {Gpio, None}]
  BY DEF PadInv
<1>9. PadInv'
  BY <1>6, <1>7, <1>8 DEF PadInv
<1> QED
  BY <1>4, <1>9

-----------------------------------------------------------------------------
Kept == OpInv' /\ HoldsInv' /\ PadInv'
Rules == PinInv /\ OpInv /\ HoldsInv /\ PadInv

(* A device that executes an operation.                                    *)
LEMMA BusyIs ==
  ASSUME OpInv, NEW d \in Devs, op[d].at # "idle"
  PROVE  /\ op[d] \in Busy /\ op[d] # Idle /\ OpOK(d, op[d], cur[d])
         /\ op[d].left \subseteq Pins
         /\ users[d] = 0 => op[d].at = "off" /\ op[d].st = None
<1>1. op[d] \in Busy /\ op[d] # Idle
  BY DEF OpInv, Idle
<1>2. op[d].left \subseteq Pins
  BY <1>1 DEF Busy
<1> QED
  BY <1>1, <1>2 DEF OpInv

(* The visit of one pin of a setting.                                      *)
LEMMA VisitIs ==
  ASSUME OpInv, NEW d \in Devs, op[d].at # "idle", NEW p, Visit(d, p)
  PROVE  /\ op'[d] \in Busy /\ cur' = cur /\ op' \in [Devs -> Busy \cup {Idle}]
         /\ op'[d].at = op[d].at /\ op'[d].st = op[d].st /\ op'[d].back = op[d].back
         /\ op'[d].k = op[d].k /\ op'[d].upto = op[d].upto /\ op'[d].left = op[d].left \ {p}
         /\ \A e \in Devs \ {d} : op'[e] = op[e]
<1>1. op[d] \in Busy /\ op \in [Devs -> Busy \cup {Idle}]
  BY BusyIs DEF OpInv
<1>2. op' = [op EXCEPT ![d] = [op[d] EXCEPT !.left = op[d].left \ {p}]] /\ cur' = cur
  BY <1>1 DEF Visit
<1> DEFINE o == [op[d] EXCEPT !.left = op[d].left \ {p}]
<1>3. /\ o \in Busy /\ o.at = op[d].at /\ o.st = op[d].st /\ o.back = op[d].back
      /\ o.k = op[d].k /\ o.upto = op[d].upto /\ o.left = op[d].left \ {p}
  BY <1>1 DEF Busy
<1> HIDE DEF o
<1>4. op' = [op EXCEPT ![d] = o]
  BY <1>2 DEF o
<1> QED
  BY <1>1, <1>2, <1>3, <1>4

(* One pin of a setting is released, by one of three walks.                *)
LEMMA ReleaseKeeps ==
  ASSUME Rules, NEW d \in Devs, op[d].at \in {"off", "undo", "err"}, NEW p \in op[d].left,
         \/ op[d].at = "err" /\ MuxFree(p)
         \/ op[d].at \in {"off", "undo"} /\ DisablePin(<<d, At(op[d], cur[d]), op[d].k>>, p),
         Visit(d, p), Elsewhere
  PROVE  Kept
<1>r. PinInv /\ OpInv /\ HoldsInv /\ PadInv
  BY DEF Rules
<1>b. /\ op[d] \in Busy /\ op[d] # Idle /\ OpOK(d, op[d], cur[d]) /\ p \in Pins
      /\ users[d] = 0 => op[d].at = "off" /\ op[d].st = None
  BY <1>r, BusyIs
<1> DEFINE s == At(op[d], cur[d])
           o == op'[d]
           k == op[d].k
<1>1. /\ s \in States /\ k \in 1..Len(Settings[d][s]) /\ p \in Settings[d][s][k]
  BY <1>b DEF OpOK
<1>v. /\ o \in Busy /\ cur' = cur /\ op' \in [Devs -> Busy \cup {Idle}]
      /\ o.at = op[d].at /\ o.st = op[d].st /\ o.back = op[d].back
      /\ o.k = op[d].k /\ o.upto = op[d].upto /\ o.left = op[d].left \ {p}
      /\ \A e \in Devs \ {d} : op'[e] = op[e]
  BY <1>r, VisitIs
<1> HIDE DEF o
<1>2. /\ OpOK(d, o, cur[d])
      /\ \A q, x : Uses(d, o, cur[d], q, x) <=> Uses(d, op[d], cur[d], q, x) /\ q # p
  BY <1>b, <1>v, UsesLess
<1>3. Moves(d, o, cur[d])
  BY <1>r, <1>v, <1>2 DEF Moves, OpInv, o
<1>4. o # Idle /\ ~Steady(o)
  BY <1>v DEF Steady, Idle
<1>5. muxOwner[p] = d /\ MuxFree(p)
  <2>1. CASE op[d].at = "err"
    <3>1. Uses(d, op[d], cur[d], p, None)
      BY <2>1 DEF Uses
    <3> QED
      BY <1>r, <1>b, <2>1, <3>1 DEF HoldsInv
  <2>2. CASE op[d].at \in {"off", "undo"}
    <3>1. Count(d, s) = Len(Settings[d][s]) /\ <<d, s, k>> \in SettingIds
      BY <1>1, SettingFacts DEF Count
    <3>2. Left(op[d], k, p)
      BY <2>2 DEF Left
    <3>3. Uses(d, op[d], cur[d], p, <<d, s, k>>)
      BY <1>1, <3>1, <3>2 DEF Uses
    <3>4. muxOwner[p] = d /\ muxSetting[p] = <<d, s, k>>
      BY <1>r, <1>b, <3>1, <3>3 DEF HoldsInv
    <3> QED
      BY <2>2, <3>4 DEF DisablePin
  <2> QED
    BY <2>1, <2>2
<1>6. HoldsInv' /\ PadInv'
  BY <1>r, <1>b, <1>2, <1>3, <1>4, <1>5, FreeHolds DEF Elsewhere
<1>7. Unused(op[d], cur[d]) => Unused(o, cur[d])
  BY <1>b, <1>v, <1>4 DEF Unused
<1>8. OpInv'
  BY <1>r, <1>b, <1>3, <1>7, OpKeeps DEF Elsewhere, OpInv, Unused
<1> QED
  BY <1>6, <1>8 DEF Kept

(* One pin of a setting is requested (pinmux_enable_setting).              *)
LEMMA RequestKeeps ==
  ASSUME Rules, NEW d \in Devs, RequestPin(d)
  PROVE  Kept
<1>r. PinInv /\ OpInv /\ HoldsInv /\ PadInv
  BY DEF Rules
<1>p. PICK p \in op[d].left : MuxRequestOK(d, p) /\ MuxRequest(d, p) /\ Visit(d, p)
  BY DEF RequestPin
<1>a. op[d].at = "on" /\ UNCHANGED <<users, line>>
  BY DEF RequestPin, Elsewhere
<1>b. op[d] \in Busy /\ OpOK(d, op[d], cur[d]) /\ p \in Pins /\ users[d] # 0
  BY <1>r, <1>a, BusyIs
<1> DEFINE o == op'[d]
<1>v. /\ o \in Busy /\ cur' = cur /\ op' \in [Devs -> Busy \cup {Idle}]
      /\ o.at = op[d].at /\ o.st = op[d].st /\ o.back = op[d].back
      /\ o.k = op[d].k /\ o.upto = op[d].upto /\ o.left = op[d].left \ {p}
      /\ \A e \in Devs \ {d} : op'[e] = op[e]
  BY <1>r, <1>a, <1>p, VisitIs
<1> HIDE DEF o
<1>2. /\ OpOK(d, o, cur[d]) /\ \A x : ~Uses(d, op[d], cur[d], p, x)
      /\ \A q, x : Uses(d, o, cur[d], q, x) <=> Uses(d, op[d], cur[d], q, x) \/ (q = p /\ x = None)
  BY <1>a, <1>b, <1>v, UsesMore
<1>3. Moves(d, o, cur[d])
  BY <1>r, <1>v, <1>2 DEF Moves, OpInv, o
<1>4. muxOwner[p] # d
  <2>1. muxSetting[p] \in SettingIds \cup {None}
    BY <1>r, <1>b DEF HoldsInv
  <2> QED
    BY <1>r, <1>b, <1>2, <2>1 DEF HoldsInv
<1>5. HoldsInv' /\ PadInv'
  BY <1>r, <1>p, <1>a, <1>b, <1>2, <1>3, <1>4, TakeHolds DEF Steady
<1>6. OpInv'
  BY <1>r, <1>a, <1>b, <1>3, OpKeeps DEF OpInv
<1> QED
  BY <1>5, <1>6 DEF Kept

(* A setting fails: at a pin that is refused, or when all are taken, and   *)
(* the pins taken so far are to be freed.                                  *)
LEMMA FailKeeps ==
  ASSUME Rules, NEW d \in Devs, RefusePin(d) \/ SetMuxFails(d)
  PROVE  Kept
<1>r. PinInv /\ OpInv /\ HoldsInv /\ PadInv
  BY DEF Rules
<1>a. op[d].at = "on" /\ UNCHANGED <<users, line, cur, usecount, muxOwner, gpioOwner, mask, pad>>
  BY DEF RefusePin, SetMuxFails, Elsewhere, pinVars
<1>b. op[d] \in Busy /\ op[d] # Idle /\ OpOK(d, op[d], cur[d]) /\ users[d] # 0
  BY <1>r, <1>a, BusyIs
<1> DEFINE s == op[d].st
           all == Settings[d][s][op[d].k]
           o == [op[d] EXCEPT !.at = "err", !.left = all \ op[d].left]
<1>1. /\ s \in States /\ op[d].k \in 1..Len(Settings[d][s]) /\ op[d].left \subseteq all
      /\ all \subseteq Pins
  BY <1>a, <1>b, SettingFacts DEF OpOK, At
<1>2. op' = [op EXCEPT ![d] = o]
  <2>1. CASE RefusePin(d)
    BY <2>1 DEF RefusePin
  <2>2. CASE SetMuxFails(d)
    <3>1. op[d].left = {} /\ all \ op[d].left = all
      BY <2>2 DEF SetMuxFails
    <3>2. op' = [op EXCEPT ![d].at = "err", ![d].left = all]
      BY <2>2 DEF SetMuxFails
    <3> QED
      BY <3>1, <3>2
  <2> QED
    BY <2>1, <2>2
<1>3. /\ o \in Busy /\ o.at = "err" /\ o.st = s /\ o.back = op[d].back /\ o.k = op[d].k
      /\ o.upto = op[d].upto /\ o.left = all \ op[d].left
  BY <1>b, <1>1 DEF Busy
<1> HIDE DEF o, all, s
<1>4. o # Idle /\ ~Steady(o) /\ At(o, cur[d]) = s /\ At(op[d], cur[d]) = s
  BY <1>a, <1>b, <1>3 DEF Steady, Idle, At, s
<1>5. OpOK(d, o, cur[d])
  BY <1>b, <1>1, <1>3, <1>4 DEF OpOK, all
<1>6. Moves(d, o, cur[d])
  BY <1>r, <1>a, <1>2, <1>3, <1>5 DEF Moves, OpInv
<1>7. ASSUME NEW p, NEW x PROVE Uses(d, o, cur[d], p, x) <=> Uses(d, op[d], cur[d], p, x)
  BY <1>a, <1>b, <1>1, <1>3, <1>4 DEF Uses, Full, Left, all, s
<1>8. muxSetting' = muxSetting
  <2>1. CASE RefusePin(d)
    BY <2>1 DEF RefusePin, pinVars
  <2>2. CASE SetMuxFails(d)
    <3>1. muxSetting' = [p \in Pins |-> IF p \in all THEN None ELSE muxSetting[p]] /\ op[d].left = {}
      BY <2>2 DEF SetMuxFails, all, s
    <3>2. ASSUME NEW p \in all PROVE muxSetting[p] = None
      <4>1. Uses(d, op[d], cur[d], p, None)
        BY <1>a, <3>1, <3>2 DEF Uses, all, s
      <4> QED
        BY <1>r, <1>1, <4>1 DEF HoldsInv
    <3> QED
      BY <1>r, <3>1, <3>2 DEF HoldsInv
  <2> QED
    BY <2>1, <2>2
<1>9. HoldsInv' /\ PadInv'
  BY <1>r, <1>a, <1>4, <1>6, <1>7, <1>8, MoveKeeps DEF pinVars
<1>10. OpInv'
  BY <1>r, <1>a, <1>b, <1>6, OpKeeps DEF OpInv
<1> QED
  BY <1>9, <1>10 DEF Kept

(* A device goes on without touching a pin.                                *)
LEMMA MoveAlong ==
  ASSUME Rules, NEW d \in Devs, NEW o, NEW c, Moves(d, o, c), UNCHANGED <<pinVars, line, users>>,
         users[d] = 0 => Unused(o, c),
         \A p, x : Uses(d, o, c, p, x) <=> Uses(d, op[d], cur[d], p, x),
         Steady(o) => \A p, x : ~Uses(d, o, c, p, x)
  PROVE  Kept
<1>1. HoldsInv' /\ PadInv'
  BY MoveKeeps DEF Rules
<1>2. OpInv'
  BY OpKeeps DEF Rules, OpInv
<1> QED
  BY <1>1, <1>2 DEF Kept

(* The old state: on to its next setting, or to the new state.             *)
LEMMA OldNextKeeps ==
  ASSUME Rules, NEW d \in Devs, DisableOldNext(d)
  PROVE  Kept
<1>r. OpInv
  BY DEF Rules
<1>a. op[d].at = "off" /\ op[d].left = {} /\ UNCHANGED <<pinVars, line, users>>
  BY DEF DisableOldNext, Elsewhere
<1>b. /\ op[d] \in Busy /\ op[d] # Idle /\ OpOK(d, op[d], cur[d])
      /\ users[d] = 0 => op[d].st = None
  BY <1>r, <1>a, BusyIs
<1> DEFINE s == op[d].back
           k == op[d].k
           to == op[d].st
           n == Len(Settings[d][s])
<1>1. At(op[d], cur[d]) = s /\ to \in States \cup {None} /\ cur[d] \in States \cup {None}
  BY <1>a, <1>b DEF At, Busy, OpOK
<1>2. n \in Nat /\ op \in [Devs -> Busy \cup {Idle}] /\ cur \in [Devs -> States \cup {None}]
  BY <1>r, <1>b, <1>1, SettingFacts DEF OpOK, OpInv
<1>3. /\ s \in States /\ k \in 1..n
      /\ \A p, x : Uses(d, op[d], cur[d], p, x) <=>
           \E j \in 1..n : j > k /\ x = <<d, s, j>> /\ p \in Settings[d][s][j]
  BY <1>a, <1>b, <1>1, UsesVisited
<1>4. CASE k < n
  <2>0. PICK k1 \in 1..n : k1 = k + 1
    BY <1>2, <1>3, <1>4
  <2> DEFINE o == OffAt(d, s, k1, to)
  <2>1. o \in Busy /\ o # Idle /\ o.at = "off" /\ o.st = to
    BY <1>1, <1>3, <2>0, OpFacts
  <2>2. /\ OpOK(d, o, cur[d])
        /\ \A p, x : Uses(d, o, cur[d], p, x) <=>
             \E j \in 1..n : j >= k1 /\ x = <<d, s, j>> /\ p \in Settings[d][s][j]
    <3> HIDE DEF s, to
    <3> QED
      BY <1>1, <1>3, UsesOff
  <2>3. op' = [op EXCEPT ![d] = o] /\ cur' = cur
    BY <1>4, <2>0 DEF DisableOldNext
  <2> HIDE DEF o
  <2>4. Moves(d, o, cur[d])
    BY <1>2, <2>1, <2>2, <2>3 DEF Moves
  <2>5. \A j \in 1..n : j >= k1 <=> j > k
    BY <1>2, <1>3, <2>0
  <2>6. \A p, x : Uses(d, o, cur[d], p, x) <=> Uses(d, op[d], cur[d], p, x)
    BY <1>3, <2>2, <2>5
  <2>7. ~Steady(o) /\ (users[d] = 0 => Unused(o, cur[d]))
    BY <1>b, <2>1 DEF Steady, Unused
  <2> QED
    BY <1>a, <2>4, <2>6, <2>7, MoveAlong
<1>5. CASE ~(k < n)
  <2>1. \A p, x : ~Uses(d, op[d], cur[d], p, x)
    BY <1>2, <1>3, <1>5
  <2>2. StartOn(d, to, s)
    BY <1>5 DEF DisableOldNext
  <2>3. PICK o, c : /\ Moves(d, o, c) /\ \A p, x : ~Uses(d, o, c, p, x)
                    /\ to = None => Unused(o, c)
    BY <1>r, <1>1, <1>3, <2>2, StartOnMoves
  <2> QED
    BY <1>a, <1>b, <2>1, <2>3, MoveAlong
<1> QED
  BY <1>4, <1>5

(* A state that failed is undone: on to its next setting, or back to the   *)
(* old state.                                                              *)
LEMMA UsesUndo ==
  ASSUME NEW d \in Devs, NEW s \in States, NEW k \in 1..Len(Settings[d][s]),
         NEW n \in 1..Len(Settings[d][s]), k < n,
         NEW back \in States \cup {None}, NEW c \in States \cup {None}
  PROVE  LET o == UndoAt(d, s, k, n, back) IN
         /\ OpOK(d, o, c)
         /\ \A p, x : Uses(d, o, c, p, x) <=>
              \E j \in 1..Len(Settings[d][s]) :
                 j >= k /\ j < n /\ x = <<d, s, j>> /\ p \in Settings[d][s][j]
<1> DEFINE o == UndoAt(d, s, k, n, back)
<1>0. n \in Nat
  BY SettingFacts
<1>a. /\ o \in Busy /\ o # Idle /\ o.at = "undo" /\ o.st = s /\ o.back = back /\ o.k = k
      /\ o.upto = n /\ o.left = Settings[d][s][k] /\ \A e : At(o, e) = s
  BY <1>0, UndoFacts
<1> HIDE DEF o
<1>1. /\ o \in Busy /\ o # Idle /\ o.at = "undo" /\ o.k = k /\ o.upto = n
      /\ o.left = Settings[d][s][k] /\ At(o, c) = s
  BY <1>a
<1>2. OpOK(d, o, c)
  BY <1>1, SettingFacts DEF OpOK
<1>3. Count(d, s) = Len(Settings[d][s])
  BY SettingFacts DEF Count
<1>4. ASSUME NEW j \in 1..Len(Settings[d][s]), NEW p \in Settings[d][s][j]
      PROVE  Full(o, j) \/ Left(o, j, p) <=> j >= k /\ j < n
  BY <1>1, SettingFacts DEF Full, Left
<1>5. ASSUME NEW p, NEW x
      PROVE  Uses(d, o, c, p, x) <=>
               \E j \in 1..Len(Settings[d][s]) :
                 j >= k /\ j < n /\ x = <<d, s, j>> /\ p \in Settings[d][s][j]
  BY <1>1, <1>3, <1>4 DEF Uses
<1> QED
  BY <1>2, <1>5 DEF o

LEMMA UndoKeeps ==
  ASSUME Rules, NEW d \in Devs, FreeTakenDone(d) \/ UndoNext(d)
  PROVE  Kept
<1>r. OpInv
  BY DEF Rules
<1>a. op[d].at \in {"err", "undo"} /\ op[d].left = {} /\ UNCHANGED <<pinVars, line, users>>
  BY DEF FreeTakenDone, UndoNext, Elsewhere
<1>b. op[d] \in Busy /\ op[d] # Idle /\ OpOK(d, op[d], cur[d]) /\ users[d] # 0
  BY <1>r, <1>a, BusyIs
<1> DEFINE s == op[d].st
           back == op[d].back
           n == Len(Settings[d][s])
           lo == IF op[d].at = "err" THEN 1 ELSE op[d].k + 1
           hi == IF op[d].at = "err" THEN op[d].k ELSE op[d].upto
<1>1. At(op[d], cur[d]) = s /\ back \in States \cup {None} /\ cur[d] \in States \cup {None}
  BY <1>a, <1>b DEF At, Busy, OpOK
<1>2. n \in Nat /\ op \in [Devs -> Busy \cup {Idle}] /\ cur \in [Devs -> States \cup {None}]
  BY <1>r, <1>b, <1>1, SettingFacts DEF OpOK, OpInv
<1>3. s \in States /\ op[d].k \in 1..n /\ (op[d].at = "undo" => op[d].upto <= n)
      /\ op[d].upto \in Nat
  BY <1>b, <1>1 DEF OpOK, Busy
<1>4. /\ op[d].at = "undo" => \A p, x : Uses(d, op[d], cur[d], p, x) <=>
           \E j \in 1..n : j > op[d].k /\ j < op[d].upto /\ x = <<d, s, j>> /\ p \in Settings[d][s][j]
      /\ op[d].at = "err" => \A p, x : Uses(d, op[d], cur[d], p, x) <=>
           \E j \in 1..n : j < op[d].k /\ x = <<d, s, j>> /\ p \in Settings[d][s][j]
  BY <1>a, <1>b, <1>1, UsesVisited
<1>5. /\ lo \in Nat \ {0} /\ hi \in Nat /\ hi <= n
      /\ \A j \in 1..n : j >= lo /\ j < hi <=>
           IF op[d].at = "err" THEN j < op[d].k ELSE j > op[d].k /\ j < op[d].upto
  BY <1>a, <1>2, <1>3
<1>6. \A p, x : Uses(d, op[d], cur[d], p, x) <=>
        \E j \in 1..n : j >= lo /\ j < hi /\ x = <<d, s, j>> /\ p \in Settings[d][s][j]
  <2>1. CASE op[d].at = "err"
    BY <1>4, <1>5, <2>1
  <2>2. CASE op[d].at = "undo"
    BY <1>4, <1>5, <2>2
  <2> QED
    BY <1>a, <2>1, <2>2
<1>7. IF lo < hi THEN op' = [op EXCEPT ![d] = UndoAt(d, s, lo, hi, back)] /\ cur' = cur
                 ELSE StartOn(d, back, None)
  <2>1. CASE op[d].at = "err"
    BY <1>2, <1>3, <2>1 DEF FreeTakenDone, UndoNext, Unapply, ReturnBack
  <2>2. CASE op[d].at = "undo"
    BY <1>2, <1>3, <2>2 DEF FreeTakenDone, UndoNext, UndoMore, ReturnBack
  <2> QED
    BY <1>a, <2>1, <2>2
<1> HIDE DEF lo, hi
<1>8. CASE lo < hi
  <2> DEFINE o == UndoAt(d, s, lo, hi, back)
  <2>0. lo \in 1..n /\ hi \in 1..n
    BY <1>2, <1>5, <1>8
  <2>1. o \in Busy /\ o # Idle /\ o.at = "undo"
    <3> HIDE DEF s, back
    <3> QED
      BY <1>1, <1>3, <1>5, <2>0, OpFacts
  <2>2. /\ OpOK(d, o, cur[d])
        /\ \A p, x : Uses(d, o, cur[d], p, x) <=>
             \E j \in 1..n : j >= lo /\ j < hi /\ x = <<d, s, j>> /\ p \in Settings[d][s][j]
    <3> HIDE DEF s, back
    <3> QED
      BY <1>1, <1>3, <1>8, <2>0, UsesUndo
  <2>3. op' = [op EXCEPT ![d] = o] /\ cur' = cur
    BY <1>7, <1>8
  <2> HIDE DEF o
  <2>4. Moves(d, o, cur[d])
    BY <1>2, <2>1, <2>2, <2>3 DEF Moves
  <2>5. \A p, x : Uses(d, o, cur[d], p, x) <=> Uses(d, op[d], cur[d], p, x)
    BY <1>6, <2>2
  <2>6. ~Steady(o)
    BY <2>1 DEF Steady
  <2> QED
    BY <1>a, <1>b, <2>4, <2>5, <2>6, MoveAlong
<1>9. CASE ~(lo < hi)
  <2>1. \A p, x : ~Uses(d, op[d], cur[d], p, x)
    BY <1>2, <1>5, <1>6, <1>9
  <2>2. PICK o, c : Moves(d, o, c) /\ \A p, x : ~Uses(d, o, c, p, x)
    BY <1>r, <1>1, <1>7, <1>9, StartOnMoves
  <2> QED
    BY <1>a, <1>b, <2>1, <2>2, MoveAlong
<1> QED
  BY <1>8, <1>9

(* All pins of a setting are taken: it is applied, and the next one is     *)
(* next, or the state is reached.                                          *)
LEMMA SetMuxKeeps ==
  ASSUME Rules, NEW d \in Devs, SetMux(d)
  PROVE  Kept
<1>r. PinInv /\ OpInv /\ HoldsInv /\ PadInv
  BY DEF Rules
<1>a. op[d].at = "on" /\ op[d].left = {} /\ UNCHANGED <<usecount, muxOwner, line, users>>
  BY DEF SetMux, Elsewhere
<1>b. op[d] \in Busy /\ op[d] # Idle /\ OpOK(d, op[d], cur[d]) /\ users[d] # 0
  BY <1>r, <1>a, BusyIs
<1> DEFINE s == op[d].st
           k == op[d].k
           back == op[d].back
           n == Len(Settings[d][s])
           x0 == <<d, s, k>>
<1>1. At(op[d], cur[d]) = s /\ back \in States \cup {None}
  BY <1>a, <1>b DEF At, Busy
<1>2. op \in [Devs -> Busy \cup {Idle}] /\ cur \in [Devs -> States \cup {None}]
  BY <1>r DEF OpInv
<1>3. /\ s \in States /\ k \in 1..n
      /\ \A p, x : Uses(d, op[d], cur[d], p, x) <=>
           \/ \E j \in 1..n : j < k /\ x = <<d, s, j>> /\ p \in Settings[d][s][j]
           \/ x = None /\ p \in Settings[d][s][k]
  BY <1>a, <1>b, <1>1, UsesVisited
<1>4. /\ n \in Nat /\ x0 \in SettingIds /\ PinsOf(x0) = Settings[d][s][k]
      /\ Settings[d][s][k] \subseteq Pins
      /\ \A j \in 1..n : \A p : p \in Settings[d][s][j] /\ p \in Settings[d][s][k] => j = k
  BY <1>3, SettingFacts DEF PinsOf
<1>5. \A p \in PinsOf(x0) : muxOwner[p] = d
  <2>1. ASSUME NEW p \in Settings[d][s][k] PROVE muxOwner[p] = d
    <3>1. Uses(d, op[d], cur[d], p, None)
      BY <1>3, <2>1
    <3> QED
      BY <1>r, <1>4, <3>1 DEF HoldsInv
  <2> QED
    BY <1>4, <2>1
<1>6. /\ muxSetting' = [p \in Pins |-> IF p \in PinsOf(x0) THEN x0 ELSE muxSetting[p]]
      /\ pad' = [f \in Pads |-> IF \E p \in PinsOf(x0) : PadOf[p] = f THEN x0 ELSE pad[f]]
      /\ IF k < n
         THEN op' = [op EXCEPT ![d] = OnAt(d, s, k + 1, back)] /\ UNCHANGED cur
         ELSE op' = [op EXCEPT ![d] = Idle] /\ cur' = [cur EXCEPT ![d] = s]
  BY DEF SetMux
<1>7. ASSUME NEW q, NEW x
      PROVE  (\E j \in 1..n : j <= k /\ x = <<d, s, j>> /\ q \in Settings[d][s][j]) <=>
               IF q \in PinsOf(x0) THEN x = x0 ELSE Uses(d, op[d], cur[d], q, x)
  <2>1. CASE q \in Settings[d][s][k]
    BY <1>3, <1>4, <2>1
  <2>2. CASE q \notin Settings[d][s][k]
    <3>1. \A j \in 1..n : q \in Settings[d][s][j] => (j <= k <=> j < k)
      BY <1>3, <1>4, <2>2
    <3> QED
      BY <1>3, <1>4, <2>2, <3>1
  <2> QED
    BY <2>1, <2>2
<1>8. ASSUME NEW o, NEW c, Moves(d, o, c),
             \A p, x : Uses(d, o, c, p, x) <=>
               \E j \in 1..n : j <= k /\ x = <<d, s, j>> /\ p \in Settings[d][s][j]
      PROVE  Kept
  <2> HIDE DEF s, k, n
  <2>1. \A q, x : Uses(d, o, c, q, x) <=>
          IF q \in PinsOf(x0) THEN x = x0 ELSE Uses(d, op[d], cur[d], q, x)
    BY <1>7, <1>8
  <2>2. x0[1] = d /\ PinsOf(x0) \subseteq Pins /\ Steady(op[d])
    BY <1>4, <1>a DEF Steady
  <2> HIDE DEF x0
  <2>3. HoldsInv' /\ PadInv'
    BY <1>r, <1>a, <1>4, <1>5, <1>6, <1>8, <2>1, <2>2, MuxHolds
  <2>4. OpInv'
    BY <1>r, <1>a, <1>b, <1>8, OpKeeps DEF OpInv
  <2> QED
    BY <2>3, <2>4 DEF Kept
<1>9. CASE k < n
  <2>0. PICK k1 \in 1..n : k1 = k + 1
    BY <1>3, <1>4, <1>9
  <2> DEFINE o == OnAt(d, s, k1, back)
  <2>1. /\ o \in Busy /\ o # Idle /\ o.at = "on" /\ o.st = s /\ o.k = k1
        /\ o.left = Settings[d][s][k1] /\ At(o, cur[d]) = s
    <3> HIDE DEF s, back
    <3> QED
      BY <1>1, <1>3, OpFacts
  <2>2. op' = [op EXCEPT ![d] = o] /\ cur' = cur
    BY <1>6, <1>9, <2>0
  <2> HIDE DEF o
  <2>3. OpOK(d, o, cur[d])
    BY <1>2, <1>3, <2>1 DEF OpOK
  <2>4. Moves(d, o, cur[d])
    BY <1>2, <2>1, <2>2, <2>3 DEF Moves
  <2>5. \A j \in 1..n : \A p : Full(o, j) \/ Left(o, j, p) <=> j <= k
    <3>1. n \in Nat /\ k \in 1..n
      BY <1>3, <1>4
    <3>2. \A j \in 1..n : j < k1 <=> j <= k
      BY <2>0, <3>1
    <3>3. o # Idle /\ o.at = "on" /\ o.k = k1
      BY <2>1
    <3> HIDE DEF n, k
    <3> QED
      BY <3>2, <3>3 DEF Full, Left
  <2>6. Count(d, s) = n
    BY <1>3, SettingFacts DEF Count
  <2>7. ASSUME NEW p, NEW x
        PROVE  Uses(d, o, cur[d], p, x) <=>
                 \E j \in 1..n : j <= k /\ x = <<d, s, j>> /\ p \in Settings[d][s][j]
    <3> HIDE DEF n, k
    <3> QED
      BY <2>1, <2>5, <2>6 DEF Uses
  <2> QED
    BY <1>8, <2>4, <2>7
<1>10. CASE ~(k < n)
  <2>1. op' = [op EXCEPT ![d] = Idle] /\ cur' = [cur EXCEPT ![d] = s]
    BY <1>6, <1>10
  <2>2. /\ OpOK(d, Idle, s)
        /\ \A p, x : Uses(d, Idle, s, p, x) <=>
             \E j \in 1..n : x = <<d, s, j>> /\ p \in Settings[d][s][j]
    <3> HIDE DEF s
    <3> QED
      BY <1>3, UsesIdle
  <2>3. Moves(d, Idle, s)
    BY <1>2, <1>3, <2>1, <2>2 DEF Moves
  <2>4. \A j \in 1..n : j <= k
    BY <1>3, <1>4, <1>10
  <2> QED
    BY <1>8, <2>2, <2>3, <2>4
<1> QED
  BY <1>9, <1>10

(* All steps of a device that executes an operation.                       *)
LEMMA StepKeeps ==
  ASSUME Rules, NEW d \in Devs, Step(d)
  PROVE  Kept
<1>1. ASSUME DisableOldPin(d) PROVE Kept
  <2>1. op[d].at = "off" /\ Elsewhere /\ At(op[d], cur[d]) = op[d].back
    BY <1>1 DEF DisableOldPin, At, Idle
  <2>2. PICK p \in op[d].left : DisablePin(<<d, op[d].back, op[d].k>>, p) /\ Visit(d, p)
    BY <1>1 DEF DisableOldPin
  <2> QED
    BY <2>1, <2>2, ReleaseKeeps
<1>2. ASSUME UndoPin(d) PROVE Kept
  <2>1. op[d].at = "undo" /\ Elsewhere /\ At(op[d], cur[d]) = op[d].st
    BY <1>2 DEF UndoPin, At, Idle
  <2>2. PICK p \in op[d].left : DisablePin(<<d, op[d].st, op[d].k>>, p) /\ Visit(d, p)
    BY <1>2 DEF UndoPin
  <2> QED
    BY <2>1, <2>2, ReleaseKeeps
<1>3. ASSUME FreeTakenPin(d) PROVE Kept
  <2>1. op[d].at = "err" /\ Elsewhere
    BY <1>3 DEF FreeTakenPin
  <2>2. PICK p \in op[d].left : MuxFree(p) /\ Visit(d, p)
    BY <1>3 DEF FreeTakenPin
  <2> QED
    BY <2>1, <2>2, ReleaseKeeps
<1> QED
  BY <1>1, <1>2, <1>3, RequestKeeps, FailKeeps, OldNextKeeps, UndoKeeps, SetMuxKeeps DEF Step

(* Taking and putting handles and selecting states.                        *)
LEMMA HandleKeeps ==
  ASSUME Rules, NEW d \in Devs,
         PinctrlGet(d) \/ PinctrlPut(d) \/ \E s \in States : SelectState(d, s)
  PROVE  Kept
<1>r. OpInv /\ HoldsInv /\ PadInv
  BY DEF Rules
<1>u. users \in [Devs -> 0..MaxUsers] /\ MaxUsers \in Nat
  BY <1>r, PinctrlAssumption DEF OpInv, PinctrlAssumption
<1>1. ASSUME UNCHANGED <<pinVars, line, cur, op>>, users' \in [Devs -> 0..MaxUsers], users'[d] # 0,
             \A e \in Devs \ {d} : users'[e] = users[e]
      PROVE  Kept
  <2>1. OpInv'
    BY <1>r, <1>1 DEF OpInv
  <2>2. HoldsInv' /\ PadInv'
    BY <1>r, <1>1 DEF HoldsInv, PadInv, pinVars
  <2> QED
    BY <2>1, <2>2 DEF Kept
<1>2. ASSUME NEW to \in States \cup {None}, op[d] = Idle, StartOff(d, to), UNCHANGED <<pinVars, line>>,
             users' \in [Devs -> 0..MaxUsers], users'[d] = 0 => to = None,
             \A e \in Devs \ {d} : users'[e] = users[e]
      PROVE  Kept
  <2>1. PICK o, c : /\ Moves(d, o, c) /\ (to = None => Unused(o, c))
                    /\ \A p, x : Uses(d, o, c, p, x) <=> Uses(d, op[d], cur[d], p, x)
                    /\ Steady(o) => \A p, x : ~Uses(d, o, c, p, x)
    BY <1>r, <1>2, StartOffMoves
  <2>2. HoldsInv' /\ PadInv'
    BY <1>r, <1>2, <2>1, MoveKeeps
  <2>3. OpInv'
    BY <1>r, <1>2, <2>1, OpKeeps
  <2> QED
    BY <2>2, <2>3 DEF Kept
<1>3. ASSUME PinctrlGet(d) PROVE Kept
  BY <1>1, <1>3, <1>u DEF PinctrlGet
<1>4. ASSUME PinctrlPut(d) PROVE Kept
  <2>1. /\ users[d] > 0 /\ (users[d] = 1 => op[d] = Idle) /\ UNCHANGED <<pinVars, line>>
        /\ users' = [users EXCEPT ![d] = @ - 1]
        /\ IF users[d] = 1 THEN StartOff(d, None) ELSE UNCHANGED <<cur, op>>
    BY <1>4 DEF PinctrlPut, MayPut, ReleaseState
  <2>2. /\ users' \in [Devs -> 0..MaxUsers] /\ users'[d] = users[d] - 1
        /\ \A e \in Devs \ {d} : users'[e] = users[e]
    BY <1>u, <2>1
  <2>3. CASE users[d] = 1
    <3>1. op[d] = Idle /\ StartOff(d, None)
      BY <2>1, <2>3
    <3> QED
      BY <1>2, <2>1, <2>2, <3>1
  <2>4. CASE users[d] # 1
    <3>1. users[d] \in Nat
      BY <1>u
    <3>2. users'[d] # 0
      BY <2>2, <2>4, <3>1
    <3>3. UNCHANGED <<cur, op>>
      BY <2>1, <2>4
    <3> QED
      BY <1>1, <2>1, <2>2, <3>2, <3>3
  <2> QED
    BY <2>3, <2>4
<1>5. ASSUME NEW s \in States, SelectState(d, s) PROVE Kept
  <2>1. users[d] > 0 /\ op[d] = Idle /\ StartOff(d, s) /\ UNCHANGED <<pinVars, users, line>>
    BY <1>5 DEF SelectState
  <2> QED
    BY <1>2, <1>u, <2>1
<1> QED
  BY <1>3, <1>4, <1>5

(* A setting that is complete is active on all of its pins.                *)
LEMMA SteadyWhole ==
  ASSUME NEW d \in Devs, NEW o, NEW c, OpOK(d, o, c), Steady(o), NEW x \in SettingIds,
         NEW p \in Pins, Uses(d, o, c, p, x)
  PROVE  p \in PinsOf(x) /\ \A q \in PinsOf(x) : Uses(d, o, c, q, x)
<1>0. None \notin SettingIds
  BY PinctrlAssumption DEF PinctrlAssumption
<1>1. \A k, q : ~Left(o, k, q)
  BY DEF Left, Steady, Idle
<1>2. PICK k \in 1..Count(d, At(o, c)) :
        x = <<d, At(o, c), k>> /\ p \in Settings[d][At(o, c)][k] /\ Full(o, k)
  BY <1>0, <1>1 DEF Uses
<1>3. PinsOf(x) = Settings[d][At(o, c)][k]
  BY <1>2 DEF PinsOf
<1> QED
  BY <1>2, <1>3 DEF Uses

(* GPIO users.                                                             *)
LEMMA GpioKeeps ==
  ASSUME Rules, NEW p \in Pins, GpioRequest(p) \/ GpioEnable(p) \/ GpioFree(p)
  PROVE  Kept
<1>r. PinInv /\ OpInv /\ HoldsInv /\ PadInv
  BY DEF Rules
<1>1. UNCHANGED <<usecount, muxOwner, muxSetting, users, cur, op>>
  BY DEF GpioRequest, GpioEnable, GpioFree
<1>2. OpInv' /\ HoldsInv'
  BY <1>r, <1>1 DEF OpInv, HoldsInv
<1>t. line \in [Pins -> {"free", "granted", "on"}]
  BY <1>r DEF PinInv, PinTypes
<1>3. ASSUME GpioRequest(p) \/ GpioFree(p) PROVE PadInv'
  <2>1. pad' = pad /\ \A q \in Pins : line'[q] = "on" => line[q] = "on"
    BY <1>3, <1>t DEF GpioRequest, GpioFree
  <2> QED
    BY <1>r, <1>1, <2>1 DEF PadInv
<1>4. ASSUME GpioEnable(p) PROVE PadInv'
  <2>1. /\ line[p] = "granted" /\ line' = [line EXCEPT ![p] = "on"]
        /\ pad' = [pad EXCEPT ![PadOf[p]] = Gpio]
    BY <1>4 DEF GpioEnable
  <2>2. pad \in [Pads -> SettingIds \cup {Gpio, None}] /\ \A q \in Pins : PadOf[q] \in Pads
    BY <1>r DEF PadInv, Pads
  <2>3. /\ pad' \in [Pads -> SettingIds \cup {Gpio, None}]
        /\ \A q \in Pins : pad'[PadOf[q]] = IF PadOf[q] = PadOf[p] THEN Gpio ELSE pad[PadOf[q]]
    BY <2>1, <2>2
  <2>4. \A q \in Pins : line'[q] = "on" => pad'[PadOf[q]] = Gpio
    BY <1>r, <1>t, <2>1, <2>3 DEF PadInv
  <2>5. ASSUME NEW d \in Devs, NEW q \in Pins, NEW x \in SettingIds,
               Steady(op[d]), Uses(d, op[d], cur[d], q, x)
        PROVE  pad'[PadOf[q]] = x
    <3>1. q \in PinsOf(x) /\ \A u \in PinsOf(x) : Uses(d, op[d], cur[d], u, x)
      BY <1>r, <2>5, SteadyWhole DEF OpInv
    <3>2. PadOf[q] = PadOf[p] => p \in PinsOf(x)
      BY <3>1, PinctrlAssumption DEF PinctrlAssumption
    <3>3. p \in PinsOf(x) => muxOwner[p] = d
      BY <1>r, <3>1 DEF HoldsInv
    <3>4. muxOwner[p] = None
      BY <1>r, <2>1 DEF PinInv, PinTypes, PinExclusive, HoldsInv
    <3>5. PadOf[q] # PadOf[p]
      BY <3>2, <3>3, <3>4, NoneIsNoDev
    <3> QED
      BY <1>r, <2>3, <2>5, <3>5 DEF PadInv
  <2> QED
    BY <1>1, <2>3, <2>4, <2>5 DEF PadInv
<1> QED
  BY <1>2, <1>3, <1>4 DEF Kept

LEMMA RulesStep == Rules /\ [Next]_vars => Rules'
<1> SUFFICES ASSUME Rules, [Next]_vars PROVE Rules'
  OBVIOUS
<1>1. PinInv'
  BY PinInvStep DEF Rules
<1>2. Kept
  <2>1. ASSUME AddGpioRange \/ UNCHANGED vars PROVE Kept
    <3>1. UNCHANGED <<usecount, muxOwner, muxSetting, pad, users, cur, op, line>>
      BY <2>1 DEF AddGpioRange, vars, pinVars
    <3> QED
      BY <3>1 DEF Rules, Kept, OpInv, HoldsInv, PadInv
  <2> QED
    BY <2>1, StepKeeps, HandleKeeps, GpioKeeps DEF Next
<1> QED
  BY <1>1, <1>2 DEF Rules, Kept

(* What a device holds between two operations: exactly the pins of its     *)
(* state, and their pads are switched to it.                               *)
LEMMA RulesSettle == Rules => PadsSettled
<1> SUFFICES ASSUME Rules PROVE PadsSettled
  OBVIOUS
<1>r. PinInv /\ OpInv /\ HoldsInv /\ PadInv
  BY DEF Rules
<1>t. /\ muxOwner \in [Pins -> Devs \cup {None}] /\ muxSetting \in [Pins -> SettingIds \cup {None}]
      /\ cur \in [Devs -> States \cup {None}] /\ None \notin Devs /\ None \notin SettingIds
  BY <1>r, PinctrlAssumption DEF PinInv, PinTypes, HoldsInv, OpInv, PinctrlAssumption
<1>1. ASSUME NEW d \in Devs, op[d] = Idle
      PROVE  /\ users[d] = 0 => cur[d] = None
             /\ \A p \in Pins :
                IF muxOwner[p] = d
                THEN usecount[p] = 1 /\ muxSetting[p] \in SettingIds
                       /\ muxSetting[p][1] = d /\ muxSetting[p][2] = cur[d] /\ p \in PinsOf(muxSetting[p])
                ELSE cur[d] # None => \A k \in 1..Len(Settings[d][cur[d]]) : p \notin Settings[d][cur[d]][k]
  <2>1. users[d] = 0 => cur[d] = None
    BY <1>r, <1>1 DEF OpInv
  <2>2. ASSUME cur[d] = None, NEW p, NEW x PROVE ~Uses(d, op[d], cur[d], p, x)
    BY <1>1, <2>2, UsesStart
  <2>3. ASSUME cur[d] # None, NEW p, NEW x
        PROVE  Uses(d, op[d], cur[d], p, x) <=>
                 \E j \in 1..Len(Settings[d][cur[d]]) :
                    x = <<d, cur[d], j>> /\ p \in Settings[d][cur[d]][j]
    <3>1. cur[d] \in States
      BY <1>t, <2>3
    <3> QED
      BY <1>1, <3>1, UsesIdle
  <2>4. ASSUME NEW p \in Pins, muxOwner[p] = d
        PROVE  usecount[p] = 1 /\ muxSetting[p] \in SettingIds
                 /\ muxSetting[p][1] = d /\ muxSetting[p][2] = cur[d] /\ p \in PinsOf(muxSetting[p])
    <3>1. Uses(d, op[d], cur[d], p, muxSetting[p]) /\ usecount[p] = 1
      BY <1>r, <1>t, <2>4 DEF HoldsInv
    <3>2. cur[d] \in States
      BY <1>t, <2>2, <3>1
    <3>3. PICK j \in 1..Len(Settings[d][cur[d]]) :
            muxSetting[p] = <<d, cur[d], j>> /\ p \in Settings[d][cur[d]][j]
      BY <1>t, <2>3, <3>1, <2>2
    <3>4. <<d, cur[d], j>> \in SettingIds
      BY <3>2, SettingFacts
    <3> QED
      BY <3>1, <3>3, <3>4 DEF PinsOf
  <2>5. ASSUME NEW p \in Pins, muxOwner[p] # d, cur[d] # None, NEW k \in 1..Len(Settings[d][cur[d]]),
               p \in Settings[d][cur[d]][k]
        PROVE  FALSE
    <3>1. Uses(d, op[d], cur[d], p, <<d, cur[d], k>>)
      BY <2>3, <2>5
    <3>2. <<d, cur[d], k>> \in SettingIds
      BY <1>t, <2>5, SettingFacts
    <3> QED
      BY <1>r, <2>5, <3>1, <3>2 DEF HoldsInv
  <2> QED
    BY <2>1, <2>4, <2>5
<1>2. ASSUME NEW p \in Pins, muxSetting[p] # None, op[muxOwner[p]] = Idle
      PROVE  pad[PadOf[p]] = muxSetting[p]
  <2>1. muxOwner[p] \in Devs /\ muxSetting[p] \in SettingIds
    BY <1>r, <1>t, <1>2 DEF HoldsInv
  <2>2. Uses(muxOwner[p], op[muxOwner[p]], cur[muxOwner[p]], p, muxSetting[p])
    BY <1>r, <2>1 DEF HoldsInv
  <2> QED
    BY <1>r, <1>2, <2>1, <2>2 DEF PadInv, Steady
<1>3. SettledHoldsState
  BY <1>1 DEF SettledHoldsState
<1>4. PadServesOwner
  BY <1>r, <1>2 DEF PadServesOwner, PadInv
<1> QED
  BY <1>3, <1>4 DEF PadsSettled

(* Whatever selects, failures, returns to the old state and GPIO requests  *)
(* interleave, a device whose select has returned owns exactly the pins of *)
(* its state (pinctrl_commit_state, pinctrl_free) and the pads of its pins *)
(* and of the GPIOs in use are switched to their owner (rts_pmx_enable,    *)
(* rts_gpio_enable).                                                       *)
THEOREM PadsSettledCorrect == Spec => []PadsSettled
<1>1. Init => Rules
  <2> SUFFICES ASSUME Init PROVE Rules
    OBVIOUS
  <2>0. None \notin Devs /\ None \notin SettingIds /\ MaxUsers \in Nat \ {0}
    BY PinctrlAssumption DEF PinctrlAssumption
  <2>1. PinInv
    BY DEF Init, PinInv, PinTypes, PinExclusive
  <2>2. ASSUME NEW d \in Devs
        PROVE  OpOK(d, op[d], cur[d]) /\ \A p, x : ~Uses(d, op[d], cur[d], p, x)
    <3>1. op[d] = Idle /\ cur[d] = None
      BY DEF Init
    <3> QED
      BY <3>1, UsesStart
  <2>3. OpInv
    BY <2>0, <2>2 DEF Init, OpInv
  <2>4. HoldsInv
    BY <2>0, <2>2 DEF Init, HoldsInv
  <2>5. PadInv
    BY <2>2 DEF Init, PadInv
  <2> QED
    BY <2>1, <2>3, <2>4, <2>5 DEF Rules
<1> QED
  BY <1>1, RulesStep, RulesSettle, PTL DEF Spec

-----------------------------------------------------------------------------
(* RtsGpioIrq: the types as the steps keep them. *)
Word == SUBSET (0..31)
Words == [DOMAIN Banks -> Word]
Drivers == [at : {"off", "on", "failed", "gone"}, irq : BOOLEAN, chip : BOOLEAN, pctl : BOOLEAN,
            ranges : BOOLEAN]
Handlers == [at : {"idle", "read", "ack", "run"}, i : Nat, v1 : Word, v2 : Word]
Copies == [at : {"idle", "rmw"}, g : Nat, bits : Word]
BankTypes ==
  /\ drv \in Drivers /\ type \in [IrqLines -> Types]
  /\ en \in Words /\ pend \in Words /\ val \in Words /\ shadow \in Words
  /\ oe \subseteq OutLines /\ level \subseteq Lines
  /\ want \subseteq IrqLines /\ due \subseteq want /\ late \subseteq IrqLines
  /\ isr \in Handlers /\ (isr.at # "idle" => isr.i \in DOMAIN Banks)
  /\ cpu \in Copies /\ asked \in [OutLines -> {0, 1}] /\ oops \in BOOLEAN

(* Between the read and the acknowledge of a bank the copy of its enable   *)
(* register has the bits of every enabled line: no edge of theirs that is  *)
(* acknowledged is then masked out.                                        *)
CopyArmed ==
  isr.at = "ack" =>
    \A g \in want : Undisturbed(g) /\ rts_get_pinaddr(g) = isr.i => Armed(g) \subseteq isr.v1
EdgeInv == EdgesKept /\ StaysArmed /\ CopyArmed

(* The bits that the driver takes for the outputs of a bank are those that *)
(* were asked for, but for the line being written; so are those of the     *)
(* other lines in the copy that is about to be written back.               *)
Shows(bits, g) == bf(g) \in bits <=> asked[g] = 1
Written(g) == cpu.at = "rmw" /\ cpu.g = g
ValueInv ==
  /\ \A g \in oe : Written(g) \/ Shows(ReadBits(rts_get_pinaddr(g)), g)
  /\ cpu.at = "rmw" =>
       /\ cpu.g \in oe
       /\ \A h \in oe : rts_get_pinaddr(h) = rts_get_pinaddr(cpu.g) => h = cpu.g \/ Shows(cpu.bits, h)
BankInv == BankTypes /\ EdgeInv /\ ValueInv

(* A line that an interrupt handler drives has its bank for itself. *)
HandlersApart ==
  \A g \in IrqLines : Toggles[g] # NoLine =>
    \A h \in OutLines \ {Toggles[g]} : rts_get_pinaddr(h) # rts_get_pinaddr(Toggles[g])

(* The place of a line in its bank and its two bits (rts_get_pinaddr). *)
LEMMA BankOf ==
  ASSUME NEW g \in Lines
  PROVE  /\ g \in Nat /\ rts_get_pinaddr(g) \in DOMAIN Banks
         /\ Banks[rts_get_pinaddr(g)].lo <= g /\ g <= Banks[rts_get_pinaddr(g)].hi
<1>1. \E b \in DOMAIN Banks : Banks[b].lo <= g /\ g <= Banks[b].hi
  BY BanksAssumption DEF BanksAssumption, Lines
<1>2. /\ rts_get_pinaddr(g) \in DOMAIN Banks
      /\ Banks[rts_get_pinaddr(g)].lo <= g /\ g <= Banks[rts_get_pinaddr(g)].hi
  BY <1>1, Zenon DEF rts_get_pinaddr
<1> QED
  BY <1>2, LinesAssumption DEF LinesAssumption, Lines

LEMMA BankSize ==
  ASSUME NEW b \in DOMAIN Banks
  PROVE  /\ Banks[b].lo \in Nat /\ Banks[b].hi \in Nat /\ Banks[b].lo <= Banks[b].hi
         /\ bs(b) \in {4, 8, 16} /\ Banks[b].hi - Banks[b].lo < bs(b)
<1> DEFINE Entry == [lo : Nat, hi : Nat, shadow : BOOLEAN]
<1>0. Banks \in Seq(Entry)
  BY BanksAssumption DEF BanksAssumption
<1> HIDE DEF Entry
<1>a. Banks[b] \in Entry
  BY <1>0
<1>1. Banks[b].lo \in Nat /\ Banks[b].hi \in Nat
  BY <1>a DEF Entry
<1>2. Banks[b].lo <= Banks[b].hi /\ Banks[b].hi <= Banks[b].lo + 15
  BY BanksAssumption DEF BanksAssumption
<1> QED
  BY <1>1, <1>2 DEF bs

LEMMA BitsOf ==
  ASSUME NEW g \in Lines
  PROVE  /\ bf(g) \in 0..31 /\ Fall(g) \in Mask(rts_get_pinaddr(g)) /\ Rise(g) \in Mask(rts_get_pinaddr(g))
         /\ LineOf(rts_get_pinaddr(g), Fall(g)) = g /\ LineOf(rts_get_pinaddr(g), Rise(g)) = g
         /\ Fall(g) \in 0..31 /\ Rise(g) \in 0..31
<1> DEFINE b == rts_get_pinaddr(g)
<1>1. g \in Nat /\ b \in DOMAIN Banks /\ Banks[b].lo <= g /\ g <= Banks[b].hi
  BY BankOf
<1>2. /\ Banks[b].lo \in Nat /\ Banks[b].hi \in Nat
      /\ bs(b) \in {4, 8, 16} /\ Banks[b].hi - Banks[b].lo < bs(b)
  BY <1>1, BankSize
<1>3. Fall(g) = g - Banks[b].lo /\ Rise(g) = g - Banks[b].lo + bs(b) /\ bf(g) = g - Banks[b].lo
  BY DEF bf, Fall, Rise
<1> HIDE DEF b
<1>4. g - Banks[b].lo \in Mask(b) /\ g - Banks[b].lo + bs(b) \in Mask(b)
  BY <1>1, <1>2 DEF Mask
<1>5. LineOf(b, g - Banks[b].lo) = g /\ LineOf(b, g - Banks[b].lo + bs(b)) = g
  BY <1>1, <1>2 DEF LineOf
<1>6. g - Banks[b].lo \in 0..31 /\ g - Banks[b].lo + bs(b) \in 0..31
  BY <1>1, <1>2
<1> QED
  BY <1>3, <1>4, <1>5, <1>6 DEF b

(* Two lines of a bank have different bits. *)
LEMMA BitsApart ==
  ASSUME NEW g \in Lines, NEW h \in Lines, rts_get_pinaddr(g) = rts_get_pinaddr(h), bf(g) = bf(h)
  PROVE  g = h
<1>1. bf(g) = g - Banks[rts_get_pinaddr(g)].lo /\ bf(h) = h - Banks[rts_get_pinaddr(g)].lo
  BY DEF bf
<1>2. g \in Nat /\ h \in Nat /\ rts_get_pinaddr(g) \in DOMAIN Banks
  BY BankOf
<1>3. PICK n \in Nat : n = Banks[rts_get_pinaddr(g)].lo
  BY <1>2, BankSize
<1>4. g - n = h - n
  BY <1>1, <1>3
<1> QED
  BY <1>2, <1>4

(* The bits of a line are two bits of its bank. *)
LEMMA ArmedBits ==
  ASSUME NEW g \in IrqLines
  PROVE  /\ Armed(g) \subseteq {Fall(g), Rise(g)} /\ Armed(g) \subseteq 0..31
         /\ Armed(g) \subseteq Mask(rts_get_pinaddr(g))
         /\ \A x \in Armed(g) : LineOf(rts_get_pinaddr(g), x) = g
<1>1. Armed(g) \subseteq {Fall(g), Rise(g)}
  BY DEF Armed
<1>2. g \in Lines
  BY DEF Lines
<1> QED
  BY <1>1, <1>2, BitsOf

(* Every line of the first bank is undisturbed: there the number of a line *)
(* is the number of its bit (rts_gpio_irq_disable).                        *)
LEMMA FirstBank ==
  ASSUME NEW g \in IrqLines, Banks[rts_get_pinaddr(g)].lo = 0
  PROVE  Undisturbed(g)
<1> SUFFICES ASSUME NEW h \in IrqLines \ {g}, rts_get_pinaddr(h) = rts_get_pinaddr(g)
             PROVE  {h % 32, (h + bs(rts_get_pinaddr(g))) % 32} \cap {Fall(g), Rise(g)} = {}
  BY DEF Undisturbed
<1> DEFINE b == rts_get_pinaddr(g)
<1>1. g \in Nat /\ b \in DOMAIN Banks /\ g <= Banks[b].hi
  BY BankOf DEF Lines
<1>2. h \in Nat /\ h <= Banks[b].hi
  BY BankOf DEF Lines
<1>3. Banks[b].hi \in Nat /\ bs(b) \in {4, 8, 16} /\ Banks[b].hi < bs(b)
  BY <1>1, BankSize
<1>4. Fall(g) = g /\ Rise(g) = g + bs(b)
  BY <1>1 DEF Fall, Rise, bf
<1>5. h % 32 = h /\ (h + bs(b)) % 32 = h + bs(b)
  BY <1>2, <1>3
<1> QED
  BY <1>1, <1>2, <1>3, <1>4, <1>5

-----------------------------------------------------------------------------
(* The interrupts. *)

(* What is armed for a line is decided by its type. *)
LEMMA ArmedSame ==
  ASSUME NEW g \in IrqLines, type'[g] = type[g]
  PROVE  Armed(g)' = Armed(g)
BY DEF Armed

LEMMA EdgeIdle ==
  ASSUME BankTypes, EdgeInv, UNCHANGED <<type, en, pend, want, due, isr>>
  PROVE  EdgeInv'
<1>1. \A g \in IrqLines : Armed(g)' = Armed(g)
  BY ArmedSame
<1>2. want \subseteq IrqLines /\ due \subseteq want
  BY DEF BankTypes
<1> QED
  BY <1>1, <1>2 DEF EdgeInv, EdgesKept, StaysArmed, CopyArmed

(* rts_gpio_irq_set_type is for a line that is not enabled. *)
LEMMA EdgeSetType ==
  ASSUME BankTypes, EdgeInv, NEW g \in IrqLines, rts_gpio_irq_set_type(g)
  PROVE  EdgeInv'
<1>1. want \subseteq IrqLines /\ due \subseteq want
  BY DEF BankTypes
<1>2. \A h \in want : type'[h] = type[h]
  BY <1>1 DEF rts_gpio_irq_set_type, BankTypes
<1>3. \A h \in want : Armed(h)' = Armed(h)
  BY <1>1, <1>2, ArmedSame
<1>4. UNCHANGED <<en, pend, want, due, isr>>
  BY DEF rts_gpio_irq_set_type
<1> QED
  BY <1>1, <1>3, <1>4 DEF EdgeInv, EdgesKept, StaysArmed, CopyArmed

(* rts_gpio_irq_enable adds the bits of a line. *)
LEMMA EdgeEnable ==
  ASSUME BankTypes, EdgeInv, NEW g \in IrqLines, rts_gpio_irq_enable(g)
  PROVE  EdgeInv'
<1>1. want \subseteq IrqLines /\ due \subseteq want /\ en \in Words
  BY DEF BankTypes
<1>2. UNCHANGED <<type, pend, due, isr>> /\ isr.at = "idle" /\ want' = want \cup {g}
  BY DEF rts_gpio_irq_enable, Process
<1>3. \A h \in IrqLines : Armed(h)' = Armed(h)
  BY <1>2, ArmedSame
<1>4. rts_get_pinaddr(g) \in DOMAIN Banks
  BY BankOf DEF Lines
<1>5. /\ \A b \in DOMAIN Banks : en[b] \subseteq en'[b]
      /\ Armed(g) \subseteq en'[rts_get_pinaddr(g)]
  BY <1>1, <1>4 DEF rts_gpio_irq_enable, Words
<1>6. \A h \in IrqLines : rts_get_pinaddr(h) \in DOMAIN Banks
  BY BankOf DEF Lines
<1>7. StaysArmed'
  BY <1>1, <1>2, <1>3, <1>5, <1>6 DEF EdgeInv, StaysArmed
<1>8. EdgesKept'
  BY <1>1, <1>2, <1>3 DEF EdgeInv, EdgesKept
<1>9. CopyArmed'
  BY <1>2 DEF CopyArmed
<1> QED
  BY <1>7, <1>8, <1>9 DEF EdgeInv

(* What rts_gpio_irq_disable clears: two bits that are not those of an     *)
(* undisturbed line, whatever the shift does.                              *)
LEMMA ClearsOther ==
  ASSUME NEW g \in IrqLines, NEW h \in IrqLines, h # g, Undisturbed(h),
         rts_get_pinaddr(g) = rts_get_pinaddr(h),
         NEW c \in rts_clr_reg_bit(g) \cup rts_clr_reg_bit(g + bs(rts_get_pinaddr(g)))
  PROVE  c \cap Armed(h) = {}
<1> DEFINE b == rts_get_pinaddr(g)
<1>1. g \in Nat /\ b \in DOMAIN Banks
  BY BankOf DEF Lines
<1>2. bs(b) \in Nat
  BY <1>1, BankSize
<1>3. \A n \in Nat : n < 32 => n % 32 = n
  OBVIOUS
<1>4. \A n \in Nat : \A d \in rts_clr_reg_bit(n) : d \subseteq {n % 32}
  BY <1>3 DEF rts_clr_reg_bit
<1>5. c \subseteq {g % 32, (g + bs(b)) % 32}
  BY <1>1, <1>2, <1>4
<1>6. {g % 32, (g + bs(b)) % 32} \cap {Fall(h), Rise(h)} = {}
  BY DEF Undisturbed
<1>7. Armed(h) \subseteq {Fall(h), Rise(h)}
  BY ArmedBits
<1> QED
  BY <1>5, <1>6, <1>7

LEMMA EdgeDisable ==
  ASSUME BankTypes, EdgeInv, NEW g \in IrqLines, rts_gpio_irq_disable(g)
  PROVE  EdgeInv'
<1> DEFINE b == rts_get_pinaddr(g)
<1>1. want \subseteq IrqLines /\ due \subseteq want /\ en \in Words
  BY DEF BankTypes
<1>2. UNCHANGED <<type, pend, isr>> /\ isr.at = "idle" /\ want' = want \ {g} /\ due' = due \ {g}
  BY DEF rts_gpio_irq_disable, Process
<1>3. \A h \in IrqLines : Armed(h)' = Armed(h)
  BY <1>2, ArmedSame
<1>4. PICK c1 \in rts_clr_reg_bit(g), c2 \in rts_clr_reg_bit(g + bs(b)) :
        en' = [en EXCEPT ![b] = (@ \ c1) \ c2]
  BY DEF rts_gpio_irq_disable
<1>5. b \in DOMAIN Banks /\ \A h \in IrqLines : rts_get_pinaddr(h) \in DOMAIN Banks
  BY BankOf DEF Lines
<1>6. ASSUME NEW h \in want', Undisturbed(h)
      PROVE  Armed(h) \subseteq en'[rts_get_pinaddr(h)]
  <2>1. h \in want /\ h \in IrqLines /\ h # g /\ Armed(h) \subseteq en[rts_get_pinaddr(h)]
    BY <1>1, <1>2, <1>6 DEF EdgeInv, StaysArmed
  <2>2. CASE rts_get_pinaddr(h) = b
    <3>1. c1 \cap Armed(h) = {} /\ c2 \cap Armed(h) = {}
      BY <1>6, <2>1, <2>2, ClearsOther
    <3>2. en'[b] = (en[b] \ c1) \ c2
      BY <1>1, <1>4, <1>5 DEF Words
    <3> QED
      BY <2>1, <2>2, <3>1, <3>2
  <2>3. CASE rts_get_pinaddr(h) # b
    BY <1>1, <1>4, <1>5, <2>1, <2>3 DEF Words
  <2> QED
    BY <2>2, <2>3
<1>7. StaysArmed'
  BY <1>1, <1>2, <1>3, <1>6 DEF StaysArmed
<1>8. EdgesKept'
  BY <1>1, <1>2, <1>3 DEF EdgeInv, EdgesKept
<1>9. CopyArmed'
  BY <1>2 DEF CopyArmed
<1> QED
  BY <1>7, <1>8, <1>9 DEF EdgeInv

(* An edge latches its bit; none that was latched is lost. *)
LEMMA EdgeEdge ==
  ASSUME BankTypes, EdgeInv, NEW g \in IrqLines, Edge(g)
  PROVE  EdgeInv'
<1> DEFINE b == rts_get_pinaddr(g)
           bit == IF g \in level THEN Fall(g) ELSE Rise(g)
<1>1. want \subseteq IrqLines /\ due \subseteq want /\ pend \in Words
  BY DEF BankTypes
<1>2. UNCHANGED <<type, en, want, isr>>
  BY DEF Edge
<1>3. \A h \in IrqLines : Armed(h)' = Armed(h)
  BY <1>2, ArmedSame
<1>4. b \in DOMAIN Banks /\ \A h \in IrqLines : rts_get_pinaddr(h) \in DOMAIN Banks
  BY BankOf DEF Lines
<1>5. pend' = [pend EXCEPT ![b] = @ \cup {bit}]
  BY DEF Edge
<1>6. due' = IF g \in want /\ bit \in Armed(g) THEN due \cup {g} ELSE due
  BY DEF Edge
<1> HIDE DEF bit
<1>7. bit \in pend'[b] /\ \A c \in DOMAIN Banks : pend[c] \subseteq pend'[c]
  BY <1>1, <1>4, <1>5 DEF Words
<1>8. EdgesKept'
  <2> SUFFICES ASSUME NEW h \in due', Undisturbed(h)
               PROVE  \/ pend'[rts_get_pinaddr(h)] \cap Armed(h) # {}
                      \/ isr.at \in {"ack", "run"} /\ isr.i = rts_get_pinaddr(h) /\ isr.v2 \cap Armed(h) # {}
    BY <1>1, <1>2, <1>3, <1>6 DEF EdgesKept
  <2>1. CASE h \in due
    BY <1>1, <1>4, <1>7, <2>1 DEF EdgeInv, EdgesKept
  <2>2. CASE h \notin due
    <3>1. h = g /\ bit \in Armed(g)
      BY <1>6, <2>2
    <3> QED
      BY <1>7, <3>1
  <2> QED
    BY <2>1, <2>2
<1>9. StaysArmed' /\ CopyArmed'
  BY <1>1, <1>2, <1>3 DEF EdgeInv, StaysArmed, CopyArmed
<1> QED
  BY <1>8, <1>9 DEF EdgeInv

(* rts_irq_handler is entered at the first bank. *)
LEMMA EdgeInterrupt ==
  ASSUME BankTypes, EdgeInv, Interrupt
  PROVE  EdgeInv'
<1>1. UNCHANGED <<type, en, pend, want, due>>
  BY DEF Interrupt
<1>2. isr' = isr \/ (isr.at = "idle" /\ isr'.at = "read")
  BY DEF Interrupt, Quiet
<1>3. want \subseteq IrqLines /\ due \subseteq want
  BY DEF BankTypes
<1>4. \A h \in IrqLines : Armed(h)' = Armed(h)
  BY <1>1, ArmedSame
<1> QED
  BY <1>1, <1>2, <1>3, <1>4 DEF EdgeInv, EdgesKept, StaysArmed, CopyArmed

(* The copy of the enable register is taken while the lines are armed. *)
LEMMA EdgeRead ==
  ASSUME BankTypes, EdgeInv, ReadBank
  PROVE  EdgeInv'
<1>1. UNCHANGED <<type, en, pend, want, due>> /\ isr.at = "read"
  BY DEF ReadBank
<1>2. isr'.at = "ack" /\ isr'.i = isr.i /\ isr'.v1 = en[isr.i] \cap Mask(isr.i)
  BY DEF ReadBank, BankTypes, Handlers
<1>3. want \subseteq IrqLines /\ due \subseteq want
  BY DEF BankTypes
<1>4. \A h \in IrqLines : Armed(h)' = Armed(h) /\ Armed(h) \subseteq Mask(rts_get_pinaddr(h))
  BY <1>1, ArmedSame, ArmedBits
<1>5. EdgesKept'
  BY <1>1, <1>3, <1>4 DEF EdgeInv, EdgesKept
<1>6. StaysArmed' /\ CopyArmed'
  BY <1>1, <1>2, <1>3, <1>4 DEF EdgeInv, StaysArmed, CopyArmed
<1> QED
  BY <1>5, <1>6 DEF EdgeInv

(* What is acknowledged was read, and is in the copy that is handed on. *)
LEMMA EdgeAck ==
  ASSUME BankTypes, EdgeInv, AckBank
  PROVE  EdgeInv'
<1>1. UNCHANGED <<type, en, want, due>> /\ isr.at = "ack" /\ isr.i \in DOMAIN Banks
  BY DEF AckBank, BankTypes
<1>2. isr'.at = "run" /\ isr'.i = isr.i /\ isr'.v2 = isr.v2 \cap isr.v1
  BY DEF AckBank, BankTypes, Handlers
<1>3. want \subseteq IrqLines /\ due \subseteq want /\ pend \in Words
  BY DEF BankTypes
<1>4. \A h \in IrqLines : Armed(h)' = Armed(h)
  BY <1>1, ArmedSame
<1>5. \A h \in IrqLines : rts_get_pinaddr(h) \in DOMAIN Banks
  BY BankOf DEF Lines
<1>6. \A c \in DOMAIN Banks : pend'[c] = IF c = isr.i THEN pend[c] \ isr.v2 ELSE pend[c]
  BY <1>1, <1>3 DEF AckBank, Words
<1>7. EdgesKept'
  <2> SUFFICES ASSUME NEW h \in due, Undisturbed(h)
               PROVE  \/ pend'[rts_get_pinaddr(h)] \cap Armed(h) # {}
                      \/ isr.i = rts_get_pinaddr(h) /\ isr'.v2 \cap Armed(h) # {}
    BY <1>1, <1>2, <1>3, <1>4 DEF EdgesKept
  <2>1. \/ pend[rts_get_pinaddr(h)] \cap Armed(h) # {}
        \/ isr.i = rts_get_pinaddr(h) /\ isr.v2 \cap Armed(h) # {}
    BY DEF EdgeInv, EdgesKept
  <2>2. CASE isr.i = rts_get_pinaddr(h)
    <3>1. Armed(h) \subseteq isr.v1
      BY <1>1, <1>3, <2>2 DEF EdgeInv, CopyArmed
    <3> QED
      BY <1>1, <1>2, <1>6, <2>1, <2>2, <3>1
  <2>3. CASE isr.i # rts_get_pinaddr(h)
    BY <1>3, <1>5, <1>6, <2>1, <2>3
  <2> QED
    BY <2>2, <2>3
<1>8. StaysArmed' /\ CopyArmed'
  BY <1>1, <1>2, <1>3, <1>4 DEF EdgeInv, StaysArmed, CopyArmed
<1> QED
  BY <1>7, <1>8 DEF EdgeInv

(* A bit that is handed on is that of the line whose handler runs. *)
LEMMA EdgeDispatch ==
  ASSUME BankTypes, EdgeInv, Dispatch
  PROVE  EdgeInv'
<1> DEFINE bit == Least(isr.v2)
<1>1. UNCHANGED <<type, en, pend, want>> /\ isr.at = "run"
  BY DEF Dispatch
<1>2. due' = due \ {LineOf(isr.i, bit)}
  BY DEF Dispatch
<1> HIDE DEF bit
<1>3. isr'.at = "run" /\ isr'.i = isr.i /\ isr'.v2 = isr.v2 \ {bit}
  BY DEF Dispatch, BankTypes, Handlers, bit
<1>4. want \subseteq IrqLines /\ due \subseteq want
  BY DEF BankTypes
<1>5. \A h \in IrqLines : Armed(h)' = Armed(h)
  BY <1>1, ArmedSame
<1>6. EdgesKept'
  <2> SUFFICES ASSUME NEW h \in due, h # LineOf(isr.i, bit), Undisturbed(h)
               PROVE  \/ pend[rts_get_pinaddr(h)] \cap Armed(h) # {}
                      \/ isr.i = rts_get_pinaddr(h) /\ isr'.v2 \cap Armed(h) # {}
    BY <1>1, <1>2, <1>3, <1>4, <1>5 DEF EdgesKept
  <2>1. \/ pend[rts_get_pinaddr(h)] \cap Armed(h) # {}
        \/ isr.i = rts_get_pinaddr(h) /\ isr.v2 \cap Armed(h) # {}
    BY DEF EdgeInv, EdgesKept
  <2>2. \A x \in Armed(h) : LineOf(rts_get_pinaddr(h), x) = h
    BY <1>4, ArmedBits
  <2> QED
    BY <1>3, <2>1, <2>2
<1>7. StaysArmed' /\ CopyArmed'
  BY <1>1, <1>3, <1>4, <1>5 DEF EdgeInv, StaysArmed, CopyArmed
<1> QED
  BY <1>6, <1>7 DEF EdgeInv

(* A bank is left when its copy is empty. *)
LEMMA EdgeNextBank ==
  ASSUME BankTypes, EdgeInv, NextBank
  PROVE  EdgeInv'
<1>1. UNCHANGED <<type, en, pend, want, due>> /\ isr.v2 = {}
  BY DEF NextBank
<1>2. isr'.at \in {"read", "idle"}
  BY DEF NextBank, Quiet
<1>3. want \subseteq IrqLines /\ due \subseteq want
  BY DEF BankTypes
<1>4. \A h \in IrqLines : Armed(h)' = Armed(h)
  BY <1>1, ArmedSame
<1> QED
  BY <1>1, <1>2, <1>3, <1>4 DEF EdgeInv, EdgesKept, StaysArmed, CopyArmed

-----------------------------------------------------------------------------
(* The values. *)

LEMMA ValueIdle ==
  ASSUME ValueInv, UNCHANGED <<oe, val, shadow, cpu, asked>>
  PROVE  ValueInv'
BY DEF ValueInv, Written, Shows, ReadBits, ReadBack

(* Put changes the bit of one line. *)
LEMMA PutBits ==
  ASSUME NEW g \in Lines, NEW bits \in Word, NEW v \in {0, 1}
  PROVE  /\ Put(bits, g, v) \in Word
         /\ bf(g) \in Put(bits, g, v) <=> v = 1
         /\ \A h \in Lines : rts_get_pinaddr(h) = rts_get_pinaddr(g) /\ h # g =>
              (bf(h) \in Put(bits, g, v) <=> bf(h) \in bits)
<1>1. bf(g) \in 0..31
  BY BitsOf
<1>2. \A h \in Lines : rts_get_pinaddr(h) = rts_get_pinaddr(g) /\ h # g => bf(h) # bf(g)
  BY BitsApart
<1> QED
  BY <1>1, <1>2 DEF Put, Word

(* The bits the driver works on, after a bank was written. *)
LEMMA WrittenBits ==
  ASSUME BankTypes, NEW b \in DOMAIN Banks, NEW new \in Word,
         val' = [val EXCEPT ![b] = new],
         shadow' = IF Banks[b].shadow THEN [shadow EXCEPT ![b] = new] ELSE shadow
  PROVE  /\ val' \in Words /\ shadow' \in Words
         /\ ReadBits(b)' = new
         /\ \A c \in DOMAIN Banks : c # b => ReadBits(c)' = ReadBits(c)
<1>1. val \in Words /\ shadow \in Words
  BY DEF BankTypes
<1> QED
  BY <1>1 DEF Words, ReadBits, ReadBack

LEMMA ReadIsWord ==
  ASSUME BankTypes, NEW b \in DOMAIN Banks
  PROVE  ReadBits(b) \in Word
BY DEF BankTypes, Words, ReadBits, ReadBack

(* rts_gpio_set reads the bits of a bank ... *)
LEMMA ValueSet ==
  ASSUME BankTypes, ValueInv, NEW g \in OutLines, rts_gpio_set(g)
  PROVE  ValueInv'
<1>1. UNCHANGED <<oe, val, shadow>> /\ cpu.at = "idle" /\ g \in oe
  BY DEF rts_gpio_set
<1>2. cpu'.at = "rmw" /\ cpu'.g = g /\ cpu'.bits = ReadBits(rts_get_pinaddr(g))
  BY DEF rts_gpio_set
<1>3. \A h \in OutLines : h # g => asked'[h] = asked[h]
  BY DEF rts_gpio_set, BankTypes
<1>4. \A c : ReadBits(c)' = ReadBits(c)
  BY <1>1 DEF ReadBits, ReadBack
<1>5. oe \subseteq OutLines
  BY DEF BankTypes
<1>6. \A h \in oe : Shows(ReadBits(rts_get_pinaddr(h)), h)
  BY <1>1 DEF ValueInv, Written
<1> QED
  BY <1>1, <1>2, <1>3, <1>4, <1>5, <1>6 DEF ValueInv, Written, Shows

(* ... and writes them back with that of the line changed. *)
LEMMA ValueWrite ==
  ASSUME BankTypes, ValueInv, rts_gpio_set_write
  PROVE  ValueInv' /\ val' \in Words /\ shadow' \in Words
<1>0. PICK g, new : g = cpu.g /\ new = Put(cpu.bits, cpu.g, asked[cpu.g])
  OBVIOUS
<1> DEFINE b == rts_get_pinaddr(g)
<1>1. UNCHANGED <<oe, asked>> /\ cpu.at = "rmw" /\ cpu' = Rest
  BY DEF rts_gpio_set_write
<1>2. g \in oe /\ oe \subseteq OutLines /\ cpu.bits \in Word /\ asked[g] \in {0, 1}
  BY <1>0, <1>1 DEF ValueInv, BankTypes, Copies
<1>3. g \in Lines /\ \A h \in oe : h \in Lines /\ rts_get_pinaddr(h) \in DOMAIN Banks
  BY <1>2, BankOf DEF Lines
<1>4. val' = [val EXCEPT ![b] = new]
  BY <1>0 DEF rts_gpio_set_write
<1>5. shadow' = IF Banks[b].shadow THEN [shadow EXCEPT ![b] = new] ELSE shadow
  BY <1>0 DEF rts_gpio_set_write
<1>6. /\ new \in Word /\ (bf(g) \in new <=> asked[g] = 1)
      /\ \A h \in Lines : rts_get_pinaddr(h) = b /\ h # g => (bf(h) \in new <=> bf(h) \in cpu.bits)
  BY <1>0, <1>2, <1>3, PutBits
<1>7. b \in DOMAIN Banks
  BY <1>2, <1>3
<1> HIDE DEF b
<1>8. /\ val' \in Words /\ shadow' \in Words /\ ReadBits(b)' = new
      /\ \A c \in DOMAIN Banks : c # b => ReadBits(c)' = ReadBits(c)
  BY <1>4, <1>5, <1>6, <1>7, WrittenBits
<1>9. ASSUME NEW h \in oe
      PROVE  bf(h) \in ReadBits(rts_get_pinaddr(h))' <=> asked[h] = 1
  <2>1. CASE h = g
    BY <1>6, <1>8, <2>1 DEF b
  <2>2. CASE h # g /\ rts_get_pinaddr(h) = b
    <3>1. bf(h) \in cpu.bits <=> asked[h] = 1
      BY <1>0, <1>1, <2>2 DEF ValueInv, Shows, b
    <3> QED
      BY <1>3, <1>6, <1>8, <2>2, <3>1
  <2>3. CASE h # g /\ rts_get_pinaddr(h) # b
    <3>1. bf(h) \in ReadBits(rts_get_pinaddr(h)) <=> asked[h] = 1
      BY <1>0, <2>3 DEF ValueInv, Shows, Written
    <3> QED
      BY <1>3, <1>8, <2>3, <3>1
  <2> QED
    BY <2>1, <2>2, <2>3
<1> QED
  BY <1>1, <1>8, <1>9 DEF ValueInv, Shows, Written, Rest

(* A line becomes an output with the value asked for. *)
LEMMA ValueOut ==
  ASSUME BankTypes, ValueInv, NEW g \in OutLines, rts_gpio_direction_output(g)
  PROVE  ValueInv' /\ val' \in Words /\ shadow' \in Words
<1> DEFINE b == rts_get_pinaddr(g)
<1>1. UNCHANGED cpu /\ cpu.at = "idle" /\ oe' = oe \cup {g} /\ oe \subseteq OutLines
  BY DEF rts_gpio_direction_output, BankTypes
<1>2. g \in Lines /\ b \in DOMAIN Banks /\ \A h \in oe : h \in Lines /\ rts_get_pinaddr(h) \in DOMAIN Banks
  BY <1>1, BankOf DEF Lines
<1>3. PICK v \in {0, 1} :
        /\ asked' = [asked EXCEPT ![g] = v]
        /\ val' = [val EXCEPT ![b] = Put(ReadBits(b), g, v)]
        /\ shadow' = IF Banks[b].shadow THEN [shadow EXCEPT ![b] = Put(@, g, v)] ELSE shadow
  BY DEF rts_gpio_direction_output
<1> DEFINE new == Put(ReadBits(b), g, v)
<1>4. shadow' = IF Banks[b].shadow THEN [shadow EXCEPT ![b] = new] ELSE shadow
  BY <1>3 DEF ReadBits
<1>5. ReadBits(b) \in Word
  BY <1>2, ReadIsWord
<1>6. /\ new \in Word /\ (bf(g) \in new <=> v = 1)
      /\ \A h \in Lines : rts_get_pinaddr(h) = b /\ h # g => (bf(h) \in new <=> bf(h) \in ReadBits(b))
  BY <1>2, <1>5, PutBits
<1>7. val' = [val EXCEPT ![b] = new]
  BY <1>3
<1> HIDE DEF new, b
<1>8. /\ val' \in Words /\ shadow' \in Words /\ ReadBits(b)' = new
      /\ \A c \in DOMAIN Banks : c # b => ReadBits(c)' = ReadBits(c)
  BY <1>2, <1>4, <1>6, <1>7, WrittenBits
<1>9. asked'[g] = v /\ \A h \in OutLines : h # g => asked'[h] = asked[h]
  BY <1>3 DEF BankTypes
<1>10. ASSUME NEW h \in oe'
      PROVE  bf(h) \in ReadBits(rts_get_pinaddr(h))' <=> asked'[h] = 1
  <2>1. CASE h = g
    BY <1>6, <1>8, <1>9, <2>1 DEF b
  <2>2. CASE h # g
    <3>1. h \in oe /\ h \in OutLines /\ h \in Lines /\ rts_get_pinaddr(h) \in DOMAIN Banks
      BY <1>1, <1>2, <2>2
    <3>2. bf(h) \in ReadBits(rts_get_pinaddr(h)) <=> asked[h] = 1
      BY <1>1, <3>1 DEF ValueInv, Shows, Written
    <3>3. CASE rts_get_pinaddr(h) = b
      BY <1>6, <1>8, <1>9, <2>2, <3>1, <3>2, <3>3
    <3>4. CASE rts_get_pinaddr(h) # b
      BY <1>8, <1>9, <2>2, <3>1, <3>2, <3>4
    <3> QED
      BY <3>3, <3>4
  <2> QED
    BY <2>1, <2>2
<1> QED
  BY <1>1, <1>8, <1>10 DEF ValueInv, Shows, Written

LEMMA ValueIn ==
  ASSUME ValueInv, NEW g \in OutLines, rts_gpio_direction_input(g)
  PROVE  ValueInv'
<1>1. oe' \subseteq oe /\ UNCHANGED <<val, shadow, cpu, asked>> /\ cpu.at = "idle"
  BY DEF rts_gpio_direction_input
<1> QED
  BY <1>1 DEF ValueInv, Shows, Written, ReadBits, ReadBack

(* The handler of a line drives a line that has its bank for itself: the   *)
(* copy that the interrupted rts_gpio_set writes back stays good.          *)
LEMMA ValueDispatch ==
  ASSUME BankTypes, ValueInv, Dispatch, HandlersApart
  PROVE  ValueInv' /\ val' \in Words /\ shadow' \in Words /\ asked' \in [OutLines -> {0, 1}]
<1>1. UNCHANGED <<oe, cpu>> /\ oe \subseteq OutLines /\ asked \in [OutLines -> {0, 1}]
  BY DEF Dispatch, BankTypes
<1>2. CASE UNCHANGED <<asked, shadow, val>>
  BY <1>1, <1>2, ValueIdle DEF BankTypes
<1>3. CASE ~UNCHANGED <<asked, shadow, val>>
  <2>1. PICK g \in IrqLines : Toggles[g] # NoLine /\ Toggles[g] \in oe
             /\ LET t == Toggles[g]
                    b == rts_get_pinaddr(t)
                    v == 1 - asked[t]
                IN  /\ asked' = [asked EXCEPT ![t] = v]
                    /\ shadow' = IF Banks[b].shadow THEN [shadow EXCEPT ![b] = Put(@, t, v)] ELSE shadow
                    /\ val' = [val EXCEPT ![b] = Put(IF Banks[b].shadow THEN shadow[b] ELSE @, t, v)]
    BY <1>3 DEF Dispatch, BankTypes
  <2>2. PICK t, v : t = Toggles[g] /\ v = 1 - asked[t]
    OBVIOUS
  <2> DEFINE b == rts_get_pinaddr(t)
  <2>3. t \in oe /\ t \in OutLines /\ v \in {0, 1}
    BY <1>1, <2>1, <2>2
  <2>4. t \in Lines /\ b \in DOMAIN Banks /\ \A h \in oe : h \in Lines /\ rts_get_pinaddr(h) \in DOMAIN Banks
    BY <1>1, <2>3, BankOf DEF Lines
  <2>5. \A h \in OutLines : h # t => rts_get_pinaddr(h) # b
    BY <2>1, <2>2 DEF HandlersApart
  <2>6. asked' = [asked EXCEPT ![t] = v]
    BY <2>1, <2>2
  <2>7. val' = [val EXCEPT ![b] = Put(ReadBits(b), t, v)]
    BY <2>1, <2>2 DEF ReadBits, ReadBack
  <2>8. shadow' = IF Banks[b].shadow THEN [shadow EXCEPT ![b] = Put(ReadBits(b), t, v)] ELSE shadow
    BY <2>1, <2>2 DEF ReadBits
  <2>9. ReadBits(b) \in Word
    BY <2>4, ReadIsWord
  <2>10. PICK new : new = Put(ReadBits(b), t, v)
    OBVIOUS
  <2>11. new \in Word /\ (bf(t) \in new <=> v = 1)
    BY <2>3, <2>4, <2>9, <2>10, PutBits
  <2> HIDE DEF b
  <2>12. /\ val' \in Words /\ shadow' \in Words /\ ReadBits(b)' = new
         /\ \A c \in DOMAIN Banks : c # b => ReadBits(c)' = ReadBits(c)
    BY <2>4, <2>7, <2>8, <2>10, <2>11, WrittenBits
  <2>13. asked' \in [OutLines -> {0, 1}] /\ asked'[t] = v /\ \A h \in OutLines : h # t => asked'[h] = asked[h]
    BY <1>1, <2>3, <2>6
  <2>14. ASSUME NEW h \in oe
         PROVE  Written(h) \/ (bf(h) \in ReadBits(rts_get_pinaddr(h))' <=> asked'[h] = 1)
    <3>1. CASE h = t
      BY <2>11, <2>12, <2>13, <3>1 DEF b
    <3>2. CASE h # t
      <4>1. h \in OutLines /\ rts_get_pinaddr(h) # b /\ rts_get_pinaddr(h) \in DOMAIN Banks
        BY <1>1, <2>4, <2>5, <3>2
      <4>2. Written(h) \/ (bf(h) \in ReadBits(rts_get_pinaddr(h)) <=> asked[h] = 1)
        BY DEF ValueInv, Shows
      <4> QED
        BY <2>12, <2>13, <3>2, <4>1, <4>2
    <3> QED
      BY <3>1, <3>2
  <2>15. ASSUME cpu.at = "rmw", NEW h \in oe, rts_get_pinaddr(h) = rts_get_pinaddr(cpu.g), h # cpu.g
         PROVE  bf(h) \in cpu.bits <=> asked'[h] = 1
    <3>1. cpu.g \in oe /\ cpu.g \in OutLines /\ h \in OutLines
      BY <1>1, <2>15 DEF ValueInv
    <3>2. h # t
      BY <2>5, <2>15, <3>1 DEF b
    <3>3. bf(h) \in cpu.bits <=> asked[h] = 1
      BY <2>15 DEF ValueInv, Shows
    <3> QED
      BY <2>13, <3>1, <3>2, <3>3
  <2>16. cpu.at = "rmw" => cpu.g \in oe
    BY DEF ValueInv
  <2> QED
    BY <1>1, <2>12, <2>13, <2>14, <2>15, <2>16 DEF ValueInv, Shows, Written
<1> QED
  BY <1>2, <1>3

-----------------------------------------------------------------------------
(* Every step keeps the types. *)
LEMMA BankTypesStep ==
  ASSUME BankTypes, ValueInv, HandlersApart, BankNext
  PROVE  BankTypes'
<1> DEFINE IrqTypes == type \in [IrqLines -> Types] /\ en \in Words /\ pend \in Words
           RunTypes == isr \in Handlers /\ (isr.at # "idle" => isr.i \in DOMAIN Banks)
           SetTypes == level \subseteq Lines /\ want \subseteq IrqLines /\ due \subseteq want /\ late \subseteq IrqLines
           ValTypes == /\ val \in Words /\ shadow \in Words /\ oe \subseteq OutLines
                       /\ cpu \in Copies /\ asked \in [OutLines -> {0, 1}]
           DrvTypes == drv \in Drivers /\ oops \in BOOLEAN
<1>a. IrqTypes /\ RunTypes /\ SetTypes /\ ValTypes /\ DrvTypes
  BY DEF BankTypes
<1>b. (IrqTypes /\ RunTypes /\ SetTypes /\ ValTypes /\ DrvTypes)' => BankTypes'
  BY DEF BankTypes
<1>c. \A g \in Lines : rts_get_pinaddr(g) \in DOMAIN Banks
  BY BankOf
<1>d. IrqLines \subseteq Lines /\ OutLines \subseteq Lines /\ OutLines \subseteq Nat
  BY LinesAssumption DEF Lines, LinesAssumption
<1>e. \A g \in IrqLines : Armed(g) \subseteq 0..31 /\ Fall(g) \in 0..31 /\ Rise(g) \in 0..31
  BY <1>d, ArmedBits, BitsOf
<1>1. CASE rts_pinctrl_probe \/ rts_pinctrl_remove
  <2>1. UNCHANGED <<type, en, pend, oe, val, shadow, level, want, due, late, isr, cpu, asked>>
    BY <1>1 DEF rts_pinctrl_probe, rts_pinctrl_remove
  <2>2. DrvTypes'
    BY <1>1, <1>a DEF rts_pinctrl_probe, rts_pinctrl_remove, Drivers
  <2> QED
    BY <1>a, <1>b, <2>1, <2>2
<1>2. ASSUME NEW g \in IrqLines, rts_gpio_irq_set_type(g)
      PROVE  BankTypes'
  <2>1. UNCHANGED <<drv, en, pend, oe, val, shadow, level, want, due, late, isr, cpu, asked, oops>>
    BY <1>2 DEF rts_gpio_irq_set_type
  <2>2. AskTypes \subseteq Types
    BY LinesAssumption DEF LinesAssumption, Types
  <2>3. IrqTypes'
    BY <1>2, <1>a, <2>1, <2>2 DEF rts_gpio_irq_set_type
  <2> QED
    BY <1>a, <1>b, <2>1, <2>3
<1>3. ASSUME NEW g \in IrqLines, rts_gpio_irq_enable(g)
      PROVE  BankTypes'
  <2>1. UNCHANGED <<drv, type, pend, oe, val, shadow, level, due, isr, cpu, asked, oops>>
    BY <1>3 DEF rts_gpio_irq_enable
  <2>2. IrqTypes' /\ SetTypes'
    BY <1>3, <1>a, <1>c, <1>d, <1>e, <2>1 DEF rts_gpio_irq_enable, Words, Word
  <2> QED
    BY <1>a, <1>b, <2>1, <2>2
<1>4. ASSUME NEW g \in IrqLines, rts_gpio_irq_disable(g)
      PROVE  BankTypes'
  <2>1. UNCHANGED <<drv, type, pend, oe, val, shadow, level, late, isr, cpu, asked, oops>>
    BY <1>4 DEF rts_gpio_irq_disable
  <2>2. IrqTypes' /\ SetTypes'
    BY <1>4, <1>a, <1>c, <1>d, <2>1 DEF rts_gpio_irq_disable, Words, Word
  <2> QED
    BY <1>a, <1>b, <2>1, <2>2
<1>5. ASSUME NEW g \in IrqLines, Edge(g)
      PROVE  BankTypes'
  <2>1. UNCHANGED <<drv, type, en, oe, val, shadow, want, late, isr, cpu, asked, oops>>
    BY <1>5 DEF Edge
  <2>2. pend' \in Words
    BY <1>5, <1>a, <1>c, <1>d, <1>e DEF Edge, Words, Word
  <2>3. level' \subseteq Lines /\ due' \subseteq want
    BY <1>5, <1>a, <1>d DEF Edge
  <2> QED
    BY <1>a, <1>b, <2>1, <2>2, <2>3
<1>6. CASE Interrupt
  <2>1. UNCHANGED <<drv, type, en, pend, oe, val, shadow, level, want, due, late, cpu, asked>>
    BY <1>6 DEF Interrupt
  <2>2. drv.at = "on" => 1 \in DOMAIN Banks
    <3>1. drv.at = "on" => Asserted
      BY <1>6 DEF Interrupt
    <3>2. DOMAIN Banks = 1..Len(Banks) /\ Len(Banks) \in Nat
      BY BanksAssumption DEF BanksAssumption
    <3> QED
      BY <3>1, <3>2 DEF Asserted
  <2>3. RunTypes'
    <3>1. CASE drv.at = "on"
      <4>1. isr' = [at |-> "read", i |-> 1, v1 |-> {}, v2 |-> {}]
        BY <1>6, <3>1 DEF Interrupt, Quiet
      <4> QED
        BY <2>2, <3>1, <4>1 DEF Handlers, Word
    <3>2. CASE drv.at # "on"
      BY <1>6, <1>a, <3>2 DEF Interrupt
    <3> QED
      BY <3>1, <3>2
  <2>4. DrvTypes'
    BY <1>6, <1>a, <2>1 DEF Interrupt
  <2> QED
    BY <1>a, <1>b, <2>1, <2>3, <2>4
<1>7. CASE ReadBank
  <2>1. UNCHANGED <<drv, type, en, pend, oe, val, shadow, level, want, due, late, cpu, asked, oops>>
    BY <1>7 DEF ReadBank
  <2>2. en[isr.i] \in Word /\ pend[isr.i] \in Word /\ isr.i \in DOMAIN Banks
    BY <1>7, <1>a DEF ReadBank, Words
  <2>3. RunTypes'
    BY <1>7, <1>a, <2>2 DEF ReadBank, Handlers, Word
  <2> QED
    BY <1>a, <1>b, <2>1, <2>3
<1>8. CASE AckBank
  <2>1. UNCHANGED <<drv, type, en, oe, val, shadow, level, want, due, late, cpu, asked, oops>>
    BY <1>8 DEF AckBank
  <2>2. isr.i \in DOMAIN Banks
    BY <1>8, <1>a DEF AckBank
  <2>3. pend' \in Words
    BY <1>8, <1>a, <2>2 DEF AckBank, Words, Word
  <2>4. RunTypes'
    BY <1>8, <1>a, <2>2 DEF AckBank, Handlers, Word
  <2> QED
    BY <1>a, <1>b, <2>1, <2>3, <2>4
<1>9. CASE Dispatch
  <2>1. UNCHANGED <<drv, type, en, pend, oe, level, want, cpu, oops>>
    BY <1>9 DEF Dispatch
  <2>2. RunTypes'
    <3>1. isr' = [isr EXCEPT !.v2 = @ \ {Least(isr.v2)}]
      BY <1>9 DEF Dispatch
    <3> QED
      BY <1>a, <3>1 DEF Handlers, Word
  <2>3. due' \subseteq due /\ late' \subseteq late \cup IrqLines
    BY <1>9 DEF Dispatch
  <2>4. val' \in Words /\ shadow' \in Words /\ asked' \in [OutLines -> {0, 1}]
    BY <1>9, ValueDispatch
  <2> QED
    BY <1>a, <1>b, <2>1, <2>2, <2>3, <2>4
<1>10. CASE NextBank
  <2>1. UNCHANGED <<drv, type, en, pend, oe, val, shadow, level, want, due, late, cpu, asked, oops>>
    BY <1>10 DEF NextBank
  <2>2. DOMAIN Banks = 1..Len(Banks) /\ Len(Banks) \in Nat
    BY BanksAssumption DEF BanksAssumption
  <2>3. isr.i \in 1..Len(Banks)
    BY <1>10, <1>a, <2>2 DEF NextBank
  <2>4. RunTypes'
    <3>1. CASE isr.i < Len(Banks)
      <4>1. isr' = [at |-> "read", i |-> isr.i + 1, v1 |-> {}, v2 |-> {}]
        BY <1>10, <3>1 DEF NextBank, Quiet
      <4>2. isr.i + 1 \in Nat /\ isr.i + 1 \in DOMAIN Banks
        BY <2>2, <2>3, <3>1
      <4> QED
        BY <4>1, <4>2 DEF Handlers, Word
    <3>2. CASE ~(isr.i < Len(Banks))
      BY <1>10, <3>2 DEF NextBank, Quiet, Handlers, Word
    <3> QED
      BY <3>1, <3>2
  <2> QED
    BY <1>a, <1>b, <2>1, <2>4
<1>11. CASE rts_gpio_set_write
  <2>1. UNCHANGED <<drv, type, en, pend, oe, level, want, due, late, isr, asked, oops>> /\ cpu' = Rest
    BY <1>11 DEF rts_gpio_set_write
  <2>2. val' \in Words /\ shadow' \in Words
    BY <1>11, ValueWrite
  <2>3. cpu' \in Copies
    BY <2>1 DEF Rest, Copies, Word
  <2> QED
    BY <1>a, <1>b, <2>1, <2>2, <2>3
<1>12. ASSUME NEW g \in OutLines, rts_gpio_set(g)
       PROVE  BankTypes'
  <2>1. UNCHANGED <<drv, type, en, pend, oe, val, shadow, level, want, due, late, isr, oops>>
    BY <1>12 DEF rts_gpio_set
  <2>2. ReadBits(rts_get_pinaddr(g)) \in Word
    BY <1>c, <1>d, ReadIsWord
  <2>3. cpu' \in Copies
    BY <1>12, <1>d, <2>2 DEF rts_gpio_set, Copies
  <2>4. asked' \in [OutLines -> {0, 1}]
    BY <1>12, <1>a DEF rts_gpio_set
  <2> QED
    BY <1>a, <1>b, <2>1, <2>3, <2>4
<1>13. ASSUME NEW g \in OutLines, rts_gpio_direction_output(g)
       PROVE  BankTypes'
  <2>1. UNCHANGED <<drv, type, en, pend, level, want, due, late, isr, cpu, oops>> /\ oe' = oe \cup {g}
    BY <1>13 DEF rts_gpio_direction_output
  <2>2. val' \in Words /\ shadow' \in Words
    BY <1>13, ValueOut
  <2>3. asked' \in [OutLines -> {0, 1}]
    BY <1>13, <1>a DEF rts_gpio_direction_output
  <2> QED
    BY <1>a, <1>b, <2>1, <2>2, <2>3
<1>14. ASSUME NEW g \in OutLines, rts_gpio_direction_input(g)
       PROVE  BankTypes'
  <2>1. UNCHANGED <<drv, type, en, pend, val, shadow, level, want, due, late, isr, cpu, asked, oops>> /\ oe' \subseteq oe
    BY <1>14 DEF rts_gpio_direction_input
  <2> QED
    BY <1>a, <1>b, <2>1
<1> QED
  BY <1>1, <1>2, <1>3, <1>4, <1>5, <1>6, <1>7, <1>8, <1>9, <1>10, <1>11, <1>12, <1>13, <1>14 DEF BankNext

(* Every step keeps the edges ... *)
LEMMA EdgeStep ==
  ASSUME BankTypes, EdgeInv, BankNext
  PROVE  EdgeInv'
<1>1. CASE UNCHANGED <<type, en, pend, want, due, isr>>
  BY <1>1, EdgeIdle
<1>2. CASE ~UNCHANGED <<type, en, pend, want, due, isr>>
  <2>1. ~(rts_pinctrl_probe \/ rts_pinctrl_remove \/ rts_gpio_set_write)
    BY <1>2 DEF rts_pinctrl_probe, rts_pinctrl_remove, rts_gpio_set_write
  <2>2. \A g \in OutLines :
          ~(rts_gpio_set(g) \/ rts_gpio_direction_output(g) \/ rts_gpio_direction_input(g))
    BY <1>2 DEF rts_gpio_set, rts_gpio_direction_output, rts_gpio_direction_input
  <2> QED
    BY <2>1, <2>2, EdgeSetType, EdgeEnable, EdgeDisable, EdgeEdge, EdgeInterrupt, EdgeRead, EdgeAck,
       EdgeDispatch, EdgeNextBank DEF BankNext
<1> QED
  BY <1>1, <1>2

(* ... and the values. *)
LEMMA ValueStep ==
  ASSUME BankTypes, ValueInv, HandlersApart, BankNext
  PROVE  ValueInv'
<1>1. CASE UNCHANGED <<oe, val, shadow, cpu, asked>>
  BY <1>1, ValueIdle
<1>2. CASE ~UNCHANGED <<oe, val, shadow, cpu, asked>>
  <2>1. ~(rts_pinctrl_probe \/ rts_pinctrl_remove \/ Interrupt \/ ReadBank \/ AckBank \/ NextBank)
    BY <1>2 DEF rts_pinctrl_probe, rts_pinctrl_remove, Interrupt, ReadBank, AckBank, NextBank
  <2>2. \A g \in IrqLines : ~(rts_gpio_irq_set_type(g) \/ rts_gpio_irq_enable(g) \/ rts_gpio_irq_disable(g)
                               \/ Edge(g))
    BY <1>2 DEF rts_gpio_irq_set_type, rts_gpio_irq_enable, rts_gpio_irq_disable, Edge
  <2> QED
    BY <2>1, <2>2, ValueSet, ValueWrite, ValueOut, ValueIn, ValueDispatch DEF BankNext
<1> QED
  BY <1>1, <1>2

(* The invariant implies the property. *)
LEMMA BankInvSound == BankInv => BanksSound
<1> SUFFICES ASSUME BankInv PROVE BanksSound
  OBVIOUS
<1>1. BankTypes /\ EdgeInv /\ ValueInv
  BY DEF BankInv
<1>2. BankTypeOK
  <2>1. \A b \in DOMAIN Banks : en[b] \cup pend[b] \cup val[b] \cup shadow[b] \subseteq 0..31
    BY <1>1 DEF BankTypes, Words, Word
  <2>2. drv.at \in {"off", "on", "failed", "gone"} /\ isr.at \in {"idle", "read", "ack", "run"}
        /\ cpu.at \in {"idle", "rmw"}
    BY <1>1 DEF BankTypes, Drivers, Handlers, Copies
  <2> QED
    BY <1>1, <2>1, <2>2 DEF BankTypeOK, BankTypes, Lines
<1>3. OutputsKept
  <2> SUFFICES ASSUME NEW g \in oe, g \in OutLines, ~Written(g)
               PROVE  rts_gpio_get(g) = asked[g]
    BY DEF OutputsKept, Written
  <2>1. asked[g] \in {0, 1} /\ (bf(g) \in ReadBits(rts_get_pinaddr(g)) <=> asked[g] = 1)
    BY <1>1 DEF BankTypes, ValueInv, Shows
  <2> QED
    BY <2>1 DEF rts_gpio_get, ReadBits, ReadBack
<1> QED
  BY <1>1, <1>2, <1>3 DEF BanksSound, EdgeInv

(* However edges, enables, disables and the handler of a bank interleave,  *)
(* an edge that an enabled line waits for reaches its handler and a driven *)
(* line has the value asked for (rts_irq_handler, rts_gpio_irq_enable,     *)
(* rts_gpio_irq_disable, rts_gpio_set), as far as the numbers of the lines *)
(* let rts_gpio_irq_disable spare them and for handlers that drive no line *)
(* of a bank that others drive.                                            *)
THEOREM BanksSoundCorrect ==
  ASSUME HandlersApart
  PROVE  BankSpec => []BanksSound
<1>1. BankInit => BankInv
  <2> SUFFICES ASSUME BankInit PROVE BankInv
    OBVIOUS
  <2>1. /\ type \in [IrqLines -> Types] /\ en \in Words /\ pend \in Words /\ val \in Words /\ shadow \in Words
        /\ asked \in [OutLines -> {0, 1}]
    BY DEF BankInit, Types, Words, Word
  <2>2. drv \in Drivers /\ isr \in Handlers /\ cpu \in Copies
    BY DEF BankInit, NoDrv, Quiet, Rest, Drivers, Handlers, Copies, Word
  <2>3. isr.at = "idle" /\ cpu.at = "idle"
    BY DEF BankInit, Quiet, Rest
  <2>4. oe = {} /\ level = {} /\ want = {} /\ due = {} /\ late = {} /\ oops = FALSE
    BY DEF BankInit
  <2>5. BankTypes
    BY <2>1, <2>2, <2>3, <2>4 DEF BankTypes
  <2>6. EdgeInv
    BY <2>3, <2>4 DEF EdgeInv, EdgesKept, StaysArmed, CopyArmed
  <2>7. ValueInv
    BY <2>3, <2>4 DEF ValueInv
  <2> QED
    BY <2>5, <2>6, <2>7 DEF BankInv
<1>2. BankInv /\ [BankNext]_bankVars => BankInv'
  <2> SUFFICES ASSUME BankInv, [BankNext]_bankVars PROVE BankInv'
    OBVIOUS
  <2>1. CASE BankNext
    BY <2>1, BankTypesStep, EdgeStep, ValueStep DEF BankInv
  <2>2. CASE UNCHANGED bankVars
    <3>1. BankTypes'
      BY <2>2 DEF BankInv, BankTypes, bankVars
    <3>2. EdgeInv' /\ ValueInv'
      BY <2>2, EdgeIdle, ValueIdle DEF BankInv, bankVars
    <3> QED
      BY <3>1, <3>2 DEF BankInv
  <2> QED
    BY <2>1, <2>2
<1> QED
  BY <1>1, <1>2, BankInvSound, PTL DEF BankSpec
=============================================================================

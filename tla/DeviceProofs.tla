---------------------------- MODULE DeviceProofs ----------------------------
(***************************************************************************)
(* Theorems about the PWM core, its sysfs class and the RTS driver, for    *)
(* every set of chips, any number of outputs, all periods and every length *)
(* of a clock tick; and about the thermal framework, for all zones,        *)
(* cooling devices, governors and device tree nodes.                       *)
(***************************************************************************)
EXTENDS Pwm, Thermal, TLAPS

(* A PWM is a pair of a chip and one of its outputs. *)
LEMMA PwmOf ==
  ASSUME NEW p \in Pwms
  PROVE  p[1] \in Chips /\ p[2] \in Hw(p[1]) /\ p = <<p[1], p[2]>> /\ p[2] \in Nat /\ p[2] < NPwm[p[1]]
BY ChipsAssumption DEF Pwms, Hw

LEMMA PwmIs ==
  ASSUME NEW c \in Chips, NEW i \in Hw(c)
  PROVE  <<c, i>> \in Pwms
BY DEF Pwms

LEMMA RtsNumbers == Rts \in Chips /\ \A i \in Hw(Rts) : i \in Nat
BY ChipsAssumption DEF Hw

-----------------------------------------------------------------------------
(* Types *)

LEMMA FreshType == Off \in PwmState /\ Fresh \in PwmType
BY TicksAssumption DEF Off, Fresh, PwmState, PwmType

LEMMA StateType ==
  ASSUME NEW s \in PwmState, NEW b \in BOOLEAN
  PROVE  /\ [s EXCEPT !.enabled = b] \in PwmState
         /\ \A n \in Periods : [s EXCEPT !.period = n] \in PwmState /\ [s EXCEPT !.duty = n] \in PwmState
         /\ \A n, d \in Periods : [s EXCEPT !.period = n, !.duty = d] \in PwmState
BY DEF PwmState

(* The record of a PWM after each thing that may be done to it: its type,  *)
(* and who has it then.                                                    *)
Claim(r, who, flag, child) == r.requested = who /\ r.exported = flag /\ r.child = child
LEMMA RecordType ==
  ASSUME NEW r \in PwmType, NEW who \in {None, "consumer", "class", "settings"}, NEW b \in BOOLEAN
  PROVE  /\ [r EXCEPT !.requested = who] \in PwmType
         /\ [r EXCEPT !.exported = b] \in PwmType
         /\ [r EXCEPT !.child = TRUE, !.suspend = FALSE] \in PwmType
         /\ Put(r) \in PwmType
         /\ [Put(r) EXCEPT !.exported = FALSE] \in PwmType
         /\ [Put(r) EXCEPT !.child = FALSE] \in PwmType
         /\ \A s \in PwmState : [r EXCEPT !.state = s] \in PwmType /\ [r EXCEPT !.state = s, !.suspend = b] \in PwmType
BY DEF PwmType, Put
LEMMA RecordClaim ==
  ASSUME NEW r \in PwmType, NEW who, NEW b \in BOOLEAN
  PROVE  /\ Claim([r EXCEPT !.requested = who], who, r.exported, r.child)
         /\ Claim([r EXCEPT !.exported = b], r.requested, b, r.child)
         /\ Claim([r EXCEPT !.child = TRUE, !.suspend = FALSE], r.requested, r.exported, TRUE)
         /\ Claim(Put(r), None, r.exported, r.child)
         /\ Claim([Put(r) EXCEPT !.exported = FALSE], None, FALSE, r.child)
         /\ Claim([Put(r) EXCEPT !.child = FALSE], None, r.exported, FALSE)
         /\ \A s : Claim([r EXCEPT !.state = s], r.requested, r.exported, r.child)
         /\ \A s : Claim([r EXCEPT !.state = s, !.suspend = b], r.requested, r.exported, r.child)
BY DEF PwmType, Put, Claim
LEMMA RecordState ==
  ASSUME NEW r \in PwmType, NEW who, NEW b \in BOOLEAN
  PROVE  /\ [r EXCEPT !.requested = who].state = r.state
         /\ [r EXCEPT !.exported = b].state = r.state
         /\ [r EXCEPT !.child = TRUE, !.suspend = FALSE].state = r.state
         /\ Put(r).state = r.state
         /\ [Put(r) EXCEPT !.exported = FALSE].state = r.state
         /\ [Put(r) EXCEPT !.child = FALSE].state = r.state
         /\ \A s : [r EXCEPT !.state = s].state = s
         /\ \A s : [r EXCEPT !.state = s, !.suspend = b].state = s /\ [r EXCEPT !.state = s, !.suspend = b].suspend = b
BY DEF PwmType, Put

(* pwm_apply_state keeps the types and the ticks of the period in step     *)
(* with what it records, and switches to what it records where that is new.*)
TicksAgree(r, s) ==
  s.period # 0 => r.high = s.duty \div TinNs /\ r.high + r.low = s.period \div TinNs

LEMMA TicksType ==
  ASSUME NEW s \in PwmState
  PROVE  s.duty \div TinNs \in Nat /\ s.period \div TinNs \in Nat
<1>1. s.duty \in Nat /\ s.period \in Nat
  BY TicksAssumption DEF PwmState
<1>2. \A n \in Nat : n \div TinNs \in Nat
  BY TicksAssumption
<1> QED
  BY <1>1, <1>2

LEMMA AppliedType ==
  ASSUME NEW r \in RegType, NEW old \in PwmState, NEW s \in PwmState
  PROVE  pwm_apply_state(r, old, s) \in RegType /\ Applied(old, s) \in PwmState
<1> DEFINE high == s.duty \div TinNs
           all == s.period \div TinNs
<1>1. rtsx_pwm_config(r, s) = [r EXCEPT !.high = high, !.low = all - high] /\ high \in Nat /\ all \in Nat
  BY TicksType DEF rtsx_pwm_config
<1> HIDE DEF high, all
<1>2. rtsx_pwm_config(r, s) \in RegType
  <2>1. \A h \in Nat, l \in Int : [r EXCEPT !.high = h, !.low = l] \in RegType
    BY DEF RegType
  <2>2. all - high \in Int
    BY <1>1
  <2> QED
    BY <1>1, <2>1, <2>2, Zenon
<1>3. \A c \in RegType : [c EXCEPT !.en = s.enabled] \in RegType
  BY DEF RegType, PwmState
<1>4. /\ pwm_apply_state(r, old, s) \in {r, [r EXCEPT !.en = s.enabled], rtsx_pwm_config(r, s), [rtsx_pwm_config(r, s) EXCEPT !.en = s.enabled]}
      /\ Applied(old, s) \in {old, s}
  BY DEF pwm_apply_state, Applied
<1> QED
  BY <1>2, <1>3, <1>4

LEMMA AppliedAgrees ==
  ASSUME NEW r \in RegType, NEW old \in PwmState, NEW s \in PwmState
  PROVE  /\ TicksAgree(r, old) => TicksAgree(pwm_apply_state(r, old, s), Applied(old, s))
         /\ pwm_apply_state(r, old, s).en =
              IF Applied(old, s).enabled = old.enabled THEN r.en ELSE Applied(old, s).enabled
<1> DEFINE new == pwm_apply_state(r, old, s)
           c == IF Same(s, old) THEN r ELSE rtsx_pwm_config(r, s)
<1>1. CASE ~Valid(s)
  BY <1>1 DEF pwm_apply_state, Applied
<1>2. CASE Valid(s)
  <2> DEFINE high == s.duty \div TinNs
             all == s.period \div TinNs
  <2>1. high \in Nat /\ all \in Nat
    BY TicksType
  <2>2. rtsx_pwm_config(r, s) = [r EXCEPT !.high = high, !.low = all - high]
    BY DEF rtsx_pwm_config
  <2>3. new = (IF s.enabled = old.enabled THEN c ELSE [c EXCEPT !.en = s.enabled]) /\ Applied(old, s) = s
    BY <1>2 DEF pwm_apply_state, Applied
  <2>4. \A x \in RegType : TicksAgree(x, s) <=> (s.period # 0 => x.high = high /\ x.high + x.low = all)
    BY DEF TicksAgree
  <2>5. TicksAgree(r, old) /\ Same(s, old) => TicksAgree(r, s)
    BY DEF TicksAgree, Same
  <2> HIDE DEF high, all
  <2>6. c.en = r.en /\ c \in RegType /\ (~Same(s, old) => c.high = high /\ c.low = all - high)
    <3>2. all - high \in Int
      BY <2>1
    <3>3. PICK h \in Nat, l \in Int : h = high /\ l = all - high
      BY <2>1, <3>2
    <3>4. rtsx_pwm_config(r, s) = [r EXCEPT !.high = h, !.low = l]
      BY <2>2, <3>3
    <3> DEFINE x == [r EXCEPT !.high = h, !.low = l]
    <3>1. x \in RegType /\ x.en = r.en /\ x.high = h /\ x.low = l
      BY DEF RegType
    <3> HIDE DEF x
    <3>5. rtsx_pwm_config(r, s) = x
      BY <3>4 DEF x
    <3>6. CASE Same(s, old)
      BY <3>6
    <3>7. CASE ~Same(s, old)
      BY <3>1, <3>3, <3>5, <3>7
    <3> QED
      BY <3>6, <3>7
  <2>7. TicksAgree(r, old) => TicksAgree(c, s)
    BY <2>1, <2>4, <2>5, <2>6
  <2>8. new.high = c.high /\ new.low = c.low /\ new.en = (IF s.enabled = old.enabled THEN c.en ELSE s.enabled)
    BY <2>3, <2>6 DEF RegType
  <2>9. TicksAgree(c, s) => TicksAgree(new, s)
    BY <2>8 DEF TicksAgree
  <2> QED
    BY <2>3, <2>6, <2>7, <2>8, <2>9
<1> QED
  BY <1>1, <1>2

(* What Apply does, and that nobody's claim changes. *)
SameClaims ==
  \A q \in Pwms : pwm'[q].requested = pwm[q].requested /\ pwm'[q].exported = pwm[q].exported /\ pwm'[q].child = pwm[q].child
(* The output of p stays as it is, or a state is applied to it. *)
Moves(q) ==
  \/ pwm'[q].state = pwm[q].state /\ reg'[q] = reg[q]
  \/ /\ q[1] \in Added
     /\ \E s \in PwmState : /\ pwm'[q].state = Applied(pwm[q].state, s)
                            /\ reg'[q] = pwm_apply_state(reg[q], pwm[q].state, s)

LEMMA StateOf ==
  ASSUME PwmTypeOK, NEW p \in Pwms
  PROVE  pwm[p] \in PwmType /\ pwm[p].state \in PwmState /\ reg[p] \in RegType
BY DEF PwmTypeOK, PwmType

LEMMA ApplyStep ==
  ASSUME PwmTypeOK, NEW p \in Pwms, NEW s \in PwmState, Apply(p, s), p[1] \in Added
  PROVE  /\ pwm' \in [Pwms -> PwmType] /\ reg' \in [Pwms -> RegType]
         /\ SameClaims /\ (\A q \in Pwms : Moves(q)) /\ \A q \in Pwms : q # p => pwm'[q] = pwm[q]
<1> DEFINE new == [pwm[p] EXCEPT !.state = Applied(pwm[p].state, s)]
           out == pwm_apply_state(reg[p], pwm[p].state, s)
<1>1. pwm \in [Pwms -> PwmType] /\ reg \in [Pwms -> RegType]
  BY DEF PwmTypeOK
<1>2. pwm[p] \in PwmType /\ pwm[p].state \in PwmState /\ reg[p] \in RegType
  BY StateOf
<1>3. Applied(pwm[p].state, s) \in PwmState /\ out \in RegType
  BY <1>2, AppliedType
<1>4. new \in PwmType /\ Claim(new, pwm[p].requested, pwm[p].exported, pwm[p].child) /\ new.state = Applied(pwm[p].state, s)
  <2>1. \A t \in PwmState : [pwm[p] EXCEPT !.state = t] \in PwmType
    BY <1>2, RecordType
  <2>2. \A t : Claim([pwm[p] EXCEPT !.state = t], pwm[p].requested, pwm[p].exported, pwm[p].child)
    BY <1>2, RecordClaim
  <2>3. \A t : [pwm[p] EXCEPT !.state = t].state = t
    BY <1>2, RecordState
  <2> QED
    BY <1>3, <2>1, <2>2, <2>3
<1>5. CASE p[1] # Rts
  <2>1. pwm' = pwm /\ reg' = reg
    BY <1>5 DEF Apply
  <2> QED
    BY <1>1, <2>1 DEF SameClaims, Moves
<1>6. CASE p[1] = Rts
  <2>1. pwm' = [pwm EXCEPT ![p] = new] /\ reg' = [reg EXCEPT ![p] = out]
    BY <1>6 DEF Apply
  <2> HIDE DEF new, out
  <2>2. pwm' \in [Pwms -> PwmType] /\ reg' \in [Pwms -> RegType]
    BY <1>1, <1>3, <1>4, <2>1
  <2>3. \A q \in Pwms : q # p => pwm'[q] = pwm[q] /\ reg'[q] = reg[q]
    BY <1>1, <2>1
  <2>4. pwm'[p] = new /\ reg'[p] = out
    BY <1>1, <2>1
  <2>5. SameClaims
    BY <1>4, <2>3, <2>4 DEF SameClaims, Claim
  <2>6. Moves(p)
    BY <1>4, <2>4 DEF Moves, out
  <2> QED
    BY <2>2, <2>3, <2>5, <2>6 DEF Moves
<1> QED
  BY <1>5, <1>6

-----------------------------------------------------------------------------
(* What has a place: chips that are not there have nothing, pointers lead  *)
(* to the PWM of their own number, and a removal is where it can be.       *)
Present == \A p \in Pwms : p[1] \notin Added => pwm[p] = Fresh /\ job[p] = None
At(p, i) == p \in Pwms => p[1] \in Added /\ base[p[1]] + p[2] = i
PointersFit == (\A i \in Hw(Rts) : At(desc[i], i)) /\ \A k \in Writers : At(wr[k].p, wr[k].i)
ChipsApart == \A c, d \in Added : c # d => Numbers(c) \cap Numbers(d) = {}
RemovalsFit ==
  \A c \in Chips :
    /\ rem[c].at = "no" => rem[c] = Stays
    /\ rem[c].at \in {"unexport", "refused"} => c \in Added
    /\ rem[c].at = "files" => c = Rts /\ c \notin Added
PlaceInv == Present /\ PointersFit /\ ChipsApart /\ RemovalsFit

(* Who holds what.  Two writes with one index are known to cross.          *)
WritesFit ==
  /\ \A k \in Writers : IF wr[k].at = "idle" THEN wr[k] = Idle ELSE wr[k].i \in Hw(Rts)
  /\ \A k, l \in Writers : k # l /\ wr[k].at # "idle" /\ wr[l].at # "idle" /\ wr[k].i = wr[l].i => wr[k].i \in crossed
(* An export or unexport on its way holds the PWM for the class.           *)
Fits(r, j) ==
  /\ j # None \/ r.child \/ r.exported => r.requested = "class"
  /\ j \in {"flag", "register"} => ~r.child
  /\ j \in {"flag", "unregister"} => ~r.exported
  /\ j = None /\ r.exported => r.child
ClassHolds == \A p \in Pwms : Orderly(p) => Fits(pwm[p], job[p])
(* The settings hold what they point to, and what they are about to.       *)
Settings(p) == p \in Pwms /\ pwm[p].requested = "settings"
Forgets(i) == \E k \in Writers : wr[k].at = "forget" /\ wr[k].i = i
SettingsHold ==
  /\ \A i \in Hw(Rts) \ crossed : desc[i] # None => Settings(desc[i]) \/ Forgets(i)
  /\ \A k \in Writers : wr[k].i \notin crossed =>
       /\ wr[k].at \in {"request", "store"} => desc[wr[k].i] = None
       /\ wr[k].at = "store" => Settings(wr[k].p)
       /\ wr[k].at = "free" => wr[k].p = desc[wr[k].i]
HoldInv == WritesFit /\ ClassHolds /\ SettingsHold

-----------------------------------------------------------------------------
(* Shapes of steps: the claim on one PWM changes; or the output of some.   *)
JobType == {None, "flag", "register", "unregister"}
ClaimTo(p, r, j) ==
  /\ r \in PwmType /\ j \in JobType
  /\ pwm' = [pwm EXCEPT ![p] = r] /\ job' = [job EXCEPT ![p] = j] /\ r.state = pwm[p].state
  /\ Fits(pwm[p], job[p]) => Fits(r, j) /\ (pwm[p].requested = "settings" => r.requested = "settings")
OneClaim(p) ==
  /\ p[1] \in Added \/ job[p] # None
  /\ \E r, j : ClaimTo(p, r, j)
  /\ UNCHANGED <<base, reg, desc, wr, pm, was, crossed, late>>
Quiet ==
  /\ UNCHANGED <<base, desc, job, crossed, late>>
  /\ pwm' \in [Pwms -> PwmType] /\ reg' \in [Pwms -> RegType]
  /\ SameClaims /\ (\A q \in Pwms : Moves(q)) /\ \A q \in Pwms : q[1] \notin Added => pwm'[q] = pwm[q]

LEMMA JobSame ==
  ASSUME PwmTypeOK, NEW p \in Pwms
  PROVE  job = [job EXCEPT ![p] = job[p]] /\ job[p] \in JobType
BY DEF PwmTypeOK, JobType

LEMMA Strings ==
  /\ None \notin {"consumer", "class", "settings", "flag", "register", "unregister", Gone}
  /\ None \notin Pwms /\ Gone \notin Pwms /\ \A n \in 0..MAX_PWMS : n # None
BY NoneAssumption

(* The steps that change a claim. *)
LEMMA ClaimGet ==
  ASSUME PwmTypeOK, NEW p \in Pwms, NEW who \in {"consumer", "class"}, pwm_device_request(p, who),
         NEW j \in JobType, job' = [job EXCEPT ![p] = j], who = "consumer" => j = job[p], who = "class" => j = "flag" /\ job[p] = None
  PROVE  \E r, i : ClaimTo(p, r, i)
<1> DEFINE r == [pwm[p] EXCEPT !.requested = who]
<1>1. pwm' = [pwm EXCEPT ![p] = r] /\ pwm[p].requested = None /\ pwm[p] \in PwmType
  BY StateOf DEF pwm_device_request
<1>2. r \in PwmType /\ Claim(r, who, pwm[p].exported, pwm[p].child) /\ r.state = pwm[p].state
  BY <1>1 DEF PwmType, Claim
<1> HIDE DEF r
<1>3. Fits(pwm[p], job[p]) => Fits(r, j) /\ (pwm[p].requested = "settings" => r.requested = "settings")
  BY <1>1, <1>2, Strings DEF Fits, Claim
<1> QED
  BY <1>1, <1>2, <1>3 DEF ClaimTo

LEMMA ClaimUnexport ==
  ASSUME PwmTypeOK, NEW p \in Pwms, pwm_unexport_child(p)
  PROVE  \E r, i : ClaimTo(p, r, i)
<1> DEFINE r == [pwm[p] EXCEPT !.exported = FALSE]
           j == IF pwm[p].exported /\ job[p] = None THEN "unregister" ELSE job[p]
<1>1. pwm' = [pwm EXCEPT ![p] = r] /\ pwm[p] \in PwmType
  BY StateOf DEF pwm_unexport_child
<1>2. r \in PwmType /\ Claim(r, pwm[p].requested, FALSE, pwm[p].child) /\ r.state = pwm[p].state
  BY <1>1 DEF PwmType, Claim
<1>3. job' = [job EXCEPT ![p] = j] /\ j \in JobType
  BY JobSame DEF pwm_unexport_child, JobType
<1>4. Fits(pwm[p], job[p]) => Fits(r, j) /\ (pwm[p].requested = "settings" => r.requested = "settings")
  BY <1>2, Strings DEF Fits, Claim
<1> HIDE DEF r, j
<1> QED
  BY <1>1, <1>2, <1>3, <1>4 DEF ClaimTo

LEMMA ClaimStep ==
  ASSUME PwmTypeOK, NEW p \in Pwms,
         \/ pwm_get(p) \/ pwm_put(p) \/ export_store(p) \/ ExportFlag(p) \/ pwm_export_child(p)
         \/ unexport_store(p) \/ UnexportRest(p)
  PROVE  OneClaim(p) /\ UNCHANGED rem
<1>0. pwm[p] \in PwmType /\ pwm[p].state \in PwmState
  BY StateOf
<1>1. CASE pwm_get(p)
  <2>1. p[1] \in Added /\ pwm_device_request(p, "consumer") /\ UNCHANGED <<base, reg, desc, wr, pm, was, crossed, late, rem>>
    BY <1>1 DEF pwm_get, Usable
  <2>2. job' = [job EXCEPT ![p] = job[p]] /\ job[p] \in JobType
    BY <1>1, JobSame DEF pwm_get
  <2>3. \E r, i : ClaimTo(p, r, i)
    BY <2>1, <2>2, ClaimGet
  <2> QED
    BY <2>1, <2>3 DEF OneClaim
<1>2. CASE pwm_put(p)
  <2> DEFINE r == Put(pwm[p])
  <2>1. p[1] \in Added /\ pwm' = [pwm EXCEPT ![p] = r] /\ UNCHANGED <<base, reg, desc, wr, pm, was, crossed, late, rem>>
    BY <1>2 DEF pwm_put, Usable
  <2>2. job' = [job EXCEPT ![p] = job[p]] /\ job[p] \in JobType
    BY <1>2, JobSame DEF pwm_put
  <2>3. r \in PwmType /\ Claim(r, None, pwm[p].exported, pwm[p].child) /\ r.state = pwm[p].state
    BY <1>0 DEF PwmType, Claim, Put
  <2> HIDE DEF r
  <2>4. Fits(pwm[p], job[p]) => Fits(r, job[p]) /\ (pwm[p].requested = "settings" => r.requested = "settings")
    BY <1>2, <2>3, Strings DEF Fits, Claim, pwm_put
  <2> QED
    BY <2>1, <2>2, <2>3, <2>4 DEF OneClaim, ClaimTo
<1>3. CASE export_store(p)
  <2>1. p[1] \in Added /\ pwm_device_request(p, "class") /\ UNCHANGED <<base, reg, desc, wr, pm, was, crossed, late, rem>>
    BY <1>3 DEF export_store, Usable
  <2>2. job' = [job EXCEPT ![p] = "flag"] /\ job[p] = None /\ "flag" \in JobType
    BY <1>3 DEF export_store, JobType
  <2>3. \E r, i : ClaimTo(p, r, i)
    BY <2>1, <2>2, ClaimGet
  <2> QED
    BY <2>1, <2>3 DEF OneClaim
<1>4. CASE ExportFlag(p)
  <2> DEFINE r == [pwm[p] EXCEPT !.exported = TRUE]
  <2>1. job[p] # None /\ pwm' = [pwm EXCEPT ![p] = r] /\ UNCHANGED <<base, reg, desc, wr, pm, was, crossed, late, rem>>
    BY <1>4, Strings DEF ExportFlag
  <2>2. job' = [job EXCEPT ![p] = "register"] /\ "register" \in JobType
    BY <1>4 DEF ExportFlag, JobType
  <2>3. r \in PwmType /\ Claim(r, pwm[p].requested, TRUE, pwm[p].child) /\ r.state = pwm[p].state
    BY <1>0 DEF PwmType, Claim
  <2> HIDE DEF r
  <2>4. Fits(pwm[p], job[p]) => Fits(r, "register") /\ (pwm[p].requested = "settings" => r.requested = "settings")
    BY <1>4, <2>3, Strings DEF Fits, Claim, ExportFlag
  <2> QED
    BY <2>1, <2>2, <2>3, <2>4 DEF OneClaim, ClaimTo
<1>5. CASE pwm_export_child(p)
  <2>1. job[p] = "register" /\ UNCHANGED <<base, reg, desc, wr, pm, was, crossed, late, rem>>
    BY <1>5 DEF pwm_export_child
  <2>2. job' = [job EXCEPT ![p] = None] /\ None \in JobType
    BY <1>5 DEF pwm_export_child, JobType
  <2>3. PICK r : /\ pwm' = [pwm EXCEPT ![p] = r]
                 /\ \/ r = [pwm[p] EXCEPT !.child = TRUE, !.suspend = FALSE]
                    \/ r = [Put(pwm[p]) EXCEPT !.exported = FALSE]
    BY <1>5 DEF pwm_export_child
  <2>4. /\ r \in PwmType /\ r.state = pwm[p].state
        /\ \/ Claim(r, pwm[p].requested, pwm[p].exported, TRUE)
           \/ Claim(r, None, FALSE, pwm[p].child)
    BY <1>0, <2>3 DEF PwmType, Claim, Put
  <2>5. Fits(pwm[p], job[p]) => Fits(r, None) /\ (pwm[p].requested = "settings" => r.requested = "settings")
    BY <2>1, <2>4, Strings DEF Fits, Claim
  <2> QED
    BY <2>1, <2>2, <2>3, <2>4, <2>5, Strings DEF OneClaim, ClaimTo
<1>6. CASE unexport_store(p)
  <2>1. p[1] \in Added /\ pwm_unexport_child(p) /\ UNCHANGED <<base, reg, desc, wr, pm, was, crossed, late, rem>>
    BY <1>6 DEF unexport_store, Usable
  <2> QED
    BY <2>1, ClaimUnexport DEF OneClaim
<1>7. CASE UnexportRest(p)
  <2> DEFINE r == [Put(pwm[p]) EXCEPT !.child = FALSE]
  <2>1. job[p] = "unregister" /\ pwm' = [pwm EXCEPT ![p] = r] /\ UNCHANGED <<base, reg, desc, wr, pm, was, crossed, late, rem>>
    BY <1>7 DEF UnexportRest
  <2>2. job' = [job EXCEPT ![p] = None] /\ None \in JobType
    BY <1>7 DEF UnexportRest, JobType
  <2>3. r \in PwmType /\ Claim(r, None, pwm[p].exported, FALSE) /\ r.state = pwm[p].state
    BY <1>0 DEF PwmType, Claim, Put
  <2> HIDE DEF r
  <2>4. Fits(pwm[p], job[p]) => Fits(r, None) /\ (pwm[p].requested = "settings" => r.requested = "settings")
    BY <2>1, <2>3, Strings DEF Fits, Claim
  <2> QED
    BY <2>1, <2>2, <2>3, <2>4, Strings DEF OneClaim, ClaimTo
<1> QED
  BY <1>1, <1>2, <1>3, <1>4, <1>5, <1>6, <1>7

LEMMA ClaimRemoval ==
  ASSUME PwmTypeOK, RemovalsFit, NEW c \in Chips, pwmchip_sysfs_unexport(c)
  PROVE  /\ <<c, rem[c].i>> \in Pwms /\ OneClaim(<<c, rem[c].i>>)
         /\ rem' = [rem EXCEPT ![c].i = @ + 1] /\ rem[c].at = "unexport"
<1>1. rem[c].i \in Hw(c) /\ rem[c].at = "unexport" /\ c \in Added
  BY DEF pwmchip_sysfs_unexport, RemovalsFit
<1>2. <<c, rem[c].i>> \in Pwms
  BY <1>1, PwmIs
<1>3. pwm_unexport_child(<<c, rem[c].i>>) /\ UNCHANGED <<base, reg, desc, wr, pm, was, crossed, late>>
  BY DEF pwmchip_sysfs_unexport
<1>4. \E r, i : ClaimTo(<<c, rem[c].i>>, r, i)
  BY <1>2, <1>3, ClaimUnexport
<1> QED
  BY <1>1, <1>2, <1>3, <1>4 DEF OneClaim, pwmchip_sysfs_unexport

-----------------------------------------------------------------------------
(* The registers follow the state, and what a removal leaves running is    *)
(* known.                                                                  *)
TicksFollow == \A p \in Pwms : p[1] = Rts => TicksAgree(reg[p], pwm[p].state)
SwitchFollows ==
  Rts \in Added /\ rem[Rts] = Stays =>
    \A p \in Pwms : p[1] = Rts =>
      (pwm[p].state.enabled => reg[p].en) /\ (reg[p].en => pwm[p].state.enabled \/ p \in late)
OffGone == Rts \notin Added => \A p \in Pwms : p[1] = Rts => (reg[p].en => p \in late)
RegInv == TicksFollow /\ SwitchFollows /\ OffGone

(* While the class is suspended, what has been switched off is known, and  *)
(* the rest is as it was.                                                  *)
Turned(i) ==
  \/ pm.phase = "suspend" /\ i < pm.at
  \/ pm.phase = "resume" /\ pm.at <= i /\ i < pm.end
SwitchedOff(r, g, w) ==
  /\ Valid(w.state) /\ r.suspend = w.state.enabled
  /\ r.state = [w.state EXCEPT !.enabled = FALSE]
  /\ g = [w.reg EXCEPT !.en = IF w.state.enabled THEN FALSE ELSE @]
Was(w) == w \in [state : PwmState, reg : RegType] /\ (w.state.enabled => w.reg.en)
AsItWas(i) ==
  /\ Was(was[i])
  /\ IF Turned(i) /\ Child(i) THEN SwitchedOff(pwm[<<Rts, i>>], reg[<<Rts, i>>], was[i]) ELSE Output(i) = was[i]
PmFits ==
  /\ Frozen /\ Rts \in Usable /\ pm.phase \in {"suspend", "resume"}
  /\ pm.at <= pm.end /\ pm.end <= NPwm[Rts] /\ (pm.phase = "suspend" => pm.end = NPwm[Rts])
PmInv == pm # Awake => PmFits /\ \A i \in Hw(Rts) : AsItWas(i)

-----------------------------------------------------------------------------
(* The steps that leave every claim alone. *)
LEMMA QuietStill ==
  ASSUME PwmTypeOK, UNCHANGED <<base, pwm, reg, desc, job, crossed, late>>
  PROVE  Quiet
BY DEF Quiet, SameClaims, Moves, PwmTypeOK

LEMMA QuietApply ==
  ASSUME PwmTypeOK, NEW p \in Pwms, NEW s \in PwmState, Apply(p, s), p[1] \in Added,
         UNCHANGED <<base, desc, job, crossed, late>>
  PROVE  Quiet
BY ApplyStep DEF Quiet

LEMMA QuietConfig ==
  ASSUME PwmTypeOK, NEW p \in Pwms, pwm_config(p), p[1] \in Added, UNCHANGED <<base, desc, job, crossed, late>>
  PROVE  Quiet
<1>1. PICK n \in Periods, d \in Periods : Apply(p, [pwm[p].state EXCEPT !.period = n, !.duty = d])
  BY DEF pwm_config
<1>2. [pwm[p].state EXCEPT !.period = n, !.duty = d] \in PwmState
  BY StateOf DEF PwmState
<1> QED
  BY <1>1, <1>2, QuietApply

LEMMA QuietEnable ==
  ASSUME PwmTypeOK, NEW p \in Pwms, NEW b \in BOOLEAN, pwm_enable(p, b), p[1] \in Added,
         UNCHANGED <<base, desc, job, crossed, late>>
  PROVE  Quiet
<1>1. Apply(p, [pwm[p].state EXCEPT !.enabled = b])
  BY DEF pwm_enable
<1>2. [pwm[p].state EXCEPT !.enabled = b] \in PwmState
  BY StateOf DEF PwmState
<1> QED
  BY <1>1, <1>2, QuietApply

LEMMA QuietConsumer ==
  ASSUME PwmTypeOK, NEW p \in Pwms, Consumer(p) \/ ClassStore(p)
  PROVE  Quiet /\ UNCHANGED <<wr, rem, pm, was>>
<1>1. p[1] \in Added /\ UNCHANGED <<base, desc, job, wr, rem, pm, was, crossed, late>>
  BY DEF Consumer, ClassStore, Usable
<1>2. CASE Consumer(p)
  BY <1>1, <1>2, QuietConfig, QuietEnable DEF Consumer
<1>3. CASE ClassStore(p)
  <2>1. PICK s : /\ Apply(p, s)
                 /\ \/ \E n \in Periods : s = [pwm[p].state EXCEPT !.period = n] \/ s = [pwm[p].state EXCEPT !.duty = n]
                    \/ \E b \in BOOLEAN : s = [pwm[p].state EXCEPT !.enabled = b]
    BY <1>3, Zenon DEF ClassStore, period_store, duty_cycle_store, enable_store
  <2>2. s \in PwmState
    BY <2>1, StateOf DEF PwmState
  <2> QED
    BY <1>1, <2>1, <2>2, QuietApply
<1> QED
  BY <1>2, <1>3

(* A pointer in use leads to a PWM of a chip that is there. *)
LEMMA PointedAdded ==
  ASSUME PlaceInv, NEW i \in Hw(Rts), desc[i] \in Pwms
  PROVE  desc[i][1] \in Added /\ base[desc[i][1]] + desc[i][2] = i
BY DEF PlaceInv, PointersFit, At

LEMMA WriterAt ==
  ASSUME PwmTypeOK, WritesFit, NEW k \in Writers, wr[k].at # "idle"
  PROVE  wr[k].i \in Hw(Rts) /\ wr[k] \in WrType /\ wr[k].on \in BOOLEAN
BY DEF WritesFit, PwmTypeOK, WrType

LEMMA QuietSettings ==
  ASSUME PwmTypeOK, PlaceInv, WritesFit, NEW k \in Writers, SettingsConfig(k) \/ SettingsSwitch(k)
  PROVE  Quiet /\ UNCHANGED <<rem, pm, was>>
<1>1. wr[k].at # "idle" /\ UNCHANGED <<base, desc, job, rem, pm, was, crossed, late>>
  BY DEF SettingsConfig, SettingsSwitch, Now
<1>2. wr[k].i \in Hw(Rts) /\ wr[k].on \in BOOLEAN
  BY <1>1, WriterAt
<1>3. CASE desc[wr[k].i] \in Pwms
  <2>1. desc[wr[k].i][1] \in Added
    BY <1>2, <1>3, PointedAdded
  <2>2. pwm_config(desc[wr[k].i]) \/ pwm_enable(desc[wr[k].i], wr[k].on)
    BY <1>3 DEF SettingsConfig, SettingsSwitch
  <2> QED
    BY <1>1, <1>2, <1>3, <2>1, <2>2, QuietConfig, QuietEnable
<1>4. CASE desc[wr[k].i] \notin Pwms
  BY <1>1, <1>4, QuietStill DEF SettingsConfig, SettingsSwitch
<1> QED
  BY <1>3, <1>4

(* Switching one output: its record and registers, and no other. *)
Switched(i, on, remember) ==
  LET p == <<Rts, i>>
      new == [pwm[p].state EXCEPT !.enabled = on]
  IN  /\ reg'[p] = pwm_apply_state(reg[p], pwm[p].state, new)
      /\ pwm'[p].state = Applied(pwm[p].state, new) /\ pwm'[p].suspend = remember
      /\ \A q \in Pwms : q # p => pwm'[q] = pwm[q] /\ reg'[q] = reg[q]

LEMMA SwitchStep ==
  ASSUME PwmTypeOK, Rts \in Added, NEW i \in Hw(Rts), NEW on \in BOOLEAN, NEW b \in BOOLEAN, SwitchTo(i, on, b),
         UNCHANGED <<base, desc, job, crossed, late>>
  PROVE  Quiet /\ Switched(i, on, b)
<1> DEFINE p == <<Rts, i>>
<1>1. p \in Pwms /\ p[1] \in Added
  BY RtsNumbers, PwmIs
<1>2. pwm \in [Pwms -> PwmType] /\ reg \in [Pwms -> RegType]
  BY DEF PwmTypeOK
<1>3. pwm[p] \in PwmType /\ pwm[p].state \in PwmState /\ reg[p] \in RegType
  BY <1>1, StateOf
<1> DEFINE new == [pwm[p].state EXCEPT !.enabled = on]
<1>4. new \in PwmState
  BY <1>3 DEF PwmState
<1> DEFINE s == Applied(pwm[p].state, new)
           g == pwm_apply_state(reg[p], pwm[p].state, new)
           r == [pwm[p] EXCEPT !.state = s, !.suspend = b]
<1>5. pwm' = [pwm EXCEPT ![p] = r] /\ reg' = [reg EXCEPT ![p] = g]
  BY DEF SwitchTo
<1>6. s \in PwmState /\ g \in RegType
  BY <1>3, <1>4, AppliedType
<1>7. r \in PwmType /\ Claim(r, pwm[p].requested, pwm[p].exported, pwm[p].child) /\ r.state = s /\ r.suspend = b
  <2>1. \A t \in PwmState : [pwm[p] EXCEPT !.state = t, !.suspend = b] \in PwmType
    BY <1>3 DEF PwmType
  <2>2. \A t : LET x == [pwm[p] EXCEPT !.state = t, !.suspend = b] IN
          Claim(x, pwm[p].requested, pwm[p].exported, pwm[p].child) /\ x.state = t /\ x.suspend = b
    BY <1>3 DEF PwmType, Claim
  <2> QED
    BY <1>6, <2>1, <2>2
<1> HIDE DEF s, g, r, p
<1>8. \A q \in Pwms : q # p => pwm'[q] = pwm[q] /\ reg'[q] = reg[q]
  BY <1>2, <1>5
<1>9. pwm'[p] = r /\ reg'[p] = g
  BY <1>1, <1>2, <1>5
<1>10. pwm' \in [Pwms -> PwmType] /\ reg' \in [Pwms -> RegType]
  BY <1>2, <1>5, <1>6, <1>7
<1>11. SameClaims
  BY <1>7, <1>8, <1>9 DEF SameClaims, Claim
<1>12. Moves(p)
  BY <1>1, <1>4, <1>7, <1>9 DEF Moves, s, g
<1>13. Quiet
  BY <1>1, <1>8, <1>10, <1>11, <1>12 DEF Quiet, Moves
<1>14. Switched(i, on, b)
  BY <1>7, <1>8, <1>9 DEF Switched, s, g, p
<1> QED
  BY <1>13, <1>14

LEMMA ChildThere ==
  ASSUME PwmTypeOK, PlaceInv, NEW i \in Hw(Rts), Child(i)
  PROVE  Rts \in Added
<1>1. <<Rts, i>> \in Pwms /\ <<Rts, i>>[1] = Rts
  BY RtsNumbers, PwmIs
<1> QED
  BY <1>1 DEF Child, PlaceInv, Present, Fresh

(* One step of the loops of the suspend and of the resume: the PWM it is   *)
(* at is switched or passed over.                                          *)
PmLoop == pwm_class_suspend \/ pwm_class_resume_npwm
LEMMA LoopStep ==
  ASSUME PwmTypeOK, PlaceInv, PmLoop, pm.at \in Hw(Rts)
  PROVE  /\ Quiet /\ UNCHANGED <<wr, rem, was>>
         /\ \/ ~Child(pm.at) /\ pwm' = pwm /\ reg' = reg /\ pm' = [pm EXCEPT !.at = @ + 1]
            \/ /\ Child(pm.at) /\ pm.phase = "suspend"
               /\ Switched(pm.at, FALSE, pwm[<<Rts, pm.at>>].state.enabled)
               /\ pm' = IF Valid(pwm[<<Rts, pm.at>>].state) THEN [pm EXCEPT !.at = @ + 1]
                        ELSE [phase |-> "resume", at |-> 0, end |-> pm.at]
            \/ /\ Child(pm.at) /\ pm.phase = "resume"
               /\ Switched(pm.at, pwm[<<Rts, pm.at>>].suspend, pwm[<<Rts, pm.at>>].suspend)
               /\ pm' = IF Valid(pwm[<<Rts, pm.at>>].state) THEN [pm EXCEPT !.at = @ + 1] ELSE [pm EXCEPT !.at = pm.end]
<1>1. UNCHANGED <<base, desc, job, wr, rem, was, crossed, late>>
  BY DEF PmLoop, pwm_class_suspend, pwm_class_resume_npwm
<1>2. <<Rts, pm.at>> \in Pwms
  BY RtsNumbers, PwmIs
<1>3. pwm[<<Rts, pm.at>>].state.enabled \in BOOLEAN /\ pwm[<<Rts, pm.at>>].suspend \in BOOLEAN
  BY <1>2, StateOf DEF PwmType, PwmState
<1>4. CASE ~Child(pm.at)
  <2>1. pwm' = pwm /\ reg' = reg /\ pm' = [pm EXCEPT !.at = @ + 1]
    BY <1>4 DEF PmLoop, pwm_class_suspend, pwm_class_resume_npwm
  <2> QED
    BY <1>1, <1>4, <2>1, QuietStill
<1>5. CASE Child(pm.at) /\ pwm_class_suspend
  <2>1. /\ SwitchTo(pm.at, FALSE, pwm[<<Rts, pm.at>>].state.enabled) /\ pm.phase = "suspend"
        /\ pm' = IF Valid(pwm[<<Rts, pm.at>>].state) THEN [pm EXCEPT !.at = @ + 1]
                 ELSE [phase |-> "resume", at |-> 0, end |-> pm.at]
    BY <1>5 DEF pwm_class_suspend
  <2>2. Rts \in Added
    BY <1>5, ChildThere
  <2>3. Quiet /\ Switched(pm.at, FALSE, pwm[<<Rts, pm.at>>].state.enabled)
    BY <1>1, <1>3, <2>1, <2>2, SwitchStep
  <2> QED
    BY <1>1, <1>5, <2>1, <2>3
<1>6. CASE Child(pm.at) /\ pwm_class_resume_npwm
  <2>1. /\ SwitchTo(pm.at, pwm[<<Rts, pm.at>>].suspend, pwm[<<Rts, pm.at>>].suspend) /\ pm.phase = "resume"
        /\ pm' = IF Valid(pwm[<<Rts, pm.at>>].state) THEN [pm EXCEPT !.at = @ + 1] ELSE [pm EXCEPT !.at = pm.end]
    BY <1>6 DEF pwm_class_resume_npwm
  <2>2. Rts \in Added
    BY <1>6, ChildThere
  <2>3. Quiet /\ Switched(pm.at, pwm[<<Rts, pm.at>>].suspend, pwm[<<Rts, pm.at>>].suspend)
    BY <1>1, <1>3, <2>1, <2>2, SwitchStep
  <2> QED
    BY <1>1, <1>6, <2>1, <2>3
<1> QED
  BY <1>4, <1>5, <1>6 DEF PmLoop

-----------------------------------------------------------------------------
(* Every step keeps the types. *)
PwmInv == PwmTypeOK /\ PlaceInv /\ HoldInv /\ RegInv /\ PmInv
(* The writes to the settings, without the two that change an output. *)
Writes(k) ==
  \/ \E i \in Hw(Rts) : request_store(k, i) \/ SettingsEnable(k, i)
  \/ pwm_request(k) \/ RequestStored(k) \/ pwm_free(k) \/ RequestForgotten(k)
Claims(p) ==
  \/ pwm_get(p) \/ pwm_put(p) \/ export_store(p) \/ ExportFlag(p) \/ pwm_export_child(p)
  \/ unexport_store(p) \/ UnexportRest(p)
Pauses == Suspend \/ Asleep \/ Thaw

LEMMA NextIs ==
  ASSUME PwmNext
  PROVE  \/ \E c \in Chips : \/ pwmchip_add_with_polarity(c)
                             \/ Remove(c) \/ pwmchip_sysfs_unexport(c) \/ RemoveRefused(c) \/ pwmchip_remove(c)
         \/ RemoveFiles
         \/ \E p \in Pwms : Claims(p) \/ Consumer(p) \/ ClassStore(p)
         \/ \E k \in Writers : Writes(k) \/ SettingsConfig(k) \/ SettingsSwitch(k)
         \/ Pauses \/ PmLoop
BY Zenon DEF PwmNext, Claims, Writes, Pauses, PmLoop

LEMMA TypeClaim ==
  ASSUME PwmTypeOK, NEW p \in Pwms, OneClaim(p),
         rem' \in [Chips -> [at : {"no", "unexport", "files", "refused"}, i : Nat]]
  PROVE  PwmTypeOK'
<1>1. PICK r, j : ClaimTo(p, r, j)
  BY DEF OneClaim
<1>2. pwm' \in [Pwms -> PwmType] /\ job' \in [Pwms -> JobType]
  BY <1>1 DEF ClaimTo, PwmTypeOK, JobType
<1> QED
  BY <1>2 DEF OneClaim, PwmTypeOK, JobType

LEMMA TypeAdd ==
  ASSUME PwmTypeOK, NEW c \in Chips, pwmchip_add_with_polarity(c)
  PROVE  PwmTypeOK'
<1>1. PICK b \in alloc_pwms(NPwm[c]) : base' = [base EXCEPT ![c] = b]
  BY DEF pwmchip_add_with_polarity
<1>2. b \in 0..(MAX_PWMS - NPwm[c]) /\ NPwm[c] \in Nat /\ MAX_PWMS \in Nat
  BY ChipsAssumption DEF alloc_pwms
<1>3. b \in 0..MAX_PWMS
  BY <1>2
<1>4. base' \in [Chips -> 0..MAX_PWMS \cup {None}]
  BY <1>1, <1>3 DEF PwmTypeOK
<1> QED
  BY <1>4 DEF PwmTypeOK, pwmchip_add_with_polarity

LEMMA TypeRemoval ==
  ASSUME PwmTypeOK, NEW c \in Chips, Remove(c) \/ RemoveRefused(c) \/ pwmchip_remove(c) \/ RemoveFiles
  PROVE  PwmTypeOK'
<1> DEFINE RemType == [Chips -> [at : {"no", "unexport", "files", "refused"}, i : Nat]]
<1>0. Rts \in Chips /\ rem \in RemType /\ reg \in [Pwms -> RegType] /\ pwm \in [Pwms -> PwmType]
  BY ChipsAssumption DEF PwmTypeOK
<1>1. CASE Remove(c)
  <2>1. rem' \in RemType
    BY <1>0, <1>1 DEF Remove
  <2>2. \A p \in Pwms : [reg[p] EXCEPT !.en = FALSE] \in RegType
    BY <1>0 DEF RegType
  <2>3. reg' \in [Pwms -> RegType]
    BY <1>0, <1>1, <2>2 DEF Remove
  <2> QED
    BY <1>1, <2>1, <2>3 DEF Remove, PwmTypeOK
<1>2. CASE RemoveRefused(c)
  <2>1. rem' \in RemType
    BY <1>0, <1>2 DEF RemoveRefused
  <2> QED
    BY <1>2, <2>1 DEF RemoveRefused, PwmTypeOK
<1>3. CASE pwmchip_remove(c)
  <2>1. rem' \in RemType
    BY <1>0, <1>3 DEF pwmchip_remove, Stays
  <2>2. base' \in [Chips -> 0..MAX_PWMS \cup {None}]
    BY <1>3 DEF pwmchip_remove, PwmTypeOK
  <2>3. pwm' \in [Pwms -> PwmType]
    BY <1>0, <1>3, FreshType DEF pwmchip_remove
  <2>4. desc' \in [Hw(Rts) -> Pwms \cup {None, Gone}]
    BY <1>3 DEF pwmchip_remove, PwmTypeOK, Cut
  <2>5. wr' \in [Writers -> WrType]
    <3>1. \A k \in Writers : wr[k] \in WrType
      BY DEF PwmTypeOK
    <3>2. \A k \in Writers : Cut(c, wr[k].p) \in Pwms \cup {None, Gone}
      BY <3>1 DEF WrType, Cut
    <3>3. \A w \in WrType, q \in Pwms \cup {None, Gone} : [w EXCEPT !.p = q] \in WrType
      BY DEF WrType
    <3>4. wr' = [k \in Writers |-> [wr[k] EXCEPT !.p = Cut(c, wr[k].p)]]
      BY <1>3 DEF pwmchip_remove
    <3>5. \A k \in Writers : [wr[k] EXCEPT !.p = Cut(c, wr[k].p)] \in WrType
      BY <3>1, <3>2, <3>3
    <3> QED
      BY <3>4, <3>5
  <2>6. late' \subseteq Pwms /\ UNCHANGED <<reg, job, pm, was, crossed>>
    BY <1>3 DEF pwmchip_remove, PwmTypeOK
  <2> QED
    BY <2>1, <2>2, <2>3, <2>4, <2>5, <2>6 DEF PwmTypeOK
<1>4. CASE RemoveFiles
  <2>1. rem' \in RemType
    BY <1>0, <1>4 DEF RemoveFiles, Stays
  <2>2. desc' \in [Hw(Rts) -> Pwms \cup {None, Gone}]
    BY <1>4 DEF RemoveFiles
  <2> QED
    BY <1>4, <2>1, <2>2 DEF RemoveFiles, PwmTypeOK
<1> QED
  BY <1>1, <1>2, <1>3, <1>4

LEMMA IdleType == Idle \in WrType /\ Idle.at = "idle" /\ Idle.i = 0 /\ Idle.p = None
BY DEF Idle, WrType

(* The write that Begin starts. *)
LEMMA BeginIs ==
  ASSUME PwmTypeOK, NEW k \in Writers, NEW i \in Hw(Rts), request_store(k, i) \/ SettingsEnable(k, i)
  PROVE  \E w \in WrType :
           /\ Begin(k, w) /\ w.i = i
           /\ \/ w.at = "request" /\ desc[i] = None /\ w.p = None
              \/ w.at = "free" /\ w.p = desc[i]
              \/ w.at \in {"config", "switch"} /\ desc[i] # None /\ w.p = None
<1>0. desc[i] \in Pwms \cup {None, Gone}
  BY DEF PwmTypeOK
<1>1. CASE desc[i] = None /\ Begin(k, [Idle EXCEPT !.at = "request", !.i = i])
  <2> DEFINE w == [Idle EXCEPT !.at = "request", !.i = i]
  <2>1. w \in WrType /\ w.i = i /\ w.at = "request" /\ w.p = None
    BY DEF Idle, WrType
  <2> HIDE DEF w
  <2>2. Begin(k, w)
    BY <1>1 DEF w
  <2> QED
    BY <1>1, <2>1, <2>2
<1>2. CASE Begin(k, [Idle EXCEPT !.at = "free", !.i = i, !.p = desc[i]])
  <2> DEFINE w == [Idle EXCEPT !.at = "free", !.i = i, !.p = desc[i]]
  <2>1. w \in WrType /\ w.i = i /\ w.at = "free" /\ w.p = desc[i]
    BY <1>0 DEF Idle, WrType
  <2> HIDE DEF w
  <2>2. Begin(k, w)
    BY <1>2 DEF w
  <2> QED
    BY <1>2, <2>1, <2>2
<1>3. CASE SettingsEnable(k, i)
  <2>1. PICK b \in BOOLEAN : Begin(k, [Idle EXCEPT !.at = IF b THEN "config" ELSE "switch", !.i = i, !.on = b])
    BY <1>3 DEF SettingsEnable
  <2> DEFINE w == [Idle EXCEPT !.at = IF b THEN "config" ELSE "switch", !.i = i, !.on = b]
  <2>2. w \in WrType /\ w.i = i /\ w.at \in {"config", "switch"} /\ w.p = None
    BY DEF Idle, WrType
  <2> HIDE DEF w
  <2>3. Begin(k, w)
    BY <2>1 DEF w
  <2>4. desc[i] # None
    BY <1>3 DEF SettingsEnable
  <2> QED
    BY <2>2, <2>3, <2>4
<1> QED
  BY <1>1, <1>2, <1>3 DEF request_store

LEMMA BeginDoes ==
  ASSUME PwmTypeOK, NEW k \in Writers, NEW w \in WrType, Begin(k, w), w.i \in Hw(Rts)
  PROVE  /\ wr[k] = Idle /\ wr' = [wr EXCEPT ![k] = w] /\ crossed \subseteq crossed'
         /\ crossed' \subseteq crossed \cup {w.i}
         /\ (\E l \in Writers : wr[l].at # "idle" /\ wr[l].i = w.i) => w.i \in crossed'
         /\ UNCHANGED <<base, pwm, reg, desc, job, rem, pm, was, late>>
<1>1. \A l \in Writers : wr[l].at # "idle" => wr[l] # Idle
  BY IdleType
<1> QED
  BY <1>1 DEF Begin

LEMMA PwmToDevice ==
  ASSUME PwmTypeOK, NEW n \in Nat, NEW p \in pwm_to_device(n)
  PROVE  p \in Pwms /\ p[1] \in Usable /\ base[p[1]] + p[2] = n
<1>1. PICK c \in Usable : n \in Numbers(c) /\ p = <<c, n - base[c]>>
  BY DEF pwm_to_device
<1>2. c \in Chips /\ base[c] \in Nat /\ NPwm[c] \in Nat
  BY ChipsAssumption DEF Usable, Added, PwmTypeOK
<1>3. n - base[c] \in Hw(c) /\ base[c] + (n - base[c]) = n
  BY <1>1, <1>2 DEF Numbers, Hw
<1> QED
  BY <1>1, <1>2, <1>3, PwmIs

LEMMA TypeWrites ==
  ASSUME PwmTypeOK, WritesFit, NEW k \in Writers, Writes(k)
  PROVE  PwmTypeOK'
<1>0. wr \in [Writers -> WrType] /\ pwm \in [Pwms -> PwmType] /\ wr[k] \in WrType
  BY DEF PwmTypeOK
<1>1. ASSUME NEW i \in Hw(Rts), request_store(k, i) \/ SettingsEnable(k, i) PROVE PwmTypeOK'
  <2>1. PICK w \in WrType : Begin(k, w) /\ w.i = i
    BY <1>1, BeginIs
  <2>2. wr' \in [Writers -> WrType] /\ crossed' \subseteq Hw(Rts) /\ UNCHANGED <<base, pwm, reg, desc, job, rem, pm, was, late>>
    BY <1>0, <2>1, BeginDoes DEF PwmTypeOK
  <2> QED
    BY <2>2 DEF PwmTypeOK
<1>2. CASE pwm_request(k)
  <2>0. wr[k].i \in Nat /\ UNCHANGED <<base, reg, desc, job, rem, pm, was, crossed, late>>
    BY <1>0, <1>2, RtsNumbers DEF WrType, pwm_request
  <2>1. ASSUME NEW p \in pwm_to_device(wr[k].i), pwm_device_request(p, "settings"), wr' = [wr EXCEPT ![k].at = "store", ![k].p = p]
        PROVE  pwm' \in [Pwms -> PwmType] /\ wr' \in [Writers -> WrType]
    <3>1. p \in Pwms
      BY <2>0, PwmToDevice
    <3>2. [pwm[p] EXCEPT !.requested = "settings"] \in PwmType
      BY <1>0, <3>1 DEF PwmType
    <3>3. [wr[k] EXCEPT !.at = "store", !.p = p] \in WrType
      BY <1>0, <3>1 DEF WrType
    <3> QED
      BY <1>0, <2>1, <3>2, <3>3 DEF pwm_device_request
  <2>2. pwm' \in [Pwms -> PwmType] /\ wr' \in [Writers -> WrType]
    BY <1>0, <1>2, <2>1, IdleType DEF pwm_request
  <2> QED
    BY <2>0, <2>2 DEF PwmTypeOK
<1>3. CASE RequestStored(k)
  <2>1. wr' \in [Writers -> WrType] /\ desc' \in [Hw(Rts) -> Pwms \cup {None, Gone}]
    BY <1>0, <1>3, IdleType DEF RequestStored, PwmTypeOK, WrType
  <2> QED
    BY <1>3, <2>1 DEF RequestStored, PwmTypeOK
<1>4. CASE pwm_free(k)
  <2>1. \A p \in Pwms : Put(pwm[p]) \in PwmType
    BY <1>0, RecordType
  <2>2. pwm' \in [Pwms -> PwmType]
    BY <1>0, <1>4, <2>1 DEF pwm_free
  <2>3. [wr[k] EXCEPT !.at = "forget", !.p = None] \in WrType
    BY <1>0 DEF WrType
  <2>4. wr' \in [Writers -> WrType]
    BY <1>0, <1>4, <2>3 DEF pwm_free
  <2> QED
    BY <1>4, <2>2, <2>4 DEF pwm_free, PwmTypeOK
<1>5. CASE RequestForgotten(k)
  <2>1. wr' \in [Writers -> WrType] /\ desc' \in [Hw(Rts) -> Pwms \cup {None, Gone}]
    BY <1>0, <1>5, IdleType DEF RequestForgotten, PwmTypeOK
  <2> QED
    BY <1>5, <2>1 DEF RequestForgotten, PwmTypeOK
<1> QED
  BY <1>1, <1>2, <1>3, <1>4, <1>5 DEF Writes

LEMMA TypeQuiet ==
  ASSUME PwmTypeOK, Quiet, wr' \in [Writers -> WrType], UNCHANGED rem,
         pm' \in [phase : {"awake", "suspend", "resume"}, at : Nat, end : Nat],
         was' \in [Hw(Rts) -> {None} \cup [state : PwmState, reg : RegType]]
  PROVE  PwmTypeOK'
BY DEF Quiet, PwmTypeOK

LEMMA PmAt ==
  ASSUME PwmTypeOK, PmInv, PmLoop
  PROVE  pm.at \in Hw(Rts) /\ PmFits /\ pm # Awake /\ pm.at < pm.end
<1>0. pm.phase \in {"suspend", "resume"} /\ pm.at < pm.end
  BY DEF PmLoop, pwm_class_suspend, pwm_class_resume_npwm
<1>1. pm # Awake
  <2>1. Awake.phase = "awake"
    BY DEF Awake
  <2> QED
    BY <1>0, <2>1
<1>2. pm.at \in Nat /\ pm.end \in Nat /\ NPwm[Rts] \in Nat
  BY ChipsAssumption DEF PwmTypeOK
<1>3. pm.at < pm.end /\ PmFits
  BY <1>0, <1>1 DEF PmInv
<1> QED
  BY <1>1, <1>2, <1>3 DEF Hw, PmFits

LEMMA PwmTypeStep ==
  ASSUME PwmInv, [PwmNext]_pwmVars
  PROVE  PwmTypeOK'
<1> DEFINE PmType == [phase : {"awake", "suspend", "resume"}, at : Nat, end : Nat]
<1>0. /\ PwmTypeOK /\ PlaceInv /\ HoldInv /\ RegInv /\ PmInv /\ WritesFit /\ RemovalsFit
      /\ wr \in [Writers -> WrType] /\ pm \in PmType /\ was \in [Hw(Rts) -> {None} \cup [state : PwmState, reg : RegType]]
  BY DEF PwmInv, PwmTypeOK, HoldInv, PlaceInv
<1>1. CASE UNCHANGED pwmVars
  BY <1>0, <1>1 DEF pwmVars, PwmTypeOK
<1>2. ASSUME NEW c \in Chips, pwmchip_add_with_polarity(c) PROVE PwmTypeOK'
  BY <1>0, <1>2, TypeAdd
<1>3. ASSUME NEW c \in Chips, Remove(c) \/ RemoveRefused(c) \/ pwmchip_remove(c) \/ RemoveFiles PROVE PwmTypeOK'
  BY <1>0, <1>3, TypeRemoval
<1>4. ASSUME NEW c \in Chips, pwmchip_sysfs_unexport(c) PROVE PwmTypeOK'
  <2>1. /\ <<c, rem[c].i>> \in Pwms /\ OneClaim(<<c, rem[c].i>>)
        /\ rem' = [rem EXCEPT ![c].i = @ + 1]
    BY <1>0, <1>4, ClaimRemoval
  <2>2. rem' \in [Chips -> [at : {"no", "unexport", "files", "refused"}, i : Nat]]
    BY <1>0, <2>1 DEF PwmTypeOK
  <2> QED
    BY <1>0, <2>1, <2>2, TypeClaim
<1>5. ASSUME NEW p \in Pwms, Claims(p) PROVE PwmTypeOK'
  <2>1. OneClaim(p) /\ UNCHANGED rem
    BY <1>0, <1>5, ClaimStep DEF Claims
  <2>2. rem' \in [Chips -> [at : {"no", "unexport", "files", "refused"}, i : Nat]]
    BY <1>0, <2>1 DEF PwmTypeOK
  <2> QED
    BY <1>0, <2>1, <2>2, TypeClaim
<1>6. ASSUME NEW p \in Pwms, Consumer(p) \/ ClassStore(p) PROVE PwmTypeOK'
  <2>1. Quiet /\ UNCHANGED <<wr, rem, pm, was>>
    BY <1>0, <1>6, QuietConsumer
  <2> QED
    BY <1>0, <2>1, TypeQuiet
<1>7. ASSUME NEW k \in Writers, Writes(k) PROVE PwmTypeOK'
  BY <1>0, <1>7, TypeWrites
<1>8. ASSUME NEW k \in Writers, SettingsConfig(k) \/ SettingsSwitch(k) PROVE PwmTypeOK'
  <2>1. Quiet /\ UNCHANGED <<rem, pm, was>>
    BY <1>0, <1>8, QuietSettings
  <2>2. [wr[k] EXCEPT !.at = "switch"] \in WrType
    BY <1>0 DEF WrType
  <2>3. wr' \in [Writers -> WrType]
    BY <1>0, <1>8, <2>2, IdleType DEF SettingsConfig, SettingsSwitch
  <2> QED
    BY <1>0, <2>1, <2>3, TypeQuiet
<1>9. CASE Pauses
  <2>1. Quiet /\ UNCHANGED <<wr, rem>>
    BY <1>0, <1>9, QuietStill DEF Pauses, Suspend, Asleep, Thaw
  <2>2. pm' \in PmType
    BY <1>0, <1>9, ChipsAssumption DEF Pauses, Suspend, Asleep, Thaw, Awake
  <2>3. was' \in [Hw(Rts) -> {None} \cup [state : PwmState, reg : RegType]]
    <3>1. \A i \in Hw(Rts) : Output(i) \in [state : PwmState, reg : RegType]
      <4>1. \A i \in Hw(Rts) : <<Rts, i>> \in Pwms
        BY RtsNumbers, PwmIs
      <4> QED
        BY <1>0, <4>1, StateOf DEF Output
    <3> QED
      BY <1>0, <1>9, <3>1 DEF Pauses, Suspend, Asleep, Thaw
  <2> QED
    BY <1>0, <2>1, <2>2, <2>3, TypeQuiet
<1>10. CASE PmLoop
  <2>1. pm.at \in Hw(Rts)
    BY <1>0, <1>10, PmAt
  <2>2. Quiet /\ UNCHANGED <<wr, rem, was>>
    BY <1>0, <1>10, <2>1, LoopStep
  <2>3. /\ [pm EXCEPT !.at = @ + 1] \in PmType /\ [pm EXCEPT !.at = pm.end] \in PmType
        /\ [phase |-> "resume", at |-> 0, end |-> pm.at] \in PmType
    BY <1>0
  <2>4. pm' \in PmType
    BY <1>0, <1>10, <2>1, <2>3, LoopStep
  <2> QED
    BY <1>0, <2>2, <2>4, TypeQuiet
<1>11. CASE RemoveFiles
  BY <1>3, <1>11, ChipsAssumption
<1> QED
  BY <1>1, <1>2, <1>3, <1>4, <1>5, <1>6, <1>7, <1>8, <1>9, <1>10, <1>11, NextIs

-----------------------------------------------------------------------------
(* Every step keeps things in their place. *)
LEMMA AddDoes ==
  ASSUME PwmTypeOK, NEW c \in Chips, pwmchip_add_with_polarity(c)
  PROVE  /\ c \notin Added /\ rem[c] = Stays /\ Added' = Added \cup {c}
         /\ \A d \in Added : base'[d] = base[d] /\ Numbers(d)' = Numbers(d)
         /\ \A d \in Added : Numbers(d) \cap Numbers(c)' = {}
         /\ UNCHANGED <<pwm, reg, desc, job, wr, rem, pm, was, crossed, late>>
<1>1. PICK b \in alloc_pwms(NPwm[c]) : base' = [base EXCEPT ![c] = b]
  BY DEF pwmchip_add_with_polarity
<1>2. b \in 0..(MAX_PWMS - NPwm[c]) /\ NPwm[c] \in Nat /\ MAX_PWMS \in Nat /\ \A d \in Added : Numbers(d) \cap (b .. (b + NPwm[c] - 1)) = {}
  BY ChipsAssumption DEF alloc_pwms
<1>3. b # None
  <2>1. b \in 0..MAX_PWMS
    BY <1>2
  <2> QED
    BY <2>1, Strings
<1>4. base[c] = None /\ rem[c] = Stays /\ UNCHANGED <<pwm, reg, desc, job, wr, rem, pm, was, crossed, late>>
  BY DEF pwmchip_add_with_polarity
<1>5. base'[c] = b /\ \A d \in Chips : d # c => base'[d] = base[d]
  BY <1>1 DEF PwmTypeOK
<1>6. Added' = Added \cup {c} /\ c \notin Added
  BY <1>3, <1>4, <1>5 DEF Added
<1>7. \A d \in Added : base'[d] = base[d] /\ Numbers(d)' = Numbers(d)
  BY <1>5, <1>6 DEF Added, Numbers
<1>8. \A d \in Added : Numbers(d) \cap Numbers(c)' = {}
  BY <1>2, <1>5 DEF Numbers
<1> QED
  BY <1>4, <1>6, <1>7, <1>8

LEMMA PlaceAdd ==
  ASSUME PwmTypeOK, PlaceInv, NEW c \in Chips, pwmchip_add_with_polarity(c)
  PROVE  PlaceInv'
<1>1. /\ c \notin Added /\ rem[c] = Stays /\ Added' = Added \cup {c}
      /\ \A d \in Added : base'[d] = base[d] /\ Numbers(d)' = Numbers(d)
      /\ \A d \in Added : Numbers(d) \cap Numbers(c)' = {}
      /\ UNCHANGED <<pwm, reg, desc, job, wr, rem, pm, was, crossed, late>>
  BY AddDoes
<1>2. Present'
  BY <1>1 DEF PlaceInv, Present
<1>3. PointersFit'
  <2>1. \A p, i : At(p, i) => At(p, i)'
    BY <1>1 DEF At
  <2>2. (\A i \in Hw(Rts) : At(desc[i], i)') /\ \A k \in Writers : At(wr[k].p, wr[k].i)'
    BY <1>1, <2>1 DEF PlaceInv, PointersFit, At
  <2> QED
    BY <1>1, <2>2 DEF PointersFit
<1>4. ChipsApart'
  BY <1>1 DEF PlaceInv, ChipsApart
<1>5. RemovalsFit'
  BY <1>1 DEF PlaceInv, RemovalsFit, Stays
<1> QED
  BY <1>2, <1>3, <1>4, <1>5 DEF PlaceInv

LEMMA SameAdded ==
  ASSUME UNCHANGED base
  PROVE  Added' = Added /\ (ChipsApart => ChipsApart') /\ \A p, i : At(p, i) => At(p, i)'
BY DEF Added, ChipsApart, At, Numbers

LEMMA PlaceClaim ==
  ASSUME PwmTypeOK, PlaceInv, NEW p \in Pwms, OneClaim(p), RemovalsFit'
  PROVE  PlaceInv'
<1>1. p[1] \in Added /\ UNCHANGED <<base, desc, wr>>
  BY Strings DEF OneClaim, PlaceInv, Present
<1>2. Added' = Added /\ ChipsApart'
  BY <1>1, SameAdded DEF PlaceInv
<1>3. PointersFit'
  BY <1>1 DEF PlaceInv, PointersFit, At, Added
<1>4. \A q \in Pwms : q # p => pwm'[q] = pwm[q] /\ job'[q] = job[q]
  BY DEF OneClaim, ClaimTo, PwmTypeOK
<1>5. Present'
  BY <1>1, <1>2, <1>4 DEF PlaceInv, Present
<1> QED
  BY <1>2, <1>3, <1>5 DEF PlaceInv

LEMMA PlaceUnexport ==
  ASSUME PwmTypeOK, PlaceInv, NEW c \in Chips, pwmchip_sysfs_unexport(c)
  PROVE  PlaceInv'
<1>1. /\ <<c, rem[c].i>> \in Pwms /\ OneClaim(<<c, rem[c].i>>)
      /\ rem' = [rem EXCEPT ![c].i = @ + 1] /\ rem[c].at = "unexport"
  BY ClaimRemoval DEF PlaceInv
<1>2. \A d \in Chips : rem'[d].at = rem[d].at /\ (d # c => rem'[d] = rem[d])
  BY <1>1 DEF PwmTypeOK
<1>3. Added' = Added
  BY <1>1, SameAdded DEF OneClaim
<1>4. RemovalsFit'
  BY <1>1, <1>2, <1>3 DEF PlaceInv, RemovalsFit
<1> QED
  BY <1>1, <1>4, PlaceClaim

LEMMA PlaceClaims ==
  ASSUME PwmTypeOK, PlaceInv, NEW p \in Pwms, Claims(p)
  PROVE  PlaceInv'
<1>1. OneClaim(p) /\ UNCHANGED rem
  BY ClaimStep DEF Claims
<1>2. Added' = Added
  BY <1>1, SameAdded DEF OneClaim
<1>3. RemovalsFit'
  BY <1>1, <1>2 DEF PlaceInv, RemovalsFit
<1> QED
  BY <1>1, <1>3, PlaceClaim

(* What a removal does to the pointers of a chip and to its PWMs. *)
LEMMA CutIs ==
  ASSUME NEW c \in Chips, NEW p, p \notin Pwms \/ p[1] # c
  PROVE  Cut(c, p) = p
BY ChipsAssumption DEF Cut, Pwms, Hw

LEMMA CutGone ==
  ASSUME NEW c \in Chips, NEW p \in Pwms, p[1] = c
  PROVE  Cut(c, p) = Gone
BY PwmOf DEF Cut

LEMMA RemoveDoes ==
  ASSUME PwmTypeOK, NEW c \in Chips, pwmchip_remove(c)
  PROVE  /\ Added' = Added \ {c} /\ \A d \in Chips : d # c => base'[d] = base[d] /\ rem'[d] = rem[d]
         /\ rem[c].at = "unexport" /\ ~Held(c)
         /\ \A p \in Pwms : IF p[1] = c THEN pwm'[p] = Fresh /\ pwm[p].requested = None /\ job[p] = None ELSE pwm'[p] = pwm[p]
         /\ \A i \in Hw(Rts) : desc'[i] = Cut(c, desc[i])
         /\ \A k \in Writers : wr'[k] = [wr[k] EXCEPT !.p = Cut(c, @)]
         /\ \A k \in Writers : wr'[k].at = wr[k].at /\ wr'[k].i = wr[k].i /\ wr'[k].p = Cut(c, wr[k].p)
         /\ rem'[c] = IF c = Rts THEN [at |-> "files", i |-> 0] ELSE Stays
         /\ UNCHANGED <<reg, job, pm, was, crossed>>
         /\ late' = late \cup {p \in Pwms : p[1] = c /\ reg[p].en}
<1>1. \A p \in Pwms : p[1] = c => pwm[p].requested = None /\ job[p] = None
  BY PwmOf DEF pwmchip_remove, ClassGone, Held
<1>2. base \in [Chips -> 0..MAX_PWMS \cup {None}]
  BY DEF PwmTypeOK
<1>3. base' = [base EXCEPT ![c] = None]
  BY DEF pwmchip_remove
<1>4. Added' = Added \ {c} /\ \A d \in Chips : d # c => base'[d] = base[d]
  BY <1>2, <1>3 DEF Added
<1>5. rem'[c] = (IF c = Rts THEN [at |-> "files", i |-> 0] ELSE Stays) /\ \A d \in Chips : d # c => rem'[d] = rem[d]
  BY DEF pwmchip_remove, PwmTypeOK
<1>6. \A k \in Writers : wr'[k] = [wr[k] EXCEPT !.p = Cut(c, @)] /\ wr[k] \in WrType
  BY DEF pwmchip_remove, PwmTypeOK
<1>7. \A k \in Writers : wr'[k].at = wr[k].at /\ wr'[k].i = wr[k].i /\ wr'[k].p = Cut(c, wr[k].p)
  BY <1>6 DEF WrType
<1>8. /\ \A i \in Hw(Rts) : desc'[i] = Cut(c, desc[i])
      /\ \A p \in Pwms : pwm'[p] = IF p[1] = c THEN Fresh ELSE pwm[p]
      /\ UNCHANGED <<reg, job, pm, was, crossed>>
      /\ late' = late \cup {p \in Pwms : p[1] = c /\ reg[p].en}
      /\ rem[c].at = "unexport" /\ ~Held(c)
  BY DEF pwmchip_remove, ClassGone
<1> QED
  BY <1>1, <1>4, <1>5, <1>6, <1>7, <1>8

LEMMA PlaceRemove ==
  ASSUME PwmTypeOK, PlaceInv, NEW c \in Chips, pwmchip_remove(c)
  PROVE  PlaceInv'
<1>1. /\ Added' = Added \ {c} /\ \A d \in Chips : d # c => base'[d] = base[d] /\ rem'[d] = rem[d]
      /\ rem[c].at = "unexport"
      /\ \A p \in Pwms : IF p[1] = c THEN pwm'[p] = Fresh /\ pwm[p].requested = None /\ job[p] = None ELSE pwm'[p] = pwm[p]
      /\ \A i \in Hw(Rts) : desc'[i] = Cut(c, desc[i])
      /\ \A k \in Writers : wr'[k].at = wr[k].at /\ wr'[k].i = wr[k].i /\ wr'[k].p = Cut(c, wr[k].p)
      /\ rem'[c] = IF c = Rts THEN [at |-> "files", i |-> 0] ELSE Stays
      /\ UNCHANGED <<reg, job, pm, was, crossed>>
  BY RemoveDoes
<1>2. Present'
  <2>1. \A p \in Pwms : p[1] \notin Added' => pwm'[p] = Fresh /\ job'[p] = None
    BY <1>1 DEF PlaceInv, Present
  <2> QED
    BY <2>1 DEF Present
<1>3. PointersFit'
  <2> DEFINE AtNext(q, i) == q \in Pwms => q[1] \in Added' /\ base'[q[1]] + q[2] = i
  <2>1. ASSUME NEW p, NEW i, At(p, i) PROVE AtNext(Cut(c, p), i)
    <3>1. CASE p \in Pwms /\ p[1] = c
      <4>1. Cut(c, p) \notin Pwms
        BY <3>1, CutGone, Strings
      <4> QED
        BY <4>1
    <3>2. CASE ~(p \in Pwms /\ p[1] = c)
      <4>1. Cut(c, p) = p
        BY <3>2, CutIs
      <4>2. p \in Pwms => p[1] \in Chips /\ p[1] # c
        BY <3>2, PwmOf
      <4>3. AtNext(p, i)
        BY <1>1, <2>1, <4>2 DEF At
      <4> QED
        BY <4>1, <4>3
    <3> QED
      BY <3>1, <3>2
  <2>2. (\A i \in Hw(Rts) : At(desc[i], i)) /\ \A k \in Writers : At(wr[k].p, wr[k].i)
    BY DEF PlaceInv, PointersFit
  <2>3. \A i \in Hw(Rts) : AtNext(Cut(c, desc[i]), i)
    BY <2>1, <2>2
  <2>4. \A k \in Writers : AtNext(Cut(c, wr[k].p), wr[k].i)
    BY <2>1, <2>2
  <2>5. (\A i \in Hw(Rts) : AtNext(desc'[i], i)) /\ \A k \in Writers : AtNext(wr'[k].p, wr'[k].i)
    BY <1>1, <2>3, <2>4
  <2> QED
    BY <2>5 DEF PointersFit, At
<1>4. ChipsApart'
  <2>1. \A d \in Added' : d \in Added /\ Numbers(d)' = Numbers(d)
    BY <1>1 DEF Numbers, Added
  <2> QED
    BY <2>1 DEF PlaceInv, ChipsApart
<1>5. RemovalsFit'
  <2>1. \A d \in Chips : d # c => (d \in Added <=> d \in Added')
    BY <1>1
  <2>2. rem'[c].at = "no" => rem'[c] = Stays
    BY <1>1
  <2>3. rem'[c].at = "files" => c = Rts /\ c \notin Added'
    BY <1>1 DEF Stays
  <2>4. rem'[c].at \notin {"unexport", "refused"}
    BY <1>1 DEF Stays
  <2>5. \A d \in Chips : d # c => /\ rem'[d].at = "no" => rem'[d] = Stays
                                  /\ rem'[d].at \in {"unexport", "refused"} => d \in Added'
                                  /\ rem'[d].at = "files" => d = Rts /\ d \notin Added'
    BY <1>1, <2>1 DEF PlaceInv, RemovalsFit
  <2> QED
    BY <2>2, <2>3, <2>4, <2>5 DEF RemovalsFit
<1> QED
  BY <1>2, <1>3, <1>4, <1>5 DEF PlaceInv

(* The other steps of a removal change no more than how far it has come,   *)
(* the registers and the pointers of the files that go.                    *)
LEMMA RemovalStep ==
  ASSUME PwmTypeOK, PlaceInv, NEW c \in Chips, Remove(c) \/ RemoveRefused(c) \/ RemoveFiles
  PROVE  /\ UNCHANGED <<base, pwm, job, wr, pm, was, crossed, late>>
         /\ (UNCHANGED desc \/ ((\A i \in Hw(Rts) : desc'[i] = None) /\ \A k \in Writers : wr[k] = Idle))
         /\ RemovalsFit'
<1>0. Rts \in Chips /\ RemovalsFit /\ rem \in [Chips -> [at : {"no", "unexport", "files", "refused"}, i : Nat]]
  BY ChipsAssumption DEF PlaceInv, PwmTypeOK
<1>1. UNCHANGED <<base, pwm, job, wr, pm, was, crossed, late>>
  BY DEF Remove, RemoveRefused, RemoveFiles
<1>2. (UNCHANGED desc \/ ((\A i \in Hw(Rts) : desc'[i] = None) /\ \A k \in Writers : wr[k] = Idle))
  BY DEF Remove, RemoveRefused, RemoveFiles
<1>3. Added' = Added
  BY <1>1, SameAdded
<1>4. CASE Remove(c)
  <2>1. c \in Added /\ rem'[c].at = "unexport" /\ \A d \in Chips : d # c => rem'[d] = rem[d]
    BY <1>0, <1>4 DEF Remove, Usable
  <2> QED
    BY <1>0, <1>1, <1>2, <1>3, <2>1 DEF RemovalsFit
<1>5. CASE RemoveRefused(c)
  <2>1. c \in Added /\ rem'[c].at = "refused" /\ \A d \in Chips : d # c => rem'[d] = rem[d]
    BY <1>0, <1>5 DEF RemoveRefused, ClassGone, RemovalsFit
  <2> QED
    BY <1>0, <1>1, <1>2, <1>3, <2>1 DEF RemovalsFit
<1>6. CASE RemoveFiles
  <2>1. rem'[Rts] = Stays /\ \A d \in Chips : d # Rts => rem'[d] = rem[d]
    BY <1>0, <1>6 DEF RemoveFiles
  <2>2. Stays.at = "no"
    BY DEF Stays
  <2> QED
    BY <1>0, <1>1, <1>2, <1>3, <2>1, <2>2 DEF RemovalsFit
<1> QED
  BY <1>4, <1>5, <1>6

LEMMA PlaceRemoval ==
  ASSUME PwmTypeOK, PlaceInv, NEW c \in Chips, Remove(c) \/ RemoveRefused(c) \/ RemoveFiles
  PROVE  PlaceInv'
<1>1. /\ UNCHANGED <<base, pwm, job, wr>> /\ RemovalsFit'
      /\ UNCHANGED desc \/ \A i \in Hw(Rts) : desc'[i] = None
  BY RemovalStep
<1>2. Added' = Added /\ ChipsApart'
  BY <1>1, SameAdded DEF PlaceInv
<1>3. Present'
  BY <1>1, <1>2 DEF PlaceInv, Present
<1>4. \A i \in Hw(Rts) : At(desc[i], i)'
  BY <1>1, Strings DEF PlaceInv, PointersFit, At, Added
<1>5. \A k \in Writers : At(wr[k].p, wr[k].i)'
  BY <1>1 DEF PlaceInv, PointersFit, At, Added
<1> QED
  BY <1>1, <1>2, <1>3, <1>4, <1>5 DEF PlaceInv, PointersFit, At

(* A step that leaves the chips alone, and whose pointers fit. *)
LEMMA PlacePointers ==
  ASSUME PwmTypeOK, PlaceInv, UNCHANGED <<base, rem, job>>,
         \A q \in Pwms : q[1] \notin Added => pwm'[q] = pwm[q],
         \A i \in Hw(Rts) : At(desc'[i], i), \A k \in Writers : At(wr'[k].p, wr'[k].i)
  PROVE  PlaceInv'
<1>1. Added' = Added /\ ChipsApart'
  BY SameAdded DEF PlaceInv
<1>2. Present' /\ RemovalsFit'
  BY <1>1 DEF PlaceInv, Present, RemovalsFit
<1>3. \A p, i : At(p, i) => At(p, i)'
  BY SameAdded
<1>4. (\A i \in Hw(Rts) : At(desc[i], i)') /\ \A k \in Writers : At(wr[k].p, wr[k].i)'
  BY <1>1 DEF At
<1>5. PointersFit'
  BY <1>4 DEF PointersFit, At
<1> QED
  BY <1>1, <1>2, <1>5 DEF PlaceInv

LEMMA PlaceQuiet ==
  ASSUME PwmTypeOK, PlaceInv, Quiet, UNCHANGED rem, \A k \in Writers : At(wr'[k].p, wr'[k].i)
  PROVE  PlaceInv'
<1>1. \A i \in Hw(Rts) : At(desc'[i], i)
  BY DEF Quiet, PlaceInv, PointersFit
<1> QED
  BY <1>1, PlacePointers DEF Quiet

LEMMA PlaceWrites ==
  ASSUME PwmTypeOK, PlaceInv, WritesFit, NEW k \in Writers, Writes(k)
  PROVE  PlaceInv'
<1>0. /\ wr \in [Writers -> WrType] /\ wr[k] \in WrType /\ Idle.p = None /\ None \notin Pwms
      /\ (\A i \in Hw(Rts) : At(desc[i], i)) /\ \A l \in Writers : At(wr[l].p, wr[l].i)
  BY IdleType, Strings DEF PwmTypeOK, PlaceInv, PointersFit
<1>1. ASSUME NEW i \in Hw(Rts), request_store(k, i) \/ SettingsEnable(k, i) PROVE PlaceInv'
  <2>1. PICK w \in WrType : Begin(k, w) /\ w.i = i /\ (w.p = None \/ w.p = desc[i])
    BY <1>1, BeginIs
  <2>2. UNCHANGED <<base, pwm, desc, job, rem>> /\ wr' = [wr EXCEPT ![k] = w]
    BY <2>1, BeginDoes
  <2>3. At(w.p, w.i)
    BY <1>0, <2>1 DEF At
  <2>4. \A l \in Writers : At(wr'[l].p, wr'[l].i)
    BY <1>0, <2>2, <2>3
  <2> QED
    BY <1>0, <2>2, <2>4, PlacePointers
<1>2. CASE pwm_request(k)
  <2>0. wr[k].i \in Nat /\ UNCHANGED <<base, desc, job, rem>>
    BY <1>0, <1>2, RtsNumbers DEF WrType, pwm_request
  <2>1. ASSUME NEW p \in pwm_to_device(wr[k].i), pwm_device_request(p, "settings"), wr' = [wr EXCEPT ![k].at = "store", ![k].p = p]
        PROVE  PlaceInv'
    <3>1. p \in Pwms /\ p[1] \in Added /\ base[p[1]] + p[2] = wr[k].i
      BY <2>0, PwmToDevice DEF Usable
    <3>2. \A q \in Pwms : q[1] \notin Added => pwm'[q] = pwm[q]
      BY <2>1, <3>1 DEF pwm_device_request, PwmTypeOK
    <3>3. wr'[k].p = p /\ wr'[k].i = wr[k].i /\ \A l \in Writers : l # k => wr'[l] = wr[l]
      BY <1>0, <2>1 DEF WrType
    <3>4. \A l \in Writers : At(wr'[l].p, wr'[l].i)
      BY <1>0, <3>1, <3>3 DEF At
    <3> QED
      BY <1>0, <2>0, <3>2, <3>4, PlacePointers
  <2>2. CASE wr' = [wr EXCEPT ![k] = Idle] /\ UNCHANGED pwm
    <3>1. \A l \in Writers : At(wr'[l].p, wr'[l].i)
      BY <1>0, <2>2 DEF At
    <3> QED
      BY <1>0, <2>0, <2>2, <3>1, PlacePointers
  <2> QED
    BY <1>2, <2>1, <2>2 DEF pwm_request
<1>3. CASE RequestStored(k)
  <2>1. UNCHANGED <<base, pwm, job, rem>> /\ desc' = [desc EXCEPT ![wr[k].i] = wr[k].p] /\ wr' = [wr EXCEPT ![k] = Idle]
    BY <1>3 DEF RequestStored
  <2>2. \A i \in Hw(Rts) : At(desc'[i], i)
    BY <1>0, <2>1 DEF PwmTypeOK
  <2>3. \A l \in Writers : At(wr'[l].p, wr'[l].i)
    BY <1>0, <2>1 DEF At
  <2> QED
    BY <2>1, <2>2, <2>3, PlacePointers
<1>4. CASE pwm_free(k)
  <2>1. /\ UNCHANGED <<base, desc, job, rem>> /\ wr' = [wr EXCEPT ![k].at = "forget", ![k].p = None]
        /\ \A q \in Pwms : q # wr[k].p => pwm'[q] = pwm[q]
    BY <1>4 DEF pwm_free
  <2>2. \A q \in Pwms : q[1] \notin Added => pwm'[q] = pwm[q]
    BY <1>0, <2>1 DEF At
  <2>3. \A l \in Writers : At(wr'[l].p, wr'[l].i)
    BY <1>0, <2>1 DEF At, WrType
  <2> QED
    BY <1>0, <2>1, <2>2, <2>3, PlacePointers
<1>5. CASE RequestForgotten(k)
  <2>1. UNCHANGED <<base, pwm, job, rem>> /\ desc' = [desc EXCEPT ![wr[k].i] = None] /\ wr' = [wr EXCEPT ![k] = Idle]
    BY <1>5 DEF RequestForgotten
  <2>2. \A i \in Hw(Rts) : At(desc'[i], i)
    BY <1>0, <2>1 DEF PwmTypeOK, At
  <2>3. \A l \in Writers : At(wr'[l].p, wr'[l].i)
    BY <1>0, <2>1 DEF At
  <2> QED
    BY <2>1, <2>2, <2>3, PlacePointers
<1> QED
  BY <1>1, <1>2, <1>3, <1>4, <1>5 DEF Writes

-----------------------------------------------------------------------------
(* Every step keeps who holds what. *)
LEMMA FreshFits == Fits(Fresh, None)
BY Strings DEF Fits, Fresh

(* A PWM that is orderly after a step was so before, if its chip stayed.   *)
LEMMA OrderlyBefore ==
  ASSUME crossed \subseteq crossed', NEW p, p[1] \in Added' => p[1] \in Added /\ base'[p[1]] = base[p[1]],
         p[1] \in Added => p[1] \in Added', Orderly(p)'
  PROVE  Orderly(p)
BY DEF Orderly

LEMMA ClassSame ==
  ASSUME ClassHolds, UNCHANGED <<base, pwm, job>>, crossed \subseteq crossed'
  PROVE  ClassHolds'
<1>1. Added' = Added
  BY SameAdded
<1> QED
  BY <1>1 DEF ClassHolds, Orderly

LEMMA HoldAdd ==
  ASSUME PwmTypeOK, PlaceInv, HoldInv, NEW c \in Chips, pwmchip_add_with_polarity(c)
  PROVE  HoldInv'
<1>1. /\ c \notin Added /\ Added' = Added \cup {c}
      /\ \A d \in Added : base'[d] = base[d]
      /\ UNCHANGED <<pwm, desc, job, wr, crossed>>
  BY AddDoes
<1>2. \A p \in Pwms : p[1] \notin Added => Fits(pwm[p], job[p])
  BY FreshFits DEF PlaceInv, Present
<1>3. \A p \in Pwms : p[1] \in Added /\ Orderly(p)' => Orderly(p)
  BY <1>1 DEF Orderly
<1>4. \A p \in Pwms : Orderly(p)' => Fits(pwm[p], job[p])
  BY <1>2, <1>3 DEF HoldInv, ClassHolds
<1>5. ClassHolds'
  BY <1>1, <1>4 DEF ClassHolds
<1>6. WritesFit' /\ SettingsHold'
  BY <1>1 DEF HoldInv, WritesFit, SettingsHold, Settings, Forgets
<1> QED
  BY <1>5, <1>6 DEF HoldInv

(* A PWM the settings hold, or are about to, is one that is orderly. *)
LEMMA PointsOrderly ==
  ASSUME PlaceInv, NEW i, NEW q \in Pwms, At(q, i), i \notin crossed
  PROVE  Orderly(q)
BY DEF At, Orderly

(* The claims change, but no PWM the settings hold is lost. *)
LEMMA SettingsKept ==
  ASSUME SettingsHold, PlaceInv, UNCHANGED <<desc, wr, crossed>>,
         \A q \in Pwms : Orderly(q) /\ Settings(q) => Settings(q)'
  PROVE  SettingsHold'
<1>1. \A i \in Hw(Rts) \ crossed : Settings(desc[i]) => Settings(desc[i])'
  <2>1. \A i \in Hw(Rts) \ crossed : desc[i] \in Pwms => Orderly(desc[i])
    BY PointsOrderly DEF PlaceInv, PointersFit
  <2>2. \A i \in Hw(Rts) \ crossed : Settings(desc[i]) => Settings(desc[i])'
    BY <2>1 DEF Settings
  <2> QED
    BY <2>2
<1>2. \A k \in Writers : wr[k].i \notin crossed /\ Settings(wr[k].p) => Settings(wr[k].p)'
  <2>1. \A k \in Writers : wr[k].i \notin crossed /\ wr[k].p \in Pwms => Orderly(wr[k].p)
    BY PointsOrderly DEF PlaceInv, PointersFit
  <2> QED
    BY <2>1 DEF Settings
<1>3. \A i : Forgets(i) => Forgets(i)'
  BY DEF Forgets
<1> QED
  BY <1>1, <1>2, <1>3 DEF SettingsHold, Settings

LEMMA HoldClaim ==
  ASSUME PwmTypeOK, PlaceInv, HoldInv, NEW p \in Pwms, OneClaim(p)
  PROVE  HoldInv'
<1>1. PICK r, j : ClaimTo(p, r, j)
  BY DEF OneClaim
<1>2. UNCHANGED <<base, desc, wr, crossed>>
  BY DEF OneClaim
<1>3. pwm \in [Pwms -> PwmType] /\ job \in [Pwms -> JobType]
  BY DEF PwmTypeOK, JobType
<1>4. pwm'[p] = r /\ job'[p] = j /\ \A q \in Pwms : q # p => pwm'[q] = pwm[q] /\ job'[q] = job[q]
  BY <1>1, <1>3 DEF ClaimTo
<1>5. \A q : Orderly(q)' <=> Orderly(q)
  BY <1>2, SameAdded DEF Orderly
<1>6. Orderly(p) => Fits(r, j) /\ (pwm[p].requested = "settings" => r.requested = "settings")
  BY <1>1 DEF ClaimTo, HoldInv, ClassHolds
<1>7. ClassHolds'
  <2>1. \A q \in Pwms : Orderly(q) => Fits(pwm'[q], job'[q])
    BY <1>4, <1>6 DEF HoldInv, ClassHolds
  <2> QED
    BY <1>5, <2>1 DEF ClassHolds
<1>8. \A q \in Pwms : Orderly(q) /\ Settings(q) => Settings(q)'
  BY <1>4, <1>6 DEF Settings
<1>9. SettingsHold'
  BY <1>2, <1>8, SettingsKept DEF HoldInv
<1>10. WritesFit'
  BY <1>2 DEF HoldInv, WritesFit
<1> QED
  BY <1>7, <1>9, <1>10 DEF HoldInv

LEMMA HoldRemove ==
  ASSUME PwmTypeOK, PlaceInv, HoldInv, NEW c \in Chips, pwmchip_remove(c)
  PROVE  HoldInv'
<1>0. /\ Added' = Added \ {c} /\ \A d \in Chips : d # c => base'[d] = base[d] /\ rem'[d] = rem[d]
      /\ rem[c].at = "unexport" /\ ~Held(c)
      /\ \A p \in Pwms : IF p[1] = c THEN pwm'[p] = Fresh /\ pwm[p].requested = None /\ job[p] = None ELSE pwm'[p] = pwm[p]
      /\ \A i \in Hw(Rts) : desc'[i] = Cut(c, desc[i])
      /\ \A k \in Writers : wr'[k] = [wr[k] EXCEPT !.p = Cut(c, @)]
      /\ \A k \in Writers : wr'[k].at = wr[k].at /\ wr'[k].i = wr[k].i /\ wr'[k].p = Cut(c, wr[k].p)
      /\ UNCHANGED <<reg, job, pm, was, crossed>>
  BY RemoveDoes
<1>1. UNCHANGED <<job, crossed>>
  BY <1>0
<1>2. ClassHolds'
  <2>1. \A p \in Pwms : p[1] # c => (Orderly(p)' => Orderly(p))
    BY <1>0, <1>1, PwmOf DEF Orderly, Added
  <2>2. \A p \in Pwms : Orderly(p)' => Fits(pwm'[p], job'[p])
    BY <1>0, <1>1, <2>1, FreshFits DEF HoldInv, ClassHolds
  <2> QED
    BY <2>2 DEF ClassHolds
<1>3. \A q : Settings(q) => Cut(c, q) = q /\ Settings(q)'
  <2>1. \A q : Settings(q) => q \in Pwms /\ q[1] # c
    BY <1>0, <1>1, Strings DEF Settings
  <2>2. \A q : Settings(q) => Cut(c, q) = q
    BY <2>1, CutIs
  <2> QED
    BY <1>0, <1>1, <2>1, <2>2 DEF Settings
<1>4. Cut(c, None) = None /\ Idle.p = None
  BY CutIs, Strings, IdleType
<1>5. WritesFit'
  <2>1. \A k \in Writers : wr[k] = Idle => wr'[k] = Idle
    BY <1>0, <1>1, <1>4 DEF Idle
  <2> QED
    BY <1>0, <1>1, <2>1 DEF HoldInv, WritesFit
<1>6. \A i : Forgets(i) => Forgets(i)'
  BY <1>0, <1>1 DEF Forgets
<1>7. \A i \in Hw(Rts) \ crossed : desc'[i] # None => Settings(desc[i])' \/ Forgets(i)'
  <2>1. \A i \in Hw(Rts) \ crossed : desc'[i] # None => Settings(desc[i]) \/ Forgets(i)
    BY <1>0, <1>1, <1>4 DEF HoldInv, SettingsHold
  <2>2. \A i \in Hw(Rts) : Settings(desc[i]) => Settings(desc[i])'
    BY <1>0, <1>1, <1>3 DEF Settings
  <2> QED
    BY <1>6, <2>1, <2>2
<1>8. \A k \in Writers : wr[k].i \notin crossed =>
        /\ wr[k].at \in {"request", "store"} => desc'[wr[k].i] = None
        /\ wr[k].at = "store" => Settings(wr[k].p)'
        /\ wr[k].at = "free" => wr'[k].p = desc'[wr[k].i]
  <2>1. \A k \in Writers : wr[k].at \in {"request", "store", "free"} => wr[k].i \in Hw(Rts)
    BY DEF HoldInv, WritesFit
  <2>2. \A k \in Writers : Settings(wr[k].p) => Settings(wr[k].p)'
    BY <1>0, <1>1, <1>3 DEF Settings
  <2> QED
    BY <1>0, <1>1, <1>4, <2>1, <2>2 DEF HoldInv, SettingsHold
<1>9. SettingsHold'
  BY <1>0, <1>1, <1>7, <1>8 DEF SettingsHold
<1> QED
  BY <1>2, <1>5, <1>9 DEF HoldInv

LEMMA HoldRemoval ==
  ASSUME PwmTypeOK, PlaceInv, HoldInv, NEW c \in Chips, Remove(c) \/ RemoveRefused(c) \/ RemoveFiles
  PROVE  HoldInv'
<1>1. /\ UNCHANGED <<base, pwm, job, wr, crossed>>
      /\ (UNCHANGED desc \/ ((\A i \in Hw(Rts) : desc'[i] = None) /\ \A k \in Writers : wr[k] = Idle))
  BY RemovalStep
<1>2. ClassHolds'
  BY <1>1, ClassSame DEF HoldInv
<1>3. WritesFit'
  BY <1>1 DEF HoldInv, WritesFit
<1>4. CASE UNCHANGED desc
  BY <1>1, <1>2, <1>3, <1>4 DEF HoldInv, SettingsHold, Settings, Forgets
<1>5. CASE (\A i \in Hw(Rts) : desc'[i] = None) /\ \A k \in Writers : wr[k] = Idle
  <2>1. Idle.at = "idle"
    BY IdleType
  <2>2. SettingsHold'
    BY <1>1, <1>5, <2>1 DEF SettingsHold
  <2> QED
    BY <1>2, <1>3, <2>2 DEF HoldInv
<1> QED
  BY <1>1, <1>4, <1>5

LEMMA HoldQuiet ==
  ASSUME PwmTypeOK, PlaceInv, HoldInv, Quiet, UNCHANGED wr
  PROVE  HoldInv'
<1>1. UNCHANGED <<base, desc, job, crossed>> /\ SameClaims
  BY DEF Quiet
<1>2. \A q : Orderly(q)' <=> Orderly(q)
  BY <1>1, SameAdded DEF Orderly
<1>3. ClassHolds'
  BY <1>1, <1>2 DEF HoldInv, ClassHolds, SameClaims, Fits
<1>4. SettingsHold'
  BY <1>1 DEF HoldInv, SettingsHold, SameClaims, Settings, Forgets
<1>5. WritesFit'
  BY <1>1 DEF HoldInv, WritesFit
<1> QED
  BY <1>3, <1>4, <1>5 DEF HoldInv

(* One write goes on, or ends, and nobody's claim changes. *)
LEMMA WriteMoves ==
  ASSUME PwmTypeOK, WritesFit, NEW k \in Writers, wr[k].at # "idle", NEW w \in WrType, wr' = [wr EXCEPT ![k] = w],
         w = Idle \/ (w.at # "idle" /\ w.i = wr[k].i), UNCHANGED crossed
  PROVE  /\ WritesFit' /\ wr'[k] = w /\ \A l \in Writers : l # k => wr'[l] = wr[l]
         /\ \A l \in Writers : l # k /\ wr[l].at # "idle" /\ wr[l].i \notin crossed => wr[l].i # wr[k].i
<1>1. wr'[k] = w /\ \A l \in Writers : l # k => wr'[l] = wr[l]
  BY DEF PwmTypeOK
<1>2. WritesFit'
  BY <1>1, IdleType DEF WritesFit
<1> QED
  BY <1>1, <1>2 DEF WritesFit

LEMMA HoldSettings ==
  ASSUME PwmTypeOK, PlaceInv, HoldInv, NEW k \in Writers, SettingsConfig(k) \/ SettingsSwitch(k)
  PROVE  HoldInv'
<1>1. Quiet
  BY QuietSettings DEF HoldInv
<1>2. UNCHANGED <<base, desc, job, crossed>> /\ SameClaims
  BY <1>1 DEF Quiet
<1>3. \A q : Orderly(q)' <=> Orderly(q)
  BY <1>2, SameAdded DEF Orderly
<1>4. ClassHolds'
  BY <1>2, <1>3 DEF HoldInv, ClassHolds, SameClaims, Fits
<1>5. PICK w \in WrType : /\ wr' = [wr EXCEPT ![k] = w] /\ (w = Idle \/ (w.at = "switch" /\ w.i = wr[k].i))
  <2>1. wr[k] \in WrType
    BY DEF PwmTypeOK
  <2>2. LET w == [wr[k] EXCEPT !.at = "switch"] IN w \in WrType /\ w.at = "switch" /\ w.i = wr[k].i
    BY <2>1 DEF WrType
  <2> QED
    BY <2>2, IdleType DEF SettingsConfig, SettingsSwitch
<1>6. wr[k].at \in {"config", "switch"}
  BY DEF SettingsConfig, SettingsSwitch, Now
<1>7. WritesFit' /\ wr'[k] = w /\ \A l \in Writers : l # k => wr'[l] = wr[l]
  BY <1>2, <1>5, <1>6, WriteMoves DEF HoldInv
<1>8. w.at \in {"idle", "switch"}
  BY <1>5, IdleType
<1>9. \A q : Settings(q) => Settings(q)'
  BY <1>2 DEF Settings, SameClaims
<1>10. \A i : Forgets(i) => Forgets(i)'
  BY <1>6, <1>7 DEF Forgets
<1>11. \A i \in Hw(Rts) \ crossed : desc[i] # None => Settings(desc[i])' \/ Forgets(i)'
  <2>1. \A i \in Hw(Rts) : Settings(desc[i]) => Settings(desc[i])'
    BY <1>2 DEF Settings, SameClaims
  <2> QED
    BY <1>10, <2>1 DEF HoldInv, SettingsHold
<1>12. \A l \in Writers : wr'[l].i \notin crossed =>
         /\ wr'[l].at \in {"request", "store"} => desc[wr'[l].i] = None
         /\ wr'[l].at = "store" => Settings(wr[l].p)'
         /\ wr'[l].at = "free" => wr'[l].p = desc[wr'[l].i]
  <2>1. \A l \in Writers : l # k /\ Settings(wr[l].p) => Settings(wr[l].p)'
    BY <1>2, <1>7 DEF Settings, SameClaims
  <2> QED
    BY <1>7, <1>8, <2>1 DEF HoldInv, SettingsHold
<1>13. SettingsHold'
  BY <1>2, <1>11, <1>12 DEF SettingsHold
<1> QED
  BY <1>4, <1>7, <1>13 DEF HoldInv

LEMMA HoldBegin ==
  ASSUME PwmTypeOK, PlaceInv, HoldInv, NEW k \in Writers, NEW i \in Hw(Rts), request_store(k, i) \/ SettingsEnable(k, i)
  PROVE  HoldInv'
<1>1. PICK w \in WrType :
        /\ Begin(k, w) /\ w.i = i
        /\ \/ w.at = "request" /\ desc[i] = None /\ w.p = None
           \/ w.at = "free" /\ w.p = desc[i]
           \/ w.at \in {"config", "switch"} /\ desc[i] # None /\ w.p = None
  BY BeginIs
<1>2. /\ wr[k] = Idle /\ wr' = [wr EXCEPT ![k] = w] /\ crossed \subseteq crossed'
      /\ (\E l \in Writers : wr[l].at # "idle" /\ wr[l].i = i) => i \in crossed'
      /\ UNCHANGED <<base, pwm, desc, job>>
  BY <1>1, BeginDoes
<1>3. wr'[k] = w /\ (\A l \in Writers : l # k => wr'[l] = wr[l]) /\ wr[k].at = "idle" /\ w.at # "idle"
  BY <1>1, <1>2, IdleType DEF PwmTypeOK
<1>4. ClassHolds'
  BY <1>2, ClassSame DEF HoldInv
<1>5. WritesFit'
  <2>1. \A l \in Writers : IF wr'[l].at = "idle" THEN wr'[l] = Idle ELSE wr'[l].i \in Hw(Rts)
    BY <1>1, <1>3 DEF HoldInv, WritesFit
  <2>2. \A l, m \in Writers : l # m /\ wr'[l].at # "idle" /\ wr'[m].at # "idle" /\ wr'[l].i = wr'[m].i => wr'[l].i \in crossed'
    BY <1>1, <1>2, <1>3 DEF HoldInv, WritesFit
  <2> QED
    BY <2>1, <2>2 DEF WritesFit
<1>6. \A j : Forgets(j) => Forgets(j)'
  BY <1>3 DEF Forgets
<1>7. \A j \in Hw(Rts) \ crossed' : desc[j] # None => Settings(desc[j])' \/ Forgets(j)'
  <2>1. \A j \in Hw(Rts) : Settings(desc[j]) => Settings(desc[j])'
    BY <1>2 DEF Settings
  <2> QED
    BY <1>2, <1>6, <2>1 DEF HoldInv, SettingsHold
<1>8. \A l \in Writers : wr'[l].i \notin crossed' =>
        /\ wr'[l].at \in {"request", "store"} => desc[wr'[l].i] = None
        /\ wr'[l].at = "store" => Settings(wr[l].p)'
        /\ wr'[l].at = "free" => wr'[l].p = desc[wr'[l].i]
  <2>1. \A l \in Writers : l # k /\ Settings(wr[l].p) => Settings(wr[l].p)'
    BY <1>2, <1>3 DEF Settings
  <2> QED
    BY <1>1, <1>2, <1>3, <2>1 DEF HoldInv, SettingsHold
<1>9. SettingsHold'
  BY <1>2, <1>7, <1>8 DEF SettingsHold
<1> QED
  BY <1>4, <1>5, <1>9 DEF HoldInv

LEMMA HoldRequest ==
  ASSUME PwmTypeOK, PlaceInv, HoldInv, NEW k \in Writers, NEW p \in Pwms, base[p[1]] + p[2] = wr[k].i, p[1] \in Added,
         wr[k].at = "request", pwm_device_request(p, "settings"), wr' = [wr EXCEPT ![k].at = "store", ![k].p = p],
         UNCHANGED <<base, desc, job, crossed>>
  PROVE  HoldInv'
<1> DEFINE w == [wr[k] EXCEPT !.at = "store", !.p = p]
           r == [pwm[p] EXCEPT !.requested = "settings"]
<1>0. pwm \in [Pwms -> PwmType] /\ pwm[p] \in PwmType /\ wr[k] \in WrType
  BY DEF PwmTypeOK
<1>1. w \in WrType /\ w.at = "store" /\ w.i = wr[k].i /\ w.p = p
  BY <1>0 DEF WrType
<1>2. r \in PwmType /\ Claim(r, "settings", pwm[p].exported, pwm[p].child)
  BY <1>0 DEF PwmType, Claim
<1>3. pwm' = [pwm EXCEPT ![p] = r] /\ wr' = [wr EXCEPT ![k] = w] /\ pwm[p].requested = None
  BY DEF pwm_device_request
<1> HIDE DEF w, r
<1>4. pwm'[p] = r /\ \A q \in Pwms : q # p => pwm'[q] = pwm[q]
  BY <1>0, <1>3
<1>5. /\ WritesFit' /\ wr'[k] = w /\ \A l \in Writers : l # k => wr'[l] = wr[l]
      /\ \A l \in Writers : l # k /\ wr[l].at # "idle" /\ wr[l].i \notin crossed => wr[l].i # wr[k].i
  BY <1>1, <1>3, WriteMoves DEF HoldInv
<1>6. \A q : Orderly(q)' <=> Orderly(q)
  BY SameAdded DEF Orderly
<1>7. ClassHolds'
  <2>1. Fits(pwm[p], job[p]) => Fits(r, job[p])
    BY <1>2, <1>3, Strings DEF Fits, Claim
  <2>2. \A q \in Pwms : Orderly(q) => Fits(pwm'[q], job[q])
    BY <1>4, <2>1 DEF HoldInv, ClassHolds
  <2> QED
    BY <1>6, <2>2 DEF ClassHolds
<1>8. (\A q : Settings(q) => q \in Pwms /\ pwm'[q].requested = "settings") /\ pwm'[p].requested = "settings"
  BY <1>2, <1>4 DEF Settings, Claim
<1>9. \A j : Forgets(j) => Forgets(j)'
  BY <1>5 DEF Forgets
<1>10. \A j \in Hw(Rts) \ crossed : desc[j] # None => Settings(desc[j])' \/ Forgets(j)'
  <2>1. \A j \in Hw(Rts) : Settings(desc[j]) => Settings(desc[j])'
    BY <1>8 DEF Settings
  <2> QED
    BY <1>9, <2>1 DEF HoldInv, SettingsHold
<1>11. \A l \in Writers : wr'[l].i \notin crossed =>
         /\ wr'[l].at \in {"request", "store"} => desc[wr'[l].i] = None
         /\ wr'[l].at = "store" => Settings(wr[l].p)'
         /\ wr'[l].at = "free" => wr'[l].p = desc[wr'[l].i]
  <2>1. \A l \in Writers : l # k /\ Settings(wr[l].p) => Settings(wr[l].p)'
    BY <1>5, <1>8 DEF Settings
  <2>2. Settings(wr[k].p)'
    BY <1>1, <1>5, <1>8 DEF Settings
  <2>3. wr[k].i \notin crossed => desc[wr[k].i] = None
    BY DEF HoldInv, SettingsHold
  <2> QED
    BY <1>1, <1>5, <2>1, <2>2, <2>3 DEF HoldInv, SettingsHold
<1>12. SettingsHold'
  BY <1>10, <1>11 DEF SettingsHold
<1> QED
  BY <1>5, <1>7, <1>12 DEF HoldInv

LEMMA HoldRefused ==
  ASSUME PwmTypeOK, PlaceInv, HoldInv, NEW k \in Writers, wr[k].at = "request", wr' = [wr EXCEPT ![k] = Idle],
         UNCHANGED <<base, pwm, desc, job, crossed>>
  PROVE  HoldInv'
<1>1. WritesFit' /\ wr'[k] = Idle /\ \A l \in Writers : l # k => wr'[l] = wr[l]
  BY WriteMoves, IdleType DEF HoldInv
<1>2. ClassHolds'
  BY ClassSame DEF HoldInv
<1>3. \A j : Forgets(j) => Forgets(j)'
  BY <1>1 DEF Forgets
<1>4. SettingsHold'
  <2>1. \A j \in Hw(Rts) \ crossed : desc[j] # None => Settings(desc[j])' \/ Forgets(j)'
    BY <1>3 DEF HoldInv, SettingsHold, Settings
  <2>2. \A l \in Writers : l # k => (Settings(wr[l].p) => Settings(wr[l].p)')
    BY <1>1 DEF Settings
  <2> QED
    BY <1>1, <2>1, <2>2, IdleType DEF HoldInv, SettingsHold
<1> QED
  BY <1>1, <1>2, <1>4 DEF HoldInv

LEMMA HoldStored ==
  ASSUME PwmTypeOK, PlaceInv, HoldInv, NEW k \in Writers, RequestStored(k) \/ RequestForgotten(k)
  PROVE  HoldInv'
<1>0. PICK i : i = wr[k].i
  OBVIOUS
<1> DEFINE x == IF wr[k].at = "store" THEN wr[k].p ELSE None
<1>1. /\ wr[k].at \in {"store", "forget"} /\ wr' = [wr EXCEPT ![k] = Idle] /\ desc' = [desc EXCEPT ![i] = x]
      /\ UNCHANGED <<base, pwm, job, crossed>>
  BY <1>0 DEF RequestStored, RequestForgotten, Now
<1>2. /\ WritesFit' /\ wr'[k] = Idle /\ \A l \in Writers : l # k => wr'[l] = wr[l]
      /\ \A l \in Writers : l # k /\ wr[l].at # "idle" /\ wr[l].i \notin crossed => wr[l].i # i
  BY <1>0, <1>1, WriteMoves, IdleType DEF HoldInv
<1>3. i \in Hw(Rts) /\ desc'[i] = x /\ \A j \in Hw(Rts) : j # i => desc'[j] = desc[j]
  BY <1>0, <1>1, WriterAt DEF HoldInv, PwmTypeOK
<1>4. ClassHolds'
  BY <1>1, ClassSame DEF HoldInv
<1>5. i \notin crossed /\ x # None => Settings(x)
  BY <1>0, <1>1 DEF HoldInv, SettingsHold
<1> HIDE DEF x
<1>6. \A j : j # i /\ Forgets(j) => Forgets(j)'
  BY <1>0, <1>2 DEF Forgets
<1>7. \A j \in Hw(Rts) \ crossed : desc'[j] # None => Settings(desc[j])' \/ Forgets(j)'
  <2>1. \A q : Settings(q) => q \in Pwms /\ pwm'[q].requested = "settings"
    BY <1>1 DEF Settings
  <2>2. \A j \in Hw(Rts) \ crossed : j # i => (desc'[j] # None => Settings(desc[j])' \/ Forgets(j)')
    BY <1>3, <1>6, <2>1 DEF HoldInv, SettingsHold, Settings
  <2>3. i \notin crossed => (desc'[i] # None => Settings(desc[i])')
    BY <1>3, <1>5, <2>1 DEF Settings
  <2> QED
    BY <2>2, <2>3
<1>8. \A l \in Writers : wr'[l].i \notin crossed =>
        /\ wr'[l].at \in {"request", "store"} => desc'[wr'[l].i] = None
        /\ wr'[l].at = "store" => Settings(wr[l].p)'
        /\ wr'[l].at = "free" => wr'[l].p = desc'[wr'[l].i]
  <2>1. \A l \in Writers : l # k /\ Settings(wr[l].p) => Settings(wr[l].p)'
    BY <1>1, <1>2 DEF Settings
  <2>2. \A l \in Writers : l # k /\ wr[l].at # "idle" /\ wr[l].i \notin crossed => desc'[wr[l].i] = desc[wr[l].i]
    BY <1>2, <1>3, WriterAt DEF HoldInv
  <2> QED
    BY <1>2, <2>1, <2>2, IdleType DEF HoldInv, SettingsHold
<1>9. SettingsHold'
  BY <1>1, <1>7, <1>8 DEF SettingsHold
<1> QED
  BY <1>2, <1>4, <1>9 DEF HoldInv

LEMMA HoldFree ==
  ASSUME PwmTypeOK, PlaceInv, HoldInv, NEW k \in Writers, pwm_free(k)
  PROVE  HoldInv'
<1>14. PICK i, p : i = wr[k].i /\ p = wr[k].p
  OBVIOUS
<1> DEFINE w == [wr[k] EXCEPT !.at = "forget", !.p = None]
<1>0. pwm \in [Pwms -> PwmType] /\ wr[k] \in WrType /\ wr[k].at = "free" /\ At(p, i)
  BY <1>14 DEF PwmTypeOK, pwm_free, Now, PlaceInv, PointersFit
<1>1. wr' = [wr EXCEPT ![k] = w] /\ UNCHANGED <<base, desc, job, crossed>>
  BY DEF pwm_free
<1>2. w \in WrType /\ w.at = "forget" /\ w.i = i
  BY <1>0, <1>14 DEF WrType
<1> HIDE DEF w
<1>3. /\ WritesFit' /\ wr'[k] = w /\ \A l \in Writers : l # k => wr'[l] = wr[l]
      /\ \A l \in Writers : l # k /\ wr[l].at # "idle" /\ wr[l].i \notin crossed => wr[l].i # i
  <2>1. WritesFit /\ wr[k].at # "idle" /\ w.at # "idle" /\ w.i = wr[k].i /\ UNCHANGED crossed
    BY <1>0, <1>1, <1>2, <1>14 DEF HoldInv
  <2>2. /\ WritesFit' /\ wr'[k] = w /\ \A l \in Writers : l # k => wr'[l] = wr[l]
        /\ \A l \in Writers : l # k /\ wr[l].at # "idle" /\ wr[l].i \notin crossed => wr[l].i # wr[k].i
    BY <1>1, <1>2, <2>1, WriteMoves
  <2> QED
    BY <1>14, <2>2
<1>4. \A q \in Pwms : pwm'[q] = IF q = p THEN Put(pwm[q]) ELSE pwm[q]
  BY <1>14 DEF pwm_free
<1>5. \A q : Orderly(q)' <=> Orderly(q)
  BY <1>1, SameAdded DEF Orderly
<1>6. p \in Pwms /\ i \notin crossed => Settings(p)
  <2>1. i \notin crossed => ~Forgets(i) /\ p = desc[i] /\ i \in Hw(Rts)
    BY <1>0, <1>3, <1>14, WriterAt DEF HoldInv, SettingsHold, Forgets
  <2>2. p \in Pwms => p # None
    BY Strings
  <2> QED
    BY <2>1, <2>2 DEF HoldInv, SettingsHold
<1>7. p \in Pwms /\ Orderly(p) => i \notin crossed
  BY <1>0 DEF At, Orderly
<1>8. ClassHolds'
  <2>1. ASSUME p \in Pwms, Orderly(p) PROVE Fits(Put(pwm[p]), job[p])
    <3>1. pwm[p].requested = "settings" /\ pwm[p] \in PwmType /\ Fits(pwm[p], job[p])
      BY <1>0, <1>6, <1>7, <2>1 DEF Settings, HoldInv, ClassHolds
    <3>2. Claim(Put(pwm[p]), None, pwm[p].exported, pwm[p].child)
      BY <3>1 DEF PwmType, Claim, Put
    <3> QED
      BY <3>1, <3>2, Strings DEF Fits, Claim
  <2>2. \A q \in Pwms : Orderly(q) => Fits(pwm'[q], job[q])
    BY <1>4, <2>1 DEF HoldInv, ClassHolds
  <2> QED
    BY <1>1, <1>5, <2>2 DEF ClassHolds
<1>9. \A q, j : Settings(q) /\ At(q, j) /\ j # i => q \in Pwms /\ pwm'[q].requested = "settings"
  <2>1. \A q, j : q \in Pwms /\ At(q, j) /\ j # i => q # p
    BY <1>0 DEF At
  <2> QED
    BY <1>4, <2>1 DEF Settings
<1>10. Forgets(i)' /\ \A j : Forgets(j) => Forgets(j)'
  BY <1>0, <1>2, <1>3, <1>14 DEF Forgets
<1>11. \A j \in Hw(Rts) \ crossed : desc[j] # None => Settings(desc[j])' \/ Forgets(j)'
  <2>1. \A j \in Hw(Rts) : j # i => (Settings(desc[j]) => Settings(desc[j])')
    BY <1>1, <1>9 DEF Settings, PlaceInv, PointersFit
  <2> QED
    BY <1>10, <2>1, Zenon DEF HoldInv, SettingsHold
<1>12. \A l \in Writers : wr'[l].i \notin crossed =>
         /\ wr'[l].at \in {"request", "store"} => desc[wr'[l].i] = None
         /\ wr'[l].at = "store" => Settings(wr[l].p)'
         /\ wr'[l].at = "free" => wr'[l].p = desc[wr'[l].i]
  <2>1. \A l \in Writers : l # k /\ wr[l].i # i /\ Settings(wr[l].p) => Settings(wr[l].p)'
    BY <1>3, <1>9 DEF Settings, PlaceInv, PointersFit
  <2> QED
    BY <1>2, <1>3, <2>1 DEF HoldInv, SettingsHold
<1>13. SettingsHold'
  BY <1>1, <1>11, <1>12 DEF SettingsHold
<1> QED
  BY <1>3, <1>8, <1>13 DEF HoldInv

LEMMA HoldWrites ==
  ASSUME PwmTypeOK, PlaceInv, HoldInv, NEW k \in Writers, Writes(k)
  PROVE  HoldInv'
<1>1. CASE pwm_request(k)
  <2>0. wr[k].at = "request" /\ UNCHANGED <<base, desc, job, crossed>> /\ wr[k].i \in Nat
    BY <1>1, RtsNumbers DEF pwm_request, Now, PwmTypeOK, WrType
  <2>1. ASSUME NEW p \in pwm_to_device(wr[k].i), pwm_device_request(p, "settings"), wr' = [wr EXCEPT ![k].at = "store", ![k].p = p]
        PROVE  HoldInv'
    <3>1. p \in Pwms /\ p[1] \in Added /\ base[p[1]] + p[2] = wr[k].i
      BY <2>0, PwmToDevice DEF Usable
    <3> QED
      BY <2>0, <2>1, <3>1, HoldRequest
  <2>2. CASE wr' = [wr EXCEPT ![k] = Idle] /\ UNCHANGED pwm
    BY <2>0, <2>2, HoldRefused
  <2> QED
    BY <1>1, <2>1, <2>2 DEF pwm_request
<1> QED
  BY <1>1, HoldBegin, HoldStored, HoldFree DEF Writes

-----------------------------------------------------------------------------
(* Every step keeps the registers in step with the states. *)
LEMMA RegSame ==
  ASSUME RegInv, \A p \in Pwms : pwm'[p].state = pwm[p].state /\ reg'[p] = reg[p],
         Rts \in Added' <=> Rts \in Added, rem'[Rts] = Stays => rem[Rts] = Stays \/ Rts \notin Added, UNCHANGED late
  PROVE  RegInv'
<1>1. TicksFollow'
  BY DEF RegInv, TicksFollow
<1>2. SwitchFollows' /\ OffGone'
  BY DEF RegInv, SwitchFollows, OffGone
<1> QED
  BY <1>1, <1>2 DEF RegInv

LEMMA RegQuiet ==
  ASSUME PwmTypeOK, RegInv, Quiet, UNCHANGED rem
  PROVE  RegInv'
<1>1. Added' = Added /\ UNCHANGED late
  BY SameAdded DEF Quiet
<1>2. ASSUME NEW p \in Pwms, p[1] = Rts
      PROVE  /\ TicksAgree(reg'[p], pwm'[p].state)
             /\ Rts \notin Added => pwm'[p].state = pwm[p].state /\ reg'[p] = reg[p]
             /\ Rts \in Added /\ rem[Rts] = Stays =>
                  (pwm'[p].state.enabled => reg'[p].en) /\ (reg'[p].en => pwm'[p].state.enabled \/ p \in late)
  <2>1. TicksAgree(reg[p], pwm[p].state) /\ Moves(p) /\ pwm[p].state \in PwmState /\ reg[p] \in RegType
    BY <1>2, StateOf DEF RegInv, TicksFollow, Quiet
  <2>2. Rts \in Added /\ rem[Rts] = Stays =>
          (pwm[p].state.enabled => reg[p].en) /\ (reg[p].en => pwm[p].state.enabled \/ p \in late)
    BY <1>2 DEF RegInv, SwitchFollows
  <2>3. CASE pwm'[p].state = pwm[p].state /\ reg'[p] = reg[p]
    BY <2>1, <2>2, <2>3
  <2>4. ASSUME NEW s \in PwmState, pwm'[p].state = Applied(pwm[p].state, s),
               reg'[p] = pwm_apply_state(reg[p], pwm[p].state, s), Rts \in Added
        PROVE  /\ TicksAgree(reg'[p], pwm'[p].state)
               /\ rem[Rts] = Stays =>
                    (pwm'[p].state.enabled => reg'[p].en) /\ (reg'[p].en => pwm'[p].state.enabled \/ p \in late)
    <3>1. /\ TicksAgree(reg'[p], pwm'[p].state)
          /\ reg'[p].en = IF pwm'[p].state.enabled = pwm[p].state.enabled THEN reg[p].en ELSE pwm'[p].state.enabled
      BY <2>1, <2>4, AppliedAgrees
    <3>2. pwm'[p].state \in PwmState
      BY <2>1, <2>4, AppliedType
    <3>3. pwm'[p].state.enabled \in BOOLEAN /\ pwm[p].state.enabled \in BOOLEAN
      BY <2>1, <3>2 DEF PwmState
    <3>4. CASE pwm'[p].state.enabled = pwm[p].state.enabled
      <4>1. reg'[p].en = reg[p].en
        BY <3>1, <3>4
      <4> QED
        BY <2>2, <2>4, <3>1, <3>4, <4>1, Zenon
    <3>5. CASE pwm'[p].state.enabled # pwm[p].state.enabled
      <4>1. reg'[p].en = pwm'[p].state.enabled
        BY <3>1, <3>5
      <4> QED
        BY <3>1, <4>1, Zenon
    <3> QED
      BY <3>4, <3>5
  <2> QED
    BY <1>2, <2>1, <2>3, <2>4 DEF Moves
<1>3. TicksFollow'
  BY <1>2 DEF TicksFollow
<1>4. SwitchFollows'
  BY <1>1, <1>2 DEF SwitchFollows
<1>5. OffGone'
  BY <1>1, <1>2 DEF OffGone, RegInv
<1> QED
  BY <1>3, <1>4, <1>5 DEF RegInv

LEMMA RegAdd ==
  ASSUME PwmTypeOK, PlaceInv, RegInv, NEW c \in Chips, pwmchip_add_with_polarity(c)
  PROVE  RegInv'
<1>1. c \notin Added /\ rem[c] = Stays /\ Added' = Added \cup {c} /\ UNCHANGED <<pwm, reg, rem, late>>
  BY AddDoes
<1>2. CASE c # Rts
  BY <1>1, <1>2, RegSame
<1>3. CASE c = Rts
  <2>1. TicksFollow'
    BY <1>1 DEF RegInv, TicksFollow
  <2>2. \A p \in Pwms : p[1] = Rts => ~pwm[p].state.enabled /\ (reg[p].en => p \in late)
    BY <1>1, <1>3 DEF PlaceInv, Present, Fresh, Off, RegInv, OffGone
  <2>3. SwitchFollows' /\ OffGone'
    BY <1>1, <1>3, <2>2 DEF SwitchFollows, OffGone
  <2> QED
    BY <2>1, <2>3 DEF RegInv
<1> QED
  BY <1>2, <1>3

LEMMA RegClaim ==
  ASSUME PwmTypeOK, RegInv, NEW p \in Pwms, OneClaim(p), rem'[Rts] = Stays => rem[Rts] = Stays
  PROVE  RegInv'
<1>1. PICK r, j : ClaimTo(p, r, j)
  BY DEF OneClaim
<1>2. UNCHANGED <<base, reg, late>>
  BY DEF OneClaim
<1>3. \A q \in Pwms : pwm'[q].state = pwm[q].state
  BY <1>1 DEF ClaimTo, PwmTypeOK
<1>4. Added' = Added
  BY <1>2, SameAdded
<1> QED
  BY <1>2, <1>3, <1>4, RegSame

LEMMA RegUnexport ==
  ASSUME PwmTypeOK, PlaceInv, RegInv, NEW c \in Chips, pwmchip_sysfs_unexport(c)
  PROVE  RegInv'
<1>1. /\ <<c, rem[c].i>> \in Pwms /\ OneClaim(<<c, rem[c].i>>)
      /\ rem' = [rem EXCEPT ![c].i = @ + 1] /\ rem[c].at = "unexport"
  BY ClaimRemoval DEF PlaceInv
<1>2. Rts \in Chips /\ Stays.at = "no"
  BY ChipsAssumption DEF Stays
<1>3. rem'[Rts].at = rem[Rts].at /\ (Rts # c => rem'[Rts] = rem[Rts])
  BY <1>1, <1>2 DEF PwmTypeOK
<1>4. rem'[Rts] = Stays => rem[Rts] = Stays
  BY <1>1, <1>2, <1>3
<1> QED
  BY <1>1, <1>4, RegClaim

LEMMA RegRemoval ==
  ASSUME PwmTypeOK, PlaceInv, RegInv, NEW c \in Chips, Remove(c) \/ RemoveRefused(c) \/ RemoveFiles
  PROVE  RegInv'
<1>0. UNCHANGED <<base, pwm, late>> /\ Added' = Added /\ Rts \in Chips /\ Stays.at = "no"
  BY RemovalStep, SameAdded, ChipsAssumption DEF Stays
<1>1. CASE Remove(c) /\ c = Rts
  <2>1. /\ Rts \in Added /\ \A p \in Pwms : p[1] = Rts => reg'[p] = [reg[p] EXCEPT !.en = FALSE]
    BY <1>1 DEF Remove, Usable
  <2>2. \A p \in Pwms : p[1] = Rts => reg'[p].high = reg[p].high /\ reg'[p].low = reg[p].low
    <3>1. \A r \in RegType : [r EXCEPT !.en = FALSE].high = r.high /\ [r EXCEPT !.en = FALSE].low = r.low
      BY DEF RegType
    <3>2. \A p \in Pwms : reg[p] \in RegType
      BY DEF PwmTypeOK
    <3> QED
      BY <2>1, <3>1, <3>2
  <2>3. TicksFollow'
    BY <1>0, <2>2 DEF RegInv, TicksFollow, TicksAgree
  <2>4. rem'[Rts].at = "unexport"
    BY <1>0, <1>1 DEF Remove, PwmTypeOK
  <2>5. SwitchFollows' /\ OffGone'
    BY <1>0, <2>1, <2>4 DEF SwitchFollows, OffGone
  <2> QED
    BY <2>3, <2>5 DEF RegInv
<1>2. CASE Remove(c) /\ c # Rts
  <2>1. rem'[Rts] = rem[Rts] /\ \A p \in Pwms : reg'[p] = reg[p]
    BY <1>0, <1>2 DEF Remove, PwmTypeOK
  <2> QED
    BY <1>0, <2>1, RegSame
<1>3. CASE RemoveRefused(c)
  <2>1. reg' = reg /\ (rem'[Rts] = Stays => rem[Rts] = Stays)
    BY <1>0, <1>3 DEF RemoveRefused, PwmTypeOK
  <2> QED
    BY <1>0, <2>1, RegSame
<1>4. CASE RemoveFiles
  <2>1. reg' = reg /\ Rts \notin Added
    BY <1>0, <1>4 DEF RemoveFiles, PlaceInv, RemovalsFit
  <2> QED
    BY <1>0, <2>1, RegSame
<1> QED
  BY <1>1, <1>2, <1>3, <1>4

LEMMA RegRemove ==
  ASSUME PwmTypeOK, PlaceInv, RegInv, NEW c \in Chips, pwmchip_remove(c)
  PROVE  RegInv'
<1>0. /\ Added' = Added \ {c} /\ \A d \in Chips : d # c => base'[d] = base[d] /\ rem'[d] = rem[d]
      /\ \A p \in Pwms : IF p[1] = c THEN pwm'[p] = Fresh /\ pwm[p].requested = None /\ job[p] = None ELSE pwm'[p] = pwm[p]
      /\ UNCHANGED <<reg, job, pm, was, crossed>>
      /\ late' = late \cup {p \in Pwms : p[1] = c /\ reg[p].en}
  BY RemoveDoes
<1>1. CASE c = Rts
  <2>1. TicksFollow'
    BY <1>0, <1>1 DEF TicksFollow, TicksAgree, Fresh, Off
  <2>2. SwitchFollows' /\ OffGone'
    BY <1>0, <1>1 DEF SwitchFollows, OffGone
  <2> QED
    BY <2>1, <2>2 DEF RegInv
<1>2. CASE c # Rts
  <2>1. TicksFollow'
    BY <1>0, <1>2 DEF RegInv, TicksFollow
  <2>2. (Rts \in Added' <=> Rts \in Added) /\ rem'[Rts] = rem[Rts]
    BY <1>0, <1>2, ChipsAssumption
  <2>3. SwitchFollows' /\ OffGone'
    BY <1>0, <1>2, <2>2 DEF RegInv, SwitchFollows, OffGone
  <2> QED
    BY <2>1, <2>3 DEF RegInv
<1> QED
  BY <1>1, <1>2

LEMMA WritesKeep ==
  ASSUME PwmTypeOK, NEW k \in Writers, Writes(k)
  PROVE  UNCHANGED <<base, reg, rem, pm, was, late>> /\ \A q \in Pwms : pwm'[q].state = pwm[q].state
<1>1. ASSUME NEW i \in Hw(Rts), request_store(k, i) \/ SettingsEnable(k, i)
      PROVE  UNCHANGED <<base, reg, rem, pm, was, late>> /\ \A q \in Pwms : pwm'[q].state = pwm[q].state
  BY <1>1, BeginIs DEF Begin
<1>2. CASE pwm_request(k) \/ pwm_free(k)
  <2>1. UNCHANGED <<base, reg, rem, pm, was, late>>
    BY <1>2 DEF pwm_request, pwm_free
  <2>2. \A q \in Pwms : /\ pwm[q] \in PwmType
                        /\ Put(pwm[q]).state = pwm[q].state
                        /\ [pwm[q] EXCEPT !.requested = "settings"].state = pwm[q].state
    BY DEF PwmTypeOK, PwmType, Put
  <2>3. CASE pwm_request(k)
    <3>1. ASSUME NEW p, pwm' = [pwm EXCEPT ![p].requested = "settings"] PROVE \A q \in Pwms : pwm'[q].state = pwm[q].state
      <4>1. pwm \in [Pwms -> PwmType]
        BY DEF PwmTypeOK
      <4>2. \A q \in Pwms : pwm'[q] = IF q = p THEN [pwm[q] EXCEPT !.requested = "settings"] ELSE pwm[q]
        BY <3>1, <4>1
      <4> QED
        BY <2>2, <4>2
    <3>2. (\E p : pwm' = [pwm EXCEPT ![p].requested = "settings"]) \/ pwm' = pwm
      BY <2>3 DEF pwm_request, pwm_device_request
    <3> QED
      BY <2>1, <3>1, <3>2
  <2>4. CASE pwm_free(k)
    BY <2>1, <2>2, <2>4 DEF pwm_free
  <2> QED
    BY <1>2, <2>3, <2>4
<1>3. CASE RequestStored(k) \/ RequestForgotten(k)
  BY <1>3 DEF RequestStored, RequestForgotten
<1> QED
  BY <1>1, <1>2, <1>3 DEF Writes

LEMMA RegWrites ==
  ASSUME PwmTypeOK, RegInv, NEW k \in Writers, Writes(k)
  PROVE  RegInv'
<1>1. UNCHANGED <<base, reg, rem, late>> /\ \A q \in Pwms : pwm'[q].state = pwm[q].state
  BY WritesKeep
<1>2. Added' = Added
  BY <1>1, SameAdded
<1> QED
  BY <1>1, <1>2, RegSame

-----------------------------------------------------------------------------
(* Suspend: nothing else moves, and what is switched off is switched back. *)
LEMMA TurnOff ==
  ASSUME NEW s \in PwmState, NEW g \in RegType
  PROVE  LET new == [s EXCEPT !.enabled = FALSE]
         IN  IF Valid(s)
             THEN /\ Applied(s, new) = new
                  /\ pwm_apply_state(g, s, new) = [g EXCEPT !.en = IF s.enabled THEN FALSE ELSE @]
             ELSE Applied(s, new) = s /\ pwm_apply_state(g, s, new) = g
<1> DEFINE new == [s EXCEPT !.enabled = FALSE]
<1>1. new.period = s.period /\ new.duty = s.duty /\ new.enabled = FALSE /\ s.enabled \in BOOLEAN
  BY DEF PwmState
<1>2. Same(new, s) /\ (Valid(new) <=> Valid(s))
  BY <1>1 DEF Same, Valid
<1>3. [g EXCEPT !.en = g.en] = g
  BY DEF RegType
<1> HIDE DEF new
<1>4. CASE Valid(s)
  <2>1. Applied(s, new) = new
    BY <1>2, <1>4 DEF Applied
  <2>2. pwm_apply_state(g, s, new) = IF s.enabled = FALSE THEN g ELSE [g EXCEPT !.en = FALSE]
    BY <1>1, <1>2, <1>4 DEF pwm_apply_state
  <2>3. pwm_apply_state(g, s, new) = [g EXCEPT !.en = IF s.enabled THEN FALSE ELSE @]
    BY <1>1, <1>3, <2>2
  <2> QED
    BY <1>4, <2>1, <2>3 DEF new
<1>5. CASE ~Valid(s)
  <2>1. Applied(s, new) = s /\ pwm_apply_state(g, s, new) = g
    BY <1>2, <1>5 DEF Applied, pwm_apply_state
  <2> QED
    BY <1>5, <2>1 DEF new
<1> QED
  BY <1>4, <1>5

LEMMA TurnBack ==
  ASSUME NEW s \in PwmState, NEW g \in RegType, Valid(s), s.enabled => g.en
  PROVE  LET off == [s EXCEPT !.enabled = FALSE]
             h == [g EXCEPT !.en = IF s.enabled THEN FALSE ELSE @]
             new == [off EXCEPT !.enabled = s.enabled]
         IN  Valid(off) /\ Applied(off, new) = s /\ pwm_apply_state(h, off, new) = g
<1> DEFINE off == [s EXCEPT !.enabled = FALSE]
           h == [g EXCEPT !.en = IF s.enabled THEN FALSE ELSE @]
           new == [off EXCEPT !.enabled = s.enabled]
<1>1. off.period = s.period /\ off.duty = s.duty /\ off.enabled = FALSE /\ s.enabled \in BOOLEAN
  BY DEF PwmState
<1>2. new = s
  BY DEF PwmState
<1>3. Valid(off) /\ Same(s, off)
  BY <1>1 DEF Valid, Same
<1>4. IF s.enabled = FALSE THEN h = g ELSE [h EXCEPT !.en = TRUE] = g
  BY <1>1 DEF RegType
<1> HIDE DEF off, h, new
<1>5. Applied(off, new) = s
  BY <1>2 DEF Applied
<1>6. pwm_apply_state(h, off, new) = IF s.enabled = FALSE THEN h ELSE [h EXCEPT !.en = s.enabled]
  BY <1>1, <1>2, <1>3 DEF pwm_apply_state
<1>7. pwm_apply_state(h, off, new) = g
  <2>1. CASE s.enabled = FALSE
    BY <1>4, <1>6, <2>1
  <2>2. CASE s.enabled = TRUE
    <3>1. [h EXCEPT !.en = s.enabled] = [h EXCEPT !.en = TRUE]
      BY <2>2
    <3> QED
      BY <1>4, <1>6, <2>2, <3>1
  <2> QED
    BY <1>1, <2>1, <2>2
<1> QED
  BY <1>3, <1>5, <1>7 DEF off, h, new

LEMMA FrozenStops ==
  ASSUME PwmTypeOK, PmInv, pm # Awake, PwmNext
  PROVE  PmLoop \/ Asleep \/ Thaw
<1>1. PmFits /\ Frozen
  BY DEF PmInv, PmFits
<1>2. Idle.at = "idle" /\ Stays.at = "no" /\ Rts \in Chips
  BY IdleType, ChipsAssumption DEF Stays
<1>3. \A c \in Chips : ~(\/ pwmchip_add_with_polarity(c) \/ Remove(c) \/ pwmchip_sysfs_unexport(c)
                         \/ RemoveRefused(c) \/ pwmchip_remove(c))
  BY <1>1 DEF Frozen, pwmchip_add_with_polarity, Remove, pwmchip_sysfs_unexport, RemoveRefused, pwmchip_remove, ClassGone
<1>4. ~RemoveFiles
  BY <1>1, <1>2 DEF Frozen, RemoveFiles
<1>5. \A p \in Pwms : ~(Claims(p) \/ Consumer(p) \/ ClassStore(p))
  BY <1>1, Strings DEF Frozen, Claims, Consumer, ClassStore, pwm_get, pwm_put, export_store, ExportFlag, pwm_export_child,
     unexport_store, UnexportRest
<1>6. \A k \in Writers : ~(Writes(k) \/ SettingsConfig(k) \/ SettingsSwitch(k))
  BY <1>1, <1>2 DEF Frozen, Writes, request_store, SettingsEnable, Begin, Now, pwm_request, RequestStored, pwm_free,
     RequestForgotten, SettingsConfig, SettingsSwitch
<1>7. ~Suspend
  BY DEF Suspend
<1> QED
  BY <1>3, <1>4, <1>5, <1>6, <1>7, NextIs DEF Pauses

(* Until a suspend begins the class stays awake. *)
LEMMA AwakeStays ==
  ASSUME PwmTypeOK, PlaceInv, WritesFit, pm = Awake, PwmNext
  PROVE  Suspend \/ UNCHANGED pm
<1>0. Awake.phase = "awake"
  BY DEF Awake
<1>1. \A c \in Chips : (\/ pwmchip_add_with_polarity(c) \/ Remove(c) \/ pwmchip_sysfs_unexport(c)
                        \/ RemoveRefused(c) \/ pwmchip_remove(c)) => UNCHANGED pm
  BY DEF pwmchip_add_with_polarity, Remove, pwmchip_sysfs_unexport, RemoveRefused, pwmchip_remove
<1>2. RemoveFiles => UNCHANGED pm
  BY DEF RemoveFiles
<1>3. \A p \in Pwms : Claims(p) => UNCHANGED pm
  BY DEF Claims, pwm_get, pwm_put, export_store, ExportFlag, pwm_export_child, unexport_store, UnexportRest
<1>4. \A p \in Pwms : Consumer(p) \/ ClassStore(p) => UNCHANGED pm
  BY DEF Consumer, ClassStore
<1>5. \A k \in Writers : Writes(k) => UNCHANGED pm
  BY WritesKeep
<1>6. \A k \in Writers : SettingsConfig(k) \/ SettingsSwitch(k) => UNCHANGED pm
  BY DEF SettingsConfig, SettingsSwitch
<1>7. ~PmLoop /\ ~Asleep /\ ~Thaw
  BY <1>0 DEF PmLoop, pwm_class_suspend, pwm_class_resume_npwm, Asleep, Thaw
<1> QED
  BY <1>1, <1>2, <1>3, <1>4, <1>5, <1>6, <1>7, NextIs DEF Pauses

LEMMA PmSuspend ==
  ASSUME PwmTypeOK, PlaceInv, RegInv, Suspend
  PROVE  PmInv'
<1>1. /\ Frozen /\ Rts \in Usable /\ UNCHANGED <<base, pwm, reg, job, wr, rem>>
      /\ pm' = [phase |-> "suspend", at |-> 0, end |-> NPwm[Rts]] /\ \A i \in Hw(Rts) : was'[i] = Output(i)
  BY DEF Suspend
<1>2. rem[Rts] = Stays /\ Rts \in Added
  BY <1>1, ChipsAssumption DEF Frozen, Usable, PlaceInv, RemovalsFit
<1>3. pm'.phase = "suspend" /\ pm'.at = 0 /\ pm'.end = NPwm[Rts] /\ NPwm[Rts] \in Nat
  BY <1>1, ChipsAssumption
<1>4. Added' = Added
  BY <1>1, SameAdded
<1>5. PmFits'
  BY <1>1, <1>3, <1>4 DEF PmFits, Frozen, Usable
<1>6. ASSUME NEW i \in Hw(Rts) PROVE AsItWas(i)'
  <2>1. <<Rts, i>> \in Pwms /\ <<Rts, i>>[1] = Rts /\ i \in Nat
    BY RtsNumbers, PwmIs
  <2>2. Was(Output(i))
    BY <1>2, <2>1, StateOf DEF Was, Output, RegInv, SwitchFollows
  <2>3. ~Turned(i)'
    BY <1>3, <2>1 DEF Turned
  <2>4. Output(i)' = Output(i)
    BY <1>1 DEF Output
  <2> QED
    BY <1>1, <2>2, <2>3, <2>4 DEF AsItWas, Was
<1> QED
  BY <1>5, <1>6 DEF PmInv

LEMMA PmAsleep ==
  ASSUME PwmTypeOK, PmInv, Asleep
  PROVE  PmInv'
<1>1. /\ pm.phase = "suspend" /\ pm.at = pm.end /\ pm' = [phase |-> "resume", at |-> 0, end |-> pm.end]
      /\ UNCHANGED <<base, pwm, reg, job, wr, rem, was>>
  BY DEF Asleep
<1>2. pm # Awake
  BY <1>1 DEF Awake
<1>3. PmFits /\ pm.end \in Nat /\ NPwm[Rts] \in Nat /\ pm'.phase = "resume" /\ pm'.at = 0 /\ pm'.end = pm.end
  BY <1>1, <1>2, ChipsAssumption DEF PmInv, PwmTypeOK
<1>4. PmFits'
  BY <1>1, <1>3, SameAdded DEF PmFits, Frozen, Usable
<1>5. ASSUME NEW i \in Hw(Rts) PROVE AsItWas(i)'
  <2>1. i \in Nat /\ i < NPwm[Rts] /\ pm.end = NPwm[Rts]
    BY <1>1, <1>3, RtsNumbers DEF Hw, PmFits
  <2>2. Turned(i) /\ Turned(i)'
    BY <1>1, <1>3, <2>1 DEF Turned
  <2>3. AsItWas(i)
    BY <1>2 DEF PmInv
  <2> QED
    BY <1>1, <2>2, <2>3 DEF AsItWas, Child, Was, Output, SwitchedOff
<1> QED
  BY <1>4, <1>5 DEF PmInv

(* The PWM the loop is at, and the others. *)
LEMMA LoopAt ==
  ASSUME PwmTypeOK, PlaceInv, PmInv, PmLoop, NEW i, i = pm.at
  PROVE  /\ i \in Hw(Rts) /\ UNCHANGED <<was, wr, rem>> /\ PmFits' /\ pm'.phase # "awake"
         /\ \A j \in Hw(Rts) : Child(j)' <=> Child(j)
         /\ \A j \in Hw(Rts) : j # i => /\ pwm'[<<Rts, j>>] = pwm[<<Rts, j>>] /\ reg'[<<Rts, j>>] = reg[<<Rts, j>>]
                                        /\ (Turned(j)' <=> Turned(j))
         /\ IF Turned(i)' /\ Child(i)
            THEN SwitchedOff(pwm'[<<Rts, i>>], reg'[<<Rts, i>>], was[i])
            ELSE pwm'[<<Rts, i>>].state = was[i].state /\ reg'[<<Rts, i>>] = was[i].reg
<1>0. i \in Hw(Rts) /\ PmFits /\ pm # Awake /\ i < pm.end /\ AsItWas(i) /\ <<Rts, i>> \in Pwms
  BY PmAt, RtsNumbers, PwmIs DEF PmInv
<1> DEFINE p == <<Rts, i>>
<1>1. /\ Quiet /\ UNCHANGED <<wr, rem, was>>
      /\ \/ ~Child(i) /\ pwm' = pwm /\ reg' = reg /\ pm' = [pm EXCEPT !.at = @ + 1]
         \/ /\ Child(i) /\ pm.phase = "suspend"
            /\ Switched(i, FALSE, pwm[p].state.enabled)
            /\ pm' = IF Valid(pwm[p].state) THEN [pm EXCEPT !.at = @ + 1] ELSE [phase |-> "resume", at |-> 0, end |-> i]
         \/ /\ Child(i) /\ pm.phase = "resume"
            /\ Switched(i, pwm[p].suspend, pwm[p].suspend)
            /\ pm' = IF Valid(pwm[p].state) THEN [pm EXCEPT !.at = @ + 1] ELSE [pm EXCEPT !.at = pm.end]
  BY <1>0, LoopStep
<1>2. Was(was[i]) /\ was[i].state \in PwmState /\ was[i].reg \in RegType /\ (was[i].state.enabled => was[i].reg.en)
  BY <1>0 DEF AsItWas, Was
<1>3. /\ i \in Nat /\ pm.end \in Nat /\ NPwm[Rts] \in Nat /\ pm.phase \in {"suspend", "resume"} /\ pm.end <= NPwm[Rts]
      /\ pm = [phase |-> pm.phase, at |-> i, end |-> pm.end] /\ (pm.phase = "suspend" => pm.end = NPwm[Rts])
  BY <1>0, RtsNumbers, ChipsAssumption DEF PmFits, PwmTypeOK
<1>4. \A j \in Hw(Rts) : j \in Nat /\ j < NPwm[Rts] /\ <<Rts, j>> \in Pwms
  BY RtsNumbers, PwmIs, ChipsAssumption DEF Hw
<1>5. \A j \in Hw(Rts) : Child(j)' <=> Child(j)
  BY <1>1, <1>4 DEF Quiet, SameClaims, Child
<1>6. \A j \in Hw(Rts) : j # i => pwm'[<<Rts, j>>] = pwm[<<Rts, j>>] /\ reg'[<<Rts, j>>] = reg[<<Rts, j>>]
  BY <1>1, <1>4 DEF Switched
<1>7. ~Turned(i) => pwm[p].state = was[i].state /\ reg[p] = was[i].reg
  BY <1>0 DEF AsItWas, Output
<1>8. Turned(i) <=> pm.phase = "resume"
  BY <1>0, <1>3 DEF Turned
<1>9. UNCHANGED base /\ Added' = Added /\ UNCHANGED job
  BY <1>1, SameAdded DEF Quiet
<1>10. ASSUME NEW phase \in {"suspend", "resume"}, NEW at \in Nat, NEW end \in Nat,
              pm' = [phase |-> phase, at |-> at, end |-> end], at <= end, end <= NPwm[Rts], phase = "suspend" => end = NPwm[Rts]
       PROVE  PmFits' /\ pm'.phase # "awake"
  <2>1. pm'.phase = phase /\ pm'.at = at /\ pm'.end = end
    BY <1>10
  <2>2. Frozen' /\ Rts \in Usable'
    BY <1>0, <1>1, <1>9 DEF PmFits, Frozen, Usable
  <2> QED
    BY <1>10, <2>1, <2>2 DEF PmFits
<1>11. CASE pm' = [pm EXCEPT !.at = @ + 1]
  <2>1. pm'.phase = pm.phase /\ pm'.at = i + 1 /\ pm'.end = pm.end /\ pm' = [phase |-> pm.phase, at |-> i + 1, end |-> pm.end]
    BY <1>3, <1>11
  <2>2. PmFits' /\ pm'.phase # "awake"
    BY <1>0, <1>3, <1>10, <2>1
  <2>3. \A j \in Nat : j # i => (Turned(j)' <=> Turned(j))
    BY <1>3, <2>1 DEF Turned
  <2>4. Turned(i)' <=> pm.phase = "suspend"
    BY <1>0, <1>3, <2>1 DEF Turned
  <2>5. IF Turned(i)' /\ Child(i)
        THEN SwitchedOff(pwm'[p], reg'[p], was[i])
        ELSE pwm'[p].state = was[i].state /\ reg'[p] = was[i].reg
    <3>1. CASE ~Child(i)
      <4>1. pwm' = pwm /\ reg' = reg
        BY <1>1, <3>1
      <4>2. Output(i) = was[i]
        BY <1>0, <3>1 DEF AsItWas
      <4>3. pwm[p].state = was[i].state /\ reg[p] = was[i].reg
        BY <4>2 DEF Output
      <4> QED
        BY <3>1, <4>1, <4>3
    <3>2. CASE Child(i) /\ pm.phase = "suspend"
      <4>1. Switched(i, FALSE, pwm[p].state.enabled) /\ pwm[p].state = was[i].state /\ reg[p] = was[i].reg /\ Valid(was[i].state)
        <5>1. Switched(i, FALSE, pwm[p].state.enabled)
              /\ pm' = IF Valid(pwm[p].state) THEN [pm EXCEPT !.at = @ + 1] ELSE [phase |-> "resume", at |-> 0, end |-> i]
          BY <1>1, <3>2
        <5>2. pwm[p].state = was[i].state /\ reg[p] = was[i].reg
          BY <1>7, <1>8, <3>2
        <5>3. Valid(pwm[p].state)
          BY <2>1, <3>2, <5>1
        <5> QED
          BY <5>1, <5>2, <5>3
      <4>2. SwitchedOff(pwm'[p], reg'[p], was[i])
        <5> DEFINE s == was[i].state
                   g == was[i].reg
                   new == [s EXCEPT !.enabled = FALSE]
        <5>1. s \in PwmState /\ g \in RegType /\ Valid(s)
          BY <1>2, <4>1
        <5>2. Applied(s, new) = new /\ pwm_apply_state(g, s, new) = [g EXCEPT !.en = IF s.enabled THEN FALSE ELSE @]
          BY <5>1, TurnOff
        <5>3. /\ pwm'[p].state = Applied(s, new) /\ reg'[p] = pwm_apply_state(g, s, new)
              /\ pwm'[p].suspend = s.enabled
          BY <4>1 DEF Switched
        <5> QED
          BY <5>1, <5>2, <5>3 DEF SwitchedOff
      <4> QED
        BY <2>4, <3>2, <4>2
    <3>3. CASE Child(i) /\ pm.phase = "resume"
      <4>1. Switched(i, pwm[p].suspend, pwm[p].suspend) /\ SwitchedOff(pwm[p], reg[p], was[i])
        BY <1>0, <1>1, <1>8, <3>3 DEF AsItWas
      <4>2. pwm'[p].state = was[i].state /\ reg'[p] = was[i].reg
        <5> DEFINE s == was[i].state
                   g == was[i].reg
                   off == [s EXCEPT !.enabled = FALSE]
                   h == [g EXCEPT !.en = IF s.enabled THEN FALSE ELSE @]
                   new == [off EXCEPT !.enabled = s.enabled]
        <5>1. s \in PwmState /\ g \in RegType /\ Valid(s) /\ (s.enabled => g.en)
          BY <1>2, <4>1 DEF SwitchedOff
        <5>2. Applied(off, new) = s /\ pwm_apply_state(h, off, new) = g
          BY <5>1, TurnBack
        <5>3. pwm[p].state = off /\ reg[p] = h /\ pwm[p].suspend = s.enabled
          BY <4>1 DEF SwitchedOff
        <5>4. pwm'[p].state = Applied(pwm[p].state, [pwm[p].state EXCEPT !.enabled = pwm[p].suspend])
              /\ reg'[p] = pwm_apply_state(reg[p], pwm[p].state, [pwm[p].state EXCEPT !.enabled = pwm[p].suspend])
          BY <4>1 DEF Switched
        <5>5. pwm'[p].state = Applied(off, new) /\ reg'[p] = pwm_apply_state(h, off, new)
          <6> HIDE DEF s, g, off, h
          <6> QED
            BY <5>3, <5>4
        <5> QED
          BY <5>2, <5>5
      <4> QED
        BY <2>4, <3>3, <4>2
    <3> QED
      BY <1>3, <3>1, <3>2, <3>3
  <2> QED
    BY <1>0, <1>1, <1>4, <1>5, <1>6, <2>2, <2>3, <2>5
<1>12. CASE pm' # [pm EXCEPT !.at = @ + 1] /\ Child(i) /\ pm.phase = "suspend"
  <2>1. Switched(i, FALSE, pwm[p].state.enabled) /\ ~Valid(pwm[p].state) /\ pm' = [phase |-> "resume", at |-> 0, end |-> i]
    BY <1>1, <1>12
  <2>2. pm'.phase = "resume" /\ pm'.at = 0 /\ pm'.end = i
    BY <2>1
  <2>3. PmFits' /\ pm'.phase # "awake"
    BY <1>0, <1>3, <1>10, <2>1
  <2>4. \A j \in Nat : Turned(j)' <=> Turned(j)
    BY <1>3, <1>12, <2>2 DEF Turned
  <2>5. pwm[p].state = was[i].state /\ reg[p] = was[i].reg /\ ~Turned(i)'
    BY <1>3, <1>7, <1>8, <1>12, <2>4
  <2>6. pwm'[p].state = was[i].state /\ reg'[p] = was[i].reg
    <3> DEFINE s == was[i].state
               g == was[i].reg
               new == [s EXCEPT !.enabled = FALSE]
    <3>1. s \in PwmState /\ g \in RegType /\ ~Valid(s)
      BY <1>2, <2>1, <2>5
    <3>2. Applied(s, new) = s /\ pwm_apply_state(g, s, new) = g
      BY <3>1, TurnOff
    <3>3. pwm'[p].state = Applied(s, new) /\ reg'[p] = pwm_apply_state(g, s, new)
      BY <2>1, <2>5 DEF Switched
    <3> QED
      BY <3>2, <3>3
  <2> QED
    BY <1>0, <1>1, <1>4, <1>5, <1>6, <2>3, <2>4, <2>5, <2>6
<1>13. CASE pm' # [pm EXCEPT !.at = @ + 1] /\ Child(i) /\ pm.phase = "resume"
  <2>1. SwitchedOff(pwm[p], reg[p], was[i])
    BY <1>0, <1>8, <1>13 DEF AsItWas
  <2>2. Valid(pwm[p].state)
    BY <1>2, <2>1 DEF SwitchedOff, Valid, PwmState
  <2> QED
    BY <1>1, <1>13, <2>2
<1> QED
  BY <1>1, <1>3, <1>11, <1>12, <1>13

LEMMA PmLooped ==
  ASSUME PwmTypeOK, PlaceInv, PmInv, PmLoop
  PROVE  PmInv' /\ pm' # Awake
<1>1. PICK i : i = pm.at
  OBVIOUS
<1>2. /\ i \in Hw(Rts) /\ UNCHANGED <<was, wr, rem>> /\ PmFits' /\ pm'.phase # "awake"
      /\ \A j \in Hw(Rts) : Child(j)' <=> Child(j)
      /\ \A j \in Hw(Rts) : j # i => /\ pwm'[<<Rts, j>>] = pwm[<<Rts, j>>] /\ reg'[<<Rts, j>>] = reg[<<Rts, j>>]
                                     /\ (Turned(j)' <=> Turned(j))
      /\ IF Turned(i)' /\ Child(i)
         THEN SwitchedOff(pwm'[<<Rts, i>>], reg'[<<Rts, i>>], was[i])
         ELSE pwm'[<<Rts, i>>].state = was[i].state /\ reg'[<<Rts, i>>] = was[i].reg
  BY <1>1, LoopAt
<1>3. \A j \in Hw(Rts) : AsItWas(j)
  BY PmAt DEF PmInv
<1>4. \A j \in Hw(Rts) : Was(was[j]) /\ was[j] = [state |-> was[j].state, reg |-> was[j].reg]
  BY <1>3 DEF AsItWas, Was
<1>5. AsItWas(i)'
  BY <1>2, <1>4 DEF AsItWas, Output, Was, SwitchedOff
<1>6. ASSUME NEW j \in Hw(Rts), j # i PROVE AsItWas(j)'
  BY <1>2, <1>3, <1>6 DEF AsItWas, Output, Was, SwitchedOff
<1>7. Awake.phase = "awake"
  BY DEF Awake
<1> QED
  BY <1>2, <1>5, <1>6, <1>7 DEF PmInv

LEMMA PmStep ==
  ASSUME PwmInv, [PwmNext]_pwmVars
  PROVE  PmInv'
<1>0. PwmTypeOK /\ PlaceInv /\ RegInv /\ PmInv /\ WritesFit
  BY DEF PwmInv, HoldInv
<1>1. CASE UNCHANGED pwmVars
  BY <1>0, <1>1 DEF pwmVars, PmInv, PmFits, Frozen, Usable, Added, AsItWas, Turned, Child, Output, Was, SwitchedOff
<1>2. CASE PwmNext /\ pm = Awake
  BY <1>0, <1>2, AwakeStays, PmSuspend DEF PmInv
<1>3. CASE PwmNext /\ pm # Awake
  <2>1. Thaw => PmInv'
    BY DEF Thaw, PmInv, Awake
  <2> QED
    BY <1>0, <1>3, <2>1, FrozenStops, PmLooped, PmAsleep
<1> QED
  BY <1>1, <1>2, <1>3

-----------------------------------------------------------------------------
LEMMA PwmInitially == PwmInit => PwmInv
<1> SUFFICES ASSUME PwmInit PROVE PwmInv
  OBVIOUS
<1>0. /\ Idle \in WrType /\ Idle.at = "idle" /\ Idle.p = None /\ Idle.i = 0 /\ Fresh \in PwmType /\ Stays.at = "no" /\ Rts \in Chips
      /\ None \notin Pwms /\ Fits(Fresh, None)
  BY IdleType, FreshType, ChipsAssumption, Strings, FreshFits DEF Stays
<1>1. PwmTypeOK
  <2>1. pwm \in [Pwms -> PwmType] /\ wr \in [Writers -> WrType]
    BY <1>0 DEF PwmInit
  <2>2. reg \in [Pwms -> RegType]
    BY DEF PwmInit, RegType
  <2>3. rem \in [Chips -> [at : {"no", "unexport", "files", "refused"}, i : Nat]]
    BY DEF PwmInit, Stays
  <2>4. pm \in [phase : {"awake", "suspend", "resume"}, at : Nat, end : Nat]
    BY DEF PwmInit, Awake
  <2> QED
    BY <2>1, <2>2, <2>3, <2>4 DEF PwmInit, PwmTypeOK
<1>2. Added = {}
  BY DEF PwmInit, Added
<1>3. PlaceInv
  <2>1. Present
    BY DEF PwmInit, Present
  <2>2. PointersFit
    BY <1>0 DEF PwmInit, PointersFit, At
  <2>3. ChipsApart
    BY <1>2 DEF ChipsApart
  <2>4. RemovalsFit
    BY <1>0 DEF PwmInit, RemovalsFit
  <2> QED
    BY <2>1, <2>2, <2>3, <2>4 DEF PlaceInv
<1>4. HoldInv
  <2>1. WritesFit
    BY <1>0 DEF PwmInit, WritesFit
  <2>2. ClassHolds
    BY <1>0 DEF PwmInit, ClassHolds
  <2>3. SettingsHold
    BY <1>0 DEF PwmInit, SettingsHold
  <2> QED
    BY <2>1, <2>2, <2>3 DEF HoldInv
<1>5. RegInv
  <2>1. TicksFollow
    BY DEF PwmInit, TicksFollow, TicksAgree, Fresh, Off
  <2>2. SwitchFollows /\ OffGone
    BY <1>2 DEF PwmInit, SwitchFollows, OffGone
  <2> QED
    BY <2>1, <2>2 DEF RegInv
<1>6. PmInv
  BY DEF PwmInit, PmInv
<1> QED
  BY <1>1, <1>3, <1>4, <1>5, <1>6 DEF PwmInv

LEMMA PwmStill ==
  ASSUME PwmInv, UNCHANGED pwmVars
  PROVE  PlaceInv' /\ HoldInv' /\ RegInv'
<1>0. PlaceInv /\ HoldInv /\ RegInv /\ UNCHANGED <<base, pwm, reg, desc, job, wr, rem, pm, was, crossed, late>>
  BY DEF PwmInv, pwmVars
<1>1. Added' = Added
  BY <1>0, SameAdded
<1>2. PlaceInv'
  BY <1>0, <1>1 DEF PlaceInv, Present, PointersFit, At, ChipsApart, Numbers, RemovalsFit
<1>3. HoldInv'
  BY <1>0, <1>1 DEF HoldInv, WritesFit, ClassHolds, Orderly, SettingsHold, Settings, Forgets
<1>4. RegInv'
  BY <1>0, <1>1 DEF RegInv, TicksFollow, SwitchFollows, OffGone
<1> QED
  BY <1>2, <1>3, <1>4

(* The writes that end or go on with the pointers they have. *)
LEMMA SettingsAt ==
  ASSUME PwmTypeOK, PlaceInv, NEW k \in Writers, SettingsConfig(k) \/ SettingsSwitch(k)
  PROVE  \A l \in Writers : At(wr'[l].p, wr'[l].i)
<1>1. /\ wr \in [Writers -> WrType] /\ wr[k] \in WrType /\ Idle.p = None /\ None \notin Pwms
      /\ \A l \in Writers : At(wr[l].p, wr[l].i)
  BY IdleType, Strings DEF PwmTypeOK, PlaceInv, PointersFit
<1>2. LET w == [wr[k] EXCEPT !.at = "switch"] IN w.p = wr[k].p /\ w.i = wr[k].i
  BY <1>1 DEF WrType
<1>3. wr' = [wr EXCEPT ![k] = [wr[k] EXCEPT !.at = "switch"]] \/ wr' = [wr EXCEPT ![k] = Idle]
  BY DEF SettingsConfig, SettingsSwitch
<1>4. At(wr'[k].p, wr'[k].i)
  BY <1>1, <1>2, <1>3 DEF At
<1>5. \A l \in Writers : l # k => wr'[l] = wr[l]
  BY <1>1, <1>3
<1> QED
  BY <1>1, <1>4, <1>5

LEMMA PwmStep == PwmInv /\ [PwmNext]_pwmVars => PwmInv'
<1> SUFFICES ASSUME PwmInv, [PwmNext]_pwmVars PROVE PwmInv'
  OBVIOUS
<1>0. PwmTypeOK /\ PlaceInv /\ HoldInv /\ RegInv /\ PmInv /\ WritesFit
  BY DEF PwmInv, HoldInv
<1>1. PwmTypeOK' /\ PmInv'
  BY PwmTypeStep, PmStep
<1> DEFINE Kept == PlaceInv' /\ HoldInv' /\ RegInv'
<1>2. CASE UNCHANGED pwmVars
  BY <1>1, <1>2, PwmStill DEF PwmInv
<1>3. ASSUME NEW c \in Chips, pwmchip_add_with_polarity(c) PROVE Kept
  BY <1>0, <1>3, PlaceAdd, HoldAdd, RegAdd
<1>4. ASSUME NEW c \in Chips, Remove(c) \/ RemoveRefused(c) \/ RemoveFiles PROVE Kept
  BY <1>0, <1>4, PlaceRemoval, HoldRemoval, RegRemoval
<1>5. ASSUME NEW c \in Chips, pwmchip_remove(c) PROVE Kept
  BY <1>0, <1>5, PlaceRemove, HoldRemove, RegRemove
<1>6. ASSUME NEW c \in Chips, pwmchip_sysfs_unexport(c) PROVE Kept
  BY <1>0, <1>6, PlaceUnexport, RegUnexport, ClaimRemoval, HoldClaim DEF PlaceInv
<1>7. ASSUME NEW p \in Pwms, Claims(p) PROVE Kept
  <2>1. OneClaim(p) /\ UNCHANGED rem
    BY <1>0, <1>7, ClaimStep DEF Claims
  <2> QED
    BY <1>0, <1>7, <2>1, PlaceClaims, HoldClaim, RegClaim
<1>8. ASSUME Quiet, UNCHANGED <<wr, rem>> PROVE Kept
  <2>1. \A l \in Writers : At(wr'[l].p, wr'[l].i)
    BY <1>0, <1>8 DEF PlaceInv, PointersFit
  <2> QED
    BY <1>0, <1>8, <2>1, PlaceQuiet, HoldQuiet, RegQuiet
<1>9. ASSUME NEW p \in Pwms, Consumer(p) \/ ClassStore(p) PROVE Kept
  BY <1>0, <1>8, <1>9, QuietConsumer
<1>10. ASSUME NEW k \in Writers, Writes(k) PROVE Kept
  BY <1>0, <1>10, PlaceWrites, HoldWrites, RegWrites
<1>11. ASSUME NEW k \in Writers, SettingsConfig(k) \/ SettingsSwitch(k) PROVE Kept
  <2>1. Quiet /\ UNCHANGED rem
    BY <1>0, <1>11, QuietSettings
  <2> QED
    BY <1>0, <1>11, <2>1, SettingsAt, PlaceQuiet, HoldSettings, RegQuiet
<1>12. ASSUME Pauses PROVE Kept
  BY <1>0, <1>8, <1>12, QuietStill DEF Pauses, Suspend, Asleep, Thaw
<1>13. ASSUME PmLoop PROVE Kept
  BY <1>0, <1>8, <1>13, PmAt, LoopStep
<1>14. ASSUME RemoveFiles PROVE Kept
  BY <1>4, <1>14, ChipsAssumption
<1>15. PwmNext => Kept
  BY <1>3, <1>4, <1>5, <1>6, <1>7, <1>9, <1>10, <1>11, <1>12, <1>13, <1>14, NextIs
<1> QED
  BY <1>1, <1>2, <1>15 DEF PwmInv

LEMMA PwmInvariant == PwmSpec => []PwmInv
BY PwmInitially, PwmStep, PTL DEF PwmSpec

(* The chips, the PWMs of each, and how far every call has come are of the *)
(* types declared for them (struct pwm_chip, struct pwm_device).           *)
THEOREM PwmTypeCorrect == PwmSpec => []PwmTypeOK
<1>1. PwmInv => PwmTypeOK
  BY DEF PwmInv
<1> QED
  BY <1>1, PwmInvariant, PTL

(* A PWM has one user, and the registers follow its state, for any number  *)
(* of chips, PWMs and writers (pwm_device_request, pwm_export_child,       *)
(* request_store, pwm_apply_state).                                        *)
THEOREM PwmSoundCorrect == PwmSpec => []PwmSound
<1>1. PwmInv => HeldByOne
  <2> SUFFICES ASSUME PwmInv PROVE HeldByOne
    OBVIOUS
  <2>1. HoldInv /\ PlaceInv
    BY DEF PwmInv
  <2>2. \A p \in Pwms : Orderly(p) /\ (pwm[p].child \/ pwm[p].exported) => pwm[p].requested = "class"
    BY <2>1 DEF HoldInv, ClassHolds, Fits
  <2>3. \A i \in Hw(Rts) \ crossed : desc[i] # None =>
          \/ desc[i] \in Pwms /\ pwm[desc[i]].requested = "settings"
          \/ \E k \in Writers : wr[k].at = "forget" /\ wr[k].i = i
    BY <2>1 DEF HoldInv, SettingsHold, Settings, Forgets
  <2>4. \A c, d \in Added : c # d => Numbers(c) \cap Numbers(d) = {}
    BY <2>1 DEF PlaceInv, ChipsApart
  <2> QED
    BY <2>2, <2>3, <2>4 DEF HeldByOne
<1>2. PwmInv => RegistersAgree
  <2> SUFFICES ASSUME PwmInv, Rts \in Added, rem[Rts] = Stays, NEW p \in Pwms, p[1] = Rts
               PROVE  /\ reg[p].en = pwm[p].state.enabled \/ p \in late
                      /\ pwm[p].state.period # 0 => reg[p].high = pwm[p].state.duty \div TinNs
                                                    /\ reg[p].high + reg[p].low = pwm[p].state.period \div TinNs
    BY Zenon DEF RegistersAgree
  <2>1. RegInv /\ PwmTypeOK
    BY DEF PwmInv
  <2>2. TicksAgree(reg[p], pwm[p].state)
    BY <2>1 DEF RegInv, TicksFollow
  <2>3. (pwm[p].state.enabled => reg[p].en) /\ (reg[p].en => pwm[p].state.enabled \/ p \in late)
    BY <2>1 DEF RegInv, SwitchFollows
  <2>4. pwm[p].state.enabled \in BOOLEAN /\ reg[p].en \in BOOLEAN
    BY <2>1, StateOf DEF PwmState, RegType
  <2>5. reg[p].en = pwm[p].state.enabled \/ p \in late
    BY <2>3, <2>4
  <2> QED
    BY <2>2, <2>5 DEF TicksAgree
<1> QED
  BY <1>1, <1>2, PwmInvariant, PTL DEF PwmSound

(* When a resume ends, or a suspend that was refused half way and rolled   *)
(* back, every output and its state is as the suspend found it             *)
(* (pwm_class_suspend, pwm_class_resume_npwm).                             *)
THEOREM SwitchedBackCorrect == PwmSpec => SwitchedBack
<1>1. ASSUME PwmInv, [PwmNext]_pwmVars
      PROVE  [pm # Awake /\ pm' = Awake => \A i \in Hw(Rts) : Output(i)' = was[i]]_pwmVars
  <2> SUFFICES ASSUME PwmNext, pm # Awake, pm' = Awake PROVE \A i \in Hw(Rts) : Output(i)' = was[i]
    BY <1>1
  <2>0. PwmTypeOK /\ PlaceInv /\ PmInv /\ Awake.phase = "awake"
    BY <1>1 DEF PwmInv, Awake
  <2>1. ~PmLoop
    BY <2>0, PmLooped
  <2>2. ~Asleep
    BY <2>0 DEF Asleep
  <2>3. Thaw
    BY <2>0, <2>1, <2>2, FrozenStops
  <2>4. pm.phase = "resume" /\ pm.at = pm.end /\ pwm' = pwm /\ reg' = reg /\ pm.at \in Nat
    BY <2>0, <2>3 DEF Thaw, PwmTypeOK
  <2>5. ASSUME NEW i \in Hw(Rts) PROVE Output(i)' = was[i]
    <3>1. ~Turned(i)
      BY <2>4, RtsNumbers DEF Turned
    <3>2. AsItWas(i)
      BY <2>0 DEF PmInv
    <3> QED
      BY <2>4, <3>1, <3>2 DEF AsItWas, Output
  <2> QED
    BY <2>5
<1> QED
  BY <1>1, PwmInvariant, PTL DEF SwitchedBack, PwmSpec

-----------------------------------------------------------------------------
(* Thermal: the maps of a zone for a cooling device are bound in order, up *)
(* to the first refusal.  So the bound ones are always the first few of    *)
(* those before a map that repeats another, and of_thermal_unbind, which   *)
(* stops at the first map that is not bound, reaches them all.             *)
Instance(z, p, c) == <<z, TripAt(z, p), c>>
Unrepeated(z, c) == {p \in Mine(z, c) : \A q \in Mine(z, c) : Repeats(z, q, c) => Before(p, q)}
InstancesNamed ==
  \A x \in inst : \E z \in OfZones, c \in Cdevs : \E p \in Unrepeated(z, c) : x = Instance(z, p, c)
BoundInOrder ==
  \A z \in OfZones, c \in Cdevs : \A p, q \in Unrepeated(z, c) :
    Before(p, q) /\ Instance(z, q, c) \in inst => Instance(z, p, c) \in inst
Live == {"listed", "bound", "live"}
InstancesLive ==
  \A z \in OfZones, c \in Cdevs : \A p \in Unrepeated(z, c) :
    Instance(z, p, c) \in inst => zone[z].pc \in Live /\ cdev[c] # "none"
InstInv == InstancesNamed /\ BoundInOrder /\ InstancesLive

(* Until thermal_zone_device_unregister drops it, a zone has the governor  *)
(* that is bound to it; and the zones that are known were built from a     *)
(* node that is well formed.                                               *)
Ending == {"clearing", "leaving", "freed"}
Agreed(r) == r.pc \notin Ending => r.govs = {r.gov} \ {NoOne}
GovernorsAgree == \A z \in Zones : Agreed(zone[z])
Parsed == \A z \in Zones : zone[z].pc # "none" => of_parse_thermal_zones(z)
ThermalTypes ==
  /\ zone \in [Zones -> ZoneType] /\ cdev \in [Cdevs -> {"none", "listed", "bound", "live"}]
  /\ sensed \in [Zones -> Invalid..CriticalTrip] /\ suspend \in BOOLEAN
  /\ setters \subseteq OfZones \X BOOLEAN /\ poweroff \in 0..1
ThermalInv == ThermalTypes /\ Parsed /\ GovernorsAgree /\ InstInv

(* The order of the two loops over the maps is total. *)
LEMMA PlacesOrdered ==
  ASSUME NEW z \in Zones, NEW p \in Places(z), NEW q \in Places(z)
  PROVE  /\ ~Before(p, p) /\ (Before(p, q) \/ p = q \/ Before(q, p))
         /\ \A r \in Places(z) : Before(p, q) /\ Before(q, r) => Before(p, r)
<1>1. \A r \in Places(z) : r[1] \in Nat /\ r[2] \in Nat /\ r = <<r[1], r[2]>>
  <2>1. Dt[z] \in [delays : BOOLEAN, trips : SUBSET Nat, maps : Seq([trip : Nat, cdevs : Seq(Cdevs)])]
    BY ThermalAssumption DEF ThermalAssumption
  <2> DEFINE M == Dt[z].maps
             Entry == [trip : Nat, cdevs : Seq(Cdevs)]
  <2>2. M \in Seq(Entry)
    BY <2>1
  <2> HIDE DEF M, Entry
  <2>3. DOMAIN M = 1..Len(M) /\ Len(M) \in Nat /\ \A i \in DOMAIN M : M[i] \in Entry
    BY <2>2
  <2>4. \A i \in DOMAIN M : M[i].cdevs \in Seq(Cdevs)
    BY <2>3 DEF Entry
  <2>5. ASSUME NEW i \in DOMAIN M, NEW j \in DOMAIN M[i].cdevs
        PROVE  i \in Nat /\ j \in Nat
    <3>1. DOMAIN M[i].cdevs = 1..Len(M[i].cdevs) /\ Len(M[i].cdevs) \in Nat
      BY <2>4
    <3> QED
      BY <2>3, <3>1
  <2>6. \A r \in Places(z) : \E i \in DOMAIN M : \E j \in DOMAIN M[i].cdevs : r = <<i, j>>
    BY DEF Places, M
  <2> QED
    BY <2>5, <2>6
<1>2. Before(p, q) \/ p = q \/ Before(q, p)
  BY <1>1 DEF Before
<1>3. ~Before(p, p)
  BY <1>1 DEF Before
<1>4. ASSUME NEW r \in Places(z), Before(p, q), Before(q, r)
      PROVE  Before(p, r)
  BY <1>1, <1>4 DEF Before
<1> QED
  BY <1>2, <1>3, <1>4

(* Maps before the first that repeats one have different trips. *)
LEMMA UnrepeatedApart ==
  ASSUME NEW z \in Zones, NEW c, NEW p \in Unrepeated(z, c), NEW q \in Unrepeated(z, c), TripAt(z, p) = TripAt(z, q)
  PROVE  p = q
<1>1. p \in Mine(z, c) /\ q \in Mine(z, c) /\ p \in Places(z) /\ q \in Places(z)
  BY DEF Unrepeated, Mine
<1>2. Before(p, q) => Repeats(z, q, c)
  BY <1>1 DEF Repeats
<1>3. Before(q, p) => Repeats(z, p, c)
  BY <1>1 DEF Repeats
<1>4. ~Repeats(z, p, c) /\ ~Repeats(z, q, c)
  BY <1>1, PlacesOrdered DEF Unrepeated
<1> QED
  BY <1>1, <1>2, <1>3, <1>4, PlacesOrdered

(* What is before a map that repeats nothing repeats nothing. *)
LEMMA UnrepeatedFirst ==
  ASSUME NEW z \in Zones, NEW c, NEW p \in Unrepeated(z, c), NEW q \in Mine(z, c), q \notin Unrepeated(z, c)
  PROVE  Before(p, q)
<1>1. PICK r \in Mine(z, c) : Repeats(z, r, c) /\ ~Before(q, r)
  BY DEF Unrepeated
<1>2. Before(p, r)
  BY <1>1 DEF Unrepeated
<1>3. r = q \/ Before(r, q)
  BY <1>1, PlacesOrdered DEF Mine
<1> QED
  BY <1>2, <1>3, PlacesOrdered DEF Unrepeated, Mine

(* The maps that the loop of of_thermal_bind adds. *)
Reached(z, c, fails) ==
  {p \in Mine(z, c) : \A r \in Mine(z, c) :
     ~thermal_zone_bind_cooling_device(z, r, c, inst, fails) => Before(p, r)}
LEMMA BindAdds ==
  ASSUME NEW z \in OfZones, NEW c \in Cdevs, NEW fails
  PROVE  /\ OfBind(z, c, inst, fails) = inst \cup {Instance(z, p, c) : p \in Reached(z, c, fails)}
         /\ \A p \in Reached(z, c, fails) : p \in Unrepeated(z, c) /\ OnLists(z, c)
         /\ \A p \in Unrepeated(z, c), q \in Reached(z, c, fails) : Before(p, q) => p \in Reached(z, c, fails)
<1>0. z \in Zones
  BY DEF Zones
<1>1. OfBind(z, c, inst, fails) = inst \cup {Instance(z, p, c) : p \in Reached(z, c, fails)}
  BY DEF OfBind, Reached, Instance
<1>2. ASSUME NEW p \in Reached(z, c, fails)
      PROVE  p \in Unrepeated(z, c) /\ OnLists(z, c)
  <2>1. p \in Mine(z, c) /\ p \in Places(z) /\ ~Before(p, p)
    BY <1>0, PlacesOrdered DEF Reached, Mine
  <2>2. \A r \in Mine(z, c) : Repeats(z, r, c) => Before(p, r)
    BY DEF Reached, thermal_zone_bind_cooling_device
  <2>3. thermal_zone_bind_cooling_device(z, p, c, inst, fails)
    BY <2>1 DEF Reached
  <2> QED
    BY <2>1, <2>2, <2>3 DEF Unrepeated, thermal_zone_bind_cooling_device
<1>3. ASSUME NEW p \in Unrepeated(z, c), NEW q \in Reached(z, c, fails), Before(p, q)
      PROVE  p \in Reached(z, c, fails)
  <2>1. p \in Mine(z, c) /\ \A r \in Mine(z, c) : r \in Places(z)
    BY DEF Unrepeated, Mine
  <2>2. q \in Mine(z, c)
    BY DEF Reached
  <2> QED
    BY <1>0, <1>3, <2>1, <2>2, PlacesOrdered DEF Reached
<1> QED
  BY <1>1, <1>2, <1>3

(* Instances tell their zone, map and cooling device. *)
LEMMA InstanceIs ==
  ASSUME NEW z \in OfZones, NEW c, NEW p \in Unrepeated(z, c), NEW y \in OfZones, NEW d, NEW q \in Unrepeated(y, d),
         Instance(z, p, c) = Instance(y, q, d)
  PROVE  z = y /\ c = d /\ p = q
<1>1. z = y /\ c = d /\ TripAt(z, p) = TripAt(y, q)
  BY DEF Instance
<1> QED
  BY <1>1, UnrepeatedApart DEF Zones

(* Binding zones and cooling devices that are on the lists keeps the order. *)
LEMMA BindKeeps ==
  ASSUME InstInv, inst \subseteq inst',
         \A x \in inst' \ inst : \E z \in OfZones, c \in Cdevs : \E fails :
            x \in OfBind(z, c, inst, fails) /\ OfBind(z, c, inst, fails) \subseteq inst',
         \A z \in OfZones, c \in Cdevs : OnLists(z, c) => zone'[z].pc \in Live /\ cdev'[c] # "none"
  PROVE  InstInv'
<1>0. \A z, p, c : Instance(z, p, c)' = Instance(z, p, c)
  BY DEF Instance, TripAt
<1>1. ASSUME NEW x \in inst', x \notin inst
      PROVE  \E z \in OfZones, c \in Cdevs : \E fails :
               /\ \E p \in Reached(z, c, fails) : x = Instance(z, p, c)
               /\ \A p \in Reached(z, c, fails) : Instance(z, p, c) \in inst'
  <2>0. PICK z \in OfZones, c \in Cdevs : \E fails :
          x \in OfBind(z, c, inst, fails) /\ OfBind(z, c, inst, fails) \subseteq inst'
    BY <1>1
  <2>1. PICK fails : x \in OfBind(z, c, inst, fails) /\ OfBind(z, c, inst, fails) \subseteq inst'
    BY <2>0
  <2>2. OfBind(z, c, inst, fails) = inst \cup {Instance(z, p, c) : p \in Reached(z, c, fails)}
    BY BindAdds
  <2>3. \E p \in Reached(z, c, fails) : x = Instance(z, p, c)
    BY <1>1, <2>1, <2>2
  <2>4. \A p \in Reached(z, c, fails) : Instance(z, p, c) \in inst'
    BY <2>1, <2>2
  <2> QED
    BY <2>3, <2>4
<1>2. InstancesNamed'
  <2> SUFFICES ASSUME NEW x \in inst'
               PROVE  \E z \in OfZones, c \in Cdevs : \E p \in Unrepeated(z, c) : x = Instance(z, p, c)
    BY <1>0 DEF InstancesNamed
  <2>1. CASE x \in inst
    BY <2>1 DEF InstInv, InstancesNamed
  <2>2. CASE x \notin inst
    BY <1>1, <2>2, BindAdds
  <2> QED
    BY <2>1, <2>2
<1>3. ASSUME NEW z \in OfZones, NEW c \in Cdevs, NEW q \in Unrepeated(z, c), Instance(z, q, c) \in inst'
      PROVE  \/ Instance(z, q, c) \in inst
             \/ \E fails : q \in Reached(z, c, fails) /\ \A p \in Reached(z, c, fails) : Instance(z, p, c) \in inst'
  <2> SUFFICES ASSUME Instance(z, q, c) \notin inst
               PROVE  \E fails : q \in Reached(z, c, fails) /\ \A p \in Reached(z, c, fails) : Instance(z, p, c) \in inst'
    OBVIOUS
  <2>0. PICK y \in OfZones, d \in Cdevs : \E fails :
          /\ \E p \in Reached(y, d, fails) : Instance(z, q, c) = Instance(y, p, d)
          /\ \A p \in Reached(y, d, fails) : Instance(y, p, d) \in inst'
    BY <1>1, <1>3
  <2>1. PICK fails :
          /\ \E p \in Reached(y, d, fails) : Instance(z, q, c) = Instance(y, p, d)
          /\ \A p \in Reached(y, d, fails) : Instance(y, p, d) \in inst'
    BY <2>0
  <2>2. PICK p \in Reached(y, d, fails) : Instance(z, q, c) = Instance(y, p, d)
    BY <2>1
  <2>3. p \in Unrepeated(y, d)
    BY BindAdds
  <2>4. z = y /\ c = d /\ q = p
    BY <2>2, <2>3, InstanceIs
  <2> QED
    BY <2>1, <2>2, <2>4
<1>4. BoundInOrder'
  <2> SUFFICES ASSUME NEW z \in OfZones, NEW c \in Cdevs, NEW p \in Unrepeated(z, c), NEW q \in Unrepeated(z, c),
                      Before(p, q), Instance(z, q, c) \in inst'
               PROVE  Instance(z, p, c) \in inst'
    BY <1>0 DEF BoundInOrder
  <2>1. CASE Instance(z, q, c) \in inst
    BY <2>1 DEF InstInv, BoundInOrder
  <2>2. CASE Instance(z, q, c) \notin inst
    <3>1. PICK fails : q \in Reached(z, c, fails) /\ \A r \in Reached(z, c, fails) : Instance(z, r, c) \in inst'
      BY <1>3, <2>2
    <3>2. p \in Reached(z, c, fails)
      BY <3>1, BindAdds
    <3> QED
      BY <3>1, <3>2
  <2> QED
    BY <2>1, <2>2
<1>5. InstancesLive'
  <2> SUFFICES ASSUME NEW z \in OfZones, NEW c \in Cdevs, NEW p \in Unrepeated(z, c), Instance(z, p, c) \in inst'
               PROVE  zone'[z].pc \in Live /\ cdev'[c] # "none"
    BY <1>0 DEF InstancesLive
  <2>1. OnLists(z, c)
    <3>1. CASE Instance(z, p, c) \in inst
      BY <3>1 DEF InstInv, InstancesLive, OnLists, Listed, Live
    <3>2. CASE Instance(z, p, c) \notin inst
      BY <1>3, <3>2, BindAdds
    <3> QED
      BY <3>1, <3>2
  <2> QED
    BY <2>1
<1> QED
  BY <1>2, <1>4, <1>5 DEF InstInv

(* of_thermal_unbind reaches every instance of the pair and no other. *)
LEMMA UnbindAll ==
  ASSUME InstInv, NEW z \in OfZones, NEW c \in Cdevs, NEW y \in OfZones, NEW d \in Cdevs, NEW p \in Unrepeated(y, d),
         Instance(y, p, d) \in inst
  PROVE  Instance(y, p, d) \in OfUnbind(z, c, inst) <=> (y # z \/ d # c)
<1> DEFINE Cleared == {q \in Mine(z, c) : \A r \in Mine(z, c) :
                      ~thermal_zone_unbind_cooling_device(z, r, c, inst) => Before(q, r)}
<1>1. OfUnbind(z, c, inst) = inst \ {Instance(z, q, c) : q \in Cleared}
  BY DEF OfUnbind, Instance
<1>2. ASSUME y = z, d = c
      PROVE  p \in Cleared
  <2>1. p \in Mine(z, c) /\ z \in Zones
    BY <1>2 DEF Unrepeated, Zones
  <2> SUFFICES ASSUME NEW r \in Mine(z, c), ~thermal_zone_unbind_cooling_device(z, r, c, inst)
               PROVE  Before(p, r)
    BY <2>1
  <2>2. CASE r \notin Unrepeated(z, c)
    BY <1>2, <2>1, <2>2, UnrepeatedFirst
  <2>3. CASE r \in Unrepeated(z, c)
    <3>1. p \in Places(z) /\ r \in Places(z)
      BY <2>1 DEF Mine
    <3>2. ~Repeats(z, r, c)
      BY <2>1, <2>3, <3>1, PlacesOrdered DEF Unrepeated
    <3>3. Instance(z, r, c) \notin inst
      BY <3>2 DEF thermal_zone_unbind_cooling_device, Instance
    <3>4. ~Before(r, p)
      BY <1>2, <2>3, <3>3 DEF InstInv, BoundInOrder
    <3>5. r # p
      BY <1>2, <3>3
    <3> QED
      BY <2>1, <3>1, <3>4, <3>5, PlacesOrdered
  <2> QED
    BY <2>2, <2>3
<1>3. ASSUME y # z \/ d # c, NEW q \in Cleared
      PROVE  Instance(y, p, d) # Instance(z, q, c)
  BY <1>3 DEF Instance
<1> QED
  BY <1>1, <1>2, <1>3

(* Dropping all instances of zones or cooling devices keeps the order of   *)
(* the others.                                                             *)
LEMMA DropKeeps ==
  ASSUME InstInv, inst' \subseteq inst, NEW gone,
         \A z \in OfZones, c \in Cdevs : \A p \in Unrepeated(z, c) :
            Instance(z, p, c) \in inst => (Instance(z, p, c) \in inst' <=> <<z, c>> \notin gone),
         \A z \in OfZones, c \in Cdevs : OnLists(z, c) /\ <<z, c>> \notin gone =>
            zone'[z].pc \in Live /\ cdev'[c] # "none"
  PROVE  InstInv'
<1>0. \A z, p, c : Instance(z, p, c)' = Instance(z, p, c)
  BY DEF Instance, TripAt
<1>1. InstancesNamed'
  BY <1>0 DEF InstInv, InstancesNamed
<1>2. BoundInOrder'
  BY <1>0 DEF InstInv, BoundInOrder
<1>3. InstancesLive'
  BY <1>0 DEF InstInv, InstancesLive, OnLists, Listed, Live
<1> QED
  BY <1>1, <1>2, <1>3 DEF InstInv

-----------------------------------------------------------------------------
(* Records of zones. *)
Alike(r, q) == q \in ZoneType /\ q.pc = r.pc /\ q.gov = r.gov /\ q.govs = r.govs

LEMMA UpdateStartAlike ==
  ASSUME ThermalTypes, NEW z \in Zones, NEW r \in ZoneType, NEW who \in {"poll", "call"}
  PROVE  Alike(r, UpdateStart(r, z, who)) /\ Alike(r, update_temperature(r, z))
<1>1. sensed[z] \in Invalid..CriticalTrip
  BY DEF ThermalTypes
<1>2. Alike(r, update_temperature(r, z))
  BY <1>1 DEF Alike, update_temperature, ZoneType
<1>3. \A q \in ZoneType : Alike(q, [q EXCEPT !.upd = @ \cup {who}])
  BY DEF Alike, ZoneType
<1>4. PICK q : q = update_temperature(r, z)
  OBVIOUS
<1>5. q \in ZoneType /\ Alike(r, q) /\ Alike(q, [q EXCEPT !.upd = @ \cup {who}])
  BY <1>2, <1>3, <1>4 DEF Alike
<1>6. Alike(r, [q EXCEPT !.upd = @ \cup {who}])
  BY <1>5 DEF Alike
<1>7. Alike(r, r)
  BY DEF Alike
<1>8. UpdateStart(r, z, who) = IF suspend \/ ~r.sensor THEN r ELSE [q EXCEPT !.upd = @ \cup {who}]
  BY <1>4 DEF UpdateStart
<1> QED
  BY <1>2, <1>6, <1>7, <1>8

(* The governor that is bound is the one the zone names, whatever answers  *)
(* (thermal_set_governor).                                                 *)
LEMMA GovernorSet ==
  ASSUME NEW r \in ZoneType, NEW g \in Governors \cup {NoOne}, NEW new \in BOOLEAN, NEW old \in BOOLEAN,
         NEW q, q = thermal_set_governor(r, g, new, old)
  PROVE  q \in ZoneType /\ q.pc = r.pc /\ (Agreed(r) => Agreed(q))
<1>1. r.gov \in Governors \cup {NoOne} /\ NoOne \notin Governors /\ r.govs \in SUBSET Governors
  BY ThermalAssumption DEF ThermalAssumption, ZoneType
<1>2. PICK rest : rest = r.govs \ {r.gov}
  OBVIOUS
<1>3. PICK u : u = unbind_from_tz(r)
  OBVIOUS
<1>4. /\ u = [r EXCEPT !.govs = rest] /\ u \in ZoneType /\ u.pc = r.pc /\ u.gov = r.gov /\ u.govs = rest
      /\ rest \in SUBSET Governors
  BY <1>1, <1>2, <1>3 DEF unbind_from_tz, ZoneType
<1>5. r.govs = {r.gov} \ {NoOne} => rest = {}
  BY <1>2
<1>6. CASE g = NoOne \/ new
  <2>1. PICK s : s = rest \cup ({g} \ {NoOne})
    OBVIOUS
  <2>2. s \in SUBSET Governors
    BY <1>1, <1>4, <2>1
  <2>3. q = [[u EXCEPT !.govs = s] EXCEPT !.gov = g]
    BY <1>3, <1>4, <1>6, <2>1 DEF thermal_set_governor, bind_to_tz
  <2>4. q \in ZoneType /\ q.pc = r.pc /\ q.gov = g /\ q.govs = s
    BY <1>4, <2>2, <2>3 DEF ZoneType
  <2> QED
    BY <1>5, <2>1, <2>4 DEF Agreed
<1>7. CASE ~(g = NoOne \/ new) /\ old
  <2>1. PICK s : s = rest \cup ({r.gov} \ {NoOne})
    OBVIOUS
  <2>2. s \in SUBSET Governors
    BY <1>1, <1>4, <2>1
  <2>3. q = [u EXCEPT !.govs = s]
    BY <1>3, <1>4, <1>7, <2>1 DEF thermal_set_governor, bind_previous_governor, bind_to_tz
  <2>4. q \in ZoneType /\ q.pc = r.pc /\ q.gov = r.gov /\ q.govs = s
    BY <1>4, <2>2, <2>3 DEF ZoneType
  <2> QED
    BY <1>5, <2>1, <2>4 DEF Agreed
<1>8. CASE ~(g = NoOne \/ new) /\ ~old
  <2>1. q = [u EXCEPT !.gov = NoOne]
    BY <1>3, <1>8 DEF thermal_set_governor, bind_previous_governor
  <2>2. q \in ZoneType /\ q.pc = r.pc /\ q.gov = NoOne /\ q.govs = rest
    BY <1>4, <2>1 DEF ZoneType
  <2> QED
    BY <1>5, <2>2 DEF Agreed
<1> QED
  BY <1>6, <1>7, <1>8

(* Zones may become more than they were, cooling devices stay. *)
LEMMA ZonesKeep ==
  ASSUME ThermalInv, zone' \in [Zones -> ZoneType], inst' = inst,
         \A z \in Zones : /\ zone'[z].pc # "none" => zone[z].pc # "none" \/ of_parse_thermal_zones(z)
                          /\ zone[z].pc \in Live => zone'[z].pc \in Live
                          /\ Agreed(zone'[z]),
         \A c \in Cdevs : cdev[c] # "none" => cdev'[c] # "none"
  PROVE  Parsed' /\ GovernorsAgree' /\ InstInv'
<1>0. \A z, p, c : Instance(z, p, c)' = Instance(z, p, c)
  BY DEF Instance, TripAt
<1>1. Parsed' /\ GovernorsAgree'
  BY DEF ThermalInv, Parsed, GovernorsAgree
<1>2. InstancesNamed' /\ BoundInOrder'
  BY <1>0 DEF ThermalInv, InstInv, InstancesNamed, BoundInOrder
<1>3. InstancesLive'
  <2>1. OfZones \subseteq Zones
    BY DEF Zones
  <2> QED
    BY <1>0, <2>1 DEF ThermalInv, InstInv, InstancesLive
<1> QED
  BY <1>1, <1>2, <1>3 DEF InstInv

LEMMA ZonesAlike ==
  ASSUME ThermalInv, zone' \in [Zones -> ZoneType], inst' = inst,
         \A z \in Zones : Alike(zone[z], zone'[z]), \A c \in Cdevs : cdev[c] # "none" => cdev'[c] # "none"
  PROVE  Parsed' /\ GovernorsAgree' /\ InstInv'
<1>1. \A z \in Zones : Agreed(zone'[z])
  BY DEF ThermalInv, GovernorsAgree, Alike, Agreed
<1> QED
  BY <1>1, ZonesKeep DEF Alike

(* One zone changes. *)
LEMMA OneZoneStep ==
  ASSUME ThermalInv, NEW z \in Zones, NEW n \in ZoneType, zone' = [zone EXCEPT ![z] = n],
         n.pc # "none" => zone[z].pc # "none" \/ of_parse_thermal_zones(z), zone[z].pc \in Live => n.pc \in Live,
         Agreed(n), UNCHANGED <<inst, cdev, sensed, suspend>>, setters' \subseteq OfZones \X BOOLEAN, poweroff' \in 0..1
  PROVE  ThermalInv'
<1>0. ThermalTypes /\ zone \in [Zones -> ZoneType]
  BY DEF ThermalInv, ThermalTypes
<1>1. zone' \in [Zones -> ZoneType] /\ zone'[z] = n /\ \A y \in Zones : y # z => zone'[y] = zone[y]
  BY <1>0
<1>2. \A y \in Zones : /\ zone'[y].pc # "none" => zone[y].pc # "none" \/ of_parse_thermal_zones(y)
                       /\ zone[y].pc \in Live => zone'[y].pc \in Live
                       /\ Agreed(zone'[y])
  BY <1>1 DEF ThermalInv, GovernorsAgree
<1>3. Parsed' /\ GovernorsAgree' /\ InstInv'
  BY <1>1, <1>2, ZonesKeep
<1> QED
  BY <1>0, <1>1, <1>3 DEF ThermalInv, ThermalTypes

LEMMA OneZoneAlike ==
  ASSUME ThermalInv, NEW z \in Zones, NEW r, zone' = [zone EXCEPT ![z] = r], Alike(zone[z], r),
         UNCHANGED <<inst, cdev, sensed, suspend>>, setters' \subseteq OfZones \X BOOLEAN, poweroff' \in 0..1
  PROVE  ThermalInv'
<1>1. r \in ZoneType /\ Agreed(r) /\ r.pc = zone[z].pc
  BY DEF Alike, ThermalInv, GovernorsAgree, Agreed
<1> QED
  BY <1>1, OneZoneStep

-----------------------------------------------------------------------------
(* The steps of updates, sensors and users. *)
LEMMA CheckStep ==
  ASSUME ThermalInv, NEW z \in Zones, thermal_zone_device_check(z)
  PROVE  ThermalInv'
<1>0. ThermalTypes /\ zone[z] \in ZoneType
  BY DEF ThermalInv, ThermalTypes
<1>1. PICK r : r = [zone[z] EXCEPT !.work = "idle"]
  OBVIOUS
<1>2. r \in ZoneType /\ Alike(zone[z], r)
  BY <1>0, <1>1 DEF Alike, ZoneType
<1>3. Alike(r, UpdateStart(r, z, "poll"))
  BY <1>0, <1>2, UpdateStartAlike
<1>4. Alike(zone[z], UpdateStart(r, z, "poll"))
  BY <1>2, <1>3 DEF Alike
<1>5. zone' = [zone EXCEPT ![z] = UpdateStart(r, z, "poll")] /\ UNCHANGED <<inst, cdev, sensed, suspend, setters, poweroff>>
  BY <1>1 DEF thermal_zone_device_check
<1>6. setters' \subseteq OfZones \X BOOLEAN /\ poweroff' \in 0..1
  BY <1>0, <1>5 DEF ThermalTypes
<1> QED
  BY <1>4, <1>5, <1>6, OneZoneAlike

LEMMA TripsStep ==
  ASSUME ThermalInv, NEW z \in Zones, NEW who \in {"poll", "call"}, UpdateTrips(z, who)
  PROVE  ThermalInv'
<1>0. ThermalTypes /\ zone[z] \in ZoneType
  BY DEF ThermalInv, ThermalTypes
<1>1. PICK q : q = monitor_thermal_zone(zone[z])
  OBVIOUS
<1>2. q \in ZoneType /\ Alike(zone[z], q)
  BY <1>0, <1>1 DEF Alike, ZoneType, monitor_thermal_zone
<1>3. PICK r : r = [q EXCEPT !.upd = zone[z].upd \ {who}]
  OBVIOUS
<1>4. Alike(q, r)
  BY <1>0, <1>2, <1>3 DEF Alike, ZoneType
<1>5. Alike(zone[z], r)
  BY <1>2, <1>4 DEF Alike
<1>6. zone' = [zone EXCEPT ![z] = r] /\ UNCHANGED <<inst, cdev, sensed, suspend, setters>>
  BY <1>1, <1>3 DEF UpdateTrips
<1>7. setters' \subseteq OfZones \X BOOLEAN /\ poweroff' \in 0..1
  BY <1>0, <1>6 DEF UpdateTrips, handle_critical_trips, ThermalTypes
<1> QED
  BY <1>5, <1>6, <1>7, OneZoneAlike

(* The two halves of of_thermal_set_mode. *)
LEMMA DelaysStep ==
  ASSUME ThermalInv, NEW z \in OfZones, NEW on \in BOOLEAN, NEW q, Alike(zone[z], q), SetDelays(q, z, on)
  PROVE  ThermalInv'
<1>0. ThermalTypes /\ z \in Zones /\ q \in ZoneType
  BY DEF ThermalInv, Zones, Alike
<1>e. PICK e : e = <<z, ~on>>
  OBVIOUS
<1>1. PICK b : b = (e \in setters)
  OBVIOUS
<1>b. b \in BOOLEAN
  BY <1>1
<1>2. PICK r : r = [q EXCEPT !.polling = on, !.crossed = b]
  OBVIOUS
<1>3. Alike(q, r)
  BY <1>0, <1>b, <1>2 DEF Alike, ZoneType
<1>4. Alike(zone[z], r)
  BY <1>3 DEF Alike
<1>5. zone' = [zone EXCEPT ![z] = r] /\ UNCHANGED <<inst, cdev, sensed, suspend, poweroff>>
  BY <1>e, <1>1, <1>2 DEF SetDelays
<1>6. setters' \subseteq OfZones \X BOOLEAN /\ poweroff' \in 0..1
  BY <1>0, <1>5 DEF SetDelays, ThermalTypes
<1> QED
  BY <1>0, <1>4, <1>5, <1>6, OneZoneAlike

LEMMA ModeStep ==
  ASSUME ThermalInv, NEW z \in Zones, NEW on \in BOOLEAN, of_thermal_set_mode(z, on)
  PROVE  ThermalInv'
<1>0. ThermalTypes /\ zone[z] \in ZoneType
  BY DEF ThermalInv, ThermalTypes
<1>1. PICK r : r = [zone[z] EXCEPT !.mode = on]
  OBVIOUS
<1>2. r \in ZoneType /\ Alike(zone[z], r)
  BY <1>0, <1>1 DEF Alike, ZoneType
<1>3. Alike(r, UpdateStart(r, z, "call"))
  BY <1>0, <1>2, UpdateStartAlike
<1>4. Alike(zone[z], UpdateStart(r, z, "call"))
  BY <1>2, <1>3 DEF Alike
<1>5. zone' = [zone EXCEPT ![z] = UpdateStart(r, z, "call")] /\ UNCHANGED <<inst, cdev, sensed, suspend, poweroff>>
  BY <1>1 DEF of_thermal_set_mode
<1>6. setters' \subseteq OfZones \X BOOLEAN /\ poweroff' \in 0..1
  BY <1>0, <1>5 DEF of_thermal_set_mode, ThermalTypes
<1> QED
  BY <1>4, <1>5, <1>6, OneZoneAlike

LEMMA SensorStep ==
  ASSUME ThermalInv, NEW z \in Zones, RegisterSensor(z) \/ thermal_zone_of_sensor_unregister(z)
  PROVE  ThermalInv'
<1>0. ThermalTypes /\ zone[z] \in ZoneType
  BY DEF ThermalInv, ThermalTypes
<1>1. CASE RegisterSensor(z)
  <2>1. PICK q : q = thermal_zone_of_add_sensor(zone[z])
    OBVIOUS
  <2>2. Alike(zone[z], q)
    BY <1>0, <2>1 DEF Alike, ZoneType, thermal_zone_of_add_sensor
  <2>3. z \in OfZones /\ SetDelays(q, z, TRUE)
    BY <1>1, <2>1 DEF RegisterSensor
  <2> QED
    BY <2>2, <2>3, DelaysStep
<1>2. CASE thermal_zone_of_sensor_unregister(z)
  <2>1. PICK r : r = [zone[z] EXCEPT !.sensor = FALSE]
    OBVIOUS
  <2>2. Alike(zone[z], r)
    BY <1>0, <2>1 DEF Alike, ZoneType
  <2>3. zone' = [zone EXCEPT ![z] = r] /\ UNCHANGED <<inst, cdev, sensed, suspend, setters, poweroff>>
    BY <1>2, <2>1 DEF thermal_zone_of_sensor_unregister
  <2>4. setters' \subseteq OfZones \X BOOLEAN /\ poweroff' \in 0..1
    BY <1>0, <2>3 DEF ThermalTypes
  <2> QED
    BY <2>2, <2>3, <2>4, OneZoneAlike
<1> QED
  BY <1>1, <1>2

LEMMA UserStep ==
  ASSUME ThermalInv, NEW z \in Zones,
         (\E on \in BOOLEAN : mode_store(z, on)) \/ (\E t \in Invalid..CriticalTrip : Weather(z, t))
  PROVE  ThermalInv'
<1>0. ThermalTypes /\ zone[z] \in ZoneType /\ Alike(zone[z], zone[z])
  BY DEF ThermalInv, ThermalTypes, Alike
<1>1. ASSUME NEW on \in BOOLEAN, mode_store(z, on)
      PROVE  ThermalInv'
  <2>1. z \in OfZones /\ SetDelays(zone[z], z, on)
    BY <1>1 DEF mode_store
  <2> QED
    BY <1>0, <2>1, DelaysStep
<1>2. ASSUME NEW t \in Invalid..CriticalTrip, Weather(z, t)
      PROVE  ThermalInv'
  <2>1. UNCHANGED <<zone, inst, cdev, suspend, setters, poweroff>> /\ sensed' = [sensed EXCEPT ![z] = t]
    BY <1>2 DEF Weather
  <2>2. sensed' \in [Zones -> Invalid..CriticalTrip]
    BY <1>0, <2>1 DEF ThermalTypes
  <2>3. \A y \in Zones : Alike(zone[y], zone'[y])
    BY <1>0, <2>1 DEF Alike, ThermalTypes
  <2>4. Parsed' /\ GovernorsAgree' /\ InstInv'
    BY <1>0, <2>1, <2>3, ZonesAlike DEF ThermalTypes
  <2> QED
    BY <1>0, <2>1, <2>2, <2>4 DEF ThermalInv, ThermalTypes
<1> QED
  BY <1>1, <1>2

-----------------------------------------------------------------------------
(* The steps of a zone's life that leave the instances alone. *)
LEMMA MakeStep ==
  ASSUME ThermalInv, NEW z \in Zones, MakeZone(z)
  PROVE  ThermalInv'
<1>0. ThermalTypes /\ zone \in [Zones -> ZoneType] /\ zone[z] \in ZoneType /\ Agreed(zone[z])
  BY DEF ThermalInv, ThermalTypes, GovernorsAgree
<1>1. PICK s, o : s = (z \in DirectZones) /\ o = (z \in OfZones)
  OBVIOUS
<1>2. s \in BOOLEAN /\ o \in BOOLEAN
  BY <1>1
<1>3. PICK n : n = [zone[z] EXCEPT !.pc = "made", !.sensor = s, !.polling = o, !.need = TRUE]
  OBVIOUS
<1>4. zone' = [zone EXCEPT ![z] = n] /\ zone[z].pc = "none" /\ of_parse_thermal_zones(z)
  BY <1>0, <1>1, <1>3 DEF MakeZone
<1>5. n \in ZoneType /\ n.pc = "made" /\ n.gov = zone[z].gov /\ n.govs = zone[z].govs
  BY <1>0, <1>2, <1>3 DEF ZoneType
<1>6. Agreed(n)
  BY <1>0, <1>4, <1>5 DEF Agreed, Ending
<1>7. UNCHANGED <<inst, cdev, sensed, suspend, setters, poweroff>>
  BY DEF MakeZone
<1>8. setters' \subseteq OfZones \X BOOLEAN /\ poweroff' \in 0..1
  BY <1>0, <1>7 DEF ThermalTypes
<1> QED
  BY <1>4, <1>5, <1>6, <1>7, <1>8, OneZoneStep DEF Live

LEMMA GovernStep ==
  ASSUME ThermalInv, NEW z \in Zones, GovernZone(z)
  PROVE  ThermalInv'
<1>0. ThermalTypes /\ zone \in [Zones -> ZoneType] /\ zone[z] \in ZoneType /\ Agreed(zone[z])
  BY DEF ThermalInv, ThermalTypes, GovernorsAgree
<1>1. PICK new \in BOOLEAN, old \in BOOLEAN :
        zone' = [zone EXCEPT ![z] = [thermal_set_governor(zone[z], Default, new, old)
                                       EXCEPT !.pc = IF new THEN "governed" ELSE "freed"]]
  BY DEF GovernZone
<1>2. PICK q : q = thermal_set_governor(zone[z], Default, new, old)
  OBVIOUS
<1>d. Default \in Governors \cup {NoOne} /\ zone[z].pc = "made"
  BY ThermalAssumption DEF ThermalAssumption, GovernZone
<1>3. q \in ZoneType /\ Agreed(q) /\ q.pc = zone[z].pc
  BY <1>0, <1>d, <1>2, GovernorSet
<1>4. PICK n : n = [q EXCEPT !.pc = IF new THEN "governed" ELSE "freed"]
  OBVIOUS
<1>5. zone' = [zone EXCEPT ![z] = n]
  BY <1>1, <1>2, <1>4
<1>6. n \in ZoneType /\ n.pc \in {"governed", "freed"} /\ n.gov = q.gov /\ n.govs = q.govs
  BY <1>3, <1>4 DEF ZoneType
<1>7. Agreed(n)
  BY <1>d, <1>3, <1>6 DEF Agreed, Ending
<1>8. UNCHANGED <<inst, cdev, sensed, suspend, setters, poweroff>>
  BY DEF GovernZone
<1>9. setters' \subseteq OfZones \X BOOLEAN /\ poweroff' \in 0..1
  BY <1>0, <1>8 DEF ThermalTypes
<1> QED
  BY <1>d, <1>3, <1>5, <1>6, <1>7, <1>8, <1>9, OneZoneStep DEF Live

(* The first update of a zone. *)
LEMMA FinishStep ==
  ASSUME ThermalInv, NEW z \in Zones, FinishZone(z)
  PROVE  ThermalInv'
<1>0. ThermalTypes /\ zone \in [Zones -> ZoneType] /\ zone[z] \in ZoneType /\ Agreed(zone[z])
  BY DEF ThermalInv, ThermalTypes, GovernorsAgree
<1>1. PICK q : q = [zone[z] EXCEPT !.pc = "live", !.work = "idle", !.need = FALSE]
  OBVIOUS
<1>2. q \in ZoneType /\ q.pc = "live" /\ q.gov = zone[z].gov /\ q.govs = zone[z].govs
  BY <1>0, <1>1 DEF ZoneType
<1>3. PICK r : r = thermal_zone_device_reset(q)
  OBVIOUS
<1>4. r \in ZoneType /\ r.pc = "live" /\ r.gov = zone[z].gov /\ r.govs = zone[z].govs
  BY <1>2, <1>3 DEF thermal_zone_device_reset, ZoneType, Invalid, CriticalTrip
<1>5. Alike(r, r) /\ Alike(r, UpdateStart(r, z, "call"))
  BY <1>0, <1>4, UpdateStartAlike DEF Alike
<1>6. PICK n : n = IF zone[z].need THEN UpdateStart(r, z, "call") ELSE r
  OBVIOUS
<1>7. n \in ZoneType /\ n.pc = "live" /\ n.gov = zone[z].gov /\ n.govs = zone[z].govs
  BY <1>4, <1>5, <1>6 DEF Alike
<1>8. zone' = [zone EXCEPT ![z] = n] /\ zone[z].pc = "bound"
  BY <1>1, <1>3, <1>6 DEF FinishZone
<1>9. Agreed(n)
  BY <1>0, <1>7, <1>8 DEF Agreed, Ending
<1>10. UNCHANGED <<inst, cdev, sensed, suspend, setters, poweroff>>
  BY DEF FinishZone
<1>11. setters' \subseteq OfZones \X BOOLEAN /\ poweroff' \in 0..1
  BY <1>0, <1>10 DEF ThermalTypes
<1> QED
  BY <1>7, <1>8, <1>9, <1>10, <1>11, OneZoneStep DEF Live

(* The zone goes on the list; or it is off the list, and its governor is   *)
(* of no concern any more.                                                 *)
LEMMA ListStep ==
  ASSUME ThermalInv, NEW z \in Zones,
         ListZone(z) \/ CancelWork(z) \/ UnbindGovernor(z) \/ ForgetGovernor(z) \/ FreeZone(z)
  PROVE  ThermalInv'
<1>0. ThermalTypes /\ zone \in [Zones -> ZoneType] /\ zone[z] \in ZoneType /\ Agreed(zone[z])
  BY DEF ThermalInv, ThermalTypes, GovernorsAgree
<1>1. zone[z].pc \notin {"none", "listed", "bound", "live"}
  BY DEF ListZone, CancelWork, UnbindGovernor, ForgetGovernor, FreeZone
<1>2. UNCHANGED <<inst, cdev, sensed, suspend, setters, poweroff>>
  BY Zenon DEF ListZone, CancelWork, UnbindGovernor, ForgetGovernor, FreeZone
<1>3. setters' \subseteq OfZones \X BOOLEAN /\ poweroff' \in 0..1
  BY <1>0, <1>2 DEF ThermalTypes
<1>4. ASSUME NEW n \in ZoneType, Agreed(n), zone' = [zone EXCEPT ![z] = n]
      PROVE  ThermalInv'
  BY <1>1, <1>2, <1>3, <1>4, OneZoneStep DEF Live
<1>5. CASE ListZone(z)
  <2>1. PICK ok \in BOOLEAN : zone' = [zone EXCEPT ![z].pc = IF ok THEN "listed" ELSE "freed"]
    BY <1>5 DEF ListZone
  <2>2. PICK n : n = [zone[z] EXCEPT !.pc = IF ok THEN "listed" ELSE "freed"]
    OBVIOUS
  <2>3. n \in ZoneType /\ n.pc \in {"listed", "freed"} /\ n.gov = zone[z].gov /\ n.govs = zone[z].govs
    BY <1>0, <2>2 DEF ZoneType
  <2>4. zone[z].pc = "governed"
    BY <1>5 DEF ListZone
  <2>5. Agreed(n)
    BY <1>0, <2>3, <2>4 DEF Agreed, Ending
  <2> QED
    BY <1>0, <1>4, <2>1, <2>2, <2>3, <2>5
<1>6. CASE CancelWork(z)
  <2>1. PICK n : n = [zone[z] EXCEPT !.pc = "cancelled", !.work = "idle"]
    OBVIOUS
  <2>2. n \in ZoneType /\ n.gov = zone[z].gov /\ n.govs = zone[z].govs
    BY <1>0, <2>1 DEF ZoneType
  <2>3. zone' = [zone EXCEPT ![z] = n] /\ zone[z].pc = "unlisted"
    BY <1>0, <1>6, <2>1 DEF CancelWork
  <2>4. Agreed(n)
    BY <1>0, <2>2, <2>3 DEF Agreed, Ending
  <2> QED
    BY <1>4, <2>2, <2>3, <2>4
<1>7. CASE UnbindGovernor(z)
  <2>1. PICK q : q = unbind_from_tz(zone[z])
    OBVIOUS
  <2>2. q \in ZoneType
    BY <1>0, <2>1 DEF unbind_from_tz, ZoneType
  <2>3. PICK n : n = [q EXCEPT !.pc = "clearing"]
    OBVIOUS
  <2>4. n \in ZoneType /\ n.pc = "clearing"
    BY <2>2, <2>3 DEF ZoneType
  <2>5. zone' = [zone EXCEPT ![z] = n]
    BY <1>7, <2>1, <2>3 DEF UnbindGovernor
  <2>6. Agreed(n)
    BY <2>4 DEF Agreed, Ending
  <2> QED
    BY <1>4, <2>4, <2>5, <2>6
<1>8. CASE ForgetGovernor(z)
  <2>1. PICK n : n = [zone[z] EXCEPT !.pc = "leaving", !.gov = NoOne]
    OBVIOUS
  <2>2. n \in ZoneType /\ n.pc = "leaving"
    BY <1>0, <2>1 DEF ZoneType
  <2>3. zone' = [zone EXCEPT ![z] = n]
    BY <1>0, <1>8, <2>1 DEF ForgetGovernor
  <2>4. Agreed(n)
    BY <2>2 DEF Agreed, Ending
  <2> QED
    BY <1>4, <2>2, <2>3, <2>4
<1>9. CASE FreeZone(z)
  <2>1. PICK n : n = [zone[z] EXCEPT !.pc = "freed"]
    OBVIOUS
  <2>2. n \in ZoneType /\ n.pc = "freed"
    BY <1>0, <2>1 DEF ZoneType
  <2>3. zone' = [zone EXCEPT ![z] = n]
    BY <1>0, <1>9, <2>1 DEF FreeZone
  <2>4. Agreed(n)
    BY <2>2 DEF Agreed, Ending
  <2> QED
    BY <1>4, <2>2, <2>3, <2>4
<1> QED
  BY <1>5, <1>6, <1>7, <1>8, <1>9

(* policy_store, whether or not the governors can be bound. *)
LEMMA PolicyStep ==
  ASSUME ThermalInv, NEW z \in Zones, NEW g \in Governors, NEW new \in BOOLEAN, NEW old \in BOOLEAN,
         thermal_zone_device_set_policy(z, g, new, old)
  PROVE  ThermalInv'
<1>0. ThermalTypes /\ zone \in [Zones -> ZoneType] /\ zone[z] \in ZoneType /\ Agreed(zone[z])
  BY DEF ThermalInv, ThermalTypes, GovernorsAgree
<1>1. PICK n : n = thermal_set_governor(zone[z], g, new, old)
  OBVIOUS
<1>2. n \in ZoneType /\ n.pc = zone[z].pc /\ Agreed(n)
  BY <1>0, <1>1, GovernorSet
<1>3. zone' = [zone EXCEPT ![z] = n] /\ UNCHANGED <<inst, cdev, sensed, suspend, setters, poweroff>>
  BY <1>1 DEF thermal_zone_device_set_policy
<1>4. setters' \subseteq OfZones \X BOOLEAN /\ poweroff' \in 0..1
  BY <1>0, <1>3 DEF ThermalTypes
<1> QED
  BY <1>2, <1>3, <1>4, OneZoneStep

-----------------------------------------------------------------------------
(* Steps that touch no zone, and steps over all zones. *)
LEMMA EveryZoneStep ==
  ASSUME ThermalInv,
         \/ (\E c \in Cdevs : ListCdev(c) \/ UpdateAll(c)) \/ PmPrepare \/ thermal_pm_notify
  PROVE  ThermalInv'
<1>0. ThermalTypes /\ zone \in [Zones -> ZoneType] /\ \A z \in Zones : zone[z] \in ZoneType /\ Alike(zone[z], zone[z])
  BY DEF ThermalInv, ThermalTypes, Alike
<1>1. ASSUME NEW c \in Cdevs, ListCdev(c)
      PROVE  ThermalInv'
  <2>1. UNCHANGED <<zone, inst, sensed, suspend, setters, poweroff>> /\ cdev' = [cdev EXCEPT ![c] = "listed"]
    BY <1>1 DEF ListCdev
  <2>2. cdev' \in [Cdevs -> {"none", "listed", "bound", "live"}] /\ \A d \in Cdevs : cdev[d] # "none" => cdev'[d] # "none"
    BY <1>0, <2>1 DEF ThermalTypes
  <2>3. Parsed' /\ GovernorsAgree' /\ InstInv'
    BY <1>0, <2>1, <2>2, ZonesAlike
  <2> QED
    BY <1>0, <2>1, <2>2, <2>3 DEF ThermalInv, ThermalTypes
<1>2. ASSUME NEW c \in Cdevs, UpdateAll(c)
      PROVE  ThermalInv'
  <2>1. UNCHANGED <<inst, sensed, suspend, setters, poweroff>> /\ cdev' = [cdev EXCEPT ![c] = "live"]
    BY <1>2 DEF UpdateAll
  <2>2. cdev' \in [Cdevs -> {"none", "listed", "bound", "live"}] /\ \A d \in Cdevs : cdev[d] # "none" => cdev'[d] # "none"
    BY <1>0, <2>1 DEF ThermalTypes
  <2>3. ASSUME NEW z \in Zones
        PROVE  zone'[z] \in ZoneType /\ Alike(zone[z], zone'[z])
    <3>0. zone[z] \in ZoneType
      BY <1>0
    <3>1. PICK r : r = [zone[z] EXCEPT !.need = FALSE]
      OBVIOUS
    <3>2. r \in ZoneType /\ Alike(zone[z], r)
      BY <3>0, <3>1 DEF Alike, ZoneType
    <3>3. Alike(r, UpdateStart(r, z, "call"))
      BY <1>0, <3>2, UpdateStartAlike
    <3>4. Alike(zone[z], UpdateStart(r, z, "call"))
      BY <3>2, <3>3 DEF Alike
    <3>5. zone'[z] = zone[z] \/ zone'[z] = UpdateStart(r, z, "call")
      BY <1>2, <3>1 DEF UpdateAll
    <3>6. Alike(zone[z], zone'[z])
      BY <1>0, <3>4, <3>5
    <3> QED
      BY <3>6 DEF Alike
  <2>4. zone' \in [Zones -> ZoneType]
    BY <1>2, <2>3 DEF UpdateAll
  <2>5. Parsed' /\ GovernorsAgree' /\ InstInv'
    BY <2>1, <2>2, <2>3, <2>4, ZonesAlike
  <2> QED
    BY <1>0, <2>1, <2>2, <2>4, <2>5 DEF ThermalInv, ThermalTypes
<1>3. CASE PmPrepare
  <2>1. UNCHANGED <<zone, inst, cdev, sensed, setters, poweroff>> /\ suspend' = TRUE
    BY <1>3 DEF PmPrepare
  <2>2. Parsed' /\ GovernorsAgree' /\ InstInv'
    BY <1>0, <2>1, ZonesAlike
  <2> QED
    BY <1>0, <2>1, <2>2 DEF ThermalInv, ThermalTypes
<1>4. CASE thermal_pm_notify
  <2>1. UNCHANGED <<inst, cdev, sensed, setters, poweroff>> /\ suspend' = FALSE
    BY <1>4 DEF thermal_pm_notify
  <2>2. ASSUME NEW z \in Zones
        PROVE  zone'[z] \in ZoneType /\ Alike(zone[z], zone'[z])
    <3>0. zone[z] \in ZoneType
      BY <1>0
    <3>1. PICK r : r = thermal_zone_device_reset(zone[z])
      OBVIOUS
    <3>2. r \in ZoneType /\ Alike(zone[z], r)
      BY <3>0, <3>1 DEF Alike, ZoneType, thermal_zone_device_reset, Invalid, CriticalTrip
    <3>3. PICK q : q = update_temperature(r, z)
      OBVIOUS
    <3>4. Alike(r, q)
      BY <1>0, <3>2, <3>3, UpdateStartAlike
    <3>5. q \in ZoneType /\ Alike(zone[z], q)
      BY <3>2, <3>4 DEF Alike
    <3>6. Alike(zone[z], [q EXCEPT !.upd = @ \cup {"call"}])
      BY <3>5 DEF Alike, ZoneType
    <3>7. zone'[z] = zone[z] \/ zone'[z] = [q EXCEPT !.upd = @ \cup {"call"}]
      BY <1>4, <3>1, <3>3 DEF thermal_pm_notify
    <3>8. Alike(zone[z], zone'[z])
      BY <1>0, <3>6, <3>7
    <3> QED
      BY <3>8 DEF Alike
  <2>3. zone' \in [Zones -> ZoneType]
    BY <1>4, <2>2 DEF thermal_pm_notify
  <2>4. Parsed' /\ GovernorsAgree' /\ InstInv'
    BY <2>1, <2>2, <2>3, ZonesAlike
  <2> QED
    BY <1>0, <2>1, <2>3, <2>4 DEF ThermalInv, ThermalTypes
<1> QED
  BY <1>1, <1>2, <1>3, <1>4

(* bind_tz. *)
LEMMA BindZoneStep ==
  ASSUME ThermalInv, NEW z \in Zones, bind_tz(z)
  PROVE  ThermalInv'
<1>0. ThermalTypes /\ zone \in [Zones -> ZoneType] /\ zone[z] \in ZoneType
  BY DEF ThermalInv, ThermalTypes
<1>1. PICK n : n = [zone[z] EXCEPT !.pc = "bound", !.need = zone[z].need \/ inst' # inst]
  OBVIOUS
<1>2. n \in ZoneType /\ n.pc = "bound" /\ n.gov = zone[z].gov /\ n.govs = zone[z].govs
  BY <1>0, <1>1 DEF ZoneType
<1>3. zone' = [zone EXCEPT ![z] = n] /\ zone[z].pc = "listed"
  BY <1>0, <1>1 DEF bind_tz
<1>4. UNCHANGED <<cdev, sensed, suspend, setters, poweroff>>
  BY DEF bind_tz
<1>5. zone' \in [Zones -> ZoneType] /\ zone'[z] = n /\ \A y \in Zones : y # z => zone'[y] = zone[y]
  BY <1>0, <1>2, <1>3
<1>6. Parsed' /\ GovernorsAgree'
  BY <1>2, <1>3, <1>5 DEF ThermalInv, Parsed, GovernorsAgree, Agreed, Ending
<1>7. \A y \in OfZones, c \in Cdevs : OnLists(y, c) => zone'[y].pc \in Live /\ cdev'[c] # "none"
  BY <1>2, <1>4, <1>5 DEF OnLists, Listed, Live, Zones
<1>8. PICK fails : inst' = IF z \in OfZones THEN inst \cup UNION {OfBind(z, c, inst, fails) : c \in {d \in Cdevs : cdev[d] # "none"}}
                                            ELSE inst
  BY DEF bind_tz
<1>9. inst \subseteq inst' /\ \A x \in inst' \ inst : \E y \in OfZones, c \in Cdevs : \E f :
         x \in OfBind(y, c, inst, f) /\ OfBind(y, c, inst, f) \subseteq inst'
  <2>1. CASE z \in OfZones
    <3>1. PICK on : on = {d \in Cdevs : cdev[d] # "none"}
      OBVIOUS
    <3>2. on \subseteq Cdevs /\ inst' = inst \cup UNION {OfBind(z, c, inst, fails) : c \in on}
      BY <1>8, <2>1, <3>1
    <3>3. \A c \in on : OfBind(z, c, inst, fails) \subseteq inst'
      BY <3>2
    <3>4. ASSUME NEW x \in inst', x \notin inst
          PROVE  \E y \in OfZones, c \in Cdevs : \E f : x \in OfBind(y, c, inst, f) /\ OfBind(y, c, inst, f) \subseteq inst'
      <4>1. x \in UNION {OfBind(z, c, inst, fails) : c \in on}
        BY <3>2, <3>4
      <4>2. PICK c \in on : x \in OfBind(z, c, inst, fails)
        BY <4>1
      <4> QED
        BY <2>1, <3>2, <3>3, <4>2
    <3> QED
      BY <3>2, <3>4
  <2>2. CASE z \notin OfZones
    BY <1>8, <2>2
  <2> QED
    BY <2>1, <2>2
<1>10. InstInv'
  BY <1>7, <1>9, BindKeeps DEF ThermalInv
<1> QED
  BY <1>0, <1>4, <1>5, <1>6, <1>10 DEF ThermalInv, ThermalTypes

(* bind_cdev. *)
LEMMA BindCdevStep ==
  ASSUME ThermalInv, NEW c \in Cdevs, bind_cdev(c)
  PROVE  ThermalInv'
<1>0. ThermalTypes /\ zone \in [Zones -> ZoneType] /\ OfZones \subseteq Zones
  BY DEF ThermalInv, ThermalTypes, Zones
<1>1. cdev' = [cdev EXCEPT ![c] = "bound"] /\ UNCHANGED <<sensed, suspend, setters, poweroff>>
  BY DEF bind_cdev
<1>2. cdev' \in [Cdevs -> {"none", "listed", "bound", "live"}] /\ \A d \in Cdevs : cdev[d] # "none" => cdev'[d] # "none"
  BY <1>0, <1>1 DEF ThermalTypes
<1>3. ASSUME NEW z \in Zones
      PROVE  Alike(zone[z], zone'[z])
  <2>1. PICK b \in BOOLEAN : b = (zone[z].need \/ \E x \in inst' \ inst : x[1] = z)
    OBVIOUS
  <2>2. zone'[z] = [zone[z] EXCEPT !.need = b]
    BY <2>1 DEF bind_cdev
  <2> QED
    BY <1>0, <2>2 DEF Alike, ZoneType
<1>4. zone' \in [Zones -> ZoneType]
  BY <1>3 DEF bind_cdev, Alike
<1>5. Parsed' /\ GovernorsAgree'
  BY <1>3 DEF ThermalInv, Parsed, GovernorsAgree, Agreed, Alike
<1>6. PICK f : inst' = inst \cup UNION {OfBind(z, c, inst, f[z]) : z \in OfZones}
  BY DEF bind_cdev
<1>7. \A x \in inst' \ inst : \E z \in OfZones, d \in Cdevs : \E fails :
         x \in OfBind(z, d, inst, fails) /\ OfBind(z, d, inst, fails) \subseteq inst'
  <2>1. \A x \in inst' \ inst : \E z \in OfZones : x \in OfBind(z, c, inst, f[z])
    BY <1>6
  <2>2. \A z \in OfZones : OfBind(z, c, inst, f[z]) \subseteq inst'
    BY <1>6
  <2> QED
    BY <2>1, <2>2
<1>8. \A z \in OfZones, d \in Cdevs : OnLists(z, d) => zone'[z].pc \in Live /\ cdev'[d] # "none"
  BY <1>0, <1>2, <1>3 DEF OnLists, Listed, Live, Alike
<1>9. InstInv'
  BY <1>6, <1>7, <1>8, BindKeeps DEF ThermalInv
<1> QED
  BY <1>0, <1>1, <1>2, <1>4, <1>5, <1>9 DEF ThermalInv, ThermalTypes

(* thermal_zone_device_unregister up to the unbinding: all instances of    *)
(* the zone go, because none has a cooling device that is off the list.    *)
LEMMA UnlistStep ==
  ASSUME ThermalInv, NEW z \in Zones, UnlistZone(z)
  PROVE  ThermalInv'
<1>0. ThermalTypes /\ zone \in [Zones -> ZoneType] /\ zone[z] \in ZoneType /\ InstInv
  BY DEF ThermalInv, ThermalTypes
<1>1. PICK n : n = [zone[z] EXCEPT !.pc = "unlisted"]
  OBVIOUS
<1>2. n \in ZoneType /\ n.pc = "unlisted" /\ n.gov = zone[z].gov /\ n.govs = zone[z].govs
  BY <1>0, <1>1 DEF ZoneType
<1>3. zone' = [zone EXCEPT ![z] = n] /\ zone[z].pc = "live"
  BY <1>0, <1>1 DEF UnlistZone
<1>4. UNCHANGED <<cdev, sensed, suspend, setters, poweroff>>
  BY DEF UnlistZone
<1>5. zone' \in [Zones -> ZoneType] /\ zone'[z] = n /\ \A y \in Zones : y # z => zone'[y] = zone[y]
  BY <1>0, <1>2, <1>3
<1>6. Parsed' /\ GovernorsAgree'
  BY <1>2, <1>3, <1>5 DEF ThermalInv, Parsed, GovernorsAgree, Agreed, Ending
<1>7. inst' = {x \in inst : \A c \in Cdevs : z \in OfZones /\ cdev[c] # "none" => x \in OfUnbind(z, c, inst)}
  BY DEF UnlistZone
<1>g. PICK gone : gone = {z} \X Cdevs
  OBVIOUS
<1>8. ASSUME NEW y \in OfZones, NEW d \in Cdevs, NEW p \in Unrepeated(y, d), Instance(y, p, d) \in inst
      PROVE  Instance(y, p, d) \in inst' <=> <<y, d>> \notin gone
  <2>1. cdev[d] # "none"
    BY <1>0, <1>8 DEF InstInv, InstancesLive
  <2>2. CASE y = z
    <3>1. Instance(y, p, d) \notin OfUnbind(z, d, inst)
      BY <1>0, <1>8, <2>2, UnbindAll
    <3> QED
      BY <1>7, <1>g, <2>1, <2>2, <3>1
  <2>3. CASE y # z
    <3>1. \A c \in Cdevs : z \in OfZones => Instance(y, p, d) \in OfUnbind(z, c, inst)
      BY <1>0, <1>8, <2>3, UnbindAll
    <3> QED
      BY <1>7, <1>8, <1>g, <2>3, <3>1
  <2> QED
    BY <2>2, <2>3
<1>9. \A y \in OfZones, c \in Cdevs : OnLists(y, c) /\ <<y, c>> \notin gone =>
         zone'[y].pc \in Live /\ cdev'[c] # "none"
  BY <1>4, <1>5, <1>g DEF OnLists, Listed, Live, Zones
<1>10. inst' \subseteq inst
  BY <1>7
<1>11. InstInv'
  BY <1>0, <1>8, <1>9, <1>10, DropKeeps
<1> QED
  BY <1>0, <1>4, <1>5, <1>6, <1>11 DEF ThermalInv, ThermalTypes

(* thermal_cooling_device_unregister: all instances of the device go,      *)
(* because none has a zone that is off the list.                           *)
LEMMA UnregisterCdevStep ==
  ASSUME ThermalInv, NEW c \in Cdevs, thermal_cooling_device_unregister(c)
  PROVE  ThermalInv'
<1>0. ThermalTypes /\ InstInv
  BY DEF ThermalInv
<1>1. cdev' = [cdev EXCEPT ![c] = "none"] /\ UNCHANGED <<zone, sensed, suspend, setters, poweroff>>
  BY DEF thermal_cooling_device_unregister
<1>2. cdev' \in [Cdevs -> {"none", "listed", "bound", "live"}] /\ \A d \in Cdevs : d # c => cdev'[d] = cdev[d]
  BY <1>0, <1>1 DEF ThermalTypes
<1>3. inst' = {x \in inst : \A z \in OfZones : zone[z].pc \in Live => x \in OfUnbind(z, c, inst)}
  BY DEF thermal_cooling_device_unregister, Listed, Live
<1>g. PICK gone : gone = OfZones \X {c}
  OBVIOUS
<1>4. ASSUME NEW y \in OfZones, NEW d \in Cdevs, NEW p \in Unrepeated(y, d), Instance(y, p, d) \in inst
      PROVE  Instance(y, p, d) \in inst' <=> <<y, d>> \notin gone
  <2>1. zone[y].pc \in Live
    BY <1>0, <1>4 DEF InstInv, InstancesLive
  <2>2. CASE d = c
    <3>1. Instance(y, p, d) \notin OfUnbind(y, c, inst)
      BY <1>0, <1>4, <2>2, UnbindAll
    <3> QED
      BY <1>3, <1>g, <2>1, <2>2, <3>1
  <2>3. CASE d # c
    <3>1. \A z \in OfZones : Instance(y, p, d) \in OfUnbind(z, c, inst)
      BY <1>0, <1>4, <2>3, UnbindAll
    <3> QED
      BY <1>3, <1>4, <1>g, <2>3, <3>1
  <2> QED
    BY <2>2, <2>3
<1>5. \A y \in OfZones, d \in Cdevs : OnLists(y, d) /\ <<y, d>> \notin gone =>
         zone'[y].pc \in Live /\ cdev'[d] # "none"
  BY <1>1, <1>2, <1>g DEF OnLists, Listed, Live
<1>6. inst' \subseteq inst
  BY <1>3
<1>7. InstInv'
  BY <1>0, <1>4, <1>5, <1>6, DropKeeps
<1>8. Parsed' /\ GovernorsAgree'
  BY <1>1 DEF ThermalInv, Parsed, GovernorsAgree
<1> QED
  BY <1>0, <1>1, <1>2, <1>7, <1>8 DEF ThermalInv, ThermalTypes

(* What the invariant says of the instances. *)
LEMMA ThermalSafe ==
  ASSUME ThermalInv
  PROVE  ThermalTypeOK /\ NothingDangles
<1>0. OfZones \subseteq Zones
  BY DEF Zones
<1>1. ASSUME NEW x \in inst
      PROVE  \E z \in OfZones, c \in Cdevs, t \in {PassiveTrip, CriticalTrip} :
               x = <<z, t, c>> /\ zone[z].pc \in Live /\ cdev[c] # "none"
  <2>0. PICK z \in OfZones, c \in Cdevs : \E p \in Unrepeated(z, c) : x = Instance(z, p, c)
    BY DEF ThermalInv, InstInv, InstancesNamed
  <2>1. PICK p \in Unrepeated(z, c) : x = Instance(z, p, c)
    BY <2>0
  <2>2. zone[z].pc \in Live /\ cdev[c] # "none"
    BY <2>1 DEF ThermalInv, InstInv, InstancesLive
  <2>3. thermal_of_build_thermal_zone(Dt[z])
    BY <1>0, <2>2 DEF ThermalInv, Parsed, of_parse_thermal_zones, Live
  <2>4. p \in Places(z)
    BY DEF Unrepeated, Mine
  <2>5. PICK i \in DOMAIN Dt[z].maps : p[1] = i
    BY <2>4 DEF Places
  <2>6. TripAt(z, p) \in {PassiveTrip, CriticalTrip}
    BY <2>3, <2>5 DEF thermal_of_build_thermal_zone, thermal_of_populate_bind_params, thermal_of_populate_trip, TripAt
  <2> QED
    BY <2>1, <2>2, <2>6 DEF Instance
<1>2. inst \subseteq Zones \X {PassiveTrip, CriticalTrip} \X Cdevs
  BY <1>0, <1>1
<1>3. \A x \in inst : OnLists(x[1], x[3])
  BY <1>1 DEF Live, OnLists, Listed
<1>4. \A z \in Zones : Listed(z) => zone[z].govs = {zone[z].gov} \ {NoOne}
  BY DEF ThermalInv, GovernorsAgree, Agreed, Ending, Listed
<1> QED
  BY <1>2, <1>3, <1>4 DEF ThermalInv, ThermalTypes, ThermalTypeOK, NothingDangles

(* No instance outlives its zone or its cooling device and a listed zone   *)
(* has exactly the governor it names bound, whatever the nodes of the      *)
(* device tree list, whichever binding fails, and in whatever order zones, *)
(* cooling devices, sensors, mode and policy writes and suspend come.      *)
THEOREM NothingDanglesCorrect == ThermalSpec => [](ThermalTypeOK /\ NothingDangles)
<1>1. ThermalInit => ThermalInv
  <2> SUFFICES ASSUME ThermalInit
               PROVE  ThermalInv
    OBVIOUS
  <2>1. NoZone \in ZoneType /\ NoZone.pc = "none" /\ NoZone.govs = {NoZone.gov} \ {NoOne}
    BY DEF NoZone, ZoneType, Invalid, CriticalTrip
  <2>2. ThermalTypes
    <3>1. zone \in [Zones -> ZoneType] /\ cdev \in [Cdevs -> {"none", "listed", "bound", "live"}]
      BY <2>1 DEF ThermalInit
    <3>2. poweroff \in 0..1 /\ setters = {}
      BY DEF ThermalInit
    <3>3. suspend \in BOOLEAN
      BY DEF ThermalInit
    <3>4. 0 \in Invalid..CriticalTrip
      BY DEF Invalid, CriticalTrip
    <3>5. sensed \in [Zones -> Invalid..CriticalTrip]
      BY <3>4 DEF ThermalInit
    <3> QED
      BY <3>1, <3>2, <3>3, <3>5 DEF ThermalTypes
  <2>3. Parsed /\ GovernorsAgree
    BY <2>1 DEF ThermalInit, Parsed, GovernorsAgree, Agreed
  <2>4. InstInv
    BY DEF ThermalInit, InstInv, InstancesNamed, BoundInOrder, InstancesLive
  <2> QED
    BY <2>2, <2>3, <2>4 DEF ThermalInv
<1>2. ThermalInv /\ [ThermalNext]_thermalVars => ThermalInv'
  <2> SUFFICES ASSUME ThermalInv, [ThermalNext]_thermalVars
               PROVE  ThermalInv'
    OBVIOUS
  <2>1. CASE UNCHANGED thermalVars
    BY <2>1 DEF thermalVars, ThermalInv, ThermalTypes, Parsed, GovernorsAgree, InstInv, InstancesNamed,
                BoundInOrder, InstancesLive
  <2>2. ASSUME NEW z \in Zones,
               \/ Progress(z)
               \/ MakeZone(z) \/ GovernZone(z) \/ ListZone(z) \/ bind_tz(z) \/ FinishZone(z)
               \/ UnlistZone(z) \/ CancelWork(z) \/ UnbindGovernor(z) \/ ForgetGovernor(z) \/ FreeZone(z)
               \/ RegisterSensor(z) \/ thermal_zone_of_sensor_unregister(z)
               \/ \E on \in BOOLEAN : mode_store(z, on) \/ of_thermal_set_mode(z, on)
               \/ \E g \in Governors, new, old \in BOOLEAN : thermal_zone_device_set_policy(z, g, new, old)
               \/ \E t \in Invalid..CriticalTrip : Weather(z, t)
        PROVE  ThermalInv'
    <3>1. CASE Progress(z)
      BY <3>1, CheckStep, TripsStep DEF Progress
    <3>2. CASE \/ RegisterSensor(z) \/ thermal_zone_of_sensor_unregister(z)
               \/ (\E on \in BOOLEAN : mode_store(z, on) \/ of_thermal_set_mode(z, on))
               \/ (\E t \in Invalid..CriticalTrip : Weather(z, t))
      BY <3>2, SensorStep, UserStep, ModeStep
    <3>3. CASE \/ MakeZone(z) \/ GovernZone(z) \/ bind_tz(z) \/ FinishZone(z) \/ UnlistZone(z)
               \/ (\E g \in Governors, new, old \in BOOLEAN : thermal_zone_device_set_policy(z, g, new, old))
      BY <3>3, MakeStep, GovernStep, BindZoneStep, FinishStep, UnlistStep, PolicyStep
    <3>4. CASE ListZone(z) \/ CancelWork(z) \/ UnbindGovernor(z) \/ ForgetGovernor(z) \/ FreeZone(z)
      BY <3>4, ListStep
    <3> QED
      BY <2>2, <3>1, <3>2, <3>3, <3>4
  <2>3. ASSUME NEW c \in Cdevs, ListCdev(c) \/ bind_cdev(c) \/ UpdateAll(c) \/ thermal_cooling_device_unregister(c)
        PROVE  ThermalInv'
    BY <2>3, EveryZoneStep, BindCdevStep, UnregisterCdevStep
  <2>4. CASE PmPrepare \/ thermal_pm_notify
    BY <2>4, EveryZoneStep
  <2> QED
    BY <2>1, <2>2, <2>3, <2>4 DEF ThermalNext
<1> QED
  BY <1>1, <1>2, ThermalSafe, PTL DEF ThermalSpec
=============================================================================

--------------------------------- MODULE Pwm ---------------------------------
(***************************************************************************)
(* The PWM core (core.c), its sysfs class (sysfs.c) and the RTS driver     *)
(* with a second set of files of its own, "settings" (pwm-rts.c).          *)
(*                                                                         *)
(* A PWM is held by one of three parties: a consumer in the kernel, an     *)
(* export of the sysfs class, or the settings files.  pwm_lock covers a    *)
(* request or a release; exporting, unexporting, what a write to the       *)
(* settings does and the removal of a chip are several steps under no      *)
(* common lock.  User space is frozen while the class suspends.            *)
(***************************************************************************)
EXTENDS Integers, FiniteSets

CONSTANTS
  Chips,     \* the chips; Rts is one of them
  Rts,
  NPwm,      \* NPwm[c]: the PWMs of chip c, numbered from 0
  MAX_PWMS,
  Periods,   \* the periods, in ns, users ask for; 0 is among them
  TinNs,     \* the length of a tick of the bus clock in ns
  Writers,   \* the processes that write to the settings files
  None,
  Gone       \* a pointer to a PWM of a chip that was freed

ASSUME ChipsAssumption == Rts \in Chips /\ NPwm \in [Chips -> Nat] /\ MAX_PWMS \in Nat
ASSUME TicksAssumption == Periods \subseteq Nat /\ 0 \in Periods /\ TinNs \in Nat \ {0}

Hw(c) == 0..(NPwm[c] - 1)
Pwms == UNION {{c} \X Hw(c) : c \in Chips}

ASSUME NoneAssumption ==
  /\ None \notin Pwms \cup 0..MAX_PWMS \cup {"consumer", "class", "settings", "flag", "register", "unregister", Gone}
  /\ Gone \notin Pwms

VARIABLES
  base,     \* base[c]: the first number of chip c, or None
  pwm,      \* pwm[p]: a record, see PwmType
  reg,      \* reg[p]: the registers, EN, HIGH and LOW
  desc,     \* desc[i]: the PWM the settings of index i hold, or None
  job,      \* job[p]: how far an export or an unexport of p has come
  wr,       \* wr[k]: how far the write of process k to the settings has come
  rem,      \* rem[c]: how far the removal of c has come, and the next PWM to unexport
  pm,       \* how far the class has come with suspending or resuming
  was,      \* was[i]: PWM i of Rts as the suspend found it (history)
  crossed,  \* the numbers whose settings had two writes at once (history)
  late      \* the PWMs of Rts left switched on by a removal (history)

pwmVars == <<base, pwm, reg, desc, job, wr, rem, pm, was, crossed, late>>

PwmState == [period : Periods, duty : Periods, enabled : BOOLEAN]
PwmType ==
  [requested : {None, "consumer", "class", "settings"},  \* PWMF_REQUESTED and its label
   exported : BOOLEAN,                                   \* PWMF_EXPORTED
   child : BOOLEAN,                                      \* the child device is registered
   state : PwmState,
   suspend : BOOLEAN]                                    \* export->suspend.enabled
Off == [period |-> 0, duty |-> 0, enabled |-> FALSE]
Fresh == [requested |-> None, exported |-> FALSE, child |-> FALSE, state |-> Off, suspend |-> FALSE]
Idle == [at |-> "idle", i |-> 0, p |-> None, on |-> FALSE]
Stays == [at |-> "no", i |-> 0]
Awake == [phase |-> "awake", at |-> 0, end |-> 0]

-----------------------------------------------------------------------------
(* Chips *)

Numbers(c) == base[c] .. (base[c] + NPwm[c] - 1)
Added == {c \in Chips : base[c] # None}
(* A removal that is refused returns to a driver core that frees the chip  *)
(* all the same: what is done with it from then on is not followed.        *)
Usable == {c \in Added : rem[c].at # "refused"}
(* alloc_pwms with base -1: the first area that is free. *)
alloc_pwms(n) ==
  {b \in 0..(MAX_PWMS - n) :
     LET free(x) == \A c \in Added : Numbers(c) \cap (x .. (x + n - 1)) = {}
     IN  free(b) /\ \A x \in 0..(b - 1) : ~free(x)}
pwm_to_device(n) == {<<c, n - base[c]>> : c \in {d \in Usable : n \in Numbers(d)}}

pwmchip_add_with_polarity(c) ==
  /\ base[c] = None /\ rem[c] = Stays /\ pm = Awake
  /\ \E b \in alloc_pwms(NPwm[c]) : base' = [base EXCEPT ![c] = b]
  /\ UNCHANGED <<pwm, reg, desc, job, wr, rem, pm, was, crossed, late>>

(* Holding a PWM *)

(* Mutated form: a PWM that is in use is handed out again. *)
pwm_device_request_Shared(p, who) == pwm' = [pwm EXCEPT ![p].requested = who]
pwm_device_request(p, who) == pwm[p].requested = None /\ pwm' = [pwm EXCEPT ![p].requested = who]
Put(r) == [r EXCEPT !.requested = None]

(* of_pwm_get finds the chip, requests, and gives back when no device link *)
(* can be made, which leaves everything as it was.                         *)
pwm_get(p) ==
  /\ p[1] \in Usable /\ pm = Awake
  /\ pwm_device_request(p, "consumer")
  /\ UNCHANGED <<base, reg, desc, job, wr, rem, pm, was, crossed, late>>
pwm_put(p) ==
  /\ pwm[p].requested = "consumer" /\ p[1] \in Usable /\ pm = Awake
  /\ pwm' = [pwm EXCEPT ![p] = Put(@)]
  /\ UNCHANGED <<base, reg, desc, job, wr, rem, pm, was, crossed, late>>

(* export_store: the request, (A PWM with a job is requested, so that the  *)
(* guard on job only says that a second export is not followed once a      *)
(* crossed write to the settings has dropped the claim of the first.)      *)
export_store(p) ==
  /\ p[1] \in Usable /\ pm = Awake /\ job[p] = None
  /\ pwm_device_request(p, "class")
  /\ job' = [job EXCEPT ![p] = "flag"]
  /\ UNCHANGED <<base, reg, desc, wr, rem, pm, was, crossed, late>>
(* the flag, *)
ExportFlag(p) ==
  /\ job[p] = "flag" /\ job' = [job EXCEPT ![p] = "register"]
  /\ pwm' = [pwm EXCEPT ![p].exported = TRUE]
  /\ UNCHANGED <<base, reg, desc, wr, rem, pm, was, crossed, late>>
(* and the child, which may be refused. *)
pwm_export_child(p) ==
  /\ job[p] = "register" /\ job' = [job EXCEPT ![p] = None]
  /\ \/ pwm' = [pwm EXCEPT ![p] = [@ EXCEPT !.child = TRUE, !.suspend = FALSE]]
     \/ pwm' = [pwm EXCEPT ![p] = [Put(@) EXCEPT !.exported = FALSE]]
  /\ UNCHANGED <<base, reg, desc, wr, rem, pm, was, crossed, late>>

(* pwm_unexport_child: the flag goes first, then the child, then the PWM.  *)
(* In the window of a running export it clears the flag and finds no       *)
(* child, which leaves an export that can not be undone.                   *)
pwm_unexport_child(p) ==
  /\ pwm' = [pwm EXCEPT ![p].exported = FALSE]
  /\ job' = IF pwm[p].exported /\ job[p] = None THEN [job EXCEPT ![p] = "unregister"] ELSE job
unexport_store(p) ==
  /\ pwm[p].exported /\ p[1] \in Usable /\ pm = Awake
  /\ pwm_unexport_child(p)
  /\ UNCHANGED <<base, reg, desc, wr, rem, pm, was, crossed, late>>
UnexportRest(p) ==
  /\ job[p] = "unregister" /\ job' = [job EXCEPT ![p] = None]
  /\ pwm' = [pwm EXCEPT ![p] = [Put(@) EXCEPT !.child = FALSE]]
  /\ UNCHANGED <<base, reg, desc, wr, rem, pm, was, crossed, late>>

-----------------------------------------------------------------------------
(* Removing a chip *)

(* rtsx_pwm_remove switches the outputs off before anything else, while    *)
(* the files that switch them are still there.                             *)
Remove(c) ==
  /\ c \in Usable /\ rem[c] = Stays /\ pm = Awake
  /\ rem' = [rem EXCEPT ![c].at = "unexport"]
  /\ reg' = [p \in Pwms |-> IF p[1] = c /\ c = Rts THEN [reg[p] EXCEPT !.en = FALSE] ELSE reg[p]]
  /\ UNCHANGED <<base, pwm, desc, job, wr, pm, was, crossed, late>>
(* The class lets go of what it exported, one PWM after the other; *)
pwmchip_sysfs_unexport(c) ==
  /\ rem[c].at = "unexport" /\ rem[c].i \in Hw(c)
  /\ rem' = [rem EXCEPT ![c].i = @ + 1]
  /\ pwm_unexport_child(<<c, rem[c].i>>)
  /\ UNCHANGED <<base, reg, desc, wr, pm, was, crossed, late>>
(* unregistering the class device waits for the writes to its files; then  *)
(* a chip with a PWM that is held is refused,                              *)
Held(c) == \E i \in Hw(c) : pwm[<<c, i>>].requested # None
ClassGone(c) == rem[c].at = "unexport" /\ rem[c].i = NPwm[c] /\ \A i \in Hw(c) : job[<<c, i>>] = None
RemoveRefused(c) ==
  /\ ClassGone(c) /\ Held(c) /\ rem' = [rem EXCEPT ![c].at = "refused"]
  /\ UNCHANGED <<base, pwm, reg, desc, job, wr, pm, was, crossed, late>>
(* and another is freed, whoever still points to one of its PWMs. *)
Cut(c, p) == IF p \in {c} \X Hw(c) THEN Gone ELSE p
pwmchip_remove(c) ==
  /\ ClassGone(c) /\ ~Held(c)
  /\ base' = [base EXCEPT ![c] = None]
  /\ pwm' = [p \in Pwms |-> IF p[1] = c THEN Fresh ELSE pwm[p]]
  /\ desc' = [i \in Hw(Rts) |-> Cut(c, desc[i])]
  /\ wr' = [k \in Writers |-> [wr[k] EXCEPT !.p = Cut(c, @)]]
  /\ rem' = [rem EXCEPT ![c] = IF c = Rts THEN [at |-> "files", i |-> 0] ELSE Stays]
  /\ late' = late \cup {p \in Pwms : p[1] = c /\ reg[p].en}
  /\ UNCHANGED <<reg, job, pm, was, crossed>>
(* The settings files go last, each when no write to it is running.        *)
RemoveFiles ==
  /\ rem[Rts].at = "files" /\ \A k \in Writers : wr[k] = Idle
  /\ rem' = [rem EXCEPT ![Rts] = Stays] /\ desc' = [i \in Hw(Rts) |-> None]
  /\ UNCHANGED <<base, pwm, reg, job, wr, pm, was, crossed, late>>

-----------------------------------------------------------------------------
(* States *)

rtsx_pwm_config(r, s) ==
  [r EXCEPT !.high = s.duty \div TinNs, !.low = s.period \div TinNs - s.duty \div TinNs]

(* pwm_apply_state for a driver without apply: nothing happens if the      *)
(* state is invalid or already there, else the period and duty are         *)
(* configured if they differ and the output is switched if it differs.     *)
Valid(s) == s.period # 0 /\ s.duty <= s.period
Same(s, t) == s.period = t.period /\ s.duty = t.duty
pwm_apply_state(r, old, s) ==
  IF ~Valid(s) THEN r
  ELSE LET c == IF Same(s, old) THEN r ELSE rtsx_pwm_config(r, s)
       IN  IF s.enabled = old.enabled THEN c ELSE [c EXCEPT !.en = s.enabled]
Applied(old, s) == IF Valid(s) THEN s ELSE old
(* What is done to the PWMs of another driver's chip is not followed.      *)
Apply(p, s) ==
  /\ reg' = IF p[1] = Rts THEN [reg EXCEPT ![p] = pwm_apply_state(@, pwm[p].state, s)] ELSE reg
  /\ pwm' = IF p[1] = Rts THEN [pwm EXCEPT ![p].state = Applied(@, s)] ELSE pwm

(* The files of an export, under its lock: one field at a time.            *)
period_store(p, n) == Apply(p, [pwm[p].state EXCEPT !.period = n])
duty_cycle_store(p, n) == Apply(p, [pwm[p].state EXCEPT !.duty = n])
enable_store(p, b) == Apply(p, [pwm[p].state EXCEPT !.enabled = b])
ClassStore(p) ==
  /\ pwm[p].child /\ p[1] \in Usable /\ pm = Awake
  /\ \/ \E n \in Periods : period_store(p, n) \/ duty_cycle_store(p, n)
     \/ \E b \in BOOLEAN : enable_store(p, b)
  /\ UNCHANGED <<base, desc, job, wr, rem, pm, was, crossed, late>>

pwm_config(p) ==
  \E n, d \in Periods : Apply(p, [pwm[p].state EXCEPT !.period = n, !.duty = d])
pwm_enable(p, b) == Apply(p, [pwm[p].state EXCEPT !.enabled = b])
(* A consumer, which makes one call at a time. *)
Consumer(p) ==
  /\ pwm[p].requested = "consumer" /\ p[1] \in Usable /\ pm = Awake
  /\ pwm_config(p) \/ \E b \in BOOLEAN : pwm_enable(p, b)
  /\ UNCHANGED <<base, desc, job, wr, rem, pm, was, crossed, late>>

-----------------------------------------------------------------------------
(* The settings files *)

(* They are there until the removal of Rts ends.  No lock is taken in a    *)
(* write, and two processes may write to the files of one index at once.   *)
SettingsThere == rem[Rts].at = "files" \/ Rts \in Usable
Begin(k, w) ==
  /\ SettingsThere /\ wr[k] = Idle /\ pm = Awake
  /\ wr' = [wr EXCEPT ![k] = w]
  /\ crossed' = crossed \cup {i \in {w.i} : \E l \in Writers : wr[l] # Idle /\ wr[l].i = i}
  /\ UNCHANGED <<base, pwm, reg, desc, job, rem, pm, was, late>>
Now(k, at) == wr[k].at = at /\ SettingsThere

(* request_store: index i asks for PWM number i, whichever chip has that   *)
(* number, *)
request_store(k, i) ==
  \/ desc[i] = None /\ Begin(k, [Idle EXCEPT !.at = "request", !.i = i])
  \/ Begin(k, [Idle EXCEPT !.at = "free", !.i = i, !.p = desc[i]])
pwm_request(k) ==
  /\ Now(k, "request")
  /\ \/ \E p \in pwm_to_device(wr[k].i) :
          pwm_device_request(p, "settings") /\ wr' = [wr EXCEPT ![k].at = "store", ![k].p = p]
     \/ /\ \A p \in pwm_to_device(wr[k].i) : pwm[p].requested # None
        /\ wr' = [wr EXCEPT ![k] = Idle] /\ UNCHANGED pwm
  /\ UNCHANGED <<base, reg, desc, job, rem, pm, was, crossed, late>>
RequestStored(k) ==
  /\ Now(k, "store")
  /\ desc' = [desc EXCEPT ![wr[k].i] = wr[k].p] /\ wr' = [wr EXCEPT ![k] = Idle]
  /\ UNCHANGED <<base, pwm, reg, job, rem, pm, was, crossed, late>>
(* or lets go of what it held, whoever holds that by now, and forgets it.  *)
pwm_free(k) ==
  /\ Now(k, "free")
  /\ pwm' = [p \in Pwms |-> IF p = wr[k].p THEN Put(pwm[p]) ELSE pwm[p]]
  /\ wr' = [wr EXCEPT ![k].at = "forget", ![k].p = None]
  /\ UNCHANGED <<base, reg, desc, job, rem, pm, was, crossed, late>>
RequestForgotten(k) ==
  /\ Now(k, "forget")
  /\ desc' = [desc EXCEPT ![wr[k].i] = None] /\ wr' = [wr EXCEPT ![k] = Idle]
  /\ UNCHANGED <<base, pwm, reg, job, rem, pm, was, crossed, late>>

(* enable_store of the settings: pwm_config, then pwm_enable; or           *)
(* pwm_disable.  Each call reads desc again.                               *)
SettingsEnable(k, i) ==
  /\ desc[i] # None
  /\ \E b \in BOOLEAN : Begin(k, [Idle EXCEPT !.at = IF b THEN "config" ELSE "switch", !.i = i, !.on = b])
SettingsConfig(k) ==
  /\ Now(k, "config") /\ wr' = [wr EXCEPT ![k].at = "switch"]
  /\ IF desc[wr[k].i] \in Pwms THEN pwm_config(desc[wr[k].i]) ELSE UNCHANGED <<pwm, reg>>
  /\ UNCHANGED <<base, desc, job, rem, pm, was, crossed, late>>
SettingsSwitch(k) ==
  /\ Now(k, "switch") /\ wr' = [wr EXCEPT ![k] = Idle]
  /\ IF desc[wr[k].i] \in Pwms THEN pwm_enable(desc[wr[k].i], wr[k].on) ELSE UNCHANGED <<pwm, reg>>
  /\ UNCHANGED <<base, desc, job, rem, pm, was, crossed, late>>

-----------------------------------------------------------------------------
(* Suspend *)

Child(i) == pwm[<<Rts, i>>].exported /\ pwm[<<Rts, i>>].child
Output(i) == [state |-> pwm[<<Rts, i>>].state, reg |-> reg[<<Rts, i>>]]
(* Every call, write and removal has come to its end. *)
Frozen ==
  /\ \A p \in Pwms : job[p] = None
  /\ \A k \in Writers : wr[k] = Idle
  /\ \A c \in Chips : rem[c].at \in {"no", "refused"}

Suspend ==
  /\ pm = Awake /\ Rts \in Usable /\ Frozen
  /\ pm' = [phase |-> "suspend", at |-> 0, end |-> NPwm[Rts]]
  /\ was' = [i \in Hw(Rts) |-> Output(i)]
  /\ UNCHANGED <<base, pwm, reg, desc, job, wr, rem, crossed, late>>
(* Switch the output of PWM i, whose export remembers that it was on. *)
SwitchTo(i, on, remember) ==
  LET p == <<Rts, i>>
      old == pwm[p].state
      new == [old EXCEPT !.enabled = on]
  IN  /\ reg' = [reg EXCEPT ![p] = pwm_apply_state(@, old, new)]
      /\ pwm' = [pwm EXCEPT ![p] = [@ EXCEPT !.state = Applied(old, new), !.suspend = remember]]
(* pwm_class_suspend: the exports are switched off one after the other; if *)
(* one is refused, as one never configured is, those before it are         *)
(* switched back.                                                          *)
pwm_class_suspend ==
  /\ pm.phase = "suspend" /\ pm.at < pm.end
  /\ IF Child(pm.at)
     THEN LET old == pwm[<<Rts, pm.at>>].state
          IN  /\ SwitchTo(pm.at, FALSE, old.enabled)
              /\ pm' = IF Valid(old) THEN [pm EXCEPT !.at = @ + 1] ELSE [phase |-> "resume", at |-> 0, end |-> pm.at]
     ELSE pm' = [pm EXCEPT !.at = @ + 1] /\ UNCHANGED <<pwm, reg>>
  /\ UNCHANGED <<base, desc, job, wr, rem, was, crossed, late>>
Asleep ==
  /\ pm.phase = "suspend" /\ pm.at = pm.end
  /\ pm' = [phase |-> "resume", at |-> 0, end |-> pm.end]
  /\ UNCHANGED <<base, pwm, reg, desc, job, wr, rem, was, crossed, late>>
(* pwm_class_resume_npwm switches the first ones on that were, up to one   *)
(* that is refused.                                                        *)
(* Mutated form: the export that was refused counts as switched off, and   *)
(* the last one that was is not switched back.                             *)
pwm_class_resume_npwm_Short ==
  /\ pm.phase = "resume" /\ pm.at < pm.end
  /\ IF Child(pm.at) /\ pm.at + 1 < pm.end
     THEN LET p == <<Rts, pm.at>>
          IN  /\ SwitchTo(pm.at, pwm[p].suspend, pwm[p].suspend)
              /\ pm' = IF Valid(pwm[p].state) THEN [pm EXCEPT !.at = @ + 1] ELSE [pm EXCEPT !.at = pm.end]
     ELSE pm' = [pm EXCEPT !.at = @ + 1] /\ UNCHANGED <<pwm, reg>>
  /\ UNCHANGED <<base, desc, job, wr, rem, was, crossed, late>>
pwm_class_resume_npwm ==
  /\ pm.phase = "resume" /\ pm.at < pm.end
  /\ IF Child(pm.at)
     THEN LET p == <<Rts, pm.at>>
          IN  /\ SwitchTo(pm.at, pwm[p].suspend, pwm[p].suspend)
              /\ pm' = IF Valid(pwm[p].state) THEN [pm EXCEPT !.at = @ + 1] ELSE [pm EXCEPT !.at = pm.end]
     ELSE pm' = [pm EXCEPT !.at = @ + 1] /\ UNCHANGED <<pwm, reg>>
  /\ UNCHANGED <<base, desc, job, wr, rem, was, crossed, late>>
(* The end of a resume, or of a suspend that was refused. *)
Thaw ==
  /\ pm.phase = "resume" /\ pm.at = pm.end
  /\ pm' = Awake /\ was' = [i \in Hw(Rts) |-> None]
  /\ UNCHANGED <<base, pwm, reg, desc, job, wr, rem, crossed, late>>

-----------------------------------------------------------------------------
PwmInit ==
  /\ base = [c \in Chips |-> None] /\ pwm = [p \in Pwms |-> Fresh]
  /\ reg = [p \in Pwms |-> [en |-> FALSE, high |-> 0, low |-> 0]]
  /\ desc = [i \in Hw(Rts) |-> None] /\ job = [p \in Pwms |-> None]
  /\ wr = [k \in Writers |-> Idle] /\ rem = [c \in Chips |-> Stays]
  /\ pm = Awake /\ was = [i \in Hw(Rts) |-> None] /\ crossed = {} /\ late = {}

PwmNext ==
  \/ \E c \in Chips :
       \/ pwmchip_add_with_polarity(c)
       \/ Remove(c) \/ pwmchip_sysfs_unexport(c) \/ RemoveRefused(c) \/ pwmchip_remove(c)
  \/ RemoveFiles
  \/ \E p \in Pwms :
       \/ pwm_get(p) \/ pwm_put(p) \/ Consumer(p)
       \/ export_store(p) \/ ExportFlag(p) \/ pwm_export_child(p)
       \/ unexport_store(p) \/ UnexportRest(p) \/ ClassStore(p)
  \/ \E k \in Writers :
       \/ \E i \in Hw(Rts) : request_store(k, i) \/ SettingsEnable(k, i)
       \/ pwm_request(k) \/ RequestStored(k) \/ pwm_free(k) \/ RequestForgotten(k)
       \/ SettingsConfig(k) \/ SettingsSwitch(k)
  \/ Suspend \/ pwm_class_suspend \/ Asleep \/ pwm_class_resume_npwm \/ Thaw

PwmSpec == PwmInit /\ [][PwmNext]_pwmVars

-----------------------------------------------------------------------------
RegType == [en : BOOLEAN, high : Nat, low : Int]
WrType ==
  [at : {"idle", "request", "store", "free", "forget", "config", "switch"},
   i : Hw(Rts) \cup {0}, p : Pwms \cup {None, Gone}, on : BOOLEAN]
PwmTypeOK ==
  /\ base \in [Chips -> 0..MAX_PWMS \cup {None}]
  /\ pwm \in [Pwms -> PwmType] /\ reg \in [Pwms -> RegType]
  /\ desc \in [Hw(Rts) -> Pwms \cup {None, Gone}]
  /\ job \in [Pwms -> {None, "flag", "register", "unregister"}]
  /\ wr \in [Writers -> WrType]
  /\ rem \in [Chips -> [at : {"no", "unexport", "files", "refused"}, i : Nat]]
  /\ pm \in [phase : {"awake", "suspend", "resume"}, at : Nat, end : Nat]
  /\ was \in [Hw(Rts) -> {None} \cup [state : PwmState, reg : RegType]]
  /\ crossed \subseteq Hw(Rts) /\ late \subseteq Pwms

(* Two writes that overlap on one index of the settings may drop the claim *)
(* of anybody on the PWM of that number (request_store); the PWMs of the   *)
(* other numbers are not concerned.                                        *)
Orderly(p) == p[1] \in Added => base[p[1]] + p[2] \notin crossed
(* A PWM with a child in sysfs, or one the settings files hold, is         *)
(* requested by exactly that party, through every step of exporting,       *)
(* releasing and removing (pwm_device_request, pwm_unexport_child,         *)
(* request_store, pwmchip_remove), the settings keep no PWM of a chip that *)
(* is gone, and no number belongs to two chips.                            *)
HeldByOne ==
  /\ \A p \in Pwms : Orderly(p) /\ (pwm[p].child \/ pwm[p].exported) => pwm[p].requested = "class"
  /\ \A i \in Hw(Rts) \ crossed : desc[i] # None =>
       \/ desc[i] \in Pwms /\ pwm[desc[i]].requested = "settings"
       \/ \E k \in Writers : wr[k].at = "forget" /\ wr[k].i = i
  /\ \A c, d \in Added : c # d => Numbers(c) \cap Numbers(d) = {}
(* The registers of a PWM are what its recorded state says                 *)
(* (pwm_apply_state), but for one that the removal of an earlier chip left *)
(* running because it was switched on after rtsx_pwm_remove had switched   *)
(* everything off.                                                         *)
RegistersAgree ==
  Rts \in Added /\ rem[Rts] = Stays =>
    \A p \in Pwms : p[1] = Rts /\ Orderly(p) =>
      /\ reg[p].en = pwm[p].state.enabled \/ p \in late
      /\ pwm[p].state.period # 0 => reg[p].high = pwm[p].state.duty \div TinNs
                                    /\ reg[p].high + reg[p].low = pwm[p].state.period \div TinNs

(* A PWM has one user, and the registers follow its state                  *)
(* (pwm_device_request, pwm_export_child, pwm_apply_state).                *)
PwmSound == HeldByOne /\ RegistersAgree

(* When a resume ends, or a suspend that was refused half way and rolled   *)
(* back, every output and its recorded state is as the suspend found it    *)
(* (pwm_class_suspend, pwm_class_resume_npwm).                             *)
SwitchedBack ==
  [][pm # Awake /\ pm' = Awake => \A i \in Hw(Rts) : Output(i)' = was[i]]_pwmVars
=============================================================================

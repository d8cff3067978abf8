---------------------------- MODULE RtsGpioIrq -----------------------------
(***************************************************************************)
(* The GPIO banks of the RTS3917 pin controller                            *)
(* (drivers/pinctrl/pinctrl-rts3917.c): interrupt enable and status        *)
(* registers with a falling and a rising bit per line, output values, the  *)
(* cascaded interrupt handler, and probe and remove of the driver.  A      *)
(* register is the set of its bits that are one.  The processor is single: *)
(* the handler interrupts the other calls, never the reverse; a value      *)
(* register is read and written back in two steps.                         *)
(***************************************************************************)
EXTENDS Integers, Sequences, FiniteSets

CONSTANTS
  Banks,       \* pincfgaddr: a sequence of [lo, hi, shadow]
  IrqLines,    \* lines whose interrupts are used
  AskTypes,    \* the trigger types asked for
  OutLines,    \* lines that are driven
  Toggles,     \* Toggles[g]: the line that the handler of g drives, or NoLine
  Fails,       \* what may fail during probe: "irq", "chip", "pinctrl"
  NoLine

(* Every line is a line of one bank; a bank has at most 16 of them, for the *)
(* two halves of a register of 32 bits.                                     *)
ASSUME BanksAssumption ==
  /\ Banks \in Seq([lo : Nat, hi : Nat, shadow : BOOLEAN])
  /\ \A b \in DOMAIN Banks : Banks[b].lo <= Banks[b].hi /\ Banks[b].hi <= Banks[b].lo + 15
  /\ \A g \in IrqLines \cup OutLines : \E b \in DOMAIN Banks : Banks[b].lo <= g /\ g <= Banks[b].hi
ASSUME LinesAssumption ==
  /\ IrqLines \subseteq Nat /\ OutLines \subseteq Nat /\ NoLine \notin OutLines
  /\ AskTypes \subseteq {"none", "rising", "falling", "both"}
  /\ Toggles \in [IrqLines -> OutLines \cup {NoLine}]

VARIABLES
  drv,      \* the driver's resources
  type,     \* rtspc->irq_type
  en,       \* gpio_int_en of each bank
  pend,     \* gpio_int of each bank
  oe,       \* gpio_oe: lines that are outputs
  val,      \* output bits of gpio_value of each bank
  shadow,   \* audio_adda_gpio_value, usb0_gpio_value, usb1_gpio_value
  level,    \* lines that are high at the pad
  want,     \* lines whose interrupt the interrupt core has enabled
  due,      \* enabled lines with an edge that their handler has not seen
  late,     \* lines the interrupt core replays when they are enabled
  isr,      \* rts_irq_handler
  cpu,      \* a value register between its read and its write
  asked,    \* the value last asked for on each driven line
  oops      \* freed memory was used

bankVars == <<drv, type, en, pend, oe, val, shadow, level, want, due, late, isr, cpu, asked, oops>>

Types == {"none", "rising", "falling", "both"}
Lines == IrqLines \cup OutLines
NoDrv == [at |-> "off", irq |-> FALSE, chip |-> FALSE, pctl |-> FALSE, ranges |-> FALSE]
Quiet == [at |-> "idle", i |-> 0, v1 |-> {}, v2 |-> {}]
Rest == [at |-> "idle", g |-> 0, bits |-> {}]

BankInit ==
  /\ drv = NoDrv /\ type = [g \in IrqLines |-> "none"]
  /\ en = [b \in DOMAIN Banks |-> {}] /\ pend = [b \in DOMAIN Banks |-> {}]
  /\ oe = {} /\ val = [b \in DOMAIN Banks |-> {}] /\ shadow = [b \in DOMAIN Banks |-> {}]
  /\ level = {} /\ want = {} /\ due = {} /\ late = {}
  /\ isr = Quiet /\ cpu = Rest /\ asked = [g \in OutLines |-> 0] /\ oops = FALSE

(* Lines and bits are those of the banks. *)
BankTypeOK ==
  /\ drv.at \in {"off", "on", "failed", "gone"} /\ type \in [IrqLines -> Types]
  /\ \A b \in DOMAIN Banks : en[b] \cup pend[b] \cup val[b] \cup shadow[b] \subseteq 0..31
  /\ oe \subseteq Lines /\ level \subseteq Lines /\ want \cup due \cup late \subseteq IrqLines
  /\ isr.at \in {"idle", "read", "ack", "run"} /\ cpu.at \in {"idle", "rmw"}
  /\ asked \in [OutLines -> {0, 1}] /\ oops \in BOOLEAN

-----------------------------------------------------------------------------
rts_get_pinaddr(g) == CHOOSE b \in DOMAIN Banks : Banks[b].lo <= g /\ g <= Banks[b].hi
bf(g) == g - Banks[rts_get_pinaddr(g)].lo
(* The rising half of the registers starts at 4, 8 or 16. *)
bs(b) == LET n == Banks[b].hi - Banks[b].lo + 1 IN IF n > 8 THEN 16 ELSE IF n > 4 THEN 8 ELSE 4
Fall(g) == bf(g)
Rise(g) == bf(g) + bs(rts_get_pinaddr(g))
Armed(g) == (IF type[g] \in {"rising", "both"} THEN {Rise(g)} ELSE {})
            \cup (IF type[g] \in {"falling", "both"} THEN {Fall(g)} ELSE {})
Mask(b) == LET n == Banks[b].hi - Banks[b].lo IN (0..n) \cup (bs(b)..bs(b) + n)
LineOf(b, bit) == Banks[b].lo + (IF bit >= bs(b) THEN bit - bs(b) ELSE bit)

Process == drv.at = "on" /\ isr.at = "idle"

-----------------------------------------------------------------------------
(* The irq_chip operations, each under irq_lock. *)
rts_gpio_irq_set_type(g) ==
  /\ Process /\ g \notin want
  /\ \E t \in AskTypes : type' = [type EXCEPT ![g] = t]
  /\ UNCHANGED <<drv, en, pend, oe, val, shadow, level, want, due, late, isr, cpu, asked, oops>>

(* The interrupt core delivers on enabling what came while it was disabled. *)
rts_gpio_irq_enable(g) ==
  LET b == rts_get_pinaddr(g) IN
  /\ Process /\ g \notin want /\ type[g] # "none"
  /\ en' = [en EXCEPT ![b] = @ \cup Armed(g)]
  /\ want' = want \cup {g} /\ late' = late \ {g}
  /\ UNCHANGED <<drv, type, pend, oe, val, shadow, level, due, isr, cpu, asked, oops>>

(* The bit cleared is the number of the line, not its place in the bank.   *)
(* C leaves open what 1 << bit is beyond the word: processors shift by the *)
(* low five bits of the number, or shift the one out.                      *)
rts_clr_reg_bit(bit) == IF bit < 32 THEN {{bit}} ELSE {{}, {bit % 32}}
rts_gpio_irq_disable(g) ==
  LET b == rts_get_pinaddr(g) IN
  /\ Process /\ g \in want
  /\ \E c1 \in rts_clr_reg_bit(g), c2 \in rts_clr_reg_bit(g + bs(b)) :
       en' = [en EXCEPT ![b] = (@ \ c1) \ c2]
  /\ want' = want \ {g} /\ due' = due \ {g}
  /\ UNCHANGED <<drv, type, pend, oe, val, shadow, level, late, isr, cpu, asked, oops>>

(* An edge at the pad of a line latches its bit; one that the line is      *)
(* enabled for is due to its handler.                                      *)
Edge(g) ==
  LET b == rts_get_pinaddr(g)
      bit == IF g \in level THEN Fall(g) ELSE Rise(g)
  IN
  /\ g \notin oe /\ drv.at = "on"
  /\ level' = IF g \in level THEN level \ {g} ELSE level \cup {g}
  /\ pend' = [pend EXCEPT ![b] = @ \cup {bit}]
  /\ due' = IF g \in want /\ bit \in Armed(g) THEN due \cup {g} ELSE due
  /\ UNCHANGED <<drv, type, en, oe, val, shadow, want, late, isr, cpu, asked, oops>>

-----------------------------------------------------------------------------
(* rts_irq_handler: for each bank, read what is enabled and what is        *)
(* pending, clear exactly what was read and hand on what is enabled.  The  *)
(* interrupt is shared: a handler left behind by a probe that failed is    *)
(* called too, and works on freed memory.                                  *)
Asserted == \E b \in DOMAIN Banks : en[b] \cap pend[b] # {}
Interrupt ==
  /\ isr.at = "idle" /\ drv.irq /\ (Asserted \/ drv.at = "failed")
  /\ IF drv.at = "on" THEN isr' = [Quiet EXCEPT !.at = "read", !.i = 1] /\ oops' = oops
     ELSE isr' = isr /\ oops' = TRUE
  /\ UNCHANGED <<drv, type, en, pend, oe, val, shadow, level, want, due, late, cpu, asked>>

ReadBank ==
  /\ isr.at = "read"
  /\ isr' = [isr EXCEPT !.at = "ack", !.v1 = en[isr.i] \cap Mask(isr.i), !.v2 = pend[isr.i] \cap Mask(isr.i)]
  /\ UNCHANGED <<drv, type, en, pend, oe, val, shadow, level, want, due, late, cpu, asked, oops>>

(* Mutated form: everything pending is cleared, not what was read. *)
AckBank_All ==
  /\ isr.at = "ack"
  /\ pend' = [pend EXCEPT ![isr.i] = {}]
  /\ isr' = [isr EXCEPT !.at = "run", !.v2 = isr.v2 \cap isr.v1]
  /\ UNCHANGED <<drv, type, en, oe, val, shadow, level, want, due, late, cpu, asked, oops>>
AckBank ==
  /\ isr.at = "ack"
  /\ pend' = [pend EXCEPT ![isr.i] = @ \ isr.v2]
  /\ isr' = [isr EXCEPT !.at = "run", !.v2 = isr.v2 \cap isr.v1]
  /\ UNCHANGED <<drv, type, en, oe, val, shadow, level, want, due, late, cpu, asked, oops>>

Least(S) == CHOOSE x \in S : \A y \in S : x <= y
Put(bits, g, v) == IF v = 1 THEN bits \cup {bf(g)} ELSE bits \ {bf(g)}
(* What a read of gpio_value shows: some banks read zero for an output. *)
ReadBack(b) == IF Banks[b].shadow THEN {} ELSE val[b]

(* handle_simple_irq: a line that is not enabled is remembered. *)
Dispatch ==
  LET bit == Least(isr.v2)
      g == LineOf(isr.i, bit)
      t == IF g \in IrqLines THEN Toggles[g] ELSE NoLine
  IN
  /\ isr.at = "run" /\ isr.v2 # {}
  /\ isr' = [isr EXCEPT !.v2 = @ \ {bit}]
  /\ due' = due \ {g}
  /\ late' = IF g \in IrqLines \ want THEN late \cup {g} ELSE late
  /\ IF g \in want /\ t # NoLine /\ t \in oe
     THEN LET b == rts_get_pinaddr(t)
              v == 1 - asked[t]
          IN  /\ asked' = [asked EXCEPT ![t] = v]
              /\ shadow' = IF Banks[b].shadow THEN [shadow EXCEPT ![b] = Put(@, t, v)] ELSE shadow
              /\ val' = [val EXCEPT ![b] = Put(IF Banks[b].shadow THEN shadow[b] ELSE @, t, v)]
     ELSE UNCHANGED <<asked, shadow, val>>
  /\ UNCHANGED <<drv, type, en, pend, oe, level, want, cpu, oops>>

NextBank ==
  /\ isr.at = "run" /\ isr.v2 = {}
  /\ isr' = IF isr.i < Len(Banks) THEN [Quiet EXCEPT !.at = "read", !.i = isr.i + 1] ELSE Quiet
  /\ UNCHANGED <<drv, type, en, pend, oe, val, shadow, level, want, due, late, cpu, asked, oops>>

-----------------------------------------------------------------------------
(* Driving a line: read the bits of the bank, change one, write all back.  *)
ReadBits(b) == IF Banks[b].shadow THEN shadow[b] ELSE ReadBack(b)
rts_gpio_set(g) ==
  /\ Process /\ cpu.at = "idle" /\ g \in oe
  /\ cpu' = [at |-> "rmw", g |-> g, bits |-> ReadBits(rts_get_pinaddr(g))]
  /\ asked' = [asked EXCEPT ![g] = 1 - @]
  /\ UNCHANGED <<drv, type, en, pend, oe, val, shadow, level, want, due, late, isr, oops>>
rts_gpio_set_write ==
  LET b == rts_get_pinaddr(cpu.g)
      new == Put(cpu.bits, cpu.g, asked[cpu.g])
  IN
  /\ Process /\ cpu.at = "rmw"
  /\ val' = [val EXCEPT ![b] = new]
  /\ shadow' = IF Banks[b].shadow THEN [shadow EXCEPT ![b] = new] ELSE shadow
  /\ cpu' = Rest
  /\ UNCHANGED <<drv, type, en, pend, oe, level, want, due, late, isr, asked, oops>>

(* The value is set before the line becomes an output. *)
rts_gpio_direction_output(g) ==
  LET b == rts_get_pinaddr(g) IN
  /\ Process /\ cpu.at = "idle" /\ g \notin oe /\ g \notin want
  /\ \E v \in {0, 1} :
       /\ asked' = [asked EXCEPT ![g] = v]
       /\ val' = [val EXCEPT ![b] = Put(ReadBits(b), g, v)]
       /\ shadow' = IF Banks[b].shadow THEN [shadow EXCEPT ![b] = Put(@, g, v)] ELSE shadow
  /\ oe' = oe \cup {g}
  /\ UNCHANGED <<drv, type, en, pend, level, want, due, late, isr, cpu, oops>>
rts_gpio_direction_input(g) ==
  /\ Process /\ cpu.at = "idle" /\ g \in oe
  /\ oe' = oe \ {g}
  /\ UNCHANGED <<drv, type, en, pend, val, shadow, level, want, due, late, isr, cpu, asked, oops>>
rts_gpio_get(g) ==
  LET b == rts_get_pinaddr(g) IN
  IF Banks[b].shadow /\ g \in oe THEN IF bf(g) \in shadow[b] THEN 1 ELSE 0
  ELSE IF g \in oe THEN IF bf(g) \in val[b] THEN 1 ELSE 0
  ELSE IF g \in level THEN 1 ELSE 0

-----------------------------------------------------------------------------
(* Probe asks for the interrupt, adds the chip, registers the controller   *)
(* and the range between the two; an error from pinctrl_register is only   *)
(* seen as a missing controller when the range is added.  The error paths  *)
(* free the driver's memory and leave the interrupt requested.             *)
rts_pinctrl_probe ==
  /\ drv.at = "off"
  /\ \/ drv' = [drv EXCEPT !.at = "on", !.irq = TRUE, !.chip = TRUE, !.pctl = TRUE, !.ranges = TRUE]
     \/ /\ "irq" \in Fails /\ drv' = [drv EXCEPT !.at = "failed"]
     \/ /\ {"chip", "pinctrl"} \cap Fails # {} /\ drv' = [drv EXCEPT !.at = "failed", !.irq = TRUE]
  /\ UNCHANGED <<type, en, pend, oe, val, shadow, level, want, due, late, isr, cpu, asked, oops>>

(* The controller is unregistered before the chip takes its range back     *)
(* from it.                                                                *)
rts_pinctrl_remove ==
  /\ Process /\ cpu.at = "idle" /\ want = {}
  /\ drv' = [drv EXCEPT !.at = "gone", !.irq = FALSE, !.pctl = FALSE, !.ranges = FALSE, !.chip = FALSE]
  /\ oops' = (oops \/ drv.ranges)
  /\ UNCHANGED <<type, en, pend, oe, val, shadow, level, want, due, late, isr, cpu, asked>>

BankNext ==
  \/ rts_pinctrl_probe \/ rts_pinctrl_remove
  \/ \E g \in IrqLines : rts_gpio_irq_set_type(g) \/ rts_gpio_irq_enable(g) \/ rts_gpio_irq_disable(g) \/ Edge(g)
  \/ Interrupt \/ ReadBank \/ AckBank \/ Dispatch \/ NextBank
  \/ rts_gpio_set_write
  \/ \E g \in OutLines : rts_gpio_set(g) \/ rts_gpio_direction_output(g) \/ rts_gpio_direction_input(g)

BankSpec == BankInit /\ [][BankNext]_bankVars

-----------------------------------------------------------------------------
(* The lines that no other line's disable can disarm: all of the first     *)
(* bank, and the others as far as the numbers of the lines in use allow.   *)
Undisturbed(g) ==
  \A h \in IrqLines \ {g} :
    LET b == rts_get_pinaddr(g) IN
    rts_get_pinaddr(h) = b => {h % 32, (h + bs(b)) % 32} \cap {Fall(g), Rise(g)} = {}

(* No edge that an enabled line waits for is lost: it is pending, or in    *)
(* the copy the handler took, until the line's handler ran; an enabled     *)
(* line stays armed; and a line that is an output keeps, and reads back,   *)
(* the value asked for whatever is done to its bank.                       *)
EdgesKept ==
  \A g \in due : \/ ~Undisturbed(g)
                 \/ pend[rts_get_pinaddr(g)] \cap Armed(g) # {}
                 \/ isr.at \in {"ack", "run"} /\ isr.i = rts_get_pinaddr(g) /\ isr.v2 \cap Armed(g) # {}
StaysArmed == \A g \in want : Undisturbed(g) => Armed(g) \subseteq en[rts_get_pinaddr(g)]
OutputsKept == \A g \in oe \cap OutLines : (cpu.at = "rmw" /\ cpu.g = g) \/ rts_gpio_get(g) = asked[g]
BanksSound == BankTypeOK /\ EdgesKept /\ StaysArmed /\ OutputsKept

(* A line whose interrupt was disabled is disabled in the register too:    *)
(* rts_gpio_irq_disable undoes rts_gpio_irq_enable                         *)
(* (pinctrl-rts3917.c:1838).                                               *)
DisabledIsQuiet ==
  \A g \in IrqLines \ want : drv.at = "on" => {Fall(g), Rise(g)} \cap en[rts_get_pinaddr(g)] = {}
(* Unbinding the driver, or a probe that fails, leaves nothing behind that *)
(* uses freed memory: the chip takes its range back from a controller that *)
(* is still registered (core.c:502), the interrupt is not left requested.  *)
NothingLeftBehind == ~oops
=============================================================================

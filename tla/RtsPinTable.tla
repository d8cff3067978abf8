---------------------------- MODULE RtsPinTable ----------------------------
(***************************************************************************)
(* The tables of the RTS3917 pin controller                                *)
(* (drivers/pinctrl/pinctrl-rts3917.c): the pins of each group, the groups *)
(* of each function, the pad configuration fields that selecting a group   *)
(* writes (rts_pmx_enable) and those that using a pin as GPIO writes       *)
(* (rts_gpio_enable).  Users take disjoint sets of pins, which is all that *)
(* the pin control core checks; whether they then disturb each other is a  *)
(* matter of the tables.                                                   *)
(***************************************************************************)
EXTENDS Integers, FiniteSets, TLC

CONSTANTS
  NotSelected, \* pairs of function and group that no device selects
  NotGpios,    \* pins that nobody uses as GPIO
  MaxHeld      \* bound on the users at one time

(* A field: `val` is written to `w` bits from bit `lo` of a PAD_CFG register. *)
W(reg, val, w, lo) == [reg |-> reg, val |-> val, w |-> w, lo |-> lo]
Four(reg, val, los) == {W(reg, val, 4, lo) : lo \in los}
Two(reg, val, los) == {W(reg, val, 2, lo) : lo \in los}

(* rts_pin_groups. *)
GroupPinsA == [
  gpiogrp |-> 0..88, uart0grp |-> 16..19, uart1grp |-> {20, 21}, uart2grp |-> 22..25,
  pwm0grp |-> {26}, pwm1grp |-> {27}, pwm2grp |-> {28}, pwm3grp |-> {29},
  dmic1grp |-> {61, 62}, dmic2grp |-> {63, 64}, i2sgrp |-> 69..73, i2sxb2grp |-> (16..19) \cup {29},
  i2sdvpgrp |-> {8, 48, 49, 58, 59}, amicgrp |-> {65, 66}, lineoutgrp |-> {65, 66},
  usbdgrp |-> {80, 81, 84}, etnled0grp |-> {26}, etnled1grp |-> {27}, etnled2grp |-> {28},
  usbhgrp |-> {78, 79, 82, 83}, saradc0grp |-> {74}, saradc1grp |-> {75}, saradc2grp |-> {76},
  saradc3grp |-> {77}]
GroupPinsB == [
  mipigrp |-> 50..57, dvpgrp |-> 48..60, ssigrp |-> 16..19, sdio0grp |-> 32..37, sdio0wpgrp |-> {38},
  sdio0cdgrp |-> {39}, sdio1grp |-> 40..45, sdio1videogrp |-> {8, 48, 49, 58, 59, 60},
  sdio1wpgrp |-> {46}, sdio1cdgrp |-> {47}, i2c0grp |-> {30, 31}, i2cpwmgrp |-> {26, 27},
  uart2usbdgrp |-> {80, 81}, dmicgrp |-> {67, 68}, i2c1grp |-> {85, 86}, spigrp |-> 87..92,
  h265uartgrp |-> {0, 1}, pdmgrp |-> {70, 73}, spdifoutgrp |-> {69}, pwmsdgrp |-> {41, 42, 44},
  default |-> {}]
GroupPins == GroupPinsA @@ GroupPinsB

(* rts_functions. *)
FuncGroups == [
  gpio |-> {"gpiogrp"}, sdio0 |-> {"sdio0grp", "sdio0wpgrp", "sdio0cdgrp"},
  sdio1 |-> {"sdio1grp", "sdio1wpgrp", "sdio1cdgrp", "sdio1videogrp"},
  uart |-> {"uart0grp", "uart1grp", "uart2grp", "uart2usbdgrp"},
  pwm |-> {"pwm0grp", "pwm1grp", "pwm2grp", "pwm3grp", "pwmsdgrp"},
  audio |-> {"dmic1grp", "dmic2grp", "dmicgrp", "amicgrp", "lineoutgrp", "i2sgrp", "i2sxb2grp",
             "i2sdvpgrp", "pdmgrp", "spdifoutgrp", "default"},
  usbd |-> {"usbdgrp", "default"}, etnled |-> {"etnled0grp", "etnled1grp", "etnled2grp"},
  usbh |-> {"usbhgrp"}, saradc |-> {"saradc0grp", "saradc1grp", "saradc2grp", "saradc3grp"},
  ssor |-> {"mipigrp", "dvpgrp", "default"}, ssi |-> {"ssigrp"},
  i2c |-> {"i2c0grp", "i2cpwmgrp", "i2c1grp"}, spi |-> {"spigrp"}, h265uart |-> {"h265uartgrp"}]
Selections == UNION {{<<f, g>> : g \in FuncGroups[f]} : f \in DOMAIN FuncGroups} \ NotSelected

(* rts_pmx_enable: what is written for a group; three functions write      *)
(* their fields whatever the group.                                        *)
AudioWrites == [
  amicgrp |-> {W("adda", 1, 3, 4)}, dmicgrp |-> {W("adda", 4, 3, 4)}, lineoutgrp |-> Two("adda", 1, {0}),
  dmic1grp |-> Two("dmic", 2, {0}), dmic2grp |-> Two("dmic", 2, {4}), i2sgrp |-> Four("i2s", 2, {0, 4, 8, 12, 16}),
  pdmgrp |-> Four("i2s", 4, {4, 16}), spdifoutgrp |-> Four("i2s", 4, {0}),
  i2sxb2grp |-> Four("pwm", 8, {12}) \cup Four("uart0", 8, {0, 4, 8, 12}),
  i2sdvpgrp |-> Four("video", 8, {0, 24}) \cup Four("gpio", 2, {8}), default |-> {}]
GroupWrites == [
  h265uartgrp |-> Four("gpio", 2, {0, 4}), i2c0grp |-> Two("i2c", 2, {0, 4}),
  i2cpwmgrp |-> Four("pwm", 8, {0, 4}), i2c1grp |-> Two("ssori2c", 2, {0}),
  pwm0grp |-> Four("pwm", 2, {0}), pwm1grp |-> Four("pwm", 2, {4}), pwm2grp |-> Four("pwm", 2, {8}),
  pwm3grp |-> Four("pwm", 2, {12}), pwmsdgrp |-> Four("sd1", 4, {0}),
  uart0grp |-> Four("uart0", 2, {0, 4, 8, 12}), uart1grp |-> Four("uart1", 2, {8, 12}),
  uart2grp |-> Four("uart2", 2, {0, 4, 8, 12}), uart2usbdgrp |-> Four("usb1", 4, {0, 4}),
  etnled0grp |-> Four("pwm", 4, {0}), etnled1grp |-> Four("pwm", 4, {4}), etnled2grp |-> {W("pwm", 4, 3, 8)},
  saradc0grp |-> Two("saradc", 1, {0}), saradc1grp |-> Two("saradc", 1, {4}),
  saradc2grp |-> Two("saradc", 1, {8}), saradc3grp |-> Two("saradc", 1, {12}),
  mipigrp |-> Four("video", 4, {4, 8, 12, 16, 20}),
  dvpgrp |-> Four("video", 2, {0, 4, 8, 12, 16, 20, 24, 28}) \cup Two("v18", 0, {0}),
  sdio0grp |-> {}, sdio0wpgrp |-> Two("sd0", 2, {4}), sdio0cdgrp |-> Two("sd0", 2, {2}),
  sdio1grp |-> Four("sd1", 2, {0}) \cup {W("sd1", 0, 1, 12)},
  sdio1wpgrp |-> Four("sd1", 2, {8}), sdio1cdgrp |-> Four("sd1", 2, {4}),
  sdio1videogrp |-> Four("gpio", 4, {8}) \cup Four("video", 4, {0, 24, 28}) \cup {W("sd1", 1, 1, 12)}
                    \cup Two("v18", 3, {0})]
rts_pmx_enable(f, g) ==
  CASE f = "audio" -> AudioWrites[g]
    [] f = "usbd" -> {W("usb1", 1, 3, 4), W("usb1", 1, 3, 0), W("usb2", 2, 2, 8)}
    [] f = "usbh" -> Two("usb0", 1, {0, 4}) \cup Two("usb2", 2, {0, 4})
    [] f = "ssi" -> {W("uart0", 4, 3, lo) : lo \in {0, 4, 8, 12}}
    [] f = "spi" -> Four("spi", 2, {0})
    [] f = "sdio0" -> Two("sd0", 2, {0}) \cup GroupWrites[g]
    [] f = "gpio" -> {}
    [] OTHER -> IF g = "default" THEN {} ELSE GroupWrites[g]

(* The video field of a pin: two pins to a field, one field skipped. *)
(* Mutated form: no field is skipped. *)
VideoField_NoSkip(p) == (IF p - 48 >= 11 THEN 11 ELSE p - 48) \div 2
VideoField(p) ==
  LET bf == (IF p - 48 >= 11 THEN 11 ELSE p - 48) \div 2 IN IF bf >= 3 THEN bf + 1 ELSE bf

(* rts_gpio_enable: the bank of a pin and its field there. *)
rts_gpio_enable(p) ==
  CASE p \in {0, 1} -> Four("gpio", 0, {4 * p})
    [] p = 8 -> Four("gpio", 0, {8})
    [] p \in 16..19 -> Four("uart0", 1, {4 * (3 - (p - 16))})
    [] p \in {20, 21} -> Four("uart1", 1, {4 * (3 - (p - 20))})
    [] p \in 22..25 -> Four("uart2", 1, {4 * (3 - (p - 22))})
    [] p \in 26..29 -> Four("pwm", 1, {4 * (p - 26)})
    [] p \in {30, 31} -> Four("i2c", 1, {4 * (p - 30)})
    [] p \in 32..39 -> Two("sd0", 1, {IF p = 38 THEN 4 ELSE IF p = 39 THEN 2 ELSE 0})
    [] p \in 40..47 -> Two("sd1", 1, {IF p = 46 THEN 4 ELSE IF p = 47 THEN 2 ELSE 0})
    [] p \in 48..60 -> Four("video", 1, {4 * VideoField(p)})
    [] p \in 61..64 -> Four("dmic", 1, {4 * ((p - 61) \div 2)})
    [] p \in 65..68 -> Four("adda", 2, {4 * ((p - 65) \div 2)})
    [] p \in 69..73 -> Four("i2s", 1, {4 * (p - 69)})
    [] p \in 74..77 -> Four("saradc", 2, {4 * (p - 74)})
    [] p \in {78, 79} -> Four("usb0", 2, {4 * (p - 78)})
    [] p \in {80, 81} -> Four("usb1", 2, {4 * (p - 80)})
    [] p \in 82..84 -> Four("usb2", 1, {4 * (p - 82)})
    [] p \in {85, 86} -> Two("ssori2c", 1, {0})
    [] p \in {87, 88} -> Two("spi", 1, {0})
    [] OTHER -> {}

(* The bits of a field, each with its value. *)
BitsOf(f) == {<<f.reg, f.lo + i, (f.val \div 2^i) % 2>> : i \in 0..f.w - 1}

-----------------------------------------------------------------------------
VARIABLES
  held,     \* the users: a selection or a GPIO
  spoiled   \* the users whose fields another user has changed

tableVars == <<held, spoiled>>

Users == [at : {"mux"}, sel : Selections] \cup [at : {"gpio"}, pin : (0..88) \ NotGpios]
PinsOf(u) == IF u.at = "mux" THEN GroupPins[u.sel[2]] ELSE {u.pin}
Bits(u) == UNION {BitsOf(f) : f \in IF u.at = "mux" THEN rts_pmx_enable(u.sel[1], u.sel[2])
                                    ELSE rts_gpio_enable(u.pin)}
Clash(u, v) == \E x \in Bits(u), y \in Bits(v) : x[1] = y[1] /\ x[2] = y[2] /\ x[3] # y[3]

TableInit == held = {} /\ spoiled = {}

(* Users hold pins of their own. *)
TableTypeOK ==
  /\ held \subseteq Users /\ spoiled \subseteq held
  /\ \A u, v \in held : u # v => PinsOf(u) \cap PinsOf(v) = {}

(* Pins are taken for a group or a GPIO when no one has them, and the      *)
(* fields written; giving them back writes nothing.                        *)
Take(u) ==
  /\ u \notin held /\ Cardinality(held) < MaxHeld
  /\ \A v \in held : PinsOf(u) \cap PinsOf(v) = {}
  /\ held' = held \cup {u}
  /\ spoiled' = spoiled \cup {v \in held : Clash(u, v)}
Give(u) ==
  /\ u \in held
  /\ held' = held \ {u} /\ spoiled' = spoiled \ {u}

TableNext == \E u \in Users : Take(u) \/ Give(u)

-----------------------------------------------------------------------------
(* Users of different pins do not change each other's pads: the fields     *)
(* that a group or a GPIO writes belong to its own pins.                   *)
PadsKept == spoiled = {}
=============================================================================

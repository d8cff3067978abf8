------------------------------- MODULE MCPins -------------------------------
(***************************************************************************)
(* Pins and GPIO lines in one run.  A behaviour moves one part, chosen at   *)
(* its start; what the parts share are calls that one of them lets answer   *)
(* as it likes and another one answers.  The parts other than Pinctrl,      *)
(* RtsGpioIrq and GpioLib use the same variables s1, s2, ...; those a part  *)
(* does not need stay 0.                                                    *)
(***************************************************************************)
EXTENDS Pinctrl, RtsGpioIrq, GpioLib, TLC

VARIABLES part, s1, s2, s3, s4, s5, s6, s7, s8, s9, s10, s11, s12

slots == <<s1, s2, s3, s4, s5, s6, s7, s8, s9, s10, s11, s12>>
above2 == <<s3, s4, s5, s6, s7, s8, s9, s10, s11, s12>>
above5 == <<s6, s7, s8, s9, s10, s11, s12>>
above9 == <<s10, s11, s12>>
Zero9 == s10 = 0 /\ s11 = 0 /\ s12 = 0
Zero5 == s6 = 0 /\ s7 = 0 /\ s8 = 0 /\ s9 = 0 /\ Zero9
Zero2 == s3 = 0 /\ s4 = 0 /\ s5 = 0 /\ Zero5
Zero == s1 = 0 /\ s2 = 0 /\ Zero2

(* Pinctrl.  Two devices want a common pin; one has three settings in a    *)
(* state and two pins that share a pad field, the other is the controller.  *)
CONSTANTS sd, uart

MCPinSet == 1..3
MCSettings ==
  (sd :> [s \in {"default", "sleep"} |-> IF s = "default" THEN <<{1, 2}, {3}, {}>> ELSE <<{3}>>])
  @@ (uart :> [s \in {"default", "sleep"} |-> IF s = "default" THEN <<{3}, {}>> ELSE << >>])
MCPadOf == [p \in MCPinSet |-> IF p = 3 THEN "b" ELSE "a"]

(* GpioLib.  Two lines, a handle on both, an event file and sysfs on the    *)
(* second.                                                                  *)
CONSTANTS hfile, efile

MCLinesOf == (hfile :> <<1, 2>>) @@ (efile :> <<2>>)

(* GpioChip.  Two chips that fill the numbers: one at any place, with a hog *)
(* and two reserved ranges in its node, one of them up to its last line,    *)
(* the other at 0, with a hog of the board and an irq_chip that is added    *)
(* late; two consumers want a line.  And two chips that share an irq_chip.  *)
MCChips == {"a", "b"}
MCNgpio == [c \in MCChips |-> IF c = "a" THEN 3 ELSE 2]
MCBase == [c \in MCChips |-> IF c = "a" THEN -1 ELSE 0]
MCDtHogs == [c \in MCChips |-> IF c = "a" THEN <<0>> ELSE << >>]
MCReserved == [c \in MCChips |-> IF c = "a" THEN {<<1, 1>>, <<2, 1>>} ELSE {}]
MCIrqChip == [c \in MCChips |-> c]
MCMachineHogs == {<<"b", 0>>}
MCWants == [x \in {"x", "y"} |-> IF x = "x" THEN << <<"a", 2>>, <<"b", 1>> >> ELSE << <<"b", 1>> >>]

Chip == INSTANCE GpioChip WITH
  Chips <- MCChips, Ngpio <- MCNgpio, Base <- MCBase, NrGpios <- 5, DtHogs <- MCDtHogs,
  MachineHogs <- MCMachineHogs, Reserved <- MCReserved, Muxed <- {}, IrqChip <- MCIrqChip,
  Consumers <- {"x", "y"}, Wants <- MCWants, Board <- {"y"}, LateIrq <- {"b"}, NonExclusive <- {},
  list <- s1, gdev <- s2, inited <- s3, table <- s4, pctl <- s5, pins <- s6, hook <- s7,
  got <- s8, oops <- s9

MCShared == [c \in MCChips |-> "a"]
MCNoHogs == [c \in MCChips |-> << >>]
MCNone == [c \in MCChips |-> {}]
MCNobody == [x \in {} |-> << >>]
Shared == INSTANCE GpioChip WITH
  Chips <- MCChips, Ngpio <- MCNgpio, Base <- MCBase, NrGpios <- 5, DtHogs <- MCNoHogs,
  MachineHogs <- {}, Reserved <- MCNone, Muxed <- {}, IrqChip <- MCShared,
  Consumers <- {}, Wants <- MCNobody, Board <- {}, LateIrq <- {"b"}, NonExclusive <- {},
  list <- s1, gdev <- s2, inited <- s3, table <- s4, pctl <- s5, pins <- s6, hook <- s7,
  got <- s8, oops <- s9

(* GpioLine.  Three lines of a chip without and one of a chip with open     *)
(* drain, used with every lookup flag; the first is exported and may be an   *)
(* interrupt too.  Either single lines move, or arrays of outputs with and   *)
(* without a fast path, the last one with one that is given up.              *)
MCAllLines == {<<"a", 0>>, <<"a", 1>>, <<"a", 2>>, <<"b", 1>>}
MCUses ==
  [l \in MCAllLines |-> IF l = <<"a", 0>> THEN {{"PULL_DOWN"}, {"ACTIVE_LOW", "PULL_UP"}}
                        ELSE IF l = <<"a", 1>> THEN {{"OPEN_DRAIN", "ACTIVE_LOW"}, {}}
                        ELSE IF l = <<"a", 2>> THEN {{}}
                        ELSE {{"OPEN_SOURCE"}}]
MCShown == {l \in MCAllLines : l[1] = "a"}
MCArray(ls) == [i \in 0..(Len(ls) - 1) |-> ls[i + 1]]
MCArrays == {MCArray(<< <<"a", 0>>, <<"b", 1>>, <<"a", 1>> >>), MCArray(<< <<"a", 0>>, <<"a", 1>> >>),
             MCArray(<< <<"a", 1>>, <<"a", 0>> >>), MCArray(<< <<"a", 0>>, <<"a", 2>> >>)}

Line == INSTANCE GpioLine WITH
  AllLines <- MCAllLines, HwDrive <- {"b"}, Uses <- MCUses, Exported <- {<<"a", 0>>},
  Shown <- MCShown, IrqLines <- {<<"a", 0>>, <<"a", 1>>}, Arrays <- MCArrays,
  desc <- s1, pad <- s2, out <- s3, array <- s4, bad <- s5

(* PinctrlReg.  A controller that is initialised first and enabled later,   *)
(* one that hogs its own pins; two devices, one described by its node and   *)
(* the board's table, one by the table only, with a function nobody has.    *)
(* Either the GPIO ranges or the users of handles move.                     *)
MCUsers == {"u1", "u2"}
MCDevOf == [u \in MCUsers |-> IF u = "u1" THEN "d1" ELSE "d2"]
Map(d, n, t, c, f, g) == [dev |-> d, name |-> n, type |-> t, ctl |-> c, func |-> f, group |-> g]
MCTables ==
  [t \in {"t"} |-> <<Map("d1", "sleep", "mux", "c2", "f2", None), Map("d1", "init", "dummy", None, None, None),
                     Map("d2", "default", "mux", "c1", "f1", None),
                     Map("d2", "sleep", "mux", "c2", "zz", None)>>]
MCDtMaps ==
  [d \in {"d1", "d2", "c1", "c2"} |->
     CASE d = "d1" -> <<Map("d1", "default", "mux", "c1", "f1", "g2"),
                        Map("d1", "default", "conf", "c1", None, None)>>
       [] d = "c2" -> <<Map("c2", "default", "mux", "c2", "f2", "g3"),
                        Map("c2", "sleep", "mux", "c2", "f2", "g3")>>
       [] OTHER -> << >>]
MCNames == [c \in {"c1", "c2"} |-> IF c = "c1" THEN [func |-> <<"f1">>, group |-> <<"g2">>]
                                   ELSE [func |-> <<"f2">>, group |-> <<"g3">>]]
MCGroupsOf == [f \in {"f1", "f2"} |-> IF f = "f1" THEN <<"g2">> ELSE <<"g3">>]
MCPinsOf == [c \in {"c1", "c2"} |-> IF c = "c1" THEN <<0, 1>> ELSE <<0>>]
MCRanges == [r \in {"r1"} |-> [ctl |-> "c2", base |-> 4, n |-> 1, pin |-> 0]]

Reg == INSTANCE PinctrlReg WITH
  Ctls <- {"c1", "c2"}, Users <- MCUsers, DevOf <- MCDevOf, Tables <- MCTables, DtMaps <- MCDtMaps,
  NoPins <- {"c1"}, Names <- MCNames, GroupsOf <- MCGroupsOf, PinNrs <- MCPinsOf,
  InitFirst <- {"c1"}, Ranges <- MCRanges, ChipLines <- {4, 5}, Dummies <- TRUE, Asked <- {"idle"},
  Faults <- {}, MaxHandles <- 3, MaxRegs <- 1, MaxRefs <- 1,
  maps <- s1, locked <- s2, ctl <- s3, list <- s4, devres <- s5, handle <- s6, call <- s7,
  held <- s8, ranges <- s9, owner <- s10, line <- s11, oops <- s12

(* RtsGpioIrq.  The first and the audio bank of the chip, two interrupt     *)
(* lines and two lines that are driven in the audio bank.  Either the       *)
(* interrupts or the driven lines move.  Line 68, which a disable of line   *)
(* 67 may disarm, uses both edges; line 67 one or both.                     *)
MCBanks == <<[lo |-> 0, hi |-> 15, shadow |-> FALSE], [lo |-> 65, hi |-> 68, shadow |-> TRUE]>>
MCToggles == [g \in IrqLines |-> NoLine]

(* RtsPinTable.  Every two users of the tables, but for the entries that    *)
(* switch pads of pins they do not list or miss the field of their pin.     *)
MCNotSelected ==
  {<<"audio", "amicgrp">>, <<"sdio0", "sdio0wpgrp">>, <<"sdio0", "sdio0cdgrp">>,
   <<"sdio1", "sdio1videogrp">>, <<"pwm", "pwmsdgrp">>, <<"usbd", "default">>}

Table == INSTANCE RtsPinTable WITH
  NotSelected <- MCNotSelected, NotGpios <- {46, 47, 60}, MaxHeld <- 2, held <- s1, spoiled <- s2

CONSTANT Parts    \* the parts that the run is about

MCInit ==
  /\ part \in Parts /\ Init /\ BankInit /\ LibInit
  /\ \/ part \in {"pinctrl", "banks", "values", "gpiolib"} /\ Zero
     \/ part = "gpiochip" /\ Chip!ChipInit /\ Zero9
     \/ part = "shared" /\ Shared!ChipInit /\ Zero9
     \/ part \in {"gpioline", "arrays"} /\ Line!LineInit /\ Zero5
     \/ part \in {"registry", "ranges"} /\ Reg!RegInit
     \/ part = "table" /\ Table!TableInit /\ Zero2

MCNext ==
  /\ UNCHANGED part
  /\ \/ part = "pinctrl" /\ Next /\ UNCHANGED <<slots, bankVars, libVars>>
     \/ part = "gpiolib" /\ LibNext /\ UNCHANGED <<vars, bankVars, slots>>
     \/ part = "gpiochip" /\ Chip!ChipNext /\ UNCHANGED <<vars, bankVars, libVars, above9>>
     \/ part = "shared" /\ Shared!ChipNext /\ UNCHANGED <<vars, bankVars, libVars, above9>>
     \/ /\ part \in {"gpioline", "arrays"} /\ Line!LineNext
        /\ UNCHANGED <<vars, bankVars, libVars, above5>>
        /\ IF part = "gpioline" THEN s1'[<<"a", 2>>] = {} /\ UNCHANGED s4
           ELSE \A l \in MCAllLines :
                  /\ {"USED_AS_IRQ", "PULL_DOWN"} \cap s1'[l] = {} /\ s3'[l].dir # "in"
                  /\ "REQUESTED" \in s1[l] => "REQUESTED" \in s1'[l]
     \/ /\ part \in {"registry", "ranges"} /\ Reg!RegNext /\ UNCHANGED <<vars, bankVars, libVars>>
        /\ IF part = "registry" THEN UNCHANGED <<s9, s11>> ELSE UNCHANGED s7
     \/ /\ part \in {"banks", "values"} /\ BankNext /\ UNCHANGED <<vars, slots, libVars>>
        /\ IF part = "banks" THEN UNCHANGED oe ELSE UNCHANGED <<want, isr>>
        /\ \A g \in IrqLines : g = 68 => type'[g] \in {"none", "both"}
     \/ part = "table" /\ Table!TableNext /\ UNCHANGED <<vars, bankVars, libVars, above2>>

allVars == <<part, vars, slots, bankVars, libVars>>
MCSpec ==
  /\ MCInit /\ [][MCNext]_allVars
  /\ \A d \in Devs : WF_allVars(part = "pinctrl" /\ Step(d) /\ UNCHANGED <<part, slots, bankVars, libVars>>)

(* The types of the parts. *)
TypesOK ==
  /\ TypeOK
  /\ part = "gpiochip" => Chip!ChipTypeOK
  /\ part = "shared" => Shared!ChipTypeOK
  /\ part \in {"gpioline", "arrays"} => Line!LineTypeOK
  /\ part \in {"registry", "ranges"} => Reg!RegTypeOK
  /\ part = "table" => Table!TableTypeOK
(* Handles, maps and controllers stay consistent while they come and go: see *)
(* HandlesSound of PinctrlReg (create_pinctrl, pinctrl_free).  So do GPIO    *)
(* chips while their lines are looked up, hogged and held: see RegistrySound *)
(* of GpioChip (gpiochip_add_data_with_key, gpiochip_remove).                *)
HandlesSound ==
  /\ part \in {"registry", "ranges"} => Reg!HandlesSound
  /\ part = "gpiochip" => Chip!RegistrySound
  /\ part = "shared" => Shared!RegistrySound
(* An attempt to get a handle that is deferred returns (create_pinctrl).     *)
DeferReturns == part \in {"registry", "ranges"} => Reg!DeferReturns
(* Users of different pins do not change each other's pads (rts_pmx_enable,  *)
(* rts_gpio_enable).                                                         *)
PadsKept == part = "table" => Table!PadsKept
=============================================================================

------------------------------ MODULE GpioLine ------------------------------
(***************************************************************************)
(* What happens to the lines of GPIO chips once consumers have them        *)
(* (drivers/gpio/gpiolib.c, gpiolib-sysfs.c): the flags of a descriptor,   *)
(* its direction and value with active low, open drain and open source,    *)
(* the pull of the pad, a line locked as an interrupt, and arrays of lines *)
(* with the fast path gpiod_get_array prepares.                            *)
(*                                                                         *)
(* A line is <<chip, hwgpio>>.  Bitmaps are sets of array indices, which   *)
(* start at 0.  A call of the driver does not fail.                        *)
(***************************************************************************)
EXTENDS Integers, Sequences, FiniteSets

CONSTANTS
  AllLines,   \* the lines
  HwDrive,    \* chips whose set_config knows open drain and open source
  Uses,       \* the lookup flags consumers ask for, per line
  Exported,   \* lines userspace drives through sysfs
  Shown,      \* lines whose direction is asked for (direction_show)
  IrqLines,   \* lines used as interrupts
  Arrays      \* arrays of lines a consumer gets, as functions on 0..n-1

VARIABLES
  desc,    \* desc->flags of a line
  pad,     \* direction, output level and pull of its pad
  out,     \* the direction and value the user of a line last asked for, the pull
           \* it asked for and whether direction_store gave the direction (history)
  array,   \* the struct gpio_descs of a consumer: the lines and the masks
  bad      \* an array call did something else than the calls on its lines
           \* one by one (history)

lineVars == <<desc, pad, out, array, bad>>

Flags == {"REQUESTED", "IS_OUT", "ACTIVE_LOW", "OPEN_DRAIN", "OPEN_SOURCE", "PULL_UP",
          "PULL_DOWN", "USED_AS_IRQ", "IRQ_IS_ENABLED"}
NoArray == [ds |-> << >>, info |-> FALSE, left |-> FALSE, get |-> {}, set |-> {}, inv |-> {}]
Unused == [dir |-> "none", val |-> 0, pull |-> "none", raw |-> FALSE]
Pull(f) == IF "PULL_UP" \in f THEN "up" ELSE IF "PULL_DOWN" \in f THEN "down" ELSE "none"

LineInit ==
  /\ desc = [l \in AllLines |-> {}]
  /\ pad = [l \in AllLines |-> [dir |-> "in", val |-> 0, bias |-> "none", hw |-> FALSE]]
  /\ out = [l \in AllLines |-> Unused]
  /\ array = NoArray /\ bad = FALSE

(* Known flags; a pad is an input or driven. *)
LineTypeOK ==
  /\ desc \in [AllLines -> SUBSET Flags]
  /\ \A l \in AllLines :
       /\ pad[l].dir \in {"in", "out"} /\ pad[l].val \in 0..1 /\ pad[l].bias \in {"none", "up", "down"}
       /\ out[l].dir \in {"none", "in", "out"} /\ out[l].val \in 0..1
       /\ out[l].pull \in {"none", "up", "down"} /\ out[l].raw \in BOOLEAN
  /\ array.get \cup array.set \cup array.inv \subseteq 0..3 /\ bad \in BOOLEAN

-----------------------------------------------------------------------------
(* One line: its flags f and its pad p as a record [f, p]. *)

Line(l) == [f |-> desc[l], p |-> pad[l]]
HwMode(l) == l[1] \in HwDrive
Not(v) == 1 - v
Physical(f, v) == IF "ACTIVE_LOW" \in f THEN Not(v) ELSE v

(* chip->direction_input, and the pull of the flags. *)
gpiod_direction_input(x) ==
  [f |-> x.f \ {"IS_OUT"},
   p |-> [x.p EXCEPT !.dir = "in",
            !.bias = IF Pull(x.f) = "none" THEN @ ELSE Pull(x.f)]]

gpiod_direction_output_raw_commit(x, v) ==
  [f |-> x.f \cup {"IS_OUT"}, p |-> [x.p EXCEPT !.dir = "out", !.val = v]]


(* A line that is open drain or open source in software is left an input   *)
(* instead of being driven to the level it must not drive; IS_OUT is set   *)
(* all the same.                                                           *)
gpiod_direction_output(l, x, v) ==
  LET w == Physical(x.f, v)
      float == /\ ~HwMode(l)
               /\ \/ "OPEN_DRAIN" \in x.f /\ w = 1
                  \/ "OPEN_DRAIN" \notin x.f /\ "OPEN_SOURCE" \in x.f /\ w = 0
      y == [x EXCEPT !.p.hw = HwMode(l)]
      z == gpiod_direction_input(y)
  IN IF float THEN [z EXCEPT !.f = @ \cup {"IS_OUT"}]
     ELSE gpiod_direction_output_raw_commit(y, w)

(* gpio_set_open_drain_value_commit: high is an input. *)
gpio_set_open_drain_value_commit(x, w) ==
  IF w = 1 THEN [x EXCEPT !.p.dir = "in"] ELSE gpiod_direction_output_raw_commit(x, 0)
(* gpio_set_open_source_value_commit: low is an input. *)
gpio_set_open_source_value_commit(x, w) ==
  IF w = 1 THEN gpiod_direction_output_raw_commit(x, 1) ELSE [x EXCEPT !.p.dir = "in"]
gpiod_set_raw_value_commit(x, w) == [x EXCEPT !.p.val = w]

(* With the physical level w. *)
SetPhysical(x, w) ==
  IF "OPEN_DRAIN" \in x.f THEN gpio_set_open_drain_value_commit(x, w)
  ELSE IF "OPEN_SOURCE" \in x.f THEN gpio_set_open_source_value_commit(x, w)
  ELSE gpiod_set_raw_value_commit(x, w)
gpiod_set_value_nocheck(x, v) == SetPhysical(x, Physical(x.f, v))

(* The level chip->get reads: what is driven, else the pull, else low. *)
Level(p) == IF p.dir = "out" THEN p.val ELSE IF p.bias = "up" THEN 1 ELSE 0
gpiod_get_value(f, p) == Physical(f, Level(p))

(* gpiod_configure_flags with lookup flags u and an initial direction. *)
gpiod_configure_flags(l, x, u, dir, v) ==
  LET y == [x EXCEPT !.f = @ \cup u]
  IN IF dir = "out" THEN gpiod_direction_output(l, y, v)
     ELSE IF dir = "in" THEN gpiod_direction_input(y) ELSE y

Set(l, x) == desc' = [desc EXCEPT ![l] = x.f] /\ pad' = [pad EXCEPT ![l] = x.p]

-----------------------------------------------------------------------------
(* Consumers and userspace. *)

gpiod_get(l, u, dir, v) ==
  /\ "REQUESTED" \notin desc[l]
  /\ Set(l, gpiod_configure_flags(l, [Line(l) EXCEPT !.f = @ \cup {"REQUESTED"}], u, dir, v))
  /\ out' = [out EXCEPT ![l] = [dir |-> dir, val |-> v, pull |-> Pull(u), raw |-> FALSE]]
  /\ UNCHANGED <<array, bad>>

(* The flags that are cleared; the pulls are not among them, the next user *)
(* of the line has them too.                                               *)
gpiod_free_commit(l) ==
  /\ desc' = [desc EXCEPT ![l] = @ \ {"REQUESTED", "ACTIVE_LOW", "OPEN_DRAIN", "OPEN_SOURCE"}]
gpiod_put(l) ==
  /\ "REQUESTED" \in desc[l] /\ "USED_AS_IRQ" \notin desc[l]
  /\ \A i \in DOMAIN array.ds : array.ds[i] # l
  /\ gpiod_free_commit(l) /\ out' = [out EXCEPT ![l] = Unused]
  /\ UNCHANGED <<pad, array, bad>>

Directed(l, dir, v, raw) == out' = [out EXCEPT ![l] = [@ EXCEPT !.dir = dir, !.val = v, !.raw = raw]]

(* A consumer changes the direction; an enabled interrupt forbids output. *)
Direct(l, dir, v) ==
  /\ "REQUESTED" \in desc[l] /\ l \notin Exported
  /\ IF dir = "in" THEN Set(l, gpiod_direction_input(Line(l)))
     ELSE /\ ~({"USED_AS_IRQ", "IRQ_IS_ENABLED"} \subseteq desc[l])
          /\ Set(l, gpiod_direction_output(l, Line(l), v))
  /\ Directed(l, dir, v, FALSE)
  /\ UNCHANGED <<array, bad>>

(* direction_store: raw output, whatever the flags of the line, an enabled *)
(* interrupt among them.                                                   *)
direction_store(l, dir, v) ==
  /\ l \in Exported /\ "REQUESTED" \in desc[l]
  /\ Set(l, IF dir = "in" THEN gpiod_direction_input(Line(l))
            ELSE gpiod_direction_output_raw_commit(Line(l), v))
  /\ Directed(l, dir, IF dir = "in" THEN 0 ELSE Physical(desc[l], v), dir = "out")
  /\ UNCHANGED <<array, bad>>

(* value_store, linehandle_ioctl: only for a line flagged as output. *)
value_store(l, v) ==
  /\ "REQUESTED" \in desc[l] /\ "IS_OUT" \in desc[l]
  /\ Set(l, gpiod_set_value_nocheck(Line(l), v))
  /\ out' = [out EXCEPT ![l].val = v] /\ UNCHANGED <<array, bad>>

(* gpiod_get_direction corrects IS_OUT by what the chip says; an open      *)
(* drain line is taken to be emulated, an open source line is not.         *)
gpiod_get_direction(l) ==
  /\ l \in Shown /\ "REQUESTED" \in desc[l] /\ ~({"OPEN_DRAIN", "IS_OUT"} \subseteq desc[l])
  /\ desc' = [desc EXCEPT ![l] = IF pad[l].dir = "in" THEN @ \ {"IS_OUT"} ELSE @ \cup {"IS_OUT"}]
  /\ UNCHANGED <<pad, out, array, bad>>

-----------------------------------------------------------------------------
(* Interrupts. *)

(* The line must be an input or open drain. *)
gpiochip_lock_as_irq(l) ==
  /\ l \in IrqLines /\ "REQUESTED" \in desc[l] /\ "USED_AS_IRQ" \notin desc[l]
  /\ "IS_OUT" \in desc[l] => "OPEN_DRAIN" \in desc[l]
  /\ desc' = [desc EXCEPT ![l] = @ \cup {"USED_AS_IRQ", "IRQ_IS_ENABLED"}]
  /\ UNCHANGED <<pad, out, array, bad>>
gpiochip_unlock_as_irq(l) ==
  /\ "USED_AS_IRQ" \in desc[l]
  /\ desc' = [desc EXCEPT ![l] = @ \ {"USED_AS_IRQ", "IRQ_IS_ENABLED"}]
  /\ UNCHANGED <<pad, out, array, bad>>
(* The two warn about a line that is not locked, and enable_irq about one  *)
(* its user has made an output: users keep to that.                        *)
gpiochip_disable_irq(l) ==
  /\ {"USED_AS_IRQ", "IRQ_IS_ENABLED"} \subseteq desc[l]
  /\ desc' = [desc EXCEPT ![l] = @ \ {"IRQ_IS_ENABLED"}]
  /\ UNCHANGED <<pad, out, array, bad>>
gpiochip_enable_irq(l) ==
  /\ "USED_AS_IRQ" \in desc[l] /\ ("IS_OUT" \in desc[l] => "OPEN_DRAIN" \in desc[l])
  /\ desc' = [desc EXCEPT ![l] = @ \cup {"IRQ_IS_ENABLED"}]
  /\ UNCHANGED <<pad, out, array, bad>>

-----------------------------------------------------------------------------
(* Arrays. *)

(* gpiod_get_array looks at member i: one on another chip leaves both      *)
(* masks, so does one out of order; the first out of order after an        *)
(* unbroken run gives up the fast path -- the local pointer: descs->info   *)
(* and its masks, full from the first member on, stay (left).              *)
Mark(info, a, i) ==
  IF ~info.on THEN info
  ELSE IF a[i][1] # a[0][1] THEN [info EXCEPT !.get = @ \ {i}, !.set = @ \ {i}]
  ELSE IF a[i][2] # i
  THEN IF 0..(i - 1) \subseteq info.get THEN [info EXCEPT !.on = FALSE]
       ELSE [info EXCEPT !.get = @ \ {i}, !.set = @ \ {i}]
  ELSE [info EXCEPT
          !.set = IF {"OPEN_DRAIN", "OPEN_SOURCE"} \cap desc[a[i]] # {} THEN @ \ {i} ELSE @,
          !.inv = IF "ACTIVE_LOW" \in desc[a[i]] THEN @ \cup {i} ELSE @]
Marked(a) ==
  LET m[i \in DOMAIN a \cup {-1}] ==
        IF i = -1 THEN [on |-> a[0][2] = 0, get |-> DOMAIN a, set |-> DOMAIN a, inv |-> {}]
        ELSE Mark(m[i - 1], a, i)
  IN m[Cardinality(DOMAIN a) - 1]

(* The lines of an array are requested before; descs->info was set when    *)
(* the first member was seen.                                              *)
gpiod_get_array(a) ==
  /\ array = NoArray /\ \A i \in DOMAIN a : {"REQUESTED", "IS_OUT"} \subseteq desc[a[i]]
  /\ LET m == Marked(a)
     IN array' = [ds |-> a, info |-> a[0][2] = 0, left |-> a[0][2] = 0 /\ ~m.on,
                  get |-> m.get, set |-> m.set, inv |-> m.inv]
  /\ UNCHANGED <<desc, pad, out, bad>>
gpiod_put_array ==
  /\ array # NoArray /\ array' = NoArray /\ UNCHANGED <<desc, pad, out, bad>>

(* The lines after gpiod_set_array_value of the indices in vs: the members *)
(* of the set mask by their index as hardware number, with the values      *)
(* inverted, the others one by one; those already inverted are not         *)
(* inverted again.                                                         *)
gpiod_set_array_value_complex(vs) ==
  LET a == array.ds
      info == array.info
      inv == IF info THEN (vs \ array.inv) \cup (array.inv \ vs) ELSE vs
      Bit(b) == IF b THEN 1 ELSE 0
      Fast(l) == info /\ \E i \in array.set : l = <<a[0][1], i>>
      Slow(l) == \E i \in DOMAIN a : a[i] = l /\ ~(info /\ i \in array.set)
      Idx(l) == CHOOSE i \in DOMAIN a : a[i] = l
      Val(i) == IF info /\ i \in array.inv THEN Bit(i \in inv) ELSE Physical(desc[a[i]], Bit(i \in inv))
      After(l) ==
        LET fast == IF Fast(l) THEN gpiod_set_raw_value_commit(Line(l), Bit(l[2] \in inv)) ELSE Line(l)
        IN IF Slow(l) THEN SetPhysical(fast, Val(Idx(l))) ELSE fast
  IN [l \in AllLines |-> After(l)]

Member(l) == \E i \in DOMAIN array.ds : array.ds[i] = l
(* What setting the members one by one does. *)
OneByOne(vs) ==
  [l \in AllLines |->
     IF Member(l)
     THEN gpiod_set_value_nocheck(Line(l),
            IF \E i \in vs : array.ds[i] = l THEN 1 ELSE 0)
     ELSE Line(l)]
(* The members are outputs: linehandle_ioctl looks at the first one, its   *)
(* lines share their flags.  With the masks of a fast path that was given  *)
(* up other lines are set than those asked for: what follows from there is *)
(* not counted as an error.                                                *)
SetArray(vs) ==
  /\ array # NoArray /\ vs \subseteq DOMAIN array.ds
  /\ \A i \in DOMAIN array.ds : "IS_OUT" \in desc[array.ds[i]]
  /\ LET r == gpiod_set_array_value_complex(vs)
     IN /\ desc' = [l \in AllLines |-> r[l].f] /\ pad' = [l \in AllLines |-> r[l].p]
        /\ bad' = (bad \/ (~array.left /\ r # OneByOne(vs)))
        /\ out' = [l \in AllLines |->
             IF array.left /\ (Member(l) \/ r[l] # Line(l)) THEN [out[l] EXCEPT !.dir = "none"]
             ELSE IF Member(l) THEN [out[l] EXCEPT !.val = IF \E i \in vs : array.ds[i] = l THEN 1 ELSE 0]
             ELSE out[l]]
  /\ UNCHANGED array

(* The indices gpiod_get_array_value finds set: the get mask by hardware   *)
(* number, xor the invert mask, the others with their own flag.            *)
gpiod_get_array_value_complex ==
  LET a == array.ds
      fast == {i \in DOMAIN a : array.info /\ i \in array.get}
      Read(i) == IF <<a[0][1], i>> \in AllLines THEN Level(pad[<<a[0][1], i>>]) ELSE 0
  IN {i \in fast : (Read(i) = 1) # (i \in array.inv)}
     \cup {i \in DOMAIN a \ fast : gpiod_get_value(desc[a[i]], pad[a[i]]) = 1}
GetArray ==
  /\ array # NoArray
  /\ LET each == {i \in DOMAIN array.ds : gpiod_get_value(desc[array.ds[i]], pad[array.ds[i]]) = 1}
     IN bad' = (bad \/ (~array.left /\ gpiod_get_array_value_complex # each))
  /\ UNCHANGED <<desc, pad, out, array>>

(* An input, an output with its value. *)
Directions == {<<"in", 0>>, <<"out", 0>>, <<"out", 1>>}

LineNext ==
  \/ \E l \in AllLines :
       \/ \E u \in Uses[l], d \in Directions : gpiod_get(l, u, d[1], d[2])
       \/ \E d \in Directions : Direct(l, d[1], d[2]) \/ direction_store(l, d[1], d[2])
       \/ \E v \in 0..1 : value_store(l, v)
       \/ gpiod_put(l) \/ gpiod_get_direction(l)
       \/ gpiochip_lock_as_irq(l) \/ gpiochip_unlock_as_irq(l)
       \/ gpiochip_disable_irq(l) \/ gpiochip_enable_irq(l)
  \/ \E a \in Arrays : gpiod_get_array(a)
  \/ gpiod_put_array \/ GetArray
  \/ \E vs \in SUBSET (0..3) : SetArray(vs)

-----------------------------------------------------------------------------
(* A line does what its user asked last, whoever had it before and through *)
(* whichever call: an output has the level of its value, by driving it or, *)
(* for the level an open drain or open source line must not drive in       *)
(* software, by letting go; it stays settable; an input is not driven.     *)
Obeys(l) ==
  LET f == desc[l]
      p == pad[l]
      w == Physical(f, out[l].val)
      free == \/ "OPEN_DRAIN" \in f /\ w = 1
              \/ "OPEN_DRAIN" \notin f /\ "OPEN_SOURCE" \in f /\ w = 0
  IN CASE out[l].dir = "out" -> /\ "IS_OUT" \in f
                                /\ p.dir = "out" => p.val = w
                                /\ p.dir = "in" => free
                                /\ free => p.dir = "in" \/ p.hw
       [] out[l].dir = "in" -> "IS_OUT" \notin f /\ p.dir = "in"
       [] OTHER -> TRUE

(* The comment of gpiod_direction_output: "GPIOs used for enabled IRQs     *)
(* shall not be set as output", but for open drain.  direction_store sets  *)
(* them all the same: it calls the raw function, which does not look.      *)
IrqInput ==
  \A l \in AllLines : {"USED_AS_IRQ", "IRQ_IS_ENABLED", "IS_OUT"} \subseteq desc[l] =>
                        ("OPEN_DRAIN" \in desc[l] \/ out[l].raw)

(* An input has the pull its user asked for, or none, unless an earlier    *)
(* user left the flag of a pull behind (gpiod_free_commit): then both      *)
(* pulls may be set, which gpiod_configure_flags refuses in one user's     *)
(* flags, and the pull up wins.                                            *)
PullAsked ==
  \A l \in AllLines :
    out[l].dir = "in" =>
      \/ pad[l].bias = out[l].pull
      \/ \E f \in {"PULL_UP", "PULL_DOWN"} \cap desc[l] : Pull({f}) # out[l].pull

(* Getting and setting an array is getting and setting its lines; the fast *)
(* path may not be noticed (gpiod_get_array, gpiod_set_array_value).  An   *)
(* array whose fast path was given up in the middle is excepted.           *)
ArrayExact == ~bad

=============================================================================

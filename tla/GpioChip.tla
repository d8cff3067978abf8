------------------------------ MODULE GpioChip ------------------------------
(***************************************************************************)
(* Registration of GPIO chips and the consumers of their lines             *)
(* (drivers/gpio/gpiolib.c, gpiolib-of.c).  gpiochip_add_data_with_key     *)
(* enters the chip into the global list under gpio_lock and goes on with   *)
(* sleeping steps while others may already find the chip: other chips,     *)
(* gpiod_add_hogs of a board file and consumers that fetch an array of     *)
(* lines.  Every step may fail and unwinds through its own label.          *)
(*                                                                         *)
(* A line is claimed at the pin controller through chip->request           *)
(* (gpiochip_generic_request).  Memory allocation that fails before the    *)
(* list is touched changes nothing and is left out.  A chip is registered  *)
(* again only after its former gpio_device was released.                   *)
(***************************************************************************)
EXTENDS Integers, Sequences, FiniteSets

CONSTANTS
  Chips,        \* the GPIO chips
  Ngpio,        \* lines of a chip
  Base,         \* chip->base: the number of its first line, -1 for any
  NrGpios,      \* ARCH_NR_GPIOS
  DtHogs,       \* gpio-hog lines of a chip's node, in order
  MachineHogs,  \* the <<chip, line>> of the board's hog table
  Reserved,     \* gpio-reserved-ranges: <<start, count>> pairs of a chip
  Muxed,        \* the <<chip, line>> whose pin a device has
  IrqChip,      \* the irq_chip of a gpio chip
  Consumers,    \* devices that get an array of lines
  Wants,        \* their lines, in order
  Board,        \* the consumers a lookup table of the board describes; the
                \* device tree describes the others
  LateIrq,      \* chips whose driver adds the irq_chip after registration
  NonExclusive, \* consumers with GPIOD_FLAGS_BIT_NONEXCLUSIVE
  None

Lines(c) == 0..(Ngpio[c] - 1)
IrqChips == {IrqChip[c] : c \in Chips}

VARIABLES
  list,     \* gpio_devices, sorted by base
  gdev,     \* the gpio_device of a chip
  inited,   \* gpiolib_initialized
  table,    \* the tables of the board that were added
  pctl,     \* the pin controller is registered
  pins,     \* lines claimed at the pin controller
  hook,     \* irqchip->irq_enable: the driver's, gpiochip_irq_enable or NULL
  got,      \* how many lines a consumer has, None when it has no array
  oops      \* a gpio_device was used before it was filled in or after it
            \* was freed (history)

chipVars == <<list, gdev, inited, table, pctl, pins, hook, got, oops>>

Fresh ==
  [st |-> "none", base |-> 0, mask |-> {}, req |-> {}, hogged |-> {}, k |-> 1,
   ranges |-> FALSE, node |-> 0, saved |-> "null", domain |-> FALSE,
   mapped |-> {}, cdev |-> FALSE, file |-> FALSE, refs |-> 0]

ChipInit ==
  /\ list = << >> /\ gdev = [c \in Chips |-> Fresh]
  /\ inited = FALSE /\ table = {} /\ pctl = FALSE /\ pins = {}
  /\ hook = [i \in IrqChips |-> "driver"]
  /\ got = [d \in Consumers |-> None] /\ oops = FALSE

(* The states of a gpio_device; numb is one whose chip was removed. *)
Building == {"listed", "of", "scan", "machine", "irq", "dev"}
ChipTypeOK ==
  /\ \A i \in DOMAIN list : list[i] \in Chips
  /\ \A c \in Chips :
       /\ gdev[c].st \in Building \cup {"none", "up", "numb"}
       /\ gdev[c].req \cup gdev[c].hogged \cup gdev[c].mask \cup gdev[c].mapped \subseteq Lines(c)
       /\ gdev[c].refs \in 0..4 /\ gdev[c].node \in 0..1
  /\ pins \subseteq {<<c, l>> : c \in Chips, l \in UNION {Lines(x) : x \in Chips}}
  /\ \A i \in IrqChips : hook[i] \in {"driver", "gpiolib", "null"}
  /\ \A d \in Consumers : got[d] \in {None} \cup 0..Len(Wants[d])
  /\ {inited, pctl, oops} \subseteq BOOLEAN /\ table \subseteq {"hogs", "lookup"}

-----------------------------------------------------------------------------
(* The number space. *)

End(c) == gdev[c].base + Ngpio[c]

(* From the top of the number space downwards, past every chip in the way. *)
gpiochip_find_base(n) ==
  LET tops == {NrGpios} \cup {gdev[list[i]].base : i \in DOMAIN list}
      Free(t) == \A i \in DOMAIN list : t <= gdev[list[i]].base \/ End(list[i]) <= t - n
      free == {t \in tops : Free(t)}
  IN IF free = {} THEN -1 ELSE (CHOOSE t \in free : \A u \in free : u <= t) - n

(* The place of numbers b..b+n-1 between its neighbours, 0 when they       *)
(* overlap a chip.                                                         *)
gpiodev_add_to_list(b, n) ==
  LET fits == {i \in 1..(Len(list) + 1) :
                 /\ i > 1 => End(list[i - 1]) <= b
                 /\ i <= Len(list) => b + n <= gdev[list[i]].base}
  IN IF fits = {} THEN 0 ELSE CHOOSE i \in fits : TRUE

InsertAt(i, c) == SubSeq(list, 1, i - 1) \o <<c>> \o SubSeq(list, i, Len(list))
ListDel(c) == SelectSeq(list, LAMBDA x : x # c)

(* gpiochip_add_data_with_key up to the end of its critical section. *)
gpiochip_add(c) ==
  LET b == IF Base[c] < 0 THEN gpiochip_find_base(Ngpio[c]) ELSE Base[c]
      i == gpiodev_add_to_list(b, Ngpio[c])
  IN /\ gdev[c].st = "none" /\ b >= 0 /\ i > 0
     /\ list' = InsertAt(i, c)
     /\ gdev' = [gdev EXCEPT ![c] = [Fresh EXCEPT !.st = "listed", !.base = b]]
     /\ UNCHANGED <<inited, table, pctl, pins, hook, got, oops>>

-----------------------------------------------------------------------------
(* Lines. *)

(* gpiochip_find: a chip that is in the list and was not removed. *)
gpiochip_find(c) == c \in {list[i] : i \in DOMAIN list} /\ gdev[c].st # "numb"

(* gpiodev_request_commit: FLAG_REQUESTED clear, the line valid, and the   *)
(* pin controller grants the pin of a line it has a range for.             *)
Grants(c, l) ==
  /\ l \in gdev[c].mask /\ gdev[c].ranges /\ <<c, l>> \notin Muxed \cup pins
gpiod_request_commit(c, l) == l \notin gdev[c].req /\ Grants(c, l)

(* gpiod_hog: requested without a reference, and marked. *)
Hogged(g, ls) == [g EXCEPT !.req = @ \cup ls, !.hogged = @ \cup ls]

At(c, ls) == {<<c, l>> : l \in ls}

-----------------------------------------------------------------------------
(* The steps of a registration. *)

(* gpiochip_set_irq_hooks and their removal: an irq_chip already hooked is *)
(* left as it is, and nothing is saved.                                    *)
SetHooks(c) == [hook EXCEPT ![IrqChip[c]] = "gpiolib"]
Saved(c) == IF hook[IrqChip[c]] = "gpiolib" THEN "null" ELSE hook[IrqChip[c]]
ResetHooks(c) ==
  [hook EXCEPT ![IrqChip[c]] =
     IF @ = "gpiolib" /\ gdev[c].domain THEN gdev[c].saved ELSE @]

(* Every hogged line goes back to the pin controller. *)
gpiochip_free_hogs(c) == pins \ At(c, gdev[c].hogged)

(* The labels of gpiochip_add_data_with_key: the hogs are freed from       *)
(* err_remove_of_chip on, the pin ranges from err_free_gpiochip_mask on,   *)
(* and the gpio_device is freed whoever uses its lines.                    *)
Unwind(c, hogs) ==
  /\ list' = ListDel(c) /\ gdev' = [gdev EXCEPT ![c] = Fresh]
  /\ pins' = IF hogs THEN gpiochip_free_hogs(c) ELSE pins
  /\ hook' = ResetHooks(c)
  /\ oops' = (oops \/ gdev[c].req \ gdev[c].hogged # {} \/ gdev[c].refs > 0)
  /\ UNCHANGED <<inited, table, pctl, got>>

(* A reserved range is left out of the mask; one that reaches the end of   *)
(* the chip is skipped like one beyond it.                                 *)
of_gpiochip_init_valid_mask(c) ==
  Lines(c) \ UNION {r[1]..(r[1] + r[2] - 1) :
                      r \in {x \in Reserved[c] : x[1] < Ngpio[c] /\ x[1] + x[2] < Ngpio[c]}}

(* descs[i].gdev, the names and the mask; the mask may not be had. *)
SetDescs(c) ==
  /\ gdev[c].st = "listed"
  /\ \/ /\ gdev' = [gdev EXCEPT ![c].st = "of", ![c].mask = Lines(c)]
        /\ UNCHANGED <<list, inited, table, pctl, pins, hook, got, oops>>
     \/ Reserved[c] # {} /\ Unwind(c, FALSE)

(* gpiochip_add_pin_range, gpiochip_add_pingroup_range and their removal. *)
AddRanges(g) == [g EXCEPT !.ranges = TRUE]

(* The ranges of the node are added to the pin controller, or the probe is *)
(* deferred when there is none; then the node is held.                     *)
of_gpiochip_add_pin_range(c) ==
  /\ gdev[c].st = "of"
  /\ \/ /\ pctl
        /\ gdev' = [gdev EXCEPT ![c] = [AddRanges(@) EXCEPT !.st = "scan", !.node = 1,
                                           !.mask = of_gpiochip_init_valid_mask(c)]]
        /\ UNCHANGED <<list, inited, table, pctl, pins, hook, got, oops>>
     \/ ~pctl /\ Unwind(c, FALSE)

(* The hogs of the node, one after the other.  A hog whose line cannot be  *)
(* read ends the list of its node and is no error; one that cannot be      *)
(* requested is.  Then gpiochip_init_valid_mask, a call of the driver.     *)
of_gpiochip_scan_gpios(c) ==
  LET g == gdev[c]
      l == DtHogs[c][g.k]
  IN /\ g.st = "scan"
     /\ \/ /\ g.k <= Len(DtHogs[c]) /\ l \in Lines(c) /\ gpiod_request_commit(c, l)
           /\ gdev' = [gdev EXCEPT ![c] = [Hogged(g, {l}) EXCEPT !.k = @ + 1]]
           /\ pins' = pins \cup {<<c, l>>}
           /\ UNCHANGED <<list, inited, table, pctl, hook, got, oops>>
        \/ /\ g.k <= Len(DtHogs[c]) /\ l \in Lines(c) /\ ~gpiod_request_commit(c, l)
           /\ Unwind(c, FALSE)
        \/ /\ g.k <= Len(DtHogs[c]) => l \notin Lines(c)
           /\ \/ /\ gdev' = [gdev EXCEPT ![c].st = "machine"]
                 /\ UNCHANGED <<list, inited, table, pctl, pins, hook, got, oops>>
              \/ Unwind(c, TRUE)

(* The lines of the hog table on a chip that can be hogged now. *)
CanHog(c) == {l \in Lines(c) : <<c, l>> \in MachineHogs /\ gpiod_request_commit(c, l)}

(* The hogs of the table under gpio_machine_hogs_mutex; one that fails is  *)
(* reported and left.                                                      *)
machine_gpiochip_add(c) ==
  /\ gdev[c].st = "machine"
  /\ LET ls == IF "hogs" \in table THEN CanHog(c) ELSE {}
     IN /\ gdev' = [gdev EXCEPT ![c] = [Hogged(@, ls) EXCEPT !.st = "irq"]]
        /\ pins' = pins \cup At(c, ls)
  /\ UNCHANGED <<list, inited, table, pctl, hook, got, oops>>

(* The irq domain of a chip and the hooks in its irq_chip. *)
WithIrqchip(c, st) ==
  /\ gdev' = [gdev EXCEPT ![c].st = st, ![c].domain = TRUE, ![c].saved = Saved(c)]
  /\ hook' = SetHooks(c)

(* gpiochip_irqchip_init_hw, its mask and gpiochip_add_irqchip: the domain *)
(* and the hooks, or an error before either.                               *)
gpiochip_add_irqchip(c) ==
  /\ gdev[c].st = "irq"
  /\ \/ /\ c \notin LateIrq /\ WithIrqchip(c, "dev")
        /\ UNCHANGED <<list, inited, table, pctl, pins, got, oops>>
     \/ /\ c \in LateIrq /\ gdev' = [gdev EXCEPT ![c].st = "dev"]
        /\ UNCHANGED <<list, inited, table, pctl, pins, hook, got, oops>>
     \/ Unwind(c, TRUE)

(* The same for a chip that is registered; an error leaves it without. *)
gpiochip_irqchip_add_key(c) ==
  /\ c \in LateIrq /\ gdev[c].st = "up" /\ ~gdev[c].domain /\ WithIrqchip(c, "up")
  /\ UNCHANGED <<list, inited, table, pctl, pins, got, oops>>

(* The character device, when the library is up; else gpiolib_dev_init     *)
(* makes it.                                                               *)
gpiochip_setup_dev(c) ==
  /\ gdev[c].st = "dev"
  /\ \/ /\ gdev' = [gdev EXCEPT ![c].st = "up", ![c].cdev = inited]
        /\ UNCHANGED <<list, inited, table, pctl, pins, hook, got, oops>>
     \/ inited /\ Unwind(c, TRUE)

(* A device of the list that cannot be set up is reported; the initcall    *)
(* runs while no chip is being registered.                                 *)
gpiolib_dev_init ==
  /\ ~inited /\ \A c \in Chips : gdev[c].st \notin Building
  /\ inited' = TRUE
  /\ \E ok \in SUBSET {c \in Chips : gdev[c].st = "up"} :
       gdev' = [c \in Chips |-> IF c \in ok THEN [gdev[c] EXCEPT !.cdev = TRUE] ELSE gdev[c]]
  /\ UNCHANGED <<list, table, pctl, pins, hook, got, oops>>

(* The board's table: its hogs are remembered and tried on the chips that  *)
(* are in the list.  gpiod_hog on a descriptor without a gdev dereferences *)
(* NULL.                                                                   *)
gpiod_add_hogs ==
  /\ "hogs" \notin table /\ table' = table \cup {"hogs"}
  /\ LET found == {c \in Chips : gpiochip_find(c) /\ \E l \in Lines(c) : <<c, l>> \in MachineHogs}
         ls(c) == IF c \in found /\ gdev[c].st # "listed" THEN CanHog(c) ELSE {}
     IN /\ oops' = (oops \/ \E c \in found : gdev[c].st = "listed")
        /\ gdev' = [c \in Chips |-> Hogged(gdev[c], ls(c))]
        /\ pins' = pins \cup UNION {At(c, ls(c)) : c \in Chips}
  /\ UNCHANGED <<list, inited, pctl, hook, got>>

pinctrl_register == ~pctl /\ pctl' = TRUE
  /\ UNCHANGED <<list, gdev, inited, table, pins, hook, got, oops>>

-----------------------------------------------------------------------------
(* Removal.  gpiochip_remove numbs the device; the last reference releases *)
(* it, and only then does it leave the list.                               *)

gpiochip_remove(c) ==
  /\ gdev[c].st = "up"
  /\ pins' = gpiochip_free_hogs(c) /\ hook' = ResetHooks(c)
  /\ gdev' = [gdev EXCEPT
       ![c].st = "numb", ![c].req = @ \ gdev[c].hogged, ![c].hogged = {}, ![c].domain = FALSE,
       ![c].mapped = {}, ![c].node = 0, ![c].ranges = FALSE, ![c].mask = {}]
  /\ UNCHANGED <<list, inited, table, pctl, got, oops>>

(* dev.release is only set by a gpiochip_setup_dev that succeeded. *)
gpiodevice_release(c) ==
  /\ gdev[c].st = "numb" /\ gdev[c].cdev /\ gdev[c].refs = 0 /\ ~gdev[c].file
  /\ list' = ListDel(c) /\ gdev' = [gdev EXCEPT ![c] = Fresh]
  /\ UNCHANGED <<inited, table, pctl, pins, hook, got, oops>>

(* gpio_chrdev_open and gpio_chrdev_release. *)
Chrdev(c) ==
  /\ \/ gdev[c].st = "up" /\ gdev[c].cdev /\ ~gdev[c].file
     \/ gdev[c].file
  /\ gdev' = [gdev EXCEPT ![c].file = ~@]
  /\ UNCHANGED <<list, inited, table, pctl, pins, hook, got, oops>>

(* A mapping of the domain exists for valid lines only. *)
gpiochip_irq_map(g, l) == IF l \in g.mask THEN [g EXCEPT !.mapped = @ \cup {l}] ELSE g
(* gpiochip_irq_valid is asked here too: -ENXIO. *)
gpiochip_to_irq(c, l) ==
  /\ gdev[c].domain /\ l \in gdev[c].mask \ gdev[c].mapped
  /\ gdev' = [gdev EXCEPT ![c] = gpiochip_irq_map(@, l)]
  /\ UNCHANGED <<list, inited, table, pctl, pins, hook, got, oops>>

-----------------------------------------------------------------------------
(* Consumers. *)

(* The lines a consumer has so far. *)
Has(d) == IF got[d] = None THEN {} ELSE {Wants[d][i] : i \in 1..got[d]}

(* gpiod_put of lines: nothing happens to one whose chip is gone, and its  *)
(* reference stays.                                                        *)
Put(ls) ==
  LET live(c) == {x[2] : x \in {y \in ls : y[1] = c /\ gdev[c].st # "numb"
                                           /\ y[2] \in gdev[c].req}}
  IN /\ gdev' = [c \in Chips |->
           [gdev[c] EXCEPT !.req = @ \ live(c), !.hogged = @ \ live(c),
                           !.refs = @ - Cardinality(live(c))]]
     /\ pins' = pins \ UNION {At(c, live(c)) : c \in Chips}

gpiod_put_array(d) == Put(Has(d))

(* A chip whose node a consumer's property names, once it can translate    *)
(* the property's cells.                                                   *)
of_find_gpiochip_by_xlate(c) == gpiochip_find(c) /\ gdev[c].st \notin {"listed", "of"}

(* The properties of the consumer's node, with every suffix and old name.  *)
of_find_gpio(d, c) ==
  IF d \in Board THEN "ENOENT" ELSE IF of_find_gpiochip_by_xlate(c) THEN "ok" ELSE "EPROBE_DEFER"

(* The lookup tables, when the device tree does not know the consumer. *)
gpiod_find(c) ==
  IF "lookup" \notin table THEN "ENOENT" ELSE IF gpiochip_find(c) THEN "ok" ELSE "EPROBE_DEFER"
Lookup(d, c) == IF of_find_gpio(d, c) = "ENOENT" THEN gpiod_find(c) ELSE of_find_gpio(d, c)

(* gpiod_add_lookup_table and gpiod_remove_lookup_table. *)
gpiod_lookup_table ==
  /\ Board # {}
  /\ table' = IF "lookup" \in table THEN table \ {"lookup"} ELSE table \cup {"lookup"}
  /\ UNCHANGED <<list, gdev, inited, pctl, pins, hook, got, oops>>

(* gpiod_get_array: the next line is looked up, requested and configured;  *)
(* any error puts the lines back, the new one included.  A line in use is  *)
(* no error for a nonexclusive consumer, who gets it without a request.    *)
gpiod_get_array(d) ==
  /\ got[d] = None /\ got' = [got EXCEPT ![d] = 0]
  /\ UNCHANGED <<list, gdev, inited, table, pctl, pins, hook, oops>>
gpiod_get_index(d) ==
  /\ got[d] # None /\ got[d] < Len(Wants[d])
  /\ LET x == Wants[d][got[d] + 1]
         c == x[1]
         found == Lookup(d, c) = "ok" /\ gdev[c].st # "listed"
     IN \/ /\ found /\ gpiod_request_commit(c, x[2])
           /\ gdev' = [gdev EXCEPT ![c].req = @ \cup {x[2]}, ![c].refs = @ + 1]
           /\ pins' = pins \cup {x} /\ got' = [got EXCEPT ![d] = @ + 1]
        \/ /\ found /\ d \in NonExclusive /\ x[2] \in gdev[c].req
           /\ got' = [got EXCEPT ![d] = @ + 1] /\ UNCHANGED <<gdev, pins>>
        \/ gpiod_put_array(d) /\ got' = [got EXCEPT ![d] = None]
  /\ UNCHANGED <<list, inited, table, pctl, hook, oops>>
gpiod_put(d) ==
  /\ got[d] = Len(Wants[d]) /\ Put(Has(d)) /\ got' = [got EXCEPT ![d] = None]
  /\ UNCHANGED <<list, inited, table, pctl, hook, oops>>

ChipNext ==
  /\ ~oops
  /\ \/ \E c \in Chips :
          \/ gpiochip_add(c) \/ SetDescs(c) \/ of_gpiochip_add_pin_range(c)
          \/ of_gpiochip_scan_gpios(c) \/ machine_gpiochip_add(c) \/ gpiochip_add_irqchip(c)
          \/ gpiochip_irqchip_add_key(c)
          \/ gpiochip_setup_dev(c) \/ gpiochip_remove(c) \/ gpiodevice_release(c) \/ Chrdev(c)
          \/ \E l \in Lines(c) : gpiochip_to_irq(c, l)
     \/ gpiolib_dev_init \/ gpiod_add_hogs \/ pinctrl_register \/ gpiod_lookup_table
     \/ \E d \in Consumers : gpiod_get_array(d) \/ gpiod_get_index(d) \/ gpiod_put(d)

-----------------------------------------------------------------------------
(* The registry stays whole: numbers of the chips in the list are in order *)
(* and disjoint; a pin is claimed exactly while a line of a listed chip is *)
(* requested; a chip that is up has the machine hogs of its lines, however *)
(* its registration and gpiod_add_hogs fell, but for lines consumers want; *)
(* a reserved line is never requested, but for a range that reaches the    *)
(* end of the chip; an irq_chip has the hooks of gpiolib as long as a gpio *)
(* chip uses it, until another one that shares it, which the code only     *)
(* warns of, is removed; a consumer has all of its lines requested, and    *)
(* nobody else is counted.  Nothing is claimed once memory was misused.    *)
InOrder ==
  /\ \A i \in 1..(Len(list) - 1) : End(list[i]) <= gdev[list[i + 1]].base
  /\ \A i \in DOMAIN list : gdev[list[i]].base >= 0 /\ End(list[i]) <= NrGpios
  /\ \A c \in Chips : (\E i \in DOMAIN list : list[i] = c) <=> gdev[c].st # "none"
PinsExact ==
  \A c \in Chips : LET of == {l \in Lines(c) : <<c, l>> \in pins}
                   IN of = gdev[c].req \/ (gdev[c].st = "numb" /\ of \subseteq gdev[c].req)
HogsApplied ==
  \A c \in Chips : gdev[c].st \in {"irq", "dev", "up"} /\ "hogs" \in table =>
    \A l \in Lines(c) \ gdev[c].hogged :
      <<c, l>> \in MachineHogs => \/ \E d \in Consumers : \E i \in DOMAIN Wants[d] : Wants[d][i] = <<c, l>>
                                  \/ <<c, l>> \in Muxed \/ l \notin gdev[c].mask
ReservedSpared ==
  \A c \in Chips : \A r \in Reserved[c] :
    r[1] + r[2] < Ngpio[c] => gdev[c].req \cap (r[1]..(r[1] + r[2] - 1)) = {}
HooksKept ==
  \A c \in Chips : gdev[c].domain =>
    \/ hook[IrqChip[c]] = "gpiolib"
    \/ \E d \in Chips \ {c} : IrqChip[d] = IrqChip[c] /\ ~gdev[d].domain
ArraysOwned ==
  \A d \in Consumers : \A x \in Has(d) : x[2] \in gdev[x[1]].req /\ x[2] \notin gdev[x[1]].hogged
RefsCounted ==
  \A c \in Chips :
    LET held == {x \in UNION {Has(d) : d \in Consumers} : x[1] = c}
    IN gdev[c].refs = Cardinality(held) \/ (gdev[c].st = "numb" /\ gdev[c].refs > Cardinality(held))
RegistrySound ==
  oops \/ (InOrder /\ PinsExact /\ HogsApplied /\ ReservedSpared /\ HooksKept /\ ArraysOwned /\ RefsCounted)

(* No pin of a chip that is not registered stays claimed (gpiod_hog:       *)
(* "Mark GPIO as hogged so it can be identified and removed later").       *)
HogsReturned == oops \/ \A c \in Chips : gdev[c].st = "none" => \A x \in pins : x[1] # c
=============================================================================

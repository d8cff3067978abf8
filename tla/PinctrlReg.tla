---------------------------- MODULE PinctrlReg -----------------------------
(***************************************************************************)
(* The registries of the pin control core (drivers/pinctrl/core.c): map    *)
(* tables, pin controllers with their functions and groups (pinmux.c), the *)
(* reference counted handles that devices get, and the GPIO ranges.        *)
(* Looking a handle up and taking the reference are two steps, so are      *)
(* dropping the last reference and freeing the handle; the device tree     *)
(* side registers the maps of a handle and takes them back with it.  What  *)
(* selecting a state does to the pins is in Pinctrl.                       *)
(***************************************************************************)
EXTENDS Integers, Sequences, FiniteSets, SequencesExt, Functions

CONSTANTS
  Ctls,        \* pin controllers, devices themselves
  Users,       \* callers of pinctrl_get
  DevOf,       \* the device a caller asks for
  Tables,      \* board tables: Tables[t] is a sequence of maps
  DtMaps,      \* the maps in a device's own node
  NoPins,      \* devices that have a node without pin properties
  Names,       \* Names[c]: the functions and groups a controller's driver adds
  GroupsOf,    \* the groups of a function
  PinNrs,      \* the pin numbers a controller describes, a sequence
  InitFirst,   \* controllers that use pinctrl_register_and_init and pinctrl_enable
  Ranges,      \* GPIO ranges: [ctl, base, n, pin]
  ChipLines,   \* the lines of the GPIO chip
  Dummies,     \* pinctrl_dummy_state
  Asked,       \* the states that drivers look up by name
  Faults,      \* what callers may do: "race", "remove", "range"
  MaxHandles, MaxRegs, MaxRefs, None

Hs == 1..MaxHandles
Kinds == {"func", "group"}
Devices == {DevOf[u] : u \in Users} \cup Ctls
StateNames == {"init", "default", "sleep", "idle"}
Lines == ChipLines

VARIABLES
  maps,     \* pinctrl_maps: [of |-> the handle they came with, 0 for a board, table, maps]
  locked,   \* pinctrl_maps_mutex is held by a caller that never lets go
  ctl,      \* controllers: state, hog handle, functions and groups, registrations so far
  list,     \* pinctrldev_list
  devres,   \* controllers whose device will call pinctrl_unregister
  handle,   \* struct pinctrl
  call,     \* what a caller is doing
  held,     \* held[u]: the handles u holds, with the number of references
  ranges,   \* gpio_ranges of each controller
  owner,    \* owner[c][p]: the line a pin is requested for
  line,     \* how a line was granted: "free", "bare" or "pin"
  oops      \* uses of freed memory

regVars == <<maps, locked, ctl, list, devres, handle, call, held, ranges, owner, line, oops>>

NoHandle == [at |-> "free", dev |-> None, refs |-> 0, states |-> <<>>, cur |-> None]
NoCtl(n) == [at |-> "none", p |-> 0, names |-> [k \in Kinds |-> <<>>], num |-> [k \in Kinds |-> 0], regs |-> n]
Idle == [at |-> "idle", h |-> 0]

RegInit ==
  /\ maps = <<>> /\ locked = FALSE /\ list = <<>> /\ devres = {}
  /\ ctl = [c \in Ctls |-> NoCtl(0)]
  /\ handle = [h \in Hs |-> NoHandle]
  /\ call = [u \in Users |-> Idle] /\ held = [u \in Users |-> [h \in Hs |-> 0]]
  /\ ranges = [c \in Ctls |-> <<>>]
  /\ owner = [c \in Ctls |-> [p \in ToSet(PinNrs[c]) |-> None]]
  /\ line = [g \in Lines |-> "free"] /\ oops = {}

(* Handles are counted, controllers in the list are registered. *)
RegTypeOK ==
  /\ locked \in BOOLEAN /\ devres \subseteq Ctls /\ oops \subseteq {"handle", "controller"}
  /\ \A c \in Ctls : /\ ctl[c].at \in {"none", "init", "on"} /\ ctl[c].p \in {0} \cup Hs
                     /\ ctl[c].regs \in 0..MaxRegs
                     /\ c \in ToSet(list) <=> ctl[c].at = "on"
  /\ \A h \in Hs : handle[h].at \in {"free", "made", "live", "dying"} /\ handle[h].refs \in Nat
  /\ \A u \in Users : call[u].at \in {"idle", "found", "mapped", "drop", "stuck"} /\ call[u].h \in {0} \cup Hs
  /\ line \in [Lines -> {"free", "bare", "pin"}]

-----------------------------------------------------------------------------
(* The trees of functions and groups: a name is looked up below the count, *)
(* which a removal lowers, and inserted at the count.                      *)
Lookup(tree, num, name) ==
  LET hits == {s \in DOMAIN tree : s < num /\ tree[s] = name}
  IN  IF hits = {} THEN -1 ELSE CHOOSE s \in hits : \A t \in hits : s <= t

AddName(k, c, kind) ==
  LET tree == ctl[c].names[kind]
      n == ctl[c].num[kind]
  IN  /\ Lookup(tree, n, k) = -1
      /\ ctl' = [ctl EXCEPT ![c].names[kind] = IF n \in DOMAIN tree THEN tree
                                               ELSE [s \in DOMAIN tree \cup {n} |-> IF s = n THEN k ELSE tree[s]],
                            ![c].num[kind] = n + 1]

generic_add(c, kind) ==
  /\ c \in InitFirst /\ ctl[c].at = "init"
  /\ \E i \in DOMAIN Names[c][kind] :
       /\ AddName(Names[c][kind][i], c, kind)
  /\ UNCHANGED <<maps, locked, list, devres, handle, call, held, ranges, owner, line, oops>>

(* A driver that fails half way removes what it added. *)
generic_remove(c, kind) ==
  LET tree == ctl[c].names[kind] IN
  /\ c \in InitFirst /\ ctl[c].at = "init"
  /\ \E s \in DOMAIN tree :
       /\ ctl' = [ctl EXCEPT ![c].names[kind] = Restrict(tree, DOMAIN tree \ {s}),
                             ![c].num[kind] = @ - 1]
  /\ UNCHANGED <<maps, locked, list, devres, handle, call, held, ranges, owner, line, oops>>

-----------------------------------------------------------------------------
(* Map tables: one bad entry refuses the whole table; a copy is kept, so   *)
(* nothing matches the pointer of a board table again.                     *)
Sane(m) == m.dev # None /\ m.name # None /\ (m.type # "dummy" => m.ctl # None)
           /\ (m.type = "mux" => m.func # None)
pinctrl_register_map(t) ==
  /\ ~locked /\ \A i \in DOMAIN maps : maps[i].table # t
  /\ \A i \in DOMAIN Tables[t] : Sane(Tables[t][i])
  /\ maps' = Append(maps, [of |-> 0, table |-> t, maps |-> Tables[t]])
  /\ UNCHANGED <<locked, ctl, list, devres, handle, call, held, ranges, owner, line, oops>>

AllMaps(ms) == FlattenSeq([i \in DOMAIN ms |-> ms[i].maps])
pinctrl_unregister_map(h) == SelectSeq(maps, LAMBDA m : m.of # h)

(* pinctrl_dt_to_map, outside this repository: the controllers that a      *)
(* device's node names must be there, then its maps are registered.        *)
DtError(d, hog) ==
  IF d \in NoPins THEN "nodev"
  ELSE IF \E i \in DOMAIN DtMaps[d] : DtMaps[d][i].ctl # hog /\ ctl[DtMaps[d][i].ctl].at # "on"
  THEN "defer" ELSE "none"
DtTable(d, h) == IF DtMaps[d] = <<>> THEN <<>> ELSE << [of |-> h, table |-> None, maps |-> DtMaps[d]] >>

(* A function must exist, have groups, and the group must be one of them   *)
(* and known to the controller.                                            *)
pinmux_map_to_setting(m) ==
  LET c == ctl[m.ctl]
      f == Lookup(c.names["func"], c.num["func"], m.func)
      groups == IF f = -1 THEN <<>> ELSE GroupsOf[m.func]
      g == IF m.group # None THEN m.group ELSE IF groups = <<>> THEN None ELSE groups[1]
      s == IF g \in ToSet(groups) THEN Lookup(c.names["group"], c.num["group"], g) ELSE -1
  IN  [ok |-> f # -1 /\ s # -1, func |-> f, group |-> s]

(* One map becomes a setting of its state; the state is made in any case.  *)
add_setting(acc, m, hog) ==
  LET st == IF m.name \in DOMAIN acc.states THEN acc.states
            ELSE [n \in DOMAIN acc.states \cup {m.name} |-> IF n = m.name THEN <<>> ELSE acc.states[n]]
      to == IF m.type = "mux" /\ (hog # None \/ ctl[m.ctl].at = "on") THEN pinmux_map_to_setting(m)
            ELSE [ok |-> TRUE, func |-> -1, group |-> -1]
      setting == [ctl |-> m.ctl, reg |-> ctl[m.ctl].regs, type |-> m.type, func |-> to.func,
                  group |-> to.group, map |-> m]
  IN  IF m.type = "dummy" THEN [acc EXCEPT !.states = st, !.ret = "none"]
      ELSE IF hog = None /\ ctl[m.ctl].at # "on"
      THEN [acc EXCEPT !.states = st, !.ret = IF m.ctl = m.dev THEN "nodev" ELSE "defer"]
      ELSE IF ~to.ok THEN [acc EXCEPT !.states = st, !.ret = "inval"]
      ELSE [acc EXCEPT !.states = [st EXCEPT ![m.name] = Append(@, setting)], !.ret = "none"]

(* The loop of create_pinctrl over the maps of the device: it ends at the  *)
(* first deferral, any other error is kept until the next map.             *)
MapsFor(d, hog, all) == SelectSeq(all, LAMBDA m : m.dev = d /\ (hog # None => m.ctl = hog))
AddSettings(d, hog, all) ==
  FoldLeft(LAMBDA acc, m : IF acc.ret = "defer" THEN acc ELSE add_setting(acc, m, hog),
           [states |-> <<>>, ret |-> "none"], MapsFor(d, hog, all))

-----------------------------------------------------------------------------
(* pinctrl_get.  Calls for one device come under its device lock, unless   *)
(* "race" says otherwise.                                                  *)
Alone(u) == "race" \in Faults \/ \A v \in Users : v # u /\ DevOf[v] = DevOf[u] => call[v].at = "idle"
InList(d) == {h \in Hs : handle[h].at \in {"live", "dying"} /\ handle[h].dev = d}
Unused == {h \in Hs : handle[h].at = "free" /\ \A u \in Users : call[u].h # h /\ held[u][h] = 0}
Fresh == CHOOSE h \in Unused : \A g \in Unused : h <= g
Refs(u) == \E h \in Hs : held[u][h] >= MaxRefs

find_pinctrl(u) ==
  /\ call[u].at = "idle" /\ Alone(u) /\ ~Refs(u)
  /\ \E h \in InList(DevOf[u]) : call' = [call EXCEPT ![u] = [at |-> "found", h |-> h]]
  /\ UNCHANGED <<maps, locked, ctl, list, devres, handle, held, ranges, owner, line, oops>>

pinctrl_get(u) ==
  LET h == call[u].h IN
  /\ call[u].at = "found"
  /\ IF handle[h].at = "live" /\ handle[h].dev = DevOf[u]
     THEN /\ handle' = [handle EXCEPT ![h].refs = @ + 1]
          /\ oops' = oops
     ELSE /\ handle' = handle
          /\ oops' = oops \cup {"handle"}
  /\ held' = [held EXCEPT ![u][h] = @ + 1] /\ call' = [call EXCEPT ![u] = Idle]
  /\ UNCHANGED <<maps, locked, ctl, list, devres, ranges, owner, line>>

create_pinctrl(u) ==
  LET d == DevOf[u] IN
  /\ call[u].at = "idle" /\ Alone(u) /\ InList(d) = {} /\ ~locked /\ Unused # {}
  /\ DtError(d, None) = "none"
  /\ handle' = [handle EXCEPT ![Fresh] = [NoHandle EXCEPT !.at = "made", !.dev = d]]
  /\ maps' = maps \o DtTable(d, Fresh)
  /\ call' = [call EXCEPT ![u] = [at |-> "mapped", h |-> Fresh]]
  /\ UNCHANGED <<locked, ctl, list, devres, held, ranges, owner, line, oops>>

(* On a deferral pinctrl_free runs under pinctrl_maps_mutex, which         *)
(* unregistering the maps of the node takes again.                         *)
MapsAndPublish(u) ==
  LET h == call[u].h
      made == AddSettings(DevOf[u], None, AllMaps(maps))
  IN
  /\ call[u].at = "mapped" /\ ~locked
  /\ \/ /\ made.ret = "none"
        /\ handle' = [handle EXCEPT ![h].at = "live", ![h].refs = 1, ![h].states = made.states]
        /\ held' = [held EXCEPT ![u][h] = 1] /\ call' = [call EXCEPT ![u] = Idle]
        /\ UNCHANGED <<maps, locked>>
     \/ /\ made.ret = "defer" /\ pinctrl_unregister_map(h) # maps
        /\ locked' = TRUE /\ call' = [call EXCEPT ![u].at = "stuck"]
        /\ UNCHANGED <<maps, handle, held>>
     \/ /\ made.ret # "none" /\ (made.ret = "defer" => pinctrl_unregister_map(h) = maps)
        /\ handle' = [handle EXCEPT ![h] = NoHandle] /\ maps' = pinctrl_unregister_map(h)
        /\ call' = [call EXCEPT ![u] = Idle]
        /\ UNCHANGED <<locked, held>>
  /\ UNCHANGED <<ctl, list, devres, ranges, owner, line, oops>>

(* A setting of a controller that was freed is a dangling pointer. *)
Freed(s) == ctl[s.ctl].at = "none" \/ ctl[s.ctl].regs # s.reg
Touched(h, names) ==
  IF \E n \in names \cap DOMAIN handle[h].states : \E i \in DOMAIN handle[h].states[n] : Freed(handle[h].states[n][i])
  THEN {"controller"} ELSE {}

pinctrl_put(u) ==
  /\ call[u].at = "idle" /\ Alone(u)
  /\ \E h \in Hs :
       /\ held[u][h] > 0
       /\ held' = [held EXCEPT ![u][h] = @ - 1]
       /\ IF handle[h].at # "live"
          THEN /\ oops' = oops \cup {"handle"} /\ UNCHANGED <<handle, call>>
          ELSE /\ handle' = [handle EXCEPT ![h].refs = @ - 1, ![h].at = IF handle[h].refs = 1 THEN "dying" ELSE @]
               /\ call' = IF handle[h].refs = 1 THEN [call EXCEPT ![u] = [at |-> "drop", h |-> h]] ELSE call
               /\ oops' = oops
  /\ UNCHANGED <<maps, locked, ctl, list, devres, ranges, owner, line>>

(* Mutated form: the maps of the device tree stay behind. *)
pinctrl_free_KeepMaps(u) ==
  LET h == call[u].h IN
  /\ call[u].at = "drop" /\ ~locked
  /\ handle' = [handle EXCEPT ![h] = NoHandle]
  /\ oops' = oops \cup Touched(h, {handle[h].cur})
  /\ call' = [call EXCEPT ![u] = Idle]
  /\ UNCHANGED <<maps, locked, ctl, list, devres, held, ranges, owner, line>>
pinctrl_free(u) ==
  LET h == call[u].h IN
  /\ call[u].at = "drop" /\ ~locked
  /\ handle' = [handle EXCEPT ![h] = NoHandle] /\ maps' = pinctrl_unregister_map(h)
  /\ oops' = oops \cup Touched(h, {handle[h].cur})
  /\ call' = [call EXCEPT ![u] = Idle]
  /\ UNCHANGED <<locked, ctl, list, devres, held, ranges, owner, line>>

(* A state that does not exist is made up where dummies are provided. *)
pinctrl_lookup_state(u, n) ==
  /\ call[u].at = "idle" /\ Dummies
  /\ \E h \in Hs : /\ held[u][h] > 0 /\ handle[h].at = "live" /\ n \notin DOMAIN handle[h].states
                   /\ handle' = [handle EXCEPT ![h].states =
                                   [m \in DOMAIN @ \cup {n} |-> IF m = n THEN <<>> ELSE @[m]]]
  /\ UNCHANGED <<maps, locked, ctl, list, devres, call, held, ranges, owner, line, oops>>

(* Selecting a state touches the controllers of the old and the new one. *)
Select(u, h, n) ==
  /\ held[u][h] > 0 /\ call[u].at = "idle"
  /\ IF handle[h].at # "live" THEN /\ oops' = oops \cup {"handle"} /\ handle' = handle
     ELSE /\ n \in DOMAIN handle[h].states /\ handle[h].cur # n
          /\ handle' = [handle EXCEPT ![h].cur = n]
          /\ oops' = oops \cup Touched(h, {n, handle[h].cur})
  /\ UNCHANGED <<maps, locked, ctl, list, devres, call, held, ranges, owner, line>>

(* Probing starts in "init" where the device has that state. *)
BindPins(u) ==
  \E h \in Hs : /\ handle[h].cur = None
               /\ Select(u, h, IF "init" \in DOMAIN handle[h].states THEN "init" ELSE "default")
pinctrl_init_done(u) == \E h \in Hs : handle[h].cur = "init" /\ Select(u, h, "default")
pinctrl_pm_select_state(u, n) ==
  n \in {"default", "sleep", "idle"} /\ \E h \in Hs : handle[h].cur # None /\ Select(u, h, n)

-----------------------------------------------------------------------------
(* Controllers. *)
pinctrl_init_controller(c) ==
  /\ ctl[c].at = "none" /\ ctl[c].regs < MaxRegs /\ c \notin devres
  /\ IsInjective(PinNrs[c])
  /\ LET n == [NoCtl(ctl[c].regs + 1) EXCEPT !.at = "init"]
         fixed(kind) == [i \in 0..Len(Names[c][kind]) - 1 |-> Names[c][kind][i + 1]]
     IN  ctl' = [ctl EXCEPT ![c] = IF c \in InitFirst THEN n
                   ELSE [n EXCEPT !.names = [k \in Kinds |-> fixed(k)], !.num = [k \in Kinds |-> Len(Names[c][k])]]]
  /\ devres' = IF c \in InitFirst THEN devres \cup {c} ELSE devres
  /\ owner' = [owner EXCEPT ![c] = [p \in ToSet(PinNrs[c]) |-> None]]
  /\ UNCHANGED <<maps, locked, list, handle, call, held, ranges, line, oops>>

(* pinctrl_claim_hogs and pinctrl_enable: the controller's own states; an  *)
(* error frees the controller, "no such device" only says there are none.  *)
pinctrl_enable(c) ==
  LET dt == DtError(c, c)
      h == Fresh
      made == AddSettings(c, c, AllMaps(maps \o DtTable(c, h)))
      ret == IF dt # "none" THEN dt ELSE made.ret
  IN
  /\ ctl[c].at = "init" /\ ~locked /\ Unused # {}
  /\ \/ /\ ret = "none"
        /\ maps' = maps \o DtTable(c, h)
        /\ handle' = [handle EXCEPT ![h] = [at |-> "live", dev |-> c, refs |-> 1, states |-> made.states,
                        cur |-> IF "default" \in DOMAIN made.states THEN "default" ELSE None]]
        /\ ctl' = [ctl EXCEPT ![c].at = "on", ![c].p = h]
        /\ list' = Append(list, c)
     \/ /\ ret = "nodev"
        /\ ctl' = [ctl EXCEPT ![c].at = "on"] /\ list' = Append(list, c)
        /\ UNCHANGED <<maps, handle>>
     \/ /\ ret \in {"inval", "defer"}
        /\ ctl' = [ctl EXCEPT ![c] = NoCtl(ctl[c].regs)]
        /\ UNCHANGED <<maps, handle, list>>
  /\ UNCHANGED <<locked, devres, call, held, ranges, owner, line, oops>>

(* No one looks whether settings of other devices still point here. *)
Pointed(c) == \E h \in Hs : /\ handle[h].at \in {"live", "dying"} /\ h # ctl[c].p
                            /\ \E n \in DOMAIN handle[h].states : \E i \in DOMAIN handle[h].states[n] :
                                 handle[h].states[n][i].ctl = c
Quiet(c) == ~Pointed(c) /\ \A p \in DOMAIN owner[c] : owner[c][p] = None

pinctrl_unregister(c) ==
  LET h == ctl[c].p
      last == h # 0 /\ handle[h].refs = 1
  IN
  /\ ctl[c].at = "on" /\ (Quiet(c) \/ "remove" \in Faults) /\ ~locked
  /\ handle' = IF last THEN [handle EXCEPT ![h] = NoHandle]
               ELSE IF h # 0 THEN [handle EXCEPT ![h].refs = @ - 1] ELSE handle
  /\ maps' = IF last THEN pinctrl_unregister_map(h) ELSE maps
  /\ ctl' = [ctl EXCEPT ![c] = NoCtl(ctl[c].regs)]
  /\ list' = SelectSeq(list, LAMBDA d : d # c) /\ ranges' = [ranges EXCEPT ![c] = <<>>]
  /\ devres' = devres \ {c}
  /\ UNCHANGED <<locked, call, held, owner, line, oops>>

(* The device of a controller is unbound before or after a failed enable. *)
devm_pinctrl_dev_release(c) ==
  /\ c \in devres /\ ctl[c].at # "on"
  /\ devres' = devres \ {c}
  /\ ctl' = [ctl EXCEPT ![c] = NoCtl(ctl[c].regs)]
  /\ oops' = IF ctl[c].at = "none" THEN oops \cup {"controller"} ELSE oops
  /\ UNCHANGED <<maps, locked, list, handle, call, held, ranges, owner, line>>

pinctrl_force(c, n) ==
  LET h == ctl[c].p IN
  /\ ctl[c].at = "on" /\ h # 0 /\ n \in DOMAIN handle[h].states /\ n \in {"default", "sleep"}
  /\ handle[h].cur # n
  /\ handle' = [handle EXCEPT ![h].cur = n]
  /\ oops' = oops \cup Touched(h, {n, handle[h].cur})
  /\ UNCHANGED <<maps, locked, ctl, list, devres, call, held, ranges, owner, line>>

-----------------------------------------------------------------------------
(* GPIO ranges and the lines requested through them. *)
In(r, g) == g >= Ranges[r].base /\ g < Ranges[r].base + Ranges[r].n
gpio_to_pin(r, g) == Ranges[r].pin + (g - Ranges[r].base)
Known(c, p) == p \in DOMAIN owner[c]
Matches(g) == SelectSeq(FlattenSeq([i \in DOMAIN list |-> ranges[list[i]]]), LAMBDA r : In(r, g))
pinctrl_ready_for_gpio_range ==
  \E c \in ToSet(list) : \E r \in ToSet(ranges[c]) : \E g \in ChipLines : In(r, g)
LinesQuiet(r) == "range" \in Faults \/ \A g \in Lines : In(r, g) => line[g] = "free"

pinctrl_add_gpio_range(r) ==
  LET c == Ranges[r].ctl IN
  /\ ctl[c].at = "on" /\ r \notin ToSet(ranges[c]) /\ LinesQuiet(r)
  /\ ranges' = [ranges EXCEPT ![c] = Append(@, r)]
  /\ UNCHANGED <<maps, locked, ctl, list, devres, handle, call, held, owner, line, oops>>
pinctrl_remove_gpio_range(r) ==
  LET c == Ranges[r].ctl IN
  /\ r \in ToSet(ranges[c]) /\ LinesQuiet(r)
  /\ ranges' = [ranges EXCEPT ![c] = SelectSeq(@, LAMBDA x : x # r)]
  /\ UNCHANGED <<maps, locked, ctl, list, devres, handle, call, held, owner, line, oops>>

pinctrl_gpio_request(g) ==
  LET rs == Matches(g)
      c == Ranges[rs[1]].ctl
      p == gpio_to_pin(rs[1], g)
  IN
  /\ line[g] = "free"
  /\ \/ /\ rs = <<>> /\ pinctrl_ready_for_gpio_range
        /\ line' = [line EXCEPT ![g] = "bare"] /\ owner' = owner
     \/ /\ rs # <<>> /\ Known(c, p) /\ owner[c][p] = None
        /\ owner' = [owner EXCEPT ![c][p] = g] /\ line' = [line EXCEPT ![g] = "pin"]
  /\ UNCHANGED <<maps, locked, ctl, list, devres, handle, call, held, ranges, oops>>
pinctrl_gpio_free(g) ==
  LET rs == Matches(g)
      c == Ranges[rs[1]].ctl
      p == gpio_to_pin(rs[1], g)
  IN
  /\ line[g] # "free"
  /\ line' = [line EXCEPT ![g] = "free"]
  /\ owner' = IF rs # <<>> /\ Known(c, p) THEN [owner EXCEPT ![c][p] = None] ELSE owner
  /\ UNCHANGED <<maps, locked, ctl, list, devres, handle, call, held, ranges, oops>>

-----------------------------------------------------------------------------
RegNext ==
  \/ \E c \in Ctls, k \in Kinds : generic_add(c, k) \/ generic_remove(c, k)
  \/ \E t \in DOMAIN Tables : pinctrl_register_map(t)
  \/ \E u \in Users : \/ find_pinctrl(u) \/ pinctrl_get(u) \/ create_pinctrl(u) \/ MapsAndPublish(u)
                      \/ pinctrl_put(u) \/ pinctrl_free(u)
                      \/ BindPins(u) \/ pinctrl_init_done(u)
                      \/ \E n \in Asked : pinctrl_lookup_state(u, n)
                      \/ \E n \in StateNames : pinctrl_pm_select_state(u, n)
  \/ \E c \in Ctls : \/ pinctrl_init_controller(c) \/ pinctrl_enable(c) \/ pinctrl_unregister(c)
                     \/ devm_pinctrl_dev_release(c)
                     \/ \E n \in StateNames : pinctrl_force(c, n)
  \/ \E r \in DOMAIN Ranges : pinctrl_add_gpio_range(r) \/ pinctrl_remove_gpio_range(r)
  \/ \E g \in Lines : pinctrl_gpio_request(g) \/ pinctrl_gpio_free(g)

-----------------------------------------------------------------------------
(* Every reference of a handle has a holder and no freed handle or         *)
(* controller is ever used; the maps a device tree node contributed are in *)
(* the list exactly as long as a handle of the node; a selector kept in a  *)
(* setting names the function and the group of the map it came from; and a *)
(* pin is requested for a line exactly while that line is granted through  *)
(* a range.                                                                *)
RefsHeld ==
  /\ oops = {}
  /\ \A h \in Hs : handle[h].at = "live" =>
       handle[h].refs = Cardinality({c \in Ctls : ctl[c].p = h}) + MapThenSumSet(LAMBDA u : held[u][h], Users)
NodesMapped ==
  \A h \in Hs : handle[h].at = "free" => \A i \in DOMAIN maps : maps[i].of # h
Selectors ==
  \A h \in Hs : handle[h].at = "live" => \A n \in DOMAIN handle[h].states : \A i \in DOMAIN handle[h].states[n] :
    LET s == handle[h].states[n][i] IN
      s.type = "mux" /\ ~Freed(s) =>
         /\ ctl[s.ctl].names["func"][s.func] = s.map.func
         /\ ctl[s.ctl].names["group"][s.group] \in IF s.map.group = None THEN ToSet(GroupsOf[s.map.func])
                                                   ELSE {s.map.group}
LinesOwn ==
  \A g \in Lines : line[g] = "pin" <=> \E c \in Ctls : ctl[c].at = "on" /\ \E p \in DOMAIN owner[c] : owner[c][p] = g
HandlesSound == RefsHeld /\ NodesMapped /\ Selectors /\ LinesOwn

(* A handle that was handed out has a setting for every map of its device: *)
(* create_pinctrl says of errors other than a deferral that they are       *)
(* accumulated.                                                            *)
NothingLeftOut ==
  \A h \in Hs : handle[h].at = "live" =>
    \A i \in DOMAIN maps : \A j \in DOMAIN maps[i].maps :
      LET m == maps[i].maps[j] IN
        m.dev = handle[h].dev /\ maps[i].of = h /\ m.type = "mux" =>
           \E k \in DOMAIN handle[h].states[m.name] : handle[h].states[m.name][k].map = m

(* A device whose pin controller is not there yet is told to come back     *)
(* later: no caller waits for a mutex it holds itself (core.c:980).        *)
DeferReturns == \A u \in Users : call[u].at # "stuck"
=============================================================================

------------------------------- MODULE Thermal -------------------------------
(***************************************************************************)
(* The thermal framework: zones, cooling devices and the instances that    *)
(* bind them (thermal_core.c), zones built from the device tree and the    *)
(* sensors attached to them later (of-thermal.c), the sysfs files that     *)
(* change them (thermal_sysfs.c) and the zone the RTS sensor registers.    *)
(*                                                                         *)
(* Registration takes the list lock twice: once to put the device on the   *)
(* list and once to bind it, and zones, cooling devices, sensors, users    *)
(* and suspend interleave in between.  thermal_zone_device_update is two   *)
(* steps, reading the temperature and handling the trips, because the zone *)
(* lock is released between them.                                          *)
(***************************************************************************)
EXTENDS Integers, Sequences, FiniteSets

CONSTANTS
  OfZones,      \* zones of the device tree: they bind, have a mode and polling delays
  DirectZones,  \* zones registered by a driver: no bind operation, no delays
  Cdevs,        \* cooling devices
  Dt,           \* Dt[z]: the node of z in the device tree, see thermal_of_build_thermal_zone
  Governors,    \* the governors of the table
  Default,      \* the default governor
  NoOne

Zones == OfZones \cup DirectZones

(* A zone is of one kind; a node lists its trips and its cooling maps, each *)
(* with a trip and cooling devices, in order.                               *)
ASSUME ThermalAssumption ==
  /\ OfZones \cap DirectZones = {} /\ Default \in Governors /\ NoOne \notin Governors
  /\ Dt \in [Zones -> [delays : BOOLEAN, trips : SUBSET Nat, maps : Seq([trip : Nat, cdevs : Seq(Cdevs)])]]

(* A temperature is below every trip, at the passive trip or at the critical trip. *)
Invalid == -1
PassiveTrip == 1
CriticalTrip == 2

-----------------------------------------------------------------------------
(* The device tree *)

(* A node has its two delay properties or not, the trips that are well     *)
(* formed and those that are not, and cooling-maps that name a trip and    *)
(* cooling devices.  Whatever is missing makes the whole zone fail.        *)
thermal_of_populate_trip(t) == t \in {PassiveTrip, CriticalTrip}
thermal_of_populate_bind_params(m, trips) == m.trip \in trips /\ m.cdevs # << >>
thermal_of_build_thermal_zone(d) ==
  /\ d.delays
  /\ \A t \in d.trips : thermal_of_populate_trip(t)
  /\ \A i \in DOMAIN d.maps : thermal_of_populate_bind_params(d.maps[i], d.trips)
(* The bind parameters of a zone, one per cooling device of a map, in the  *)
(* order of the two loops over them; and those for one cooling device.     *)
Places(z) == UNION {{<<i, j>> : j \in DOMAIN Dt[z].maps[i].cdevs} : i \in DOMAIN Dt[z].maps}
Before(p, q) == p[1] < q[1] \/ (p[1] = q[1] /\ p[2] < q[2])
TripAt(z, p) == Dt[z].maps[p[1]].trip
Mine(z, c) == {p \in Places(z) : Dt[z].maps[p[1]].cdevs[p[2]] = c}
Repeats(z, p, c) == \E q \in Mine(z, c) : Before(q, p) /\ TripAt(z, q) = TripAt(z, p)

VARIABLES
  zone,     \* zone[z]: a record, see ZoneType
  inst,     \* the thermal instances <<zone, trip, cooling device>>
  cdev,     \* cdev[c]: how far registration of c has come
  sensed,   \* sensed[z]: what the sensor of z would answer
  suspend,  \* in_suspend
  setters,  \* the calls of set_mode, <<zone, mode>>, that have not yet stored the mode
  poweroff  \* how often orderly_poweroff was called

thermalVars == <<zone, inst, cdev, sensed, suspend, setters, poweroff>>

ZoneType ==
  [pc : {"none", "made", "governed", "listed", "bound", "live",
         "unlisted", "cancelled", "clearing", "leaving", "freed"},
   sensor : BOOLEAN,                   \* tz->ops->get_temp is set
   mode : BOOLEAN,                     \* __thermal_zone.mode is ENABLED
   crossed : BOOLEAN,                  \* the last calls of set_mode overlapped
   polling : BOOLEAN,                  \* polling_delay is not 0
   work : {"uninit", "idle", "armed"}, \* poll_queue
   need : BOOLEAN,                     \* need_update
   temp : Invalid .. CriticalTrip,     \* tz->temperature
   upd : SUBSET {"poll", "call"},      \* the updates between reading and handling
   gov : Governors \cup {NoOne},        \* tz->governor
   govs : SUBSET Governors]            \* the governors bound and not unbound

(* On thermal_tz_list; and with files in sysfs, from device_register to    *)
(* device_unregister.                                                      *)
Listed(z) == zone[z].pc \in {"listed", "bound", "live"}
HasFiles(z) == zone[z].pc \notin {"none", "freed"}

-----------------------------------------------------------------------------
(* Instances *)

OnLists(z, c) == Listed(z) /\ cdev[c] # "none"

(* Mutated form: the loop goes on after a refusal. *)
OfBind_Skip(z, c, ins, fails) == ins \cup {<<z, TripAt(z, p), c>> : p \in Mine(z, c) \ fails}
(* The instances after the maps of z were bound to c one by one; fails is  *)
(* the set of the maps whose allocation or sysfs file is refused.  The     *)
(* first refusal ends the loop, -EEXIST among them, which a map that       *)
(* repeats one of the loop meets as well.                                  *)
thermal_zone_bind_cooling_device(z, p, c, ins, fails) ==
  OnLists(z, c) /\ p \notin fails /\ <<z, TripAt(z, p), c>> \notin ins /\ ~Repeats(z, p, c)
OfBind(z, c, ins, fails) ==
  LET refused == {p \in Mine(z, c) : ~thermal_zone_bind_cooling_device(z, p, c, ins, fails)}
  IN  ins \cup {<<z, TripAt(z, p), c>> : p \in {q \in Mine(z, c) : \A r \in refused : Before(q, r)}}

(* of_thermal_unbind stops in the same way, at the first map that is not   *)
(* bound, or no longer.                                                    *)
thermal_zone_unbind_cooling_device(z, p, c, ins) ==
  <<z, TripAt(z, p), c>> \in ins /\ ~Repeats(z, p, c)
OfUnbind(z, c, ins) ==
  LET refused == {p \in Mine(z, c) : ~thermal_zone_unbind_cooling_device(z, p, c, ins)}
  IN  ins \ {<<z, TripAt(z, p), c>> : p \in {q \in Mine(z, c) : \A r \in refused : Before(q, r)}}

-----------------------------------------------------------------------------
(* Governors *)

(* new and old say whether bind_to_tz of the new governor and, after a     *)
(* failure, of the previous one succeeds.                                  *)
unbind_from_tz(r) == [r EXCEPT !.govs = @ \ {r.gov}]
bind_to_tz(r, g) == [r EXCEPT !.govs = @ \cup ({g} \ {NoOne})]
bind_previous_governor(r, old) == IF old THEN bind_to_tz(r, r.gov) ELSE [r EXCEPT !.gov = NoOne]
thermal_set_governor(r, g, new, old) ==
  IF g = NoOne \/ new THEN [bind_to_tz(unbind_from_tz(r), g) EXCEPT !.gov = g]
  ELSE bind_previous_governor(unbind_from_tz(r), old)

-----------------------------------------------------------------------------
(* Updates *)

(* thermal_zone_device_update up to the temperature: it returns at once in *)
(* suspend or without a sensor, and keeps the temperature if it cannot be  *)
(* read.                                                                   *)
update_temperature(r, z) == IF sensed[z] # Invalid THEN [r EXCEPT !.temp = sensed[z]] ELSE r
UpdateStart(r, z, who) ==
  IF suspend \/ ~r.sensor THEN r
  ELSE [update_temperature(r, z) EXCEPT !.upd = @ \cup {who}]

(* monitor_thermal_zone: arm the work again or cancel it.  With a passive  *)
(* trip active the passive delay is used, which the mode sets and clears   *)
(* together with the polling delay.                                        *)
monitor_thermal_zone(r) == [r EXCEPT !.work = IF r.polling THEN "armed" ELSE "idle"]

handle_critical_trips(r) ==
  IF r.temp >= CriticalTrip /\ poweroff = 0 THEN poweroff' = 1 ELSE UNCHANGED poweroff

(* The rest of an update: the trips in turn, each followed by monitoring. *)
UpdateTrips(z, who) ==
  /\ who \in zone[z].upd
  /\ handle_critical_trips(zone[z])
  /\ zone' = [zone EXCEPT ![z] = [monitor_thermal_zone(zone[z]) EXCEPT !.upd = zone[z].upd \ {who}]]
  /\ UNCHANGED <<inst, cdev, sensed, suspend, setters>>

(* The polling work. *)
thermal_zone_device_check(z) ==
  /\ zone[z].work = "armed" /\ zone[z].pc # "freed" /\ "poll" \notin zone[z].upd
  /\ zone' = [zone EXCEPT ![z] = UpdateStart([zone[z] EXCEPT !.work = "idle"], z, "poll")]
  /\ UNCHANGED <<inst, cdev, sensed, suspend, setters, poweroff>>

(* Only one caller at a time is followed through an update; others are in  *)
(* the polling work.                                                       *)
CanCall(z) == "call" \notin zone[z].upd

thermal_zone_device_reset(r) == [r EXCEPT !.temp = Invalid]

-----------------------------------------------------------------------------
(* Zones *)

NoZone == [pc |-> "none", sensor |-> FALSE, mode |-> FALSE, crossed |-> FALSE, polling |-> FALSE, work |-> "uninit",
           need |-> FALSE, temp |-> Invalid, upd |-> {}, gov |-> NoOne, govs |-> {}]

(* thermal_zone_device_register up to device_register; an allocation that  *)
(* fails leaves nothing.  A zone of the device tree starts without a       *)
(* sensor, its mode DISABLED, but with its delays; one whose node is       *)
(* malformed is skipped.                                                   *)
of_parse_thermal_zones(z) == z \in OfZones => thermal_of_build_thermal_zone(Dt[z])
MakeZone(z) ==
  /\ zone[z].pc = "none" /\ of_parse_thermal_zones(z)
  /\ zone' = [zone EXCEPT ![z].pc = "made", ![z].sensor = (z \in DirectZones),
                          ![z].polling = (z \in OfZones), ![z].need = TRUE]
  /\ UNCHANGED <<inst, cdev, sensed, suspend, setters, poweroff>>
(* The default governor, under thermal_governor_lock; a failure removes    *)
(* the zone again, whatever governor a policy write has bound meanwhile.   *)
GovernZone(z) ==
  /\ zone[z].pc = "made" /\ zone[z].upd = {} /\ \A on \in BOOLEAN : <<z, on>> \notin setters
  /\ \E new, old \in BOOLEAN :
       zone' = [zone EXCEPT ![z] = [thermal_set_governor(zone[z], Default, new, old)
                                      EXCEPT !.pc = IF new THEN "governed" ELSE "freed"]]
  /\ UNCHANGED <<inst, cdev, sensed, suspend, setters, poweroff>>
(* The hwmon device, which may fail as well, and the list. *)
ListZone(z) ==
  /\ zone[z].pc = "governed"
  /\ \E ok \in BOOLEAN :
       /\ ok \/ (zone[z].upd = {} /\ \A on \in BOOLEAN : <<z, on>> \notin setters)
       /\ zone' = [zone EXCEPT ![z].pc = IF ok THEN "listed" ELSE "freed"]
  /\ UNCHANGED <<inst, cdev, sensed, suspend, setters, poweroff>>

(* bind_tz, its own critical section: every cooling device on the list. *)
bind_tz(z) ==
  /\ zone[z].pc = "listed"
  /\ \E fails \in SUBSET Places(z) :
       inst' = IF z \in OfZones THEN inst \cup UNION {OfBind(z, c, inst, fails) : c \in {d \in Cdevs : cdev[d] # "none"}}
                                ELSE inst
  /\ zone' = [zone EXCEPT ![z].pc = "bound", ![z].need = zone[z].need \/ inst' # inst]
  /\ UNCHANGED <<cdev, sensed, suspend, setters, poweroff>>

(* INIT_DELAYED_WORK, the reset, and the first update unless a cooling     *)
(* device has already taken need_update.                                   *)
FinishZone(z) ==
  /\ zone[z].pc = "bound" /\ CanCall(z)
  /\ LET r == thermal_zone_device_reset([zone[z] EXCEPT !.pc = "live", !.work = "idle", !.need = FALSE])
     IN  zone' = [zone EXCEPT ![z] = IF zone[z].need THEN UpdateStart(r, z, "call") ELSE r]
  /\ UNCHANGED <<inst, cdev, sensed, suspend, setters, poweroff>>

(* thermal_zone_device_unregister: off the list and unbound in one         *)
(* critical section, *)
UnlistZone(z) ==
  /\ zone[z].pc = "live"
  /\ zone' = [zone EXCEPT ![z].pc = "unlisted"]
  /\ inst' = {x \in inst : \A c \in Cdevs : z \in OfZones /\ cdev[c] # "none" => x \in OfUnbind(z, c, inst)}
  /\ UNCHANGED <<cdev, sensed, suspend, setters, poweroff>>
(* cancel_delayed_work_sync, which waits for the work only: an update of   *)
(* another caller may arm it again, *)
CancelWork(z) ==
  /\ zone[z].pc = "unlisted" /\ "poll" \notin zone[z].upd
  /\ zone' = [zone EXCEPT ![z].pc = "cancelled", ![z].work = "idle"]
  /\ UNCHANGED <<inst, cdev, sensed, suspend, setters, poweroff>>
(* thermal_set_governor(tz, NULL) in two steps, because it holds neither   *)
(* lock of thermal_zone_device_set_policy, *)
UnbindGovernor(z) ==
  /\ zone[z].pc = "cancelled"
  /\ zone' = [zone EXCEPT ![z] = [unbind_from_tz(zone[z]) EXCEPT !.pc = "clearing"]]
  /\ UNCHANGED <<inst, cdev, sensed, suspend, setters, poweroff>>
ForgetGovernor(z) ==
  /\ zone[z].pc = "clearing"
  /\ zone' = [zone EXCEPT ![z].pc = "leaving", ![z].gov = NoOne]
  /\ UNCHANGED <<inst, cdev, sensed, suspend, setters, poweroff>>
(* and device_unregister, which waits for the users of the files.          *)
FreeZone(z) ==
  /\ zone[z].pc = "leaving" /\ zone[z].upd = {} /\ \A on \in BOOLEAN : <<z, on>> \notin setters
  /\ zone' = [zone EXCEPT ![z].pc = "freed"]
  /\ UNCHANGED <<inst, cdev, sensed, suspend, setters, poweroff>>

-----------------------------------------------------------------------------
(* Cooling devices *)

(* __thermal_cooling_device_register: on the list, *)
ListCdev(c) ==
  /\ cdev[c] = "none" /\ cdev' = [cdev EXCEPT ![c] = "listed"]
  /\ UNCHANGED <<zone, inst, sensed, suspend, setters, poweroff>>
(* bind_cdev, a second critical section, *)
bind_cdev(c) ==
  /\ cdev[c] = "listed" /\ cdev' = [cdev EXCEPT ![c] = "bound"]
  /\ \E f \in [OfZones -> SUBSET UNION {Places(z) : z \in OfZones}] :
       inst' = inst \cup UNION {OfBind(z, c, inst, f[z]) : z \in OfZones}
  /\ zone' = [z \in Zones |-> [zone[z] EXCEPT !.need = zone[z].need \/ \E x \in inst' \ inst : x[1] = z]]
  /\ UNCHANGED <<sensed, suspend, setters, poweroff>>
(* and a third that updates every zone that needs it. *)
UpdateAll(c) ==
  /\ cdev[c] = "bound" /\ cdev' = [cdev EXCEPT ![c] = "live"]
  /\ \A z \in Zones : Listed(z) /\ zone[z].need => CanCall(z)
  /\ zone' = [z \in Zones |->
       IF Listed(z) /\ zone[z].need
       THEN UpdateStart([zone[z] EXCEPT !.need = FALSE], z, "call") ELSE zone[z]]
  /\ UNCHANGED <<inst, sensed, suspend, setters, poweroff>>

thermal_cooling_device_unregister(c) ==
  /\ cdev[c] = "live" /\ cdev' = [cdev EXCEPT ![c] = "none"]
  /\ inst' = {x \in inst : \A z \in OfZones : Listed(z) => x \in OfUnbind(z, c, inst)}
  /\ UNCHANGED <<zone, sensed, suspend, setters, poweroff>>

-----------------------------------------------------------------------------
(* Sensors, mode, policy, suspend *)

(* of_thermal_set_mode sets the delays of the zone, now r, under its lock, *)
SetDelays(r, z, on) ==
  /\ <<z, on>> \notin setters /\ setters' = setters \cup {<<z, on>>}
  /\ zone' = [zone EXCEPT ![z] = [r EXCEPT !.polling = on, !.crossed = (<<z, ~on>> \in setters)]]
  /\ UNCHANGED <<inst, cdev, sensed, suspend, poweroff>>
(* and stores the mode and updates without it, so calls may overlap.       *)
of_thermal_set_mode(z, on) ==
  /\ <<z, on>> \in setters /\ setters' = setters \ {<<z, on>>}
  /\ CanCall(z)
  /\ zone' = [zone EXCEPT ![z] = UpdateStart([zone[z] EXCEPT !.mode = on], z, "call")]
  /\ UNCHANGED <<inst, cdev, sensed, suspend, poweroff>>
mode_store(z, on) == z \in OfZones /\ HasFiles(z) /\ SetDelays(zone[z], z, on)

(* thermal_zone_of_sensor_register: attach, and begin set_mode(ENABLED).   *)
(* thermal_init registers the zones of the device tree before any sensor   *)
(* driver is probed; a sensor attached between bind_tz and                 *)
(* INIT_DELAYED_WORK would have its polling work wiped out.                *)
thermal_zone_of_add_sensor(r) == [r EXCEPT !.sensor = TRUE]
RegisterSensor(z) ==
  /\ z \in OfZones /\ zone[z].pc = "live" /\ ~zone[z].sensor
  /\ SetDelays(thermal_zone_of_add_sensor(zone[z]), z, TRUE)
thermal_zone_of_sensor_unregister(z) ==
  /\ z \in OfZones /\ zone[z].sensor
  /\ zone' = [zone EXCEPT ![z].sensor = FALSE]
  /\ UNCHANGED <<inst, cdev, sensed, suspend, setters, poweroff>>

(* policy_store, while the zone has files. *)
thermal_zone_device_set_policy(z, g, new, old) ==
  /\ HasFiles(z)
  /\ zone' = [zone EXCEPT ![z] = thermal_set_governor(zone[z], g, new, old)]
  /\ UNCHANGED <<inst, cdev, sensed, suspend, setters, poweroff>>

(* thermal_pm_notify: entering suspend, and leaving it, when every zone    *)
(* that is not disabled is reset and updated.                              *)
PmPrepare ==
  /\ ~suspend /\ suspend' = TRUE
  /\ UNCHANGED <<zone, inst, cdev, sensed, setters, poweroff>>
(* Mutated form: no update after a resume. *)
thermal_pm_notify_NoUpdate ==
  /\ suspend /\ suspend' = FALSE
  /\ zone' = [z \in Zones |-> IF Listed(z) /\ (z \in OfZones => zone[z].mode)
                              THEN thermal_zone_device_reset(zone[z]) ELSE zone[z]]
  /\ UNCHANGED <<inst, cdev, sensed, setters, poweroff>>
thermal_pm_notify ==
  /\ suspend /\ suspend' = FALSE
  /\ \A z \in Zones : CanCall(z)
  /\ zone' = [z \in Zones |->
       IF Listed(z) /\ (z \in OfZones => zone[z].mode) /\ zone[z].sensor
       THEN [update_temperature(thermal_zone_device_reset(zone[z]), z) EXCEPT !.upd = @ \cup {"call"}]
       ELSE zone[z]]
  /\ UNCHANGED <<inst, cdev, sensed, setters, poweroff>>

(* What the sensor would read, or that it cannot be read. *)
Weather(z, t) ==
  /\ sensed[z] # t /\ sensed' = [sensed EXCEPT ![z] = t]
  /\ UNCHANGED <<zone, inst, cdev, suspend, setters, poweroff>>

-----------------------------------------------------------------------------
ThermalInit ==
  /\ zone = [z \in Zones |-> NoZone] /\ inst = {} /\ cdev = [c \in Cdevs |-> "none"]
  /\ sensed = [z \in Zones |-> 0] /\ suspend = FALSE /\ setters = {} /\ poweroff = 0

(* What the kernel's workqueue, and callers that have started, will do. *)
Progress(z) == thermal_zone_device_check(z) \/ \E w \in {"poll", "call"} : UpdateTrips(z, w)

ThermalNext ==
  \/ \E z \in Zones :
       \/ Progress(z)
       \/ MakeZone(z) \/ GovernZone(z) \/ ListZone(z) \/ bind_tz(z) \/ FinishZone(z)
       \/ UnlistZone(z) \/ CancelWork(z) \/ UnbindGovernor(z) \/ ForgetGovernor(z) \/ FreeZone(z)
       \/ RegisterSensor(z) \/ thermal_zone_of_sensor_unregister(z)
       \/ \E on \in BOOLEAN : mode_store(z, on) \/ of_thermal_set_mode(z, on)
       \/ \E g \in Governors, new, old \in BOOLEAN : thermal_zone_device_set_policy(z, g, new, old)
       \/ \E t \in Invalid..CriticalTrip : Weather(z, t)
  \/ \E c \in Cdevs : ListCdev(c) \/ bind_cdev(c) \/ UpdateAll(c) \/ thermal_cooling_device_unregister(c)
  \/ PmPrepare \/ thermal_pm_notify

ThermalSpec == ThermalInit /\ [][ThermalNext]_thermalVars

-----------------------------------------------------------------------------
(* Zones, cooling devices and instances are those of the system. *)
ThermalTypeOK ==
  /\ zone \in [Zones -> ZoneType]
  /\ inst \subseteq Zones \X {PassiveTrip, CriticalTrip} \X Cdevs
  /\ cdev \in [Cdevs -> {"none", "listed", "bound", "live"}]
  /\ sensed \in [Zones -> Invalid..CriticalTrip] /\ suspend \in BOOLEAN
  /\ setters \subseteq OfZones \X BOOLEAN /\ poweroff \in 0..1

(* An instance never outlives its zone or its cooling device, although     *)
(* of_thermal_bind and of_thermal_unbind both stop at their first error;   *)
(* and the governors bound to a zone are exactly the one it names, until   *)
(* thermal_zone_device_unregister drops it without a lock.                 *)
NothingDangles ==
  /\ \A x \in inst : OnLists(x[1], x[3])
  /\ \A z \in Zones : Listed(z) => zone[z].govs = {zone[z].gov} \ {NoOne}

(* A zone that stays enabled, with a sensor that stays at the critical     *)
(* temperature and a system that does not suspend, shuts the system down:  *)
(* polling never stops for good (monitor_thermal_zone, thermal_pm_notify), *)
(* unless the last two calls of set_mode overlapped.                       *)
Watched(z) ==
  /\ zone[z].pc = "live" /\ zone[z].sensor /\ sensed[z] = CriticalTrip /\ ~suspend
  /\ zone[z].mode /\ ~zone[z].crossed /\ \A on \in BOOLEAN : <<z, on>> \notin setters
HotShutsDown(z) == []<>(poweroff = 1 \/ ~Watched(z))
=============================================================================

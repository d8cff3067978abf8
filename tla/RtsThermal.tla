----------------------------- MODULE RtsThermal -----------------------------
(***************************************************************************)
(* The RTS3917 temperature sensor (rts_thermal.c).  The hardware compares  *)
(* its reading with a window of two thresholds and interrupts while the    *)
(* reading is outside; the handler masks the interrupt, moves the window   *)
(* to a neighbouring pair of trip points and schedules work that updates   *)
(* the zone, tells the DDR controller and unmasks the interrupt.           *)
(*                                                                         *)
(* Readings are whole degrees; the register holds degrees times 1024, trip *)
(* points are hundredths of a kelvin, and the conversions are the code's,  *)
(* integer division included, above 0 degrees where nothing wraps.         *)
(***************************************************************************)
EXTENDS Integers

CONSTANTS
  TripPoints,  \* trip_points[0 .. num_trips - 1].temp, in hundredths of a kelvin
  NumTrips,    \* num_trips, at least 2
  Degrees      \* what the sensor may read

VARIABLES
  pc,     \* "none", "probed", "unregistered" or "removed"
  degree, \* the temperature of the chip
  window, \* SYS_TM_CT_LOW and SYS_TM_CT_HIGH
  on,     \* SYS_TM_CT_INT_EN
  index,  \* cur_index
  work,   \* therm_work and init_work that are queued
  told    \* the last event of ddrc_trigger

rtsThermalVars == <<pc, degree, window, on, index, work, told>>

-----------------------------------------------------------------------------
(* Conversions *)

CENTIGRADE_TO_K(t) == t + 27315
actual_k == [i \in 0..17 |-> 26815 + 500 * i]
(* The table of the device tree of the RTS3917, the same values. *)
thermal_k == actual_k

(* The first entry that is not below v, or the last; and the one before. *)
Entry(table, v) ==
  LET i == CHOOSE i \in 0..17 : (v <= table[i] \/ i = 17) /\ \A j \in 0..(i - 1) : v > table[j]
  IN  IF i > 0 THEN i - 1 ELSE i
Interpolate(v, from, to) ==
  LET i == Entry(from, v)
  IN  ((v - from[i]) * (to[i + 1] - to[i])) \div (from[i + 1] - from[i]) + to[i]
temp2code(k) == ((Interpolate(k, actual_k, thermal_k) - 27315) \div 100) * 1024
code2temp(c) == Interpolate((c \div 1024) * 100 + 27315, thermal_k, actual_k)

SYS_TM_OUT == degree * 1024
RTS_HYSTERESIS == 500
(* rts_thermal_update_config. *)
Window(i) ==
  LET low == temp2code(TripPoints[i]) IN
  [low |-> IF low > RTS_HYSTERESIS THEN low - RTS_HYSTERESIS ELSE 0,
   high |-> temp2code(TripPoints[i + 1]) + RTS_HYSTERESIS]

(* SYS_TM_CT_INT_FLAG comes back at once while the reading is outside. *)
Flag == SYS_TM_OUT < window.low \/ SYS_TM_OUT > window.high

-----------------------------------------------------------------------------
rts_thermal_probe ==
  /\ pc = "none" /\ pc' = "probed" /\ work' = {"init"}
  /\ UNCHANGED <<degree, window, on, index, told>>

rts_init_thermal ==
  /\ "init" \in work /\ work' = work \ {"init"}
  /\ index' = 0 /\ window' = Window(0) /\ on' = TRUE
  /\ UNCHANGED <<pc, degree, told>>

(* The handler compares the register, not the temperature, with the trip   *)
(* points.                                                                 *)
Step(code) ==
  IF code < TripPoints[index] THEN IF index > 0 THEN index - 1 ELSE index
  ELSE IF code > TripPoints[index + 1] /\ index < NumTrips - 2 THEN index + 1 ELSE index
rts_thermal_irq_handler ==
  /\ pc # "none" /\ pc # "removed" /\ on /\ Flag
  /\ on' = FALSE
  /\ IF index < NumTrips - 1
     THEN index' = Step(SYS_TM_OUT) /\ window' = Window(index')
     ELSE UNCHANGED <<index, window>>
  /\ work' = work \cup {"therm"}
  /\ UNCHANGED <<pc, degree, told>>

rts_ddrc_notify ==
  LET t == code2temp(SYS_TM_OUT) IN
  told' = IF t < TripPoints[0] THEN "low" ELSE IF t > TripPoints[1] THEN "high" ELSE told
rts_thermal_work ==
  /\ "therm" \in work /\ work' = work \ {"therm"}
  /\ rts_ddrc_notify /\ on' = TRUE
  /\ UNCHANGED <<pc, degree, window, index>>

(* rts_thermal_remove: the zone goes first, then the work is cancelled and *)
(* waited for; the work of init is not, and the interrupt is released only *)
(* after the driver's remove.                                              *)
Unregister ==
  /\ pc = "probed" /\ pc' = "unregistered"
  /\ UNCHANGED <<degree, window, on, index, work, told>>
rts_thermal_remove ==
  /\ pc = "unregistered" /\ pc' = "removed" /\ work' = work \ {"therm"}
  /\ UNCHANGED <<degree, window, on, index, told>>

Weather(d) ==
  /\ d # degree /\ degree' = d
  /\ UNCHANGED <<pc, window, on, index, work, told>>

RtsThermalInit ==
  /\ pc = "none" /\ degree \in Degrees /\ window = [low |-> 0, high |-> 0]
  /\ on = FALSE /\ index = 0 /\ work = {} /\ told = "none"
Works == rts_init_thermal \/ rts_thermal_work
RtsThermalNext ==
  \/ rts_thermal_probe \/ Works \/ rts_thermal_irq_handler
  \/ Unregister \/ rts_thermal_remove
  \/ \E d \in Degrees : Weather(d)

-----------------------------------------------------------------------------
RtsThermalTypeOK ==
  /\ pc \in {"none", "probed", "unregistered", "removed"} /\ degree \in Degrees
  /\ window \in [low : Nat, high : Nat] /\ on \in BOOLEAN
  /\ index \in 0..(NumTrips - 2) /\ work \subseteq {"init", "therm"}
  /\ told \in {"none", "low", "high"}

(* A chip that stays more than the hysteresis hotter than the second trip  *)
(* point, or colder than the first, is reported to the DDR controller:     *)
(* masking, moving the window and unmasking lose no crossing.              *)
TooHot == pc = "probed" /\ degree * 100 > TripPoints[1] - 27315 + 100
TooCold == pc = "probed" /\ degree * 100 < TripPoints[0] - 27315 - 100
DdrIsTold ==
  /\ []<>(told = "high" \/ ~TooHot)
  /\ []<>(told = "low" \/ ~TooCold)

(* As the comments in the handler have it, a reading colder than the       *)
(* window moves it one step down and a hotter one moves it up              *)
(* (rts_thermal_irq_handler).                                              *)
StepsTowards ==
  [][rts_thermal_irq_handler =>
      /\ code2temp(SYS_TM_OUT) < TripPoints[index] /\ index > 0 => index' = index - 1
      /\ code2temp(SYS_TM_OUT) > TripPoints[index + 1] /\ index < NumTrips - 2 => index' = index + 1
      ]_rtsThermalVars
=============================================================================

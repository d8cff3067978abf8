------------------------------ MODULE UbootEnvLoc -----------------------------
(***************************************************************************)
(* The choice of the place where the environment is kept: u-boot/env/env.c. *)
(* The configured locations are tried in the order of their priority; each  *)
(* lookup leaves its priority in gd->env_load_prio, and that is where a     *)
(* later save or erase goes.  Loading and saving themselves are UbootEnv's. *)
(***************************************************************************)
EXTENDS Integers, Sequences

CONSTANT Boards    \* env_locations of a board: a sequence of locations

\* What a location can be like: is a driver linked for it, what its init returns,
\* and does it have a load and a save function?
Locations == [driver: BOOLEAN, init: {"none", "ok", "err"}, load: BOOLEAN, save: BOOLEAN]

ASSUME BoardsAssumption == Boards \subseteq Seq(Locations)

VARIABLES locs,       \* env_locations and the drivers
          loadPrio,   \* gd->env_load_prio
          inited,     \* gd->env_has_init
          step,       \* where env_init and env_load are
          prio,       \* their loop variable
          ret,        \* ret of env_init
          best,       \* best_prio of env_load
          outcome,    \* history: what each location has answered to the load
          wrote       \* history: the location that the last save or erase went to

locVars == <<locs, loadPrio, inited, step, prio, ret, best, outcome, wrote>>
None == -1

\* env_get_location leaves its argument in gd->env_load_prio, unless it is past
\* the last location; env_driver_lookup fails there and without a driver.
Prio(p) == IF p < Len(locs) THEN p ELSE loadPrio
Found(p) == p < Len(locs) /\ locs[p + 1].driver

LocInit ==
    /\ locs \in Boards
    /\ loadPrio = 0 /\ inited = {} /\ step = "init" /\ prio = 0 /\ ret = "noent"
    /\ best = None
    /\ outcome = [p \in 0..(Len(locs) - 1) |-> "none"]
    /\ wrote = None

\* One location of the loop of env_init: a location without an init function
\* counts as initialised.
EnvInitOne ==
    /\ step = "init" /\ Found(prio)
    /\ loadPrio' = Prio(prio)
    /\ ret' = IF locs[prio + 1].init = "none" THEN ret ELSE locs[prio + 1].init
    /\ inited' = IF locs[prio + 1].init = "err" THEN inited ELSE inited \cup {prio}
    /\ prio' = prio + 1
    /\ UNCHANGED <<locs, step, best, outcome, wrote>>

\* The end of the loop: without any location, or with an error as the last
\* answer, board_init_f stops; otherwise env_relocate calls env_load later.
EnvInitEnds ==
    /\ step = "init" /\ ~Found(prio)
    /\ loadPrio' = Prio(prio)
    /\ step' = IF prio = 0 \/ ret = "err" THEN "hang" ELSE "load"
    /\ prio' = 0
    /\ UNCHANGED <<locs, inited, ret, best, outcome, wrote>>

Loads(p) == locs[p + 1].load /\ p \in inited

\* One location of the loop of env_load.
EnvLoadSkip ==
    /\ step = "load" /\ Found(prio) /\ ~Loads(prio)
    /\ loadPrio' = Prio(prio)
    /\ prio' = prio + 1
    /\ UNCHANGED <<locs, inited, step, ret, best, outcome, wrote>>

(* Mutated form: the last location with a bad CRC. *)
Better_Last(answer) == IF answer = "badcrc" THEN prio ELSE best
\* best_prio: the first location with a bad CRC.
Better(answer) == IF answer = "badcrc" /\ best = None THEN prio ELSE best

EnvLoadOne(answer) ==
    /\ step = "load" /\ Found(prio) /\ Loads(prio)
    /\ loadPrio' = Prio(prio)
    /\ outcome' = [outcome EXCEPT ![prio] = answer]
    /\ best' = Better(answer)
    /\ IF answer = "ok" THEN step' = "run" /\ prio' = prio
                        ELSE step' = step /\ prio' = prio + 1
    /\ UNCHANGED <<locs, inited, ret, wrote>>

\* No location had a good environment.
EnvLoadFails ==
    /\ step = "load" /\ ~Found(prio)
    /\ loadPrio' = IF best = None THEN 0 ELSE best
    /\ step' = "run"
    /\ UNCHANGED <<locs, inited, prio, ret, best, outcome, wrote>>

\* env_save, and env_erase, whose driver functions the boards leave out.
EnvSave ==
    /\ step = "run"
    /\ loadPrio' = Prio(loadPrio)
    /\ wrote' = IF Found(loadPrio) /\ locs[loadPrio + 1].save /\ loadPrio \in inited
                THEN loadPrio ELSE None
    /\ UNCHANGED <<locs, inited, step, prio, ret, best, outcome>>

LocNext ==
    \/ EnvInitOne \/ EnvInitEnds \/ EnvLoadSkip \/ EnvLoadFails \/ EnvSave
    \/ \E a \in {"ok", "badcrc", "err"}: EnvLoadOne(a)
    \/ step = "hang" /\ UNCHANGED locVars

LocSpec == LocInit /\ [][LocNext]_locVars

-----------------------------------------------------------------------------
\* The loops stay within the locations.
LocTypeOK ==
    /\ locs \in Boards
    /\ loadPrio \in Nat /\ prio \in 0..Len(locs) /\ inited \subseteq 0..(Len(locs) - 1)
    /\ step \in {"init", "load", "run", "hang"} /\ ret \in {"noent", "ok", "err"}
    /\ best \in 0..(Len(locs) - 1) \cup {None} /\ wrote \in Nat \cup {None}
    /\ outcome \in [0..(Len(locs) - 1) -> {"none", "ok", "badcrc", "err"}]

\* The first location with this answer, if any.
FirstWith(a) == {p \in DOMAIN outcome: outcome[p] = a /\ \A q \in 0..(p - 1): outcome[q] # a}
Right == IF FirstWith("ok") # {} THEN FirstWith("ok")
         ELSE IF FirstWith("badcrc") # {} THEN FirstWith("badcrc") ELSE {0}

\* "Next calls to env_save() will restore the environment at the right place":
\* a save goes to the location the environment was loaded from; if there was
\* none, to the first one whose environment had a bad CRC, and if there was none
\* either, to the location with the highest priority (env_load, env_save).
RightPlace == LocTypeOK /\ (step = "run" => loadPrio \in Right /\ wrote \in Right \cup {None})
=============================================================================

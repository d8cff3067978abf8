------------------------------- MODULE EnvStore -------------------------------
(***************************************************************************)
(* What the storage of the environment promises to env_load and env_save   *)
(* of u-boot/env/env.c, without saying how: one stored environment, which  *)
(* a save replaces as a whole.  A save that returns success has stored     *)
(* what was in memory.  One that fails, or that a power cut ends, has      *)
(* stored one of the environments that may be there: the one of the last   *)
(* successful save, or one that was tried since; where there is only one   *)
(* copy also the default one, which is what a lost environment reads as.   *)
(***************************************************************************)
CONSTANTS Envs,       \* environments
          Default     \* default_environment

VARIABLES double,     \* there are two copies
          on,         \* U-Boot runs
          env,        \* the environment in memory
          stored,     \* what a boot without read errors comes up with
          may,        \* what may be stored
          saving      \* a save is under way

storeVars == <<double, on, env, stored, may, saving>>

StoreInit ==
    /\ double \in BOOLEAN /\ on = FALSE /\ env = Default
    /\ stored \in Envs /\ may = {stored} /\ saving = FALSE

\* env_load.
Load ==
    /\ ~on /\ on' = TRUE
    /\ env' = stored /\ may' = {stored}
    /\ UNCHANGED <<double, stored, saving>>

\* env_load meets a read error: it settles for what it can read, and what is
\* stored stays, though later saves may start from an older copy.
LoadMisreads ==
    /\ ~on /\ on' = TRUE
    /\ env' \in Envs
    /\ \E e \in Envs: may' = may \cup {env', e}
    /\ UNCHANGED <<double, stored, saving>>

\* env_set, env_set_default.
Set ==
    /\ on /\ ~saving
    /\ env' \in Envs
    /\ UNCHANGED <<double, on, stored, may, saving>>

\* env_save, from its call to its return.
SaveBegins ==
    /\ on /\ ~saving /\ saving' = TRUE
    /\ may' = may \cup {env} \cup IF double THEN {} ELSE {Default}
    /\ UNCHANGED <<double, on, env, stored>>

FlashChanges ==
    /\ saving
    /\ stored' \in may
    /\ UNCHANGED <<double, on, env, may, saving>>

SaveSucceeds ==
    /\ saving /\ saving' = FALSE
    /\ stored = env /\ may' = {env}
    /\ UNCHANGED <<double, on, env, stored>>

SaveFails ==
    /\ saving /\ saving' = FALSE
    /\ stored' \in may
    /\ UNCHANGED <<double, on, env, may>>

PowerOff ==
    /\ on /\ on' = FALSE /\ saving' = FALSE
    /\ stored' \in IF saving THEN may ELSE {stored}
    /\ UNCHANGED <<double, env, may>>

StoreNext ==
    \/ Load \/ LoadMisreads \/ Set
    \/ SaveBegins \/ FlashChanges \/ SaveSucceeds \/ SaveFails \/ PowerOff

StoreSpec == StoreInit /\ [][StoreNext]_storeVars
=============================================================================

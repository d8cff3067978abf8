------------------------------- MODULE UbootEnv -------------------------------
(***************************************************************************)
(* The U-Boot environment in SPI NOR flash: u-boot/env/sf.c and the import *)
(* and export of u-boot/env/common.c.  The environment is one value; what  *)
(* flash holds is one copy of it, or two copies with a flag byte each when *)
(* CONFIG_ENV_OFFSET_REDUND is set.  A save is the sequence of flash       *)
(* operations of env_sf_save: every one of them can fail, with its work    *)
(* half done, and power can be cut during it.  A boot is env_sf_load,      *)
(* which can meet read errors.                                             *)
(***************************************************************************)
EXTENDS Naturals

CONSTANTS Values,     \* environments other than the built-in one
          Default,    \* default_environment
          Bad         \* the contents of a copy whose CRC does not match

ASSUME EnvAssumption == /\ Default \notin Values
                        /\ Bad \notin Values \cup {Default}

VARIABLES redundant,  \* CONFIG_ENV_OFFSET_REDUND
          embedded,   \* CONFIG_ENV_SECT_SIZE > CONFIG_ENV_SIZE
          copy,       \* the copies at CONFIG_ENV_OFFSET and .._REDUND
          rest,       \* is the data behind a copy in its sector intact?
          locked,     \* the write protection of the flash (non-volatile)
          htab,       \* env_htab: the environment of this boot
          envValid,   \* gd->env_valid: ENV_VALID = 1, ENV_REDUND = 2
          pc,         \* the next flash operation of env_sf_save
          new,        \* env_new: the exported environment
          buffer,     \* saved_buffer: is what it holds intact?
          accept,     \* history: what a boot may come up with
          hurt,       \* history: a save was stopped after its erase
          exposed     \* history: U-Boot was stopped, or gave up, unlocked

envConf == <<redundant, embedded>>
envVars == <<redundant, embedded, copy, rest, locked, htab, envValid, pc, new,
             buffer, accept, hurt, exposed>>

Envs == Values \cup {Default}
Copies == IF redundant THEN {1, 2} ELSE {1}
Saving == {"erase", "write", "rest", "obsolete", "done"}

\* env_import: a copy whose CRC does not match gives the default environment.
Import(c) == IF c.data = Bad THEN Default ELSE c.data

\* The test of env_import_redund on the flags of two copies that are both good.
NewestFlag(f1, f2) ==
    IF f1 = 255 /\ f2 = 0 THEN 2
    ELSE IF f2 = 255 /\ f1 = 0 THEN 1
    ELSE IF f2 > f1 THEN 2
    ELSE 1

\* env_import_redund without read errors: gd->env_valid, v before the call.
Choose(cs, v) ==
    IF cs[1].data = Bad
    THEN IF cs[2].data = Bad THEN v ELSE 2
    ELSE IF cs[2].data = Bad THEN 1 ELSE NewestFlag(cs[1].flags, cs[2].flags)

\* What a boot without read errors finds in the flash: env_init leaves 1 in
\* gd->env_valid.
Reload == IF redundant THEN Import(copy[Choose(copy, 1)]) ELSE Import(copy[1])

-----------------------------------------------------------------------------
\* The flash comes erased, or with environments another tool has written.
InitCopies == {[data |-> Bad, flags |-> 255]} \cup [data: Envs, flags: {0, 1}]

EnvInit ==
    /\ redundant \in BOOLEAN /\ embedded \in BOOLEAN
    /\ copy \in [{1, 2} -> InitCopies]
    /\ rest = [i \in {1, 2} |-> TRUE]
    /\ locked = TRUE
    /\ htab = Default /\ envValid = 1 /\ pc = "off" /\ new = Default
    /\ buffer = TRUE
    /\ accept = {Reload}
    /\ hurt = FALSE /\ exposed = FALSE

-----------------------------------------------------------------------------
\* The read errors a boot can meet: spi_flash_probe or malloc fail, one of the
\* copies or both cannot be read, himport_r fails.
Faults == {"none", "setup", "read1", "read2", "both", "import"}

\* gd->env_valid after the load.
LoadedValid(fault) ==
    CASE redundant /\ fault = "read1" -> 2
      [] redundant /\ fault \in {"none", "import"} -> Choose(copy, 1)
      [] OTHER -> 1

\* env_htab after the load: every error ends in env_set_default.
Loaded(fault) ==
    CASE fault = "none" -> Reload
      [] redundant /\ fault = "read1" -> Import(copy[2])
      [] redundant /\ fault = "read2" -> Import(copy[1])
      [] OTHER -> Default

\* The copy that the next save will not erase.
Spared(valid) == IF redundant THEN Import(copy[valid]) ELSE Default

\* Does the load get as far as self_copy (in the reset mode RES_MODE)?
Rescues(fault) ==
    IF redundant
    THEN /\ fault \in {"none", "read1", "read2"}
         /\ copy[LoadedValid(fault)].data # Bad
    ELSE fault \in {"none", "import"}

\* Power comes on: env_init, then env_sf_load.
Boot(fault) ==
    /\ pc = "off"
    /\ htab' = Loaded(fault)
    /\ envValid' = LoadedValid(fault)
    /\ accept' = IF fault = "none" THEN {Reload}
                 ELSE accept \cup {htab', Spared(envValid')}
    /\ pc' \in {"idle"} \cup IF Rescues(fault) THEN {"rescue"} ELSE {}
    /\ UNCHANGED <<envConf, copy, rest, locked, new, buffer, hurt, exposed>>

\* self_copy: the boot loader goes to flash, and an error return leaves the flash
\* unlocked; or the files of a container do, do_write_for_rescure, which leaves
\* the lock alone here: the environment it saves is saved as any other.
SelfCopy(how) ==
    /\ pc = "rescue"
    /\ pc' = "idle"
    /\ locked' = CASE how = "ok" -> TRUE [] how = "err" -> FALSE [] OTHER -> locked
    /\ exposed' = CASE how = "ok" -> FALSE [] how = "err" -> TRUE [] OTHER -> exposed
    /\ UNCHANGED <<envConf, copy, rest, htab, envValid, new, buffer, accept, hurt>>

\* The user changes the environment (env_set, env_set_default).
SetEnv(v) ==
    /\ pc = "idle"
    /\ htab' = v
    /\ UNCHANGED <<envConf, copy, rest, locked, envValid, pc, new, buffer, accept,
                   hurt, exposed>>

\* setup_flash_device fails in a save: the environment is the default one again.
SetupFails ==
    /\ pc = "idle"
    /\ htab' = Default
    /\ UNCHANGED <<envConf, copy, rest, locked, envValid, pc, new, buffer, accept,
                   hurt, exposed>>

(* Mutated form: writes the copy in use. *)
Target_InUse == IF redundant /\ envValid = 2 THEN 2 ELSE 1
\* The copy a save writes (env_new_offset); it makes the other one obsolete.
Target == IF redundant /\ envValid = 1 THEN 2 ELSE 1

\* What a boot may find from now until the save has returned success.
Attempt == accept \cup {htab} \cup IF redundant THEN {} ELSE {Default}

\* env_sf_save up to flash_unlock: the export, and the data that shares the
\* sector is read.  Without memory or when the read fails the save gives up at
\* its label done (without redundancy, and without memory, with ret = 0).
SaveStart ==
    /\ pc = "idle"
    /\ new' = htab
    /\ buffer' = IF embedded THEN rest[Target] ELSE TRUE
    /\ pc' = "erase"
    /\ locked' = FALSE
    /\ accept' = Attempt
    /\ UNCHANGED <<envConf, copy, rest, htab, envValid, hurt, exposed>>

SaveGivesUp ==
    /\ pc = "idle"
    /\ locked' = TRUE
    /\ exposed' = FALSE
    /\ UNCHANGED <<envConf, copy, rest, htab, envValid, pc, new, buffer, accept, hurt>>

-----------------------------------------------------------------------------
(* Mutated form: the other copy keeps its flag. *)
Obsoleted_Not(cs) == cs
\* What each operation of a save does to the flash.
Erased(cs) == [cs EXCEPT ![Target] = [data |-> Bad, flags |-> 255]]
Written(cs) == [cs EXCEPT ![Target] = [data |-> new, flags |-> 1]]
Obsoleted(cs) == [cs EXCEPT ![3 - Target].flags = 0]

\* What a stopped operation can leave behind: nothing done, everything done, or
\* a copy without a valid CRC.  A flag byte goes from 1 to 0 at once.
Stopped(op) ==
    CASE op = "erase" -> {copy, Erased(copy)}
      [] op = "write" -> {copy, Erased(copy), Written(copy)}
      [] op = "obsolete" -> {copy, Obsoleted(copy)}
      [] OTHER -> {copy}

\* The data that shares the sector is gone with the erase and comes back with
\* the second write.
RestErased == [rest EXCEPT ![Target] = rest[Target] /\ ~embedded]
(* Mutated form: the rest of the sector is not written back. *)
RestBack_Not == rest
RestBack == [rest EXCEPT ![Target] = buffer]

\* The step after a successful write of the environment.
AfterWrite == IF embedded THEN "rest" ELSE IF redundant THEN "obsolete" ELSE "done"

Erase ==
    /\ pc = "erase"
    /\ pc' = "write"
    /\ copy' = Erased(copy)
    /\ rest' = RestErased
    /\ UNCHANGED <<envConf, locked, htab, envValid, new, buffer, accept, hurt, exposed>>

Write ==
    /\ pc = "write"
    /\ pc' = AfterWrite
    /\ copy' = Written(copy)
    /\ UNCHANGED <<envConf, rest, locked, htab, envValid, new, buffer, accept, hurt,
                   exposed>>

WriteRest ==
    /\ pc = "rest"
    /\ pc' = IF redundant THEN "obsolete" ELSE "done"
    /\ rest' = RestBack
    /\ UNCHANGED <<envConf, copy, locked, htab, envValid, new, buffer, accept, hurt,
                   exposed>>

Obsolete ==
    /\ pc = "obsolete"
    /\ pc' = "done"
    /\ copy' = Obsoleted(copy)
    /\ UNCHANGED <<envConf, rest, locked, htab, envValid, new, buffer, accept, hurt,
                   exposed>>

\* gd->env_valid changes sides.
Toggled == IF redundant THEN 3 - envValid ELSE envValid

\* The save has succeeded: gd->env_valid, then the label done.
SaveDone ==
    /\ pc = "done"
    /\ pc' = "idle"
    /\ envValid' = Toggled
    /\ locked' = TRUE
    /\ exposed' = FALSE
    /\ accept' = {new}
    /\ UNCHANGED <<envConf, copy, rest, htab, new, buffer, hurt>>

\* flash_lock at the label done.
LockAtDone == TRUE

\* An operation returns an error: straight to the label done.
Fail ==
    /\ pc \in Saving \ {"done"}
    /\ pc' = "idle"
    /\ copy' \in Stopped(pc)
    /\ rest' = IF pc = "erase" THEN RestErased ELSE rest
    /\ locked' = LockAtDone
    /\ exposed' = FALSE
    /\ hurt' = TRUE
    /\ UNCHANGED <<envConf, htab, envValid, new, buffer, accept>>

\* Power is cut at the prompt or in the middle of an operation.
PowerCut ==
    /\ pc # "off"
    /\ pc' = "off"
    /\ copy' \in Stopped(pc)
    /\ rest' = IF pc = "erase" THEN RestErased ELSE rest
    /\ hurt' = (hurt \/ pc \in Saving)
    /\ exposed' = (exposed \/ ~locked)
    /\ UNCHANGED <<envConf, locked, htab, envValid, new, buffer, accept>>

EnvNext ==
    \/ \E f \in Faults: Boot(f)
    \/ \E how \in {"ok", "err", "files"}: SelfCopy(how)
    \/ \E v \in Envs: SetEnv(v)
    \/ SetupFails \/ SaveStart \/ SaveGivesUp
    \/ Erase \/ Write \/ WriteRest \/ Obsolete \/ SaveDone
    \/ Fail \/ PowerCut

EnvSpec == EnvInit /\ [][EnvNext]_envVars

-----------------------------------------------------------------------------
\* The copies hold an environment or a bad CRC with a known flag byte, and
\* gd->env_valid names one of the two copies (env_sf_save toggles it).
EnvTypeOK ==
    /\ redundant \in BOOLEAN /\ embedded \in BOOLEAN
    /\ copy \in [{1, 2} -> [data: Envs \cup {Bad}, flags: {0, 1, 255}]]
    /\ rest \in [{1, 2} -> BOOLEAN]
    /\ locked \in BOOLEAN
    /\ htab \in Envs /\ new \in Envs
    /\ envValid \in {1, 2}
    /\ pc \in Saving \cup {"off", "idle", "rescue"}
    /\ buffer \in BOOLEAN
    /\ accept \subseteq Envs
    /\ hurt \in BOOLEAN /\ exposed \in BOOLEAN

\* A save is atomic.  Wherever power is cut and whichever operation of the save
\* fails, the next boot finds the environment of the last save that succeeded
\* or the one of a save that was attempted since, never an older one, and with
\* two copies never the default one.  (A boot that meets a read error may
\* settle for the copy it can read, and saves from there; with one copy a save
\* that is stopped costs the environment.)
EnvAtomic == Reload \in accept

\* The copy that gd->env_valid names is one a boot may use: it is what is left
\* while the other copy is erased and written, whatever sequence of failed
\* saves, read errors and power cuts came before.
SparedGood == redundant /\ pc # "off" => Import(copy[envValid]) \in accept

\* Flash is written while it is unlocked, or the write would be lost, and at the
\* prompt it is locked, unless power was cut in a save or self_copy gave up.
LockDiscipline ==
    /\ pc \in Saving => ~locked
    /\ pc = "idle" => locked \/ exposed

\* env_sf_save and env_sf_load implement the storage of EnvStore: a boot without
\* read errors finds what was stored, a save that returns success has stored the
\* environment in memory, and one that is stopped at any of its flash operations
\* has stored it or left one that could be there before.
Store == INSTANCE EnvStore WITH
    double <- redundant, on <- pc # "off", env <- htab, stored <- Reload,
    may <- accept, saving <- pc \in Saving
SavesAtomically == Store!StoreSpec

\* The data that shares a sector with the environment survives every save that
\* is not stopped half way.
RestSurvives == ~hurt => \A i \in {1, 2}: pc \in {"off", "idle"} => rest[i]

\* A save gives back the rest of the sector it shares, and no operation leaves
\* the flash unlocked (env_sf_save, and its label done).
FlashKept == EnvTypeOK /\ RestSurvives /\ LockDiscipline
=============================================================================

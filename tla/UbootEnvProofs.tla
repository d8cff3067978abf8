---------------------------- MODULE UbootEnvProofs ----------------------------
(***************************************************************************)
(* Proofs about the environment in flash, for every set of environments:   *)
(* a save is atomic, and the storage implements EnvStore.  Then the choice *)
(* of its location, for every board, and the update command, for every     *)
(* layout of the flash and all container files that fit it.                *)
(***************************************************************************)
EXTENDS UbootEnv, UbootUpdate, UbootEnvLoc, WellFoundedInduction, TLAPS

FlashCopies == [{1, 2} -> [data: Envs \cup {Bad}, flags: {0, 1, 255}]]

\* What is in the copy that a save writes, between its operations.
TargetInv ==
    /\ pc = "write" => copy[Target].data = Bad
    /\ pc \in {"rest", "obsolete", "done"} =>
           copy[Target].data = new /\ copy[Target].flags = 1
    /\ pc = "done" /\ redundant => copy[3 - Target].flags = 0
    /\ pc = "obsolete" => redundant

\* While a save runs, a boot may find its environment, and with one copy the
\* default one.
AttemptInv ==
    /\ pc \in Saving => new \in accept
    /\ pc \in Saving /\ ~redundant => Default \in accept
    /\ pc \in Saving => new = htab

EnvInv == EnvTypeOK /\ EnvAtomic /\ SparedGood /\ TargetInv /\ AttemptInv

-----------------------------------------------------------------------------
\* Every step keeps the types: each action assigns within them.
LEMMA TypeStep == EnvTypeOK /\ [EnvNext]_envVars => EnvTypeOK'
<1> SUFFICES ASSUME EnvTypeOK, [EnvNext]_envVars PROVE EnvTypeOK'
    OBVIOUS
<1> USE DEF EnvTypeOK, Envs, Saving, envConf
<1>t. Target \in {1, 2} /\ 3 - Target \in {1, 2}
    BY DEF Target
<1>c. \A i \in {1, 2}: Import(copy[i]) \in Envs
    BY DEF Import
<1>n. Choose(copy, 1) \in {1, 2}
    BY DEF Choose, NewestFlag
<1>r. Reload \in Envs
    BY <1>c, <1>n DEF Reload
<1>e. Erased(copy) \in FlashCopies
    BY <1>t DEF Erased, FlashCopies
<1>w. Written(copy) \in FlashCopies
    BY <1>t DEF Written, FlashCopies
<1>o. Obsoleted(copy) \in FlashCopies
    BY <1>t DEF Obsoleted, FlashCopies
<1>s. ASSUME NEW op, copy' \in Stopped(op) PROVE copy' \in FlashCopies
    BY <1>s, <1>e, <1>w, <1>o DEF Stopped, FlashCopies
<1>x. RestErased \in [{1, 2} -> BOOLEAN] /\ RestBack \in [{1, 2} -> BOOLEAN]
    BY <1>t DEF RestErased, RestBack
<1>1. ASSUME NEW f \in Faults, Boot(f) PROVE EnvTypeOK'
  <2>1. Loaded(f) \in Envs
      BY <1>c, <1>r DEF Loaded
  <2>2. LoadedValid(f) \in {1, 2}
      BY <1>n DEF LoadedValid
  <2>3. envValid' \in {1, 2} /\ htab' \in Envs
      BY <1>1, <2>1, <2>2 DEF Boot
  <2>4. Spared(envValid') \in Envs
      BY <1>c, <2>3 DEF Spared
  <2>5. accept' \subseteq Envs
      BY <1>1, <1>r, <2>3, <2>4 DEF Boot
  <2> QED
      BY <1>1, <2>3, <2>5 DEF Boot
<1>2. ASSUME NEW how \in {"ok", "err", "files"}, SelfCopy(how) PROVE EnvTypeOK'
  <2>1. locked' \in BOOLEAN /\ exposed' \in BOOLEAN
      BY <1>2 DEF SelfCopy
  <2> QED
      BY <1>2, <2>1 DEF SelfCopy
<1>3. ASSUME NEW v \in Envs, SetEnv(v) PROVE EnvTypeOK'
    BY <1>3 DEF SetEnv
<1>4. CASE SetupFails
    BY <1>4 DEF SetupFails
<1>5. CASE SaveStart
  <2>1. buffer' \in BOOLEAN
      BY <1>5, <1>t DEF SaveStart
  <2>2. accept' \subseteq Envs
      BY <1>5 DEF SaveStart, Attempt
  <2> QED
      BY <1>5, <2>1, <2>2 DEF SaveStart
<1>6. CASE SaveGivesUp
    BY <1>6 DEF SaveGivesUp
<1>7. CASE Erase
    BY <1>7, <1>e, <1>x DEF Erase, FlashCopies
<1>8. CASE Write
    BY <1>8, <1>w DEF Write, AfterWrite, FlashCopies
<1>9. CASE WriteRest
    BY <1>9, <1>x DEF WriteRest
<1>10. CASE Obsolete
    BY <1>10, <1>o DEF Obsolete, FlashCopies
<1>11. CASE SaveDone
  <2>1. envValid' \in {1, 2}
      BY <1>11 DEF SaveDone, Toggled
  <2>2. accept' \subseteq Envs
      BY <1>11 DEF SaveDone
  <2> QED
      BY <1>11, <2>1, <2>2 DEF SaveDone
<1>12. CASE Fail
  <2>1. rest' \in [{1, 2} -> BOOLEAN]
      BY <1>12, <1>x DEF Fail
  <2>2. copy' \in FlashCopies
      BY <1>12, <1>s DEF Fail
  <2> QED
      BY <1>12, <2>1, <2>2 DEF Fail, FlashCopies, LockAtDone
<1>13. CASE PowerCut
  <2>1. rest' \in [{1, 2} -> BOOLEAN]
      BY <1>13, <1>x DEF PowerCut
  <2>2. copy' \in FlashCopies
      BY <1>13, <1>s DEF PowerCut
  <2>3. hurt' \in BOOLEAN /\ exposed' \in BOOLEAN
      BY <1>13 DEF PowerCut
  <2> QED
      BY <1>13, <2>1, <2>2, <2>3 DEF PowerCut, FlashCopies
<1>14. CASE UNCHANGED envVars
    BY <1>14 DEF envVars
<1> QED
    BY <1>1, <1>2, <1>3, <1>4, <1>5, <1>6, <1>7, <1>8, <1>9, <1>10, <1>11, <1>12,
       <1>13, <1>14 DEF EnvNext
-----------------------------------------------------------------------------
\* What env_import_redund makes of two copies.
LEMMA PickAny ==
  ASSUME NEW cs \in FlashCopies
  PROVE  Import(cs[Choose(cs, 1)]) \in {Import(cs[1]), Import(cs[2])}
  BY DEF Choose, NewestFlag, FlashCopies

\* A copy without a valid CRC is not looked at.
LEMMA PickOther ==
  ASSUME NEW cs \in FlashCopies, NEW t \in {1, 2}, cs[t].data = Bad
  PROVE  Import(cs[Choose(cs, 1)]) = Import(cs[3 - t])
<1>1. CASE t = 1
    BY <1>1 DEF Choose, Import
<1>2. CASE t = 2
    BY <1>2 DEF Choose, Import
<1> QED
    BY <1>1, <1>2

\* A copy that is active wins over one that is obsolete.
LEMMA PickActive ==
  ASSUME NEW cs \in FlashCopies, NEW t \in {1, 2},
         cs[t].data # Bad, cs[t].flags = 1, cs[3 - t].flags = 0
  PROVE  Import(cs[Choose(cs, 1)]) = cs[t].data
<1>1. CASE t = 1
    BY <1>1 DEF Choose, NewestFlag, Import
<1>2. CASE t = 2
    BY <1>2 DEF Choose, NewestFlag, Import
<1> QED
    BY <1>1, <1>2

\* The copy a save writes and the one it spares are the two copies.
LEMMA TwoSides ==
  ASSUME EnvTypeOK
  PROVE  /\ Target \in {1, 2}
         /\ redundant => Target = 3 - envValid /\ 3 - Target = envValid
         /\ ~redundant => Target = 1
  BY DEF EnvTypeOK, Target

\* Every operation of a save, finished or stopped half way, leaves a flash in
\* which a boot finds something it may find.
LEMMA FlashSafe ==
  ASSUME EnvInv, EnvTypeOK', pc \in Saving,
         redundant' = redundant, envValid' = envValid, accept' = accept,
         \/ copy' = copy \/ copy' = Erased(copy) \/ copy' = Written(copy)
         \/ copy' = Obsoleted(copy) /\ redundant /\ pc = "obsolete"
  PROVE  EnvAtomic' /\ (redundant => Import(copy'[envValid]) \in accept)
<1> DEFINE T == Target  S == 3 - Target
<1>t. T \in {1, 2} /\ S \in {1, 2} /\ (redundant => S = envValid) /\ (~redundant => T = 1)
    BY TwoSides DEF EnvInv
<1>c. copy \in FlashCopies /\ copy' \in FlashCopies
    BY DEF EnvInv, EnvTypeOK, FlashCopies
<1>a. new \in accept /\ (~redundant => Default \in accept) /\ new # Bad
    BY EnvAssumption DEF EnvInv, AttemptInv, EnvTypeOK, Envs
<1>s. redundant => Import(copy[S]) \in accept
    BY <1>t DEF EnvInv, SparedGood, Saving
<1> HIDE DEF T, S
<1>1. CASE copy' = copy
    BY <1>1 DEF EnvInv, EnvAtomic, Reload, SparedGood, Saving
<1>2. CASE copy' = Erased(copy)
  <2>1. copy'[T].data = Bad /\ copy'[S] = copy[S]
      BY <1>2, <1>t, <1>c DEF Erased, T, S, FlashCopies
  <2>2. CASE redundant
    <3>1. Import(copy'[Choose(copy', 1)]) = Import(copy'[S])
        BY <2>1, <1>c, <1>t, PickOther DEF T, S
    <3> QED
        BY <2>1, <2>2, <3>1, <1>s, <1>t DEF EnvAtomic, Reload
  <2>3. CASE ~redundant
      BY <2>1, <2>3, <1>a, <1>t DEF EnvAtomic, Reload, Import
  <2> QED
      BY <2>2, <2>3
<1>3. CASE copy' = Written(copy)
  <2>1. copy'[T].data = new /\ copy'[S] = copy[S]
      BY <1>3, <1>t, <1>c DEF Written, T, S, FlashCopies
  <2>2. Import(copy'[T]) = new
      BY <2>1, <1>a DEF Import
  <2>3. CASE redundant
    <3>1. Import(copy'[1]) \in accept /\ Import(copy'[2]) \in accept
        BY <2>1, <2>2, <2>3, <1>a, <1>s, <1>t DEF T, S
    <3>2. Import(copy'[Choose(copy', 1)]) \in accept
        BY <3>1, <1>c, PickAny
    <3> QED
        BY <2>3, <3>1, <3>2 DEF EnvAtomic, Reload, EnvInv, EnvTypeOK
  <2>4. CASE ~redundant
      BY <2>2, <2>4, <1>a, <1>t DEF EnvAtomic, Reload
  <2> QED
      BY <2>3, <2>4
<1>4. CASE copy' = Obsoleted(copy) /\ redundant /\ pc = "obsolete"
  <2>1. \A i \in {1, 2}: copy'[i].data = copy[i].data
      BY <1>4, <1>t, <1>c DEF Obsoleted, T, S, FlashCopies
  <2>2. \A i \in {1, 2}: Import(copy'[i]) = Import(copy[i])
      BY <2>1 DEF Import
  <2>3. Import(copy[T]) = new
      BY <1>4, <1>a DEF EnvInv, TargetInv, Import, T
  <2>4. Import(copy'[1]) \in accept /\ Import(copy'[2]) \in accept
      BY <2>2, <2>3, <1>4, <1>a, <1>s, <1>t DEF T, S
  <2>5. Import(copy'[Choose(copy', 1)]) \in accept
      BY <2>4, <1>c, PickAny
  <2> QED
      BY <1>4, <2>4, <2>5 DEF EnvAtomic, Reload, EnvInv, EnvTypeOK
<1> QED
    BY <1>1, <1>2, <1>3, <1>4

\* When the last operation of a save is done, a boot finds its environment.
LEMMA StoredWhenDone ==
  ASSUME EnvInv, pc = "done"
  PROVE  Reload = new
<1>t. /\ copy \in FlashCopies /\ new # Bad /\ Target \in {1, 2}
      /\ ~redundant => Target = 1
    BY EnvAssumption, TwoSides DEF EnvInv, EnvTypeOK, Envs, FlashCopies
<1>1. copy[Target].data = new /\ copy[Target].flags = 1
    BY DEF EnvInv, TargetInv
<1>2. CASE redundant
  <2>1. copy[3 - Target].flags = 0
      BY <1>2 DEF EnvInv, TargetInv
  <2>2. Import(copy[Choose(copy, 1)]) = new
      BY <2>1, <1>1, <1>t, PickActive
  <2> QED
      BY <1>2, <2>2 DEF Reload
<1>3. CASE ~redundant
    BY <1>1, <1>3, <1>t DEF Reload, Import
<1> QED
    BY <1>2, <1>3

-----------------------------------------------------------------------------
\* The invariant holds initially.
LEMMA InvInit == EnvInit => EnvInv
<1> SUFFICES ASSUME EnvInit PROVE EnvInv
    OBVIOUS
<1>1. copy \in FlashCopies
    BY DEF EnvInit, InitCopies, FlashCopies, Envs
<1>2. Import(copy[1]) \in Envs /\ Import(copy[2]) \in Envs
    BY <1>1 DEF Import, FlashCopies, Envs
<1>3. Reload \in Envs
    BY <1>1, <1>2, PickAny DEF Reload
<1>4. EnvTypeOK
    BY <1>1, <1>3 DEF EnvInit, EnvTypeOK, FlashCopies, Envs, Saving
<1> QED
    BY <1>4 DEF EnvInit, EnvInv, EnvAtomic, SparedGood, TargetInv, AttemptInv, Saving

\* Every step keeps the invariant, one case per action.
LEMMA InvStep == EnvInv /\ [EnvNext]_envVars => EnvInv'
<1> SUFFICES ASSUME EnvInv, [EnvNext]_envVars PROVE EnvInv'
    OBVIOUS
<1>t. EnvTypeOK /\ EnvTypeOK'
    BY TypeStep DEF EnvInv
<1>s. /\ Target \in {1, 2}
      /\ redundant => Target = 3 - envValid /\ 3 - Target = envValid
      /\ ~redundant => Target = 1
    BY <1>t, TwoSides
<1>c. copy \in FlashCopies /\ copy' \in FlashCopies
    BY <1>t DEF EnvTypeOK, FlashCopies
<1>n. new # Bad
    BY <1>t, EnvAssumption DEF EnvTypeOK, Envs
<1>1. ASSUME NEW f \in Faults, Boot(f) PROVE EnvInv'
  <2>1. copy' = copy /\ redundant' = redundant /\ pc' \in {"idle", "rescue"}
      BY <1>1 DEF Boot, envConf
  <2>2. Reload' = Reload
      BY <2>1 DEF Reload
  <2>3. EnvAtomic'
      BY <1>1, <2>2 DEF Boot, EnvAtomic, EnvInv
  <2>4. redundant => Import(copy[envValid']) \in accept'
    <3>1. CASE f = "none" /\ redundant
        BY <1>1, <3>1 DEF Boot, LoadedValid, Reload
    <3>2. CASE f # "none" /\ redundant
        BY <1>1, <3>2 DEF Boot, Spared
    <3> QED
        BY <3>1, <3>2
  <2> QED
      BY <1>t, <2>1, <2>3, <2>4 DEF EnvInv, SparedGood, TargetInv, AttemptInv, Saving
<1>2. ASSUME NEW how \in {"ok", "err", "files"}, SelfCopy(how) PROVE EnvInv'
    BY <1>2, <1>t DEF SelfCopy, EnvInv, EnvAtomic, Reload, SparedGood, TargetInv,
                      AttemptInv, Saving, envConf
<1>3. ASSUME NEW v \in Envs, SetEnv(v) PROVE EnvInv'
    BY <1>3, <1>t DEF SetEnv, EnvInv, EnvAtomic, Reload, SparedGood, TargetInv,
                      AttemptInv, Saving, envConf
<1>4. CASE SetupFails
    BY <1>4, <1>t DEF SetupFails, EnvInv, EnvAtomic, Reload, SparedGood, TargetInv,
                      AttemptInv, Saving, envConf
<1>5. CASE SaveStart
    BY <1>5, <1>t DEF SaveStart, Attempt, EnvInv, EnvAtomic, Reload, SparedGood,
                      TargetInv, AttemptInv, Saving, envConf
<1>6. CASE SaveGivesUp
    BY <1>6, <1>t DEF SaveGivesUp, EnvInv, EnvAtomic, Reload, SparedGood, TargetInv,
                      AttemptInv, Saving, envConf
<1>7. CASE Erase
  <2>1. EnvAtomic' /\ (redundant => Import(copy'[envValid]) \in accept)
      BY <1>7, <1>t, FlashSafe DEF Erase, envConf, Saving
  <2>2. copy'[Target].data = Bad
      BY <1>7, <1>s, <1>c DEF Erase, Erased, FlashCopies
  <2>3. TargetInv'
      BY <1>7, <2>2 DEF Erase, TargetInv, Target, envConf
  <2> QED
      BY <1>7, <1>t, <2>1, <2>3 DEF Erase, EnvInv, SparedGood, AttemptInv, Saving, envConf
<1>8. CASE Write
  <2>1. EnvAtomic' /\ (redundant => Import(copy'[envValid]) \in accept)
      BY <1>8, <1>t, FlashSafe DEF Write, envConf, Saving
  <2>2. copy'[Target].data = new /\ copy'[Target].flags = 1
      BY <1>8, <1>s, <1>c DEF Write, Written, FlashCopies
  <2>3. pc' \in {"rest", "obsolete", "done"} /\ (pc' = "done" => ~redundant)
        /\ (pc' = "obsolete" => redundant)
      BY <1>8, <1>t DEF Write, AfterWrite, EnvTypeOK
  <2>4. TargetInv'
      BY <1>8, <2>2, <2>3 DEF Write, TargetInv, Target, envConf
  <2> QED
      BY <1>8, <1>t, <2>1, <2>3, <2>4 DEF Write, EnvInv, SparedGood, AttemptInv, Saving, envConf
<1>9. CASE WriteRest
  <2>1. pc' \in {"obsolete", "done"} /\ (pc' = "done" => ~redundant)
      BY <1>9 DEF WriteRest
  <2> QED
      BY <1>9, <1>t, <2>1 DEF WriteRest, EnvInv, EnvAtomic, Reload, SparedGood, TargetInv,
                              Target, AttemptInv, Saving, envConf
<1>10. CASE Obsolete
  <2>0. redundant
      BY <1>10 DEF Obsolete, EnvInv, TargetInv
  <2>1. EnvAtomic' /\ (redundant => Import(copy'[envValid]) \in accept)
      BY <1>10, <1>t, <2>0, FlashSafe DEF Obsolete, envConf, Saving
  <2>2. copy'[Target] = copy[Target] /\ copy'[3 - Target].flags = 0
      BY <1>10, <1>s, <1>c DEF Obsolete, Obsoleted, FlashCopies
  <2>3. TargetInv'
      BY <1>10, <2>2 DEF Obsolete, EnvInv, TargetInv, Target, envConf
  <2> QED
      BY <1>10, <1>t, <2>1, <2>3 DEF Obsolete, EnvInv, SparedGood, AttemptInv, Saving, envConf
<1>11. CASE SaveDone
  <2>1. copy' = copy /\ redundant' = redundant /\ pc' = "idle" /\ accept' = {new}
      BY <1>11 DEF SaveDone, envConf
  <2>2. copy[Target].data = new /\ copy[Target].flags = 1
      BY <1>11 DEF SaveDone, EnvInv, TargetInv
  <2>3. Import(copy[Target]) = new
      BY <2>2, <1>n DEF Import
  <2>4. CASE redundant
    <3>1. copy[3 - Target].flags = 0
        BY <1>11, <2>4 DEF SaveDone, EnvInv, TargetInv
    <3>2. Import(copy[Choose(copy, 1)]) = new
        BY <3>1, <2>2, <1>c, <1>s, <1>n, PickActive
    <3>3. envValid' = Target
        BY <1>11, <2>4, <1>s DEF SaveDone, Toggled
    <3> QED
        BY <1>t, <2>1, <2>3, <2>4, <3>2, <3>3
        DEF EnvInv, EnvAtomic, Reload, SparedGood, TargetInv, AttemptInv, Saving
  <2>5. CASE ~redundant
      BY <1>t, <1>s, <2>1, <2>3, <2>5
      DEF EnvInv, EnvAtomic, Reload, SparedGood, TargetInv, AttemptInv, Saving
  <2> QED
      BY <2>4, <2>5
<1>12. CASE Fail
  <2>1. \/ copy' = copy \/ copy' = Erased(copy) \/ copy' = Written(copy)
        \/ copy' = Obsoleted(copy) /\ redundant /\ pc = "obsolete"
      BY <1>12 DEF Fail, Stopped, EnvInv, TargetInv
  <2>2. EnvAtomic' /\ (redundant => Import(copy'[envValid]) \in accept)
      BY <1>12, <1>t, <2>1, FlashSafe DEF Fail, envConf, Saving
  <2> QED
      BY <1>12, <1>t, <2>2 DEF Fail, EnvInv, SparedGood, TargetInv, AttemptInv, Saving, envConf
<1>13. CASE PowerCut
  <2>1. EnvAtomic'
    <3>1. CASE pc \in Saving
      <4>1. \/ copy' = copy \/ copy' = Erased(copy) \/ copy' = Written(copy)
            \/ copy' = Obsoleted(copy) /\ redundant /\ pc = "obsolete"
          BY <1>13 DEF PowerCut, Stopped, EnvInv, TargetInv
      <4> QED
          BY <1>13, <1>t, <3>1, <4>1, FlashSafe DEF PowerCut, envConf
    <3>2. CASE pc \notin Saving
      <4>1. copy' = copy
          BY <1>13, <3>2 DEF PowerCut, Stopped, Saving
      <4> QED
          BY <1>13, <4>1 DEF PowerCut, EnvInv, EnvAtomic, Reload, envConf
    <3> QED
        BY <3>1, <3>2
  <2> QED
      BY <1>13, <1>t, <2>1 DEF PowerCut, EnvInv, SparedGood, TargetInv, AttemptInv, Saving
<1>14. CASE UNCHANGED envVars
    BY <1>14 DEF envVars, EnvInv, EnvTypeOK, EnvAtomic, Reload, SparedGood, TargetInv,
                 Target, AttemptInv, Saving
<1> QED
    BY <1>1, <1>2, <1>3, <1>4, <1>5, <1>6, <1>7, <1>8, <1>9, <1>10, <1>11, <1>12,
       <1>13, <1>14 DEF EnvNext

\* A boot finds the environment of the last save that succeeded or of one that
\* was attempted since (EnvAtomic), for every set of environments, wherever
\* env_sf_save is stopped.
THEOREM EnvAtomicCorrect == EnvSpec => []EnvAtomic
<1>1. EnvInv => EnvAtomic
    BY DEF EnvInv
<1> QED
    BY <1>1, InvInit, InvStep, PTL DEF EnvSpec

\* The copy that a save spares is one that a boot may use (SparedGood).
THEOREM SparedGoodCorrect == EnvSpec => []SparedGood
<1>1. EnvInv => SparedGood
    BY DEF EnvInv
<1> QED
    BY <1>1, InvInit, InvStep, PTL DEF EnvSpec

-----------------------------------------------------------------------------
\* The write protection at each program point; nothing but a save, a power cut
\* and self_copy touches it.
LockInv ==
    /\ pc \in Saving => ~locked
    /\ pc \notin Saving => locked \/ exposed

\* As long as no save was stopped: what a save has read of its sector is intact,
\* only the target sector misses its rest, and only between the erase and the
\* second write.
RestInv ==
    ~hurt =>
    /\ pc \in Saving => buffer
    /\ pc = "rest" => embedded
    /\ \A i \in {1, 2}: rest[i] \/ (i = Target /\ embedded /\ pc \in {"write", "rest"})

\* Every step keeps the lock as its label says.
LEMMA LockStep == EnvTypeOK /\ LockInv /\ [EnvNext]_envVars => LockInv'
<1> SUFFICES ASSUME EnvTypeOK, LockInv, [EnvNext]_envVars PROVE LockInv'
    OBVIOUS
<1> USE DEF EnvTypeOK, LockInv, Saving
<1>1. CASE \E f \in Faults: Boot(f)
    BY <1>1 DEF Boot
<1>2. CASE \E how \in {"ok", "err", "files"}: SelfCopy(how)
    BY <1>2 DEF SelfCopy
<1>3. CASE (\E v \in Envs: SetEnv(v)) \/ SetupFails \/ SaveStart \/ SaveGivesUp
    BY <1>3 DEF SetEnv, SetupFails, SaveStart, SaveGivesUp
<1>4. CASE Erase \/ Write \/ WriteRest \/ Obsolete
    BY <1>4 DEF Erase, Write, AfterWrite, WriteRest, Obsolete
<1>5. CASE SaveDone \/ Fail
    BY <1>5 DEF SaveDone, Fail, LockAtDone
<1>6. CASE PowerCut
    BY <1>6 DEF PowerCut
<1>7. CASE UNCHANGED envVars
    BY <1>7 DEF envVars
<1> QED
    BY <1>1, <1>2, <1>3, <1>4, <1>5, <1>6, <1>7 DEF EnvNext

\* Every step keeps what it knows of the data that shares a sector.
LEMMA RestStep == EnvTypeOK /\ RestInv /\ [EnvNext]_envVars => RestInv'
<1> SUFFICES ASSUME EnvTypeOK, RestInv, [EnvNext]_envVars PROVE RestInv'
    OBVIOUS
<1> USE DEF EnvTypeOK, RestInv, Saving, envConf
<1>t. Target \in {1, 2}
    BY DEF Target
<1>1. CASE \E f \in Faults: Boot(f)
    BY <1>1 DEF Boot
<1>2. CASE \E how \in {"ok", "err", "files"}: SelfCopy(how)
    BY <1>2 DEF SelfCopy
<1>3. CASE (\E v \in Envs: SetEnv(v)) \/ SetupFails \/ SaveGivesUp
    BY <1>3 DEF SetEnv, SetupFails, SaveGivesUp
<1>4. CASE SaveStart
    BY <1>4, <1>t DEF SaveStart
<1>5. ASSUME Erase \/ Write \/ WriteRest \/ Obsolete PROVE RestInv'
  <2>1. Target' = Target
      BY <1>5 DEF Target, Erase, Write, WriteRest, Obsolete
  <2>2. CASE Erase
      BY <2>1, <2>2, <1>t DEF Erase, RestErased
  <2>3. CASE Write
    <3>1. pc' \in {"rest", "obsolete", "done"} /\ (pc' = "rest" <=> embedded)
        BY <2>3 DEF Write, AfterWrite
    <3>2. pc = "write" /\ UNCHANGED <<embedded, rest, buffer, hurt>>
        BY <2>3 DEF Write
    <3> QED
        BY <2>1, <3>1, <3>2
  <2>4. CASE WriteRest
      BY <2>1, <2>4, <1>t DEF WriteRest, RestBack
  <2>5. CASE Obsolete
      BY <2>1, <2>5 DEF Obsolete
  <2> QED
      BY <1>5, <2>2, <2>3, <2>4, <2>5
<1>6. CASE SaveDone
    BY <1>6 DEF SaveDone
<1>7. CASE Fail
    BY <1>7 DEF Fail
<1>8. CASE PowerCut
    BY <1>8, <1>t DEF PowerCut, RestErased
<1>9. CASE UNCHANGED envVars
    BY <1>9 DEF envVars, Target
<1> QED
    BY <1>1, <1>2, <1>3, <1>4, <1>5, <1>6, <1>7, <1>8, <1>9 DEF EnvNext

\* A save that is not stopped gives back the data that shares the sector, and
\* flash is unlocked in a save and in no other place, unless power was cut or
\* self_copy gave up (FlashKept), for every set of environments.
THEOREM FlashKeptCorrect == EnvSpec => []FlashKept
<1>1. EnvInit => LockInv /\ RestInv
    BY DEF EnvInit, LockInv, RestInv, Saving
<1>2. EnvInv => EnvTypeOK
    BY DEF EnvInv
<1>3. EnvTypeOK /\ LockInv /\ RestInv => FlashKept
    BY DEF EnvTypeOK, LockInv, RestInv, FlashKept, RestSurvives, LockDiscipline, Saving
<1> QED
    BY <1>1, <1>2, <1>3, InvInit, InvStep, LockStep, RestStep, PTL DEF EnvSpec

-----------------------------------------------------------------------------
\* Every step of the flash is a step of the storage, or does not show there.
LEMMA StoreStep ==
  ASSUME EnvInv, EnvInv', [EnvNext]_envVars
  PROVE  [Store!StoreNext]_(Store!storeVars)
<1>t. /\ Reload \in accept /\ Reload' \in accept' /\ accept \subseteq Envs
      /\ Reload \in Envs /\ htab \in Envs /\ htab' \in Envs
    BY DEF EnvInv, EnvAtomic, EnvTypeOK
<1>1. ASSUME NEW f \in Faults, Boot(f) PROVE Store!Load \/ Store!LoadMisreads
  <2>1. Reload' = Reload /\ pc = "off" /\ pc' \in {"idle", "rescue"} /\ redundant' = redundant
      BY <1>1 DEF Boot, Reload, envConf
  <2>2. CASE f = "none"
    <3>1. htab' = Reload /\ accept' = {Reload}
        BY <1>1, <2>2 DEF Boot, Loaded
    <3> QED
        BY <2>1, <3>1 DEF Store!Load, Saving
  <2>3. CASE f # "none"
    <3>1. accept' = accept \cup {htab', Spared(envValid')} /\ accept' \subseteq Envs
        BY <1>1, <2>3 DEF Boot, EnvInv, EnvTypeOK
    <3>2. Spared(envValid') \in Envs
        BY <3>1
    <3> QED
        BY <1>t, <2>1, <3>1, <3>2 DEF Store!LoadMisreads, Saving
  <2> QED
      BY <2>2, <2>3
<1>2. ASSUME NEW how \in {"ok", "err", "files"}, SelfCopy(how) PROVE UNCHANGED Store!storeVars
    BY <1>2 DEF SelfCopy, Store!storeVars, Reload, Saving, envConf
<1>3. ASSUME NEW v \in Envs, SetEnv(v) PROVE Store!Set
    BY <1>3, <1>t DEF SetEnv, Store!Set, Reload, Saving, envConf
<1>4. ASSUME SetupFails PROVE Store!Set
    BY <1>4, <1>t DEF SetupFails, Store!Set, Reload, Saving, envConf
<1>5. ASSUME SaveStart PROVE Store!SaveBegins
    BY <1>5 DEF SaveStart, Attempt, Store!SaveBegins, Reload, Saving, envConf
<1>6. ASSUME SaveGivesUp PROVE UNCHANGED Store!storeVars
    BY <1>6 DEF SaveGivesUp, Store!storeVars, Reload, Saving, envConf
<1>7. ASSUME Erase \/ Write \/ WriteRest \/ Obsolete PROVE Store!FlashChanges
  <2>1. /\ redundant' = redundant /\ htab' = htab /\ accept' = accept
        /\ pc \in Saving /\ pc' \in Saving /\ pc # "off" /\ pc' # "off"
      BY <1>7 DEF Erase, Write, WriteRest, Obsolete, AfterWrite, Saving, envConf
  <2> QED
      BY <1>t, <2>1 DEF Store!FlashChanges
<1>8. ASSUME SaveDone PROVE Store!SaveSucceeds
  <2>1. Reload = new /\ new = htab
      BY <1>8, StoredWhenDone DEF SaveDone, EnvInv, AttemptInv, Saving
  <2> QED
      BY <1>8, <2>1 DEF SaveDone, Store!SaveSucceeds, Reload, Saving, envConf
<1>9. ASSUME Fail PROVE Store!SaveFails
  <2>1. /\ redundant' = redundant /\ htab' = htab /\ accept' = accept
        /\ pc \in Saving /\ pc # "off" /\ pc' = "idle"
      BY <1>9 DEF Fail, Saving, envConf
  <2> QED
      BY <1>t, <2>1 DEF Store!SaveFails, Saving
<1>10. ASSUME PowerCut PROVE Store!PowerOff
  <2>1. /\ redundant' = redundant /\ htab' = htab /\ accept' = accept
        /\ pc # "off" /\ pc' = "off"
      BY <1>10 DEF PowerCut, envConf
  <2>2. pc \notin Saving => Reload' = Reload
      BY <1>10 DEF PowerCut, Stopped, Saving, Reload, envConf
  <2> QED
      BY <1>t, <2>1, <2>2 DEF Store!PowerOff, Saving
<1>11. ASSUME UNCHANGED envVars PROVE UNCHANGED Store!storeVars
    BY <1>11 DEF envVars, Store!storeVars, Reload, Saving
<1> QED
    BY <1>1, <1>2, <1>3, <1>4, <1>5, <1>6, <1>7, <1>8, <1>9, <1>10, <1>11
    DEF EnvNext, Store!StoreNext

\* env_sf_save and env_sf_load implement the storage of EnvStore
\* (SavesAtomically), for every set of environments.
THEOREM SavesAtomicallyCorrect == EnvSpec => SavesAtomically
<1>1. EnvInit => Store!StoreInit
  <2> SUFFICES ASSUME EnvInit PROVE Store!StoreInit
      OBVIOUS
  <2>1. Reload \in Envs
      BY InvInit DEF EnvInv, EnvAtomic, EnvTypeOK
  <2> QED
      BY <2>1 DEF EnvInit, Store!StoreInit, Saving
<1> QED
    BY <1>1, InvInit, InvStep, StoreStep, PTL DEF EnvSpec, SavesAtomically, Store!StoreSpec
-----------------------------------------------------------------------------
\* The location of the environment.  During env_load no location before prio
\* had a good environment, those from prio on have not been asked, and best is
\* the first one with a bad CRC.
LoadInv ==
    /\ step = "init" => /\ best = None
                        /\ \A p \in DOMAIN outcome: outcome[p] = "none"
    /\ step \in {"init", "load"} =>
          /\ wrote = None
          /\ \A p \in DOMAIN outcome: outcome[p] # "ok" /\ (p >= prio => outcome[p] = "none")
          /\ best = None => \A p \in DOMAIN outcome: outcome[p] # "badcrc"
          /\ best # None => best \in FirstWith("badcrc")
LocInv == RightPlace /\ LoadInv

LEMMA LocInitHolds == LocInit => LocInv
<1> SUFFICES ASSUME LocInit PROVE LocInv
  OBVIOUS
<1>1. locs \in Seq(Locations) /\ Len(locs) \in Nat
  BY BoardsAssumption DEF LocInit
<1>2. LocTypeOK
  BY <1>1 DEF LocInit, LocTypeOK, None
<1>3. LoadInv
  BY <1>1 DEF LocInit, LoadInv
<1> QED
  BY <1>2, <1>3 DEF LocInit, LocInv, RightPlace

\* Prio leaves the number of a location as it is.
LEMMA PrioSame ==
  ASSUME LocTypeOK
  PROVE  /\ Prio(loadPrio) = loadPrio /\ Len(locs) \in Nat /\ locs \in Seq(Locations)
         /\ Found(prio) => prio \in 0..(Len(locs) - 1) /\ Prio(prio) = prio
                           /\ locs[prio + 1] \in Locations
         /\ Prio(prio) \in Nat
<1>1. locs \in Seq(Locations) /\ Len(locs) \in Nat
  BY BoardsAssumption DEF LocTypeOK
<1> QED
  BY <1>1 DEF LocTypeOK, Prio, Found

LEMMA LocStep == LocInv /\ [LocNext]_locVars => LocInv'
<1> SUFFICES ASSUME LocInv, [LocNext]_locVars PROVE LocInv'
  OBVIOUS
<1>0. LocTypeOK
  BY DEF LocInv, RightPlace
<1>p. /\ Prio(loadPrio) = loadPrio /\ Len(locs) \in Nat /\ Prio(prio) \in Nat
      /\ Found(prio) => prio \in 0..(Len(locs) - 1) /\ Prio(prio) = prio
                        /\ locs[prio + 1] \in Locations
  BY <1>0, PrioSame
<1>1. CASE EnvInitOne
  <2>1. LocTypeOK'
    BY <1>0, <1>p, <1>1 DEF EnvInitOne, LocTypeOK, Locations
  <2>2. LoadInv'
    BY <1>0, <1>p, <1>1 DEF EnvInitOne, LocInv, LoadInv, LocTypeOK
  <2> QED
    BY <2>1, <2>2, <1>1 DEF EnvInitOne, LocInv, RightPlace
<1>2. CASE EnvInitEnds
  <2>1. LocTypeOK'
    BY <1>0, <1>p, <1>2 DEF EnvInitEnds, LocTypeOK
  <2>2. LoadInv'
    BY <1>0, <1>p, <1>2 DEF EnvInitEnds, LocInv, LoadInv, LocTypeOK
  <2> QED
    BY <2>1, <2>2, <1>2 DEF EnvInitEnds, LocInv, RightPlace
<1>3. CASE EnvLoadSkip
  <2>1. LocTypeOK'
    BY <1>0, <1>p, <1>3 DEF EnvLoadSkip, LocTypeOK
  <2>2. FirstWith("badcrc")' = FirstWith("badcrc")
    BY <1>3 DEF EnvLoadSkip, FirstWith
  <2>3. LoadInv'
    BY <1>0, <1>p, <1>3, <2>2 DEF EnvLoadSkip, LocInv, LoadInv, LocTypeOK
  <2> QED
    BY <2>1, <2>3, <1>3 DEF EnvLoadSkip, LocInv, RightPlace
<1>4. ASSUME NEW a \in {"ok", "badcrc", "err"}, EnvLoadOne(a) PROVE LocInv'
  <2>1. /\ prio \in 0..(Len(locs) - 1) /\ loadPrio' = prio /\ step = "load" /\ wrote' = None
        /\ outcome' = [outcome EXCEPT ![prio] = a] /\ best' = Better(a)
        /\ DOMAIN outcome = 0..(Len(locs) - 1) /\ locs' = locs
    BY <1>4, <1>p, <1>0 DEF EnvLoadOne, LocInv, LoadInv, LocTypeOK
  <2>2. outcome'[prio] = a /\ \A p \in DOMAIN outcome: p # prio => outcome'[p] = outcome[p]
    BY <2>1
  <2>3. DOMAIN outcome' = DOMAIN outcome
    BY <2>1
  <2>4. LocTypeOK'
    <3>1. outcome' \in [0..(Len(locs) - 1) -> {"none", "ok", "badcrc", "err"}]
      BY <2>1, <1>0 DEF LocTypeOK
    <3> QED
      BY <1>0, <1>p, <1>4, <2>1, <3>1 DEF EnvLoadOne, LocTypeOK, Better
  <2>5. CASE a = "ok"
    <3>1. prio \in FirstWith("ok")'
      BY <2>1, <2>2, <2>3, <2>5 DEF LocInv, LoadInv, FirstWith
    <3>2. loadPrio' \in Right' /\ wrote' \in (Right \cup {None})'
      BY <3>1, <2>1 DEF Right
    <3>3. step' = "run"
      BY <1>4, <2>5 DEF EnvLoadOne
    <3>4. LoadInv'
      BY <3>3 DEF LoadInv
    <3> QED
      BY <2>4, <3>2, <3>4 DEF LocInv, RightPlace
  <2>6. CASE a # "ok"
    <3>1. step' = "load" /\ prio' = prio + 1
      BY <1>4, <2>6 DEF EnvLoadOne
    <3>2. \A p \in DOMAIN outcome': outcome'[p] # "ok" /\ (p >= prio' => outcome'[p] = "none")
      BY <2>1, <2>2, <2>3, <2>6, <3>1 DEF LocInv, LoadInv
    <3>3. best' = None => \A p \in DOMAIN outcome': outcome'[p] # "badcrc"
      BY <2>1, <2>2, <2>3 DEF LocInv, LoadInv, Better, None
    <3>4. ASSUME best' # None PROVE best' \in FirstWith("badcrc")'
      <4>1. CASE best = None
        <5>1. a = "badcrc" /\ best' = prio
          BY <4>1, <3>4, <2>1 DEF Better
        <5> QED
          BY <5>1, <4>1, <2>1, <2>2, <2>3 DEF LocInv, LoadInv, FirstWith
      <4>2. CASE best # None
        <5>1. best' = best /\ best \in FirstWith("badcrc")
          BY <4>2, <2>1 DEF Better, LocInv, LoadInv
        <5>2. best \in DOMAIN outcome /\ outcome[best] = "badcrc"
              /\ \A q \in 0..(best - 1): outcome[q] # "badcrc"
          BY <5>1 DEF FirstWith
        <5>3. outcome[prio] = "none"
          BY <2>1 DEF LocInv, LoadInv
        <5>4. best < prio
          <6>1. best >= prio => outcome[best] = "none"
            BY <5>2, <2>1 DEF LocInv, LoadInv
          <6> QED
            BY <6>1, <5>2, <2>1
        <5> QED
          BY <5>1, <5>2, <5>4, <2>1, <2>2, <2>3 DEF FirstWith
      <4> QED
        BY <4>1, <4>2
    <3>5. LoadInv'
      BY <3>1, <3>2, <3>3, <3>4, <2>1 DEF LoadInv
    <3> QED
      BY <2>4, <3>1, <3>5 DEF LocInv, RightPlace
  <2> QED
    BY <2>5, <2>6
<1>5. CASE EnvLoadFails
  <2>1. LocTypeOK'
    BY <1>0, <1>p, <1>5 DEF EnvLoadFails, LocTypeOK, None
  <2>2. outcome' = outcome /\ step = "load" /\ step' = "run" /\ wrote' = wrote
        /\ loadPrio' = IF best = None THEN 0 ELSE best
    BY <1>5 DEF EnvLoadFails
  <2>3. FirstWith("badcrc")' = FirstWith("badcrc") /\ FirstWith("ok")' = FirstWith("ok")
    BY <2>2 DEF FirstWith
  <2>4. FirstWith("ok") = {}
    BY <2>2 DEF FirstWith, LocInv, LoadInv
  <2>5. best = None => FirstWith("badcrc") = {}
    BY <2>2 DEF FirstWith, LocInv, LoadInv
  <2>6. best # None => best \in FirstWith("badcrc")
    BY <2>2 DEF LocInv, LoadInv
  <2>7. loadPrio' \in Right'
    BY <2>2, <2>3, <2>4, <2>5, <2>6 DEF Right
  <2>8. wrote' = None
    BY <2>2 DEF LocInv, LoadInv
  <2>9. LoadInv'
    BY <2>2 DEF LoadInv
  <2> QED
    BY <2>1, <2>7, <2>8, <2>9 DEF LocInv, RightPlace
<1>6. CASE EnvSave
  <2>1. step = "run" /\ step' = step /\ outcome' = outcome /\ loadPrio' = loadPrio
        /\ wrote' \in {loadPrio, None}
    BY <1>6, <1>p DEF EnvSave
  <2>2. Right' = Right
    BY <2>1 DEF Right, FirstWith
  <2>3. LocTypeOK'
    BY <1>0, <2>1, <1>6, Zenon DEF EnvSave, LocTypeOK
  <2>4. LoadInv'
    BY <2>1 DEF LoadInv
  <2>5. loadPrio \in Right
    BY <2>1 DEF LocInv, RightPlace
  <2> QED
    BY <2>1, <2>2, <2>3, <2>4, <2>5 DEF LocInv, RightPlace
<1>7. CASE UNCHANGED locVars
  <2>1. UNCHANGED <<locs, loadPrio, inited, step, prio, ret, best, outcome, wrote>>
    BY <1>7 DEF locVars
  <2>2. Right' = Right /\ FirstWith("badcrc")' = FirstWith("badcrc")
    BY <2>1 DEF Right, FirstWith
  <2>3. LocTypeOK'
    BY <1>0, <2>1 DEF LocTypeOK
  <2>4. LoadInv'
    BY <2>1, <2>2 DEF LocInv, LoadInv
  <2> QED
    BY <2>1, <2>2, <2>3, <2>4 DEF LocInv, RightPlace
<1> QED
  BY <1>1, <1>2, <1>3, <1>4, <1>5, <1>6, <1>7 DEF LocNext

\* On every board a save goes to the location that the environment was loaded
\* from, and without one to the first that env_load found damaged (env_load,
\* env_save).
THEOREM RightPlaceCorrect == LocSpec => []RightPlace
<1>1. LocInv => RightPlace
  BY DEF LocInv
<1> QED
  BY LocInitHolds, LocStep, <1>1, PTL DEF LocSpec
-----------------------------------------------------------------------------
\* The update command.
UpdPlaces ==
    /\ saved \in DtbPlaces /\ env \in DtbPlaces /\ before \in [Places -> Images]
    /\ file \in Seq(Sections)
\* No device tree in flash places the kernel on itself.
TreesSafe ==
    \A p \in Places: flash[p].kind = "dtb" => flash[p].ver # 0 /\ KernelHome[flash[p].ver] # p

\* The device tree in memory is the one that the next boot will find; so it is
\* between commands unless something failed, and after a success.
Agreed == memFdt = FdtAt(flash, saved) /\ env = saved
Sound == told # 0 \/ ~stopped => Agreed

\* What the three single updates have received.
OneTree ==
    /\ file = <<[kind |-> "dtb", ver |-> memFdt, place |-> env, len |-> 1]>>
    /\ memFdt # 0 /\ KernelHome[memFdt] # env /\ told = 0
OneOther ==
    \E k \in {"kernel", "uboot"}, v \in Versions, p \in Places:
       /\ file = <<[kind |-> k, ver |-> v, place |-> p, len |-> 1]>>
       /\ told # 0 \/ ~stopped => p # saved
OneInv ==
    /\ cmd \in {"idle", "dtbsave", "write"} => index = 0 /\ left = 0
    /\ cmd = "idle" => Sound /\ file = NoFile
    /\ cmd = "dtbsave" => OneTree \/ (file = NoFile /\ stopped /\ told = 0)
    /\ cmd = "write" => \/ OneTree /\ (savedOk => saved = env)
                        \/ (OneOther \/ file = NoFile) /\ Sound

\* Where `update all' is: the device tree of its file has been met or not.
Met == {j \in DtbSections(file): j < index \/ (j = index /\ cmd = "allwrite")}
AllInv ==
    cmd \in {"all", "allwrite"} =>
       /\ file \in Files /\ index \in 1..(Len(file) + 1) /\ told = 0
       /\ left = Sizes(file)[Len(file)] - Sizes(file)[index - 1]
       /\ flash = FlashAfter(before, file)[index - 1]
       /\ cmd = "allwrite" => index <= Len(file) /\ file[index].kind # "end"
       /\ Met = {} => ~savedOk /\ Sound
       /\ \A j \in Met: /\ memFdt = file[j].ver /\ env = file[j].place
                         /\ stopped /\ (savedOk => saved = env)
       /\ \A j \in DtbSections(file): j < index => flash[file[j].place] = Image("dtb", file[j].ver)

UpdInv == UpdTypeOK /\ UpdPlaces /\ TreesSafe /\ DtbWhereToldSo /\ OneInv /\ AllInv

\* Induction: a set of numbers that has 0 and, up to n, the successor of every
\* element has all numbers up to n.
LEMMA LeastNumber ==
  ASSUME NEW T, T \subseteq Nat, T # {}
  PROVE  \E x \in T: \A y \in T: x <= y
<1> DEFINE R == {ss \in Nat \X Nat: ss[1] < ss[2]}
<1>1. IsWellFoundedOn(R, Nat)
  BY NatLessThanWellFounded DEF OpToRel
<1>2. PICK x \in T: \A y \in T: ~(<<y, x>> \in R)
  <2> HIDE DEF R
  <2> QED BY <1>1, WFMin
<1>3. ASSUME NEW y \in T PROVE x <= y
  <2>1. x \in Nat /\ y \in Nat
    OBVIOUS
  <2>2. ~(<<y, x>> \in R)
    BY <1>2
  <2> QED BY <2>1, <2>2
<1> QED BY <1>3

LEMMA CountingUp ==
  ASSUME NEW S, NEW n \in Nat, 0 \in S, \A i \in 0..(n - 1): i \in S => i + 1 \in S
  PROVE  \A i \in 0..n: i \in S
<1> SUFFICES ASSUME (0..n) \ S # {} PROVE FALSE
  OBVIOUS
<1>1. PICK x \in (0..n) \ S: \A y \in (0..n) \ S: x <= y
  <2>1. (0..n) \ S \subseteq Nat
    OBVIOUS
  <2> QED BY <2>1, LeastNumber
<1> QED BY <1>1

\* The lengths of the first sections of a file add up.
IsSizes(f, s) == s = [i \in 0..Len(f) |-> IF i = 0 THEN 0 ELSE s[i - 1] + f[i].len + SectionHeader]

LEMMA FileSections ==
  ASSUME NEW f \in Files
  PROVE  /\ f \in Seq(Sections) /\ Len(f) \in Nat /\ DOMAIN f = 1..Len(f)
         /\ \A i \in 1..Len(f): f[i] \in Sections /\ f[i].len \in Nat /\ f[i].place \in Places
                                 /\ f[i].ver \in Versions \cup {0}
                                 /\ f[i].kind \in {"dtb", "kernel", "uboot", "end"}
<1>1. f \in Seq(Sections)
  BY UpdateAssumption
<1>2. \A i \in 1..Len(f): f[i] \in Sections
  BY <1>1
<1> QED
  BY <1>1, <1>2 DEF Sections

LEMMA SizesExist ==
  ASSUME NEW f \in Files
  PROVE  \E s \in [0..Len(f) -> Nat]: IsSizes(f, s)
<1> DEFINE n == Len(f)
           Upto(k, s) == s[0] = 0 /\ \A i \in 1..k: s[i] = s[i - 1] + f[i].len + 1
           G == {k \in 0..n: \E s \in [0..n -> Nat]: Upto(k, s)}
<1>0. n \in Nat /\ \A i \in 1..n: f[i].len \in Nat
  BY FileSections
<1>1. 0 \in G
  <2> DEFINE s == [i \in 0..n |-> 0]
  <2>1. s \in [0..n -> Nat] /\ Upto(0, s)
    BY <1>0
  <2> HIDE DEF s, Upto
  <2> QED BY <2>1, <1>0
<1>2. ASSUME NEW k \in 0..(n - 1), k \in G PROVE k + 1 \in G
  <2>1. PICK s \in [0..n -> Nat]: Upto(k, s)
    BY <1>2
  <2> DEFINE t == [s EXCEPT ![k + 1] = s[k] + f[k + 1].len + 1]
  <2>2. t \in [0..n -> Nat]
    BY <1>0
  <2>3. Upto(k + 1, t)
    BY <1>0, <2>1
  <2> HIDE DEF t, Upto
  <2> QED BY <2>2, <2>3, <1>0
<1>3. n \in G
  <2> HIDE DEF G, n
  <2> QED BY <1>0, <1>1, <1>2, CountingUp
<1>4. PICK s \in [0..n -> Nat]: Upto(n, s)
  BY <1>3
<1>5. IsSizes(f, s)
  BY <1>0, <1>4 DEF IsSizes, SectionHeader
<1> QED BY <1>5

LEMMA SizesAre ==
  ASSUME NEW f \in Files
  PROVE  LET n == Len(f) IN
         /\ Sizes(f) \in [0..n -> Nat] /\ Sizes(f)[0] = 0
         /\ \A i \in 1..n: Sizes(f)[i] = Sizes(f)[i - 1] + f[i].len + 1
         /\ \A i \in 0..(n - 1): Sizes(f)[i] < Sizes(f)[n]
<1> DEFINE n == Len(f)
           s == Sizes(f)
<1>0. n \in Nat /\ \A i \in 1..n: f[i].len \in Nat
  BY FileSections
<1>1. IsSizes(f, s)
  <2>1. \E z: IsSizes(f, z)
    BY SizesExist
  <2>2. s = CHOOSE z: IsSizes(f, z)
    BY Zenon DEF Sizes, IsSizes
  <2> QED BY <2>1, <2>2
<1> HIDE DEF s
<1>2. s[0] = 0 /\ \A i \in 1..n: s[i] = s[i - 1] + f[i].len + 1
  BY <1>0, <1>1 DEF IsSizes, SectionHeader
<1>3. \A i \in 0..n: s[i] \in Nat
  <2> DEFINE G == {i \in 0..n: s[i] \in Nat}
  <2>1. 0 \in G
    BY <1>0, <1>2
  <2>2. ASSUME NEW i \in 0..(n - 1), i \in G PROVE i + 1 \in G
    <3>1. s[i + 1] = s[i] + f[i + 1].len + 1
      BY <1>0, <1>2
    <3> QED BY <3>1, <2>2, <1>0
  <2>3. \A i \in 0..n: i \in G
    <3> HIDE DEF G, n
    <3> QED BY <1>0, <2>1, <2>2, CountingUp
  <2> QED BY <2>3
<1>4. s \in [0..n -> Nat]
  BY <1>1, <1>3 DEF IsSizes
<1>5. \A i \in 0..(n - 1): s[i] < s[n]
  <2> DEFINE G == {d \in 0..n: d = 0 \/ s[n - d] < s[n]}
  <2>1. 0 \in G
    BY <1>0
  <2>2. ASSUME NEW d \in 0..(n - 1), d \in G PROVE d + 1 \in G
    <3>1. s[n - d] = s[n - d - 1] + f[n - d].len + 1
      BY <1>0, <1>2
    <3>2. s[n - d] \in Nat /\ s[n - d - 1] \in Nat /\ s[n] \in Nat /\ f[n - d].len \in Nat
      BY <1>0, <1>3
    <3>3. s[n - d] <= s[n]
      BY <2>2, <1>0, <3>2
    <3>4. s[n - (d + 1)] < s[n]
      <4>1. n - (d + 1) = n - d - 1
        BY <1>0
      <4> QED BY <4>1, <3>1, <3>2, <3>3
    <3> QED BY <3>4, <1>0
  <2>3. \A d \in 0..n: d \in G
    <3> HIDE DEF G, n
    <3> QED BY <1>0, <2>1, <2>2, CountingUp
  <2>4. ASSUME NEW i \in 0..(n - 1) PROVE s[i] < s[n]
    <3>1. n - i \in 0..n /\ n - i # 0 /\ n - (n - i) = i
      BY <1>0
    <3> QED BY <3>1, <2>3
  <2> QED BY <2>4
<1> QED BY <1>2, <1>4, <1>5 DEF s

\* Writing the sections one after the other.
AnyImage == [kind: {"none", "dtb", "kernel", "uboot", "end"}, ver: Versions \cup {0}]
IsAfter(fl, f, g) ==
    g = [i \in 0..Len(f) |-> IF i = 0 THEN fl
                             ELSE [g[i - 1] EXCEPT ![f[i].place] = Image(f[i].kind, f[i].ver)]]

LEMMA AfterExists ==
  ASSUME NEW f \in Files, NEW fl \in [Places -> AnyImage]
  PROVE  \E g: IsAfter(fl, f, g)
<1> DEFINE n == Len(f)
           Next1(g, i) == [g[i - 1] EXCEPT ![f[i].place] = Image(f[i].kind, f[i].ver)]
           Upto(k, g) == g[0] = fl /\ \A i \in 1..k: g[i] = Next1(g, i)
           Flashes == [Places -> AnyImage]
           G == {k \in 0..n: \E g \in [0..n -> Flashes]: Upto(k, g)}
<1>0. n \in Nat
  BY FileSections
<1>1. 0 \in G
  <2> DEFINE g == [i \in 0..n |-> fl]
  <2>1. g \in [0..n -> Flashes] /\ Upto(0, g)
    BY <1>0
  <2> HIDE DEF g, Upto, Flashes
  <2> QED BY <2>1, <1>0
<1>2. ASSUME NEW k \in 0..(n - 1), k \in G PROVE k + 1 \in G
  <2>1. PICK g \in [0..n -> Flashes]: Upto(k, g)
    BY <1>2
  <2> DEFINE x == Next1(g, k + 1)
             h == [g EXCEPT ![k + 1] = x]
  <2>2. x \in Flashes
    <3>1. g[k] \in Flashes /\ (k + 1) - 1 = k
      BY <1>0
    <3>2. Image(f[k + 1].kind, f[k + 1].ver) \in AnyImage
      <4>1. k + 1 \in 1..n
        BY <1>0
      <4> QED BY <4>1, FileSections DEF AnyImage, Image
    <3> QED BY <3>1, <3>2
  <2>3. h \in [0..n -> Flashes]
    <3> HIDE DEF x, Flashes
    <3> QED BY <2>2, <1>0
  <2>4. h[0] = fl /\ h[k + 1] = x /\ \A i \in 0..k: h[i] = g[i]
    <3> HIDE DEF x, Next1, Flashes
    <3> QED BY <1>0, <2>1
  <2>5. ASSUME NEW i \in 1..(k + 1) PROVE h[i] = Next1(h, i)
    <3>1. h[i - 1] = g[i - 1]
      BY <2>4
    <3>2. Next1(h, i) = Next1(g, i)
      BY <3>1
    <3>3. CASE i = k + 1
      BY <3>2, <3>3, <2>4
    <3>4. CASE i # k + 1
      <4>1. i \in 1..k /\ h[i] = g[i]
        BY <3>4, <2>4
      <4>2. g[i] = Next1(g, i)
        BY <4>1, <2>1
      <4> QED BY <4>1, <4>2, <3>2
    <3> QED BY <3>3, <3>4
  <2>6. Upto(k + 1, h)
    BY <2>4, <2>5
  <2> HIDE DEF h, Upto, Flashes
  <2> QED BY <2>3, <2>6, <1>0
<1>3. n \in G
  <2> HIDE DEF G, n
  <2> QED BY <1>0, <1>1, <1>2, CountingUp
<1>4. PICK g \in [0..n -> Flashes]: Upto(n, g)
  BY <1>3
<1>5. IsAfter(fl, f, g)
  <2>1. \A i \in 0..n: g[i] = IF i = 0 THEN fl ELSE Next1(g, i)
    <3> HIDE DEF Next1
    <3> QED BY <1>4, <1>0
  <2>2. g = [i \in 0..n |-> g[i]]
    BY <1>4
  <2> QED BY <2>1, <2>2 DEF IsAfter
<1> QED BY <1>5

LEMMA AfterIs ==
  ASSUME NEW f \in Files, NEW fl \in [Places -> AnyImage]
  PROVE  LET g == FlashAfter(fl, f) IN
         /\ g[0] = fl
         /\ \A i \in 1..Len(f): g[i] = [g[i - 1] EXCEPT ![f[i].place] = Image(f[i].kind, f[i].ver)]
<1> DEFINE g == FlashAfter(fl, f)
<1>1. \E h: IsAfter(fl, f, h)
  BY AfterExists
<1>2. g = CHOOSE h: IsAfter(fl, f, h)
  BY Zenon DEF FlashAfter, IsAfter
<1>3. IsAfter(fl, f, g)
  BY <1>1, <1>2
<1> HIDE DEF g
<1>4. Len(f) \in Nat
  BY FileSections
<1>5. g[0] = fl
  BY <1>3, <1>4 DEF IsAfter
<1>6. ASSUME NEW i \in 1..Len(f)
      PROVE  g[i] = [g[i - 1] EXCEPT ![f[i].place] = Image(f[i].kind, f[i].ver)]
  <2>1. i \in 0..Len(f) /\ i # 0
    BY <1>4
  <2> QED BY <1>3, <2>1 DEF IsAfter
<1> QED BY <1>5, <1>6 DEF g

-----------------------------------------------------------------------------
LEMMA Modulo ==
  ASSUME NEW x \in Nat, x < Words
  PROVE  x % Words = x /\ (x + Words) % Words = x
BY UpdateAssumption

LEMMA TreePlaces ==
  /\ DtbPlaces \subseteq Places /\ 0 \notin DtbPlaces
  /\ FdtFlashAddr \in DtbPlaces
  /\ \A v \in Versions: Home[v] # 0 => Home[v] \in DtbPlaces
  /\ \A f \in Files: \A i \in DtbSections(f): f[i].place \in DtbPlaces
<1>1. ASSUME NEW f \in Files, NEW i \in DtbSections(f)
      PROVE  f[i].place \in Places /\ f[i].place # 0 /\ f[i].place \in DtbPlaces
  <2>1. i \in DOMAIN f /\ f[i].kind = "dtb"
    BY DEF DtbSections
  <2>2. f[i].place \in Places
    BY <2>1, FileSections
  <2>3. f[i].place # 0
    BY <2>1, FilesAssumption
  <2>4. f[i].place \in DtbPlaces
    BY DEF DtbPlaces
  <2> QED BY <2>2, <2>3, <2>4
<1>2. ASSUME NEW v \in Versions, Home[v] # 0
      PROVE  Home[v] \in Places /\ Home[v] \in DtbPlaces
  BY <1>2, UpdateAssumption DEF DtbPlaces
<1>3. FdtFlashAddr \in DtbPlaces /\ FdtFlashAddr \in Places \ {0}
  BY UpdateAssumption DEF DtbPlaces
<1>4. ASSUME NEW p \in DtbPlaces PROVE p \in Places /\ p # 0
  <2>1. \/ p = FdtFlashAddr
        \/ \E v \in Versions: Home[v] # 0 /\ p = Home[v]
        \/ \E f \in Files: \E i \in DtbSections(f): p = f[i].place
    BY DEF DtbPlaces
  <2> QED BY <2>1, <1>1, <1>2, <1>3
<1> QED BY <1>1, <1>2, <1>3, <1>4

\* What a write leaves elsewhere, stopped or not.
LEMMA PartlyIs ==
  ASSUME NEW p \in Places, flash \in [Places -> Images], NEW fl \in Partly(p), TreesSafe
  PROVE  /\ fl \in [Places -> Images] /\ \A q \in Places: q # p => fl[q] = flash[q]
         /\ \A q \in Places: fl[q].kind = "dtb" => fl[q].ver # 0 /\ KernelHome[fl[q].ver] # q
<1>1. Blank \in Images /\ Blank.kind # "dtb"
  BY DEF Blank, Image, Images
<1>2. CASE fl = flash
  BY <1>2 DEF TreesSafe
<1>3. CASE fl = [flash EXCEPT ![p] = Blank]
  <2> HIDE DEF Blank
  <2>1. fl \in [Places -> Images] /\ fl[p] = Blank
    BY <1>1, <1>3
  <2>2. \A q \in Places: q # p => fl[q] = flash[q]
    BY <1>3
  <2> QED BY <1>1, <2>1, <2>2 DEF TreesSafe
<1> QED BY <1>2, <1>3 DEF Partly

LEMMA WrittenIs ==
  ASSUME NEW p \in Places, flash \in [Places -> Images], NEW k \in {"dtb", "kernel", "uboot"},
         NEW v \in Versions \cup {0}, TreesSafe,
         k = "dtb" => v # 0 /\ KernelHome[v] # p
  PROVE  LET fl == [flash EXCEPT ![p] = Image(k, v)] IN
         /\ fl \in [Places -> Images] /\ fl[p] = Image(k, v)
         /\ \A q \in Places: q # p => fl[q] = flash[q]
         /\ \A q \in Places: fl[q].kind = "dtb" => fl[q].ver # 0 /\ KernelHome[fl[q].ver] # q
<1> DEFINE fl == [flash EXCEPT ![p] = Image(k, v)]
<1>1. Image(k, v) \in Images /\ Image(k, v).kind = k /\ Image(k, v).ver = v
  BY DEF Image, Images
<1>2. fl \in [Places -> Images] /\ fl[p] = Image(k, v)
  BY <1>1
<1>3. \A q \in Places: q # p => fl[q] = flash[q]
  OBVIOUS
<1>4. \A q \in Places: fl[q].kind = "dtb" => fl[q].ver # 0 /\ KernelHome[fl[q].ver] # q
  <2> HIDE DEF fl
  <2> QED BY <1>1, <1>2, <1>3 DEF TreesSafe
<1> QED BY <1>2, <1>3, <1>4

\* A kernel never goes where the device tree is that names its place.
LEMMA KernelElsewhere ==
  ASSUME UpdTypeOK, UpdPlaces, TreesSafe, memFdt = FdtAt(flash, saved), memFdt # 0
  PROVE  KernelHome[memFdt] # saved
BY TreePlaces DEF UpdTypeOK, UpdPlaces, TreesSafe, FdtAt

LEMMA FdtType ==
  ASSUME NEW fl \in [Places -> Images], NEW p \in Places
  PROVE  FdtAt(fl, p) \in Versions \cup {0}
BY DEF FdtAt, Images

LEMMA UpdInitHolds == UpdInit => UpdInv
<1> SUFFICES ASSUME UpdInit PROVE UpdInv
  OBVIOUS
<1>1. PICK v \in Versions: KernelHome[v] # FdtFlashAddr /\ flash = Factory(v)
  BY DEF UpdInit
<1>2. Image("dtb", v) \in Images /\ Blank \in Images /\ Blank.kind = "none"
      /\ Image("dtb", v).ver = v /\ Image("dtb", v).kind = "dtb" /\ v # 0
  BY UpdateAssumption DEF Image, Images, Blank
<1>3. flash \in [Places -> Images] /\ flash[FdtFlashAddr] = Image("dtb", v)
      /\ \A p \in Places: p # FdtFlashAddr => flash[p] = Blank
  <2> HIDE DEF Image, Blank
  <2> QED BY <1>1, <1>2, UpdateAssumption DEF Factory
<1>4. UpdTypeOK
  <2>1. FdtAt(flash, FdtFlashAddr) \in Versions \cup {0}
    BY <1>3, FdtType, UpdateAssumption
  <2>2. index \in 0..(Len(file) + 1) /\ left \in 0..(Words - 1)
    BY UpdateAssumption DEF UpdInit, NoFile
  <2>3. saved \in Places /\ env \in Places /\ memFdt \in Versions \cup {0} /\ told \in Versions \cup {0}
    BY <2>1, UpdateAssumption DEF UpdInit
  <2> QED BY <1>3, <2>2, <2>3 DEF UpdInit, UpdTypeOK
<1>5. UpdPlaces
  BY <1>3, TreePlaces DEF UpdInit, UpdPlaces, NoFile
<1>6. TreesSafe
  BY <1>1, <1>2, <1>3 DEF TreesSafe
<1>7. Agreed
  BY DEF UpdInit, Agreed
<1> QED
  BY <1>4, <1>5, <1>6, <1>7 DEF UpdInit, UpdInv, DtbWhereToldSo, OneInv, AllInv, Sound

\* What was received, if anything.
LEMMA ReceivedIs ==
  ASSUME NEW k \in {"dtb", "kernel", "uboot"}, NEW v \in Versions \cup {0}, NEW p \in Places
  PROVE  /\ Received(k, v, p) \in Seq(Sections) /\ Len(Received(k, v, p)) \in Nat
         /\ v = 0 => Received(k, v, p) = NoFile
         /\ v # 0 => Received(k, v, p) = <<[kind |-> k, ver |-> v, place |-> p, len |-> 1]>>
<1>1. CASE v = 0
  BY <1>1 DEF Received, NoFile
<1>2. CASE v # 0
  <2>1. [kind |-> k, ver |-> v, place |-> p, len |-> 1] \in Sections
    BY DEF Sections
  <2> QED BY <1>2, <2>1 DEF Received
<1> QED BY <1>1, <1>2

LEMMA UpdateDtbKeeps ==
  ASSUME UpdInv, NEW v \in Versions \cup {0}, UpdateDtb(v)
  PROVE  UpdInv'
<1> DEFINE m == IF v # 0 THEN v ELSE memFdt
<1>0. UpdTypeOK /\ UpdPlaces /\ TreesSafe
  BY DEF UpdInv
<1>1. /\ memFdt' = m /\ env' = DtbOffset(m) /\ cmd' = "dtbsave" /\ told' = 0 /\ fdtSet' = (m # 0)
      /\ dtbLen' = (v # 0) /\ stopped' = (stopped \/ v = 0) /\ before' = flash /\ savedOk' = FALSE
      /\ file' = Received("dtb", v, env') /\ cmd = "idle"
      /\ UNCHANGED <<flash, saved, index, left>>
  BY DEF UpdateDtb, Begin
<1>2. m \in Versions \cup {0}
  BY <1>0 DEF UpdTypeOK
<1>3. env' \in DtbPlaces /\ env' \in Places
  <2>1. CASE GetOffset(Home, m) # 0
    <3>1. m \in Versions /\ Home[m] # 0 /\ env' = Home[m]
      BY <2>1, <1>1, <1>2 DEF GetOffset, DtbOffset
    <3> QED BY <3>1, TreePlaces
  <2>2. CASE GetOffset(Home, m) = 0
    <3>1. env' = env
      BY <2>2, <1>1 DEF DtbOffset
    <3> QED BY <3>1, <1>0, TreePlaces DEF UpdPlaces
  <2> QED BY <2>1, <2>2
<1>4. m # 0 => KernelHome[m] # env'
  <2> SUFFICES ASSUME m # 0 PROVE KernelHome[m] # env'
    OBVIOUS
  <2>1. m \in Versions
    BY <1>2
  <2>2. env' # 0
    BY <1>3, TreePlaces
  <2>3. CASE Home[m] = 0
    <3>1. KernelHome[m] = 0
      BY <2>1, <2>3, LayoutAssumption
    <3> QED BY <3>1, <2>2
  <2>4. CASE Home[m] # 0
    <3>1. env' = Home[m]
      BY <2>4, <1>1 DEF DtbOffset, GetOffset
    <3>2. KernelHome[m] = 0 \/ Home[m] # KernelHome[m]
      BY <2>1, LayoutAssumption
    <3> QED BY <3>1, <3>2, <2>4
  <2> QED BY <2>3, <2>4
<1>5. file' \in Seq(Sections) /\ (v = 0 => file' = NoFile)
      /\ (v # 0 => file' = <<[kind |-> "dtb", ver |-> v, place |-> env', len |-> 1]>>)
  BY <1>1, <1>3, ReceivedIs
<1> HIDE DEF m
<1>6. index = 0 /\ left = 0
  BY <1>1 DEF UpdInv, OneInv
<1>7. UpdTypeOK'
  <2>1. index' \in 0..(Len(file') + 1) /\ left' \in 0..(Words - 1)
    BY <1>1, <1>5, <1>6, UpdateAssumption
  <2>2. flash' \in [Places -> Images] /\ saved' \in Places /\ env' \in Places
    BY <1>0, <1>1, <1>3 DEF UpdTypeOK
  <2>3. memFdt' \in Versions \cup {0} /\ told' \in Versions \cup {0}
    BY <1>1, <1>2
  <2> QED BY <1>0, <1>1, <2>1, <2>2, <2>3 DEF UpdTypeOK
<1>8. UpdPlaces'
  BY <1>0, <1>1, <1>3, <1>5 DEF UpdPlaces, UpdTypeOK
<1>9. TreesSafe' /\ DtbWhereToldSo' /\ AllInv'
  BY <1>0, <1>1 DEF TreesSafe, DtbWhereToldSo, AllInv
<1>10. OneTree' \/ (file' = NoFile /\ stopped' /\ told' = 0)
  <2>1. CASE v = 0
    BY <2>1, <1>1, <1>5
  <2>2. CASE v # 0
    <3>1. m = v
      BY <2>2 DEF m
    <3> QED BY <2>2, <3>1, <1>1, <1>4, <1>5 DEF OneTree
  <2> QED BY <2>1, <2>2
<1>11. OneInv'
  BY <1>1, <1>6, <1>10 DEF OneInv
<1> QED BY <1>7, <1>8, <1>9, <1>11 DEF UpdInv

LEMMA DtbSaveKeeps ==
  ASSUME UpdInv, NEW ok \in BOOLEAN, DtbSave(ok)
  PROVE  UpdInv'
<1>0. UpdTypeOK /\ UpdPlaces /\ TreesSafe
  BY DEF UpdInv
<1>1. /\ cmd = "dtbsave" /\ cmd' = "write" /\ env' = env /\ saved' = (IF ok THEN env ELSE saved)
      /\ savedOk' = ok /\ stopped' = (stopped \/ ~ok)
      /\ UNCHANGED <<flash, memFdt, fdtSet, dtbLen, file, index, left, before, told>>
  BY DEF DtbSave, Save, fdtVars
<1>2. (OneTree \/ (file = NoFile /\ stopped /\ told = 0)) /\ told = 0 /\ index = 0 /\ left = 0
  BY <1>1 DEF UpdInv, OneInv, OneTree
<1>3. UpdTypeOK'
  <2>1. saved' \in Places
    BY <1>0, <1>1 DEF UpdTypeOK
  <2>2. stopped' \in BOOLEAN /\ savedOk' \in BOOLEAN
    BY <1>1
  <2> QED BY <1>0, <1>1, <2>1, <2>2 DEF UpdTypeOK
<1>4. UpdPlaces'
  <2>1. saved' \in DtbPlaces
    BY <1>0, <1>1 DEF UpdPlaces
  <2> QED BY <1>0, <1>1, <2>1 DEF UpdPlaces
<1>5. TreesSafe' /\ DtbWhereToldSo' /\ AllInv'
  BY <1>0, <1>1, <1>2 DEF TreesSafe, DtbWhereToldSo, AllInv
<1>6. CASE OneTree
  <2>1. OneTree'
    BY <1>6, <1>1 DEF OneTree
  <2>2. savedOk' => saved' = env'
    BY <1>1
  <2> QED BY <1>1, <1>2, <1>3, <1>4, <1>5, <2>1, <2>2 DEF UpdInv, OneInv
<1>7. CASE file = NoFile /\ stopped /\ told = 0
  <2>1. Sound' /\ file' = NoFile
    BY <1>7, <1>1 DEF Sound
  <2> QED BY <1>1, <1>2, <1>3, <1>4, <1>5, <2>1 DEF UpdInv, OneInv
<1> QED BY <1>2, <1>6, <1>7

LEMMA UpdateKernelKeeps ==
  ASSUME UpdInv, NEW v \in Versions \cup {0}, UpdateKernel(v)
  PROVE  UpdInv'
<1> DEFINE offset == GetOffset(KernelHome, memFdt')
<1>0. UpdTypeOK /\ UpdPlaces /\ TreesSafe /\ DtbWhereToldSo
  BY DEF UpdInv
<1>1. /\ memFdt' = FdtInUse /\ fdtSet' = (memFdt' # 0) /\ before' = flash /\ savedOk' = FALSE
      /\ cmd = "idle" /\ cmd' = (IF offset = 0 THEN "idle" ELSE "write")
      /\ file' = (IF offset = 0 THEN NoFile ELSE Received("kernel", v, offset))
      /\ UNCHANGED <<flash, saved, env, dtbLen, index, left, told, stopped>>
  BY DEF UpdateKernel, Begin
<1>2. memFdt' \in Versions \cup {0}
  <2>1. FdtAt(flash, env) \in Versions \cup {0}
    BY <1>0, FdtType DEF UpdTypeOK
  <2> QED BY <1>0, <1>1, <2>1 DEF UpdTypeOK, FdtInUse
<1>3. Sound /\ index = 0 /\ left = 0
  BY <1>1 DEF UpdInv, OneInv
<1>4. told # 0 \/ ~stopped => memFdt' = FdtAt(flash, saved) /\ env = saved
  BY <1>1, <1>3 DEF Sound, Agreed, FdtInUse
<1>5. Sound'
  BY <1>1, <1>4 DEF Sound, Agreed, FdtAt
<1>6. offset \in Places
  BY <1>2, UpdateAssumption DEF GetOffset
<1>7. told # 0 \/ ~stopped => offset # saved
  <2> SUFFICES ASSUME told # 0 \/ ~stopped PROVE offset # saved
    OBVIOUS
  <2>1. saved \in Places /\ saved # 0
    BY <1>0, TreePlaces DEF UpdPlaces
  <2>2. CASE memFdt' = 0
    BY <2>1, <2>2 DEF GetOffset
  <2>3. CASE memFdt' # 0
    <3>1. flash[saved].kind = "dtb" /\ memFdt' = flash[saved].ver
      BY <2>3, <1>4 DEF FdtAt
    <3>2. KernelHome[memFdt'] # saved
      BY <3>1, <2>1, <1>0 DEF TreesSafe
    <3> QED BY <3>2, <2>3 DEF GetOffset
  <2> QED BY <2>2, <2>3
<1>8. file' \in Seq(Sections) /\ (offset = 0 => file' = NoFile)
      /\ (offset # 0 => file' = NoFile \/
            (v \in Versions /\ file' = <<[kind |-> "kernel", ver |-> v, place |-> offset, len |-> 1]>>))
  <2>1. NoFile \in Seq(Sections)
    BY DEF NoFile
  <2>2. /\ Received("kernel", v, offset) \in Seq(Sections)
        /\ v = 0 => Received("kernel", v, offset) = NoFile
        /\ v # 0 => Received("kernel", v, offset)
                       = <<[kind |-> "kernel", ver |-> v, place |-> offset, len |-> 1]>>
    <3> HIDE DEF offset
    <3> QED BY <1>6, ReceivedIs
  <2> HIDE DEF offset
  <2> QED BY <1>1, <2>1, <2>2
<1> HIDE DEF offset
<1>9. UpdTypeOK'
  <2>1. index' \in 0..(Len(file') + 1) /\ left' \in 0..(Words - 1)
    BY <1>1, <1>3, <1>8, UpdateAssumption
  <2> QED BY <1>0, <1>1, <1>2, <2>1 DEF UpdTypeOK
<1>10. UpdPlaces'
  BY <1>0, <1>1, <1>8 DEF UpdPlaces, UpdTypeOK
<1>11. TreesSafe' /\ DtbWhereToldSo' /\ AllInv'
  BY <1>0, <1>1 DEF TreesSafe, DtbWhereToldSo, AllInv
<1>12. offset # 0 => OneOther' \/ file' = NoFile
  <2> SUFFICES ASSUME offset # 0, file' # NoFile PROVE OneOther'
    OBVIOUS
  <2>1. v \in Versions /\ file' = <<[kind |-> "kernel", ver |-> v, place |-> offset, len |-> 1]>>
    BY <1>8
  <2>2. told' # 0 \/ ~stopped' => offset # saved'
    BY <1>1, <1>7
  <2> QED BY <2>1, <2>2, <1>6 DEF OneOther
<1>13. OneInv'
  <2>1. index' = 0 /\ left' = 0
    BY <1>1, <1>3
  <2>2. CASE offset = 0
    BY <2>1, <2>2, <1>1, <1>5 DEF OneInv
  <2>3. CASE offset # 0
    BY <2>1, <2>3, <1>1, <1>5, <1>12 DEF OneInv
  <2> QED BY <2>2, <2>3
<1> QED BY <1>9, <1>10, <1>11, <1>13 DEF UpdInv

LEMMA UpdateUbootKeeps ==
  ASSUME UpdInv, NEW v \in Versions \cup {0}, UpdateUboot(v)
  PROVE  UpdInv'
<1>0. UpdTypeOK /\ UpdPlaces /\ TreesSafe /\ DtbWhereToldSo
  BY DEF UpdInv
<1>1. /\ file' = Received("uboot", v, 0) /\ cmd = "idle" /\ cmd' = "write"
      /\ before' = flash /\ savedOk' = FALSE
      /\ UNCHANGED <<flash, saved, env, memFdt, fdtSet, dtbLen, index, left, told, stopped>>
  BY DEF UpdateUboot, Begin, fdtVars
<1>2. Sound /\ index = 0 /\ left = 0
  BY <1>1 DEF UpdInv, OneInv
<1>3. /\ file' \in Seq(Sections) /\ (v = 0 => file' = NoFile)
      /\ v # 0 => file' = <<[kind |-> "uboot", ver |-> v, place |-> 0, len |-> 1]>>
  BY <1>1, ReceivedIs, UpdateAssumption
<1>4. UpdTypeOK'
  <2>1. index' \in 0..(Len(file') + 1) /\ left' \in 0..(Words - 1)
    BY <1>1, <1>2, <1>3, UpdateAssumption
  <2> QED BY <1>0, <1>1, <2>1 DEF UpdTypeOK
<1>5. UpdPlaces'
  BY <1>0, <1>1, <1>3 DEF UpdPlaces, UpdTypeOK
<1>6. TreesSafe' /\ DtbWhereToldSo' /\ AllInv'
  BY <1>0, <1>1 DEF TreesSafe, DtbWhereToldSo, AllInv
<1>7. Sound'
  BY <1>1, <1>2 DEF Sound, Agreed, FdtAt
<1>8. OneOther' \/ file' = NoFile
  <2>1. CASE v = 0
    BY <2>1, <1>3
  <2>2. CASE v # 0
    <3>1. saved' # 0 /\ 0 \in Places /\ v \in Versions
      BY <2>2, <1>0, <1>1, TreePlaces, UpdateAssumption DEF UpdPlaces
    <3> QED BY <2>2, <3>1, <1>3 DEF OneOther
  <2> QED BY <2>1, <2>2
<1>9. OneInv'
  BY <1>1, <1>2, <1>7, <1>8 DEF OneInv
<1> QED BY <1>4, <1>5, <1>6, <1>9 DEF UpdInv

\* The end of a command.
LEMMA ReturnKeeps ==
  ASSUME UpdPlaces, Return, Sound', DtbWhereToldSo', TreesSafe',
         flash' \in [Places -> Images], saved' \in DtbPlaces, env' \in DtbPlaces,
         before' \in [Places -> Images], memFdt' \in Versions \cup {0}, told' \in Versions \cup {0},
         fdtSet' \in BOOLEAN, dtbLen' \in BOOLEAN, savedOk' \in BOOLEAN, stopped' \in BOOLEAN
  PROVE  UpdInv'
<1>1. cmd' = "idle" /\ file' = NoFile /\ index' = 0 /\ left' = 0
  BY DEF Return
<1>2. NoFile \in Seq(Sections) /\ Len(NoFile) = 0
  BY DEF NoFile
<1>3. index' \in 0..(Len(file') + 1) /\ left' \in 0..(Words - 1)
  BY <1>1, <1>2, UpdateAssumption
<1>4. saved' \in Places /\ env' \in Places
  BY TreePlaces
<1>5. UpdTypeOK'
  BY <1>1, <1>3, <1>4 DEF UpdTypeOK
<1>6. UpdPlaces'
  BY <1>1, <1>2 DEF UpdPlaces
<1>7. OneInv' /\ AllInv'
  BY <1>1 DEF OneInv, AllInv
<1> QED BY <1>5, <1>6, <1>7 DEF UpdInv

LEMMA WriteFileKeeps ==
  ASSUME UpdInv, NEW ok \in BOOLEAN, WriteFile(ok)
  PROVE  UpdInv'
<1>0. UpdTypeOK /\ UpdPlaces /\ TreesSafe /\ DtbWhereToldSo
  BY DEF UpdInv
<1>1. cmd = "write" /\ Return /\ UNCHANGED <<saved, env, memFdt, fdtSet, dtbLen, before, savedOk>>
  BY DEF WriteFile, fdtVars
<1>2. \/ OneTree /\ (savedOk => saved = env)
      \/ (OneOther \/ file = NoFile) /\ Sound
  BY <1>1 DEF UpdInv, OneInv
<1>3. CASE file = NoFile
  <2>1. flash' = flash /\ told' = told /\ stopped' = stopped
    BY <1>3 DEF WriteFile
  <2>2. ~OneTree
    BY <1>3 DEF OneTree, NoFile
  <2>3. Sound
    BY <1>2, <2>2
  <2>4. Sound' /\ DtbWhereToldSo' /\ TreesSafe'
    BY <1>0, <1>1, <2>1, <2>3 DEF Sound, Agreed, FdtAt, DtbWhereToldSo, TreesSafe
  <2> QED BY <1>0, <1>1, <2>1, <2>4, ReturnKeeps DEF UpdTypeOK, UpdPlaces
<1>4. CASE OneTree /\ (savedOk => saved = env)
  <2>1. file # NoFile /\ file[1].kind = "dtb" /\ file[1].ver = memFdt /\ file[1].place = env
    BY <1>4 DEF OneTree, NoFile
  <2>2. memFdt \in Versions /\ memFdt # 0 /\ KernelHome[memFdt] # env /\ env \in Places
    BY <1>0, <1>4 DEF OneTree, UpdTypeOK
  <2>3. told' = (IF ok /\ savedOk THEN memFdt ELSE 0) /\ stopped' = (IF ok THEN ~savedOk ELSE TRUE)
    BY <2>1 DEF WriteFile
  <2>4. told' \in Versions \cup {0} /\ stopped' \in BOOLEAN
    BY <2>2, <2>3, <1>0 DEF UpdTypeOK
  <2>5. CASE ok
    <3>1. flash' = [flash EXCEPT ![env] = Image("dtb", memFdt)]
      BY <2>1, <2>5 DEF WriteFile
    <3>2. flash' \in [Places -> Images] /\ flash'[env] = Image("dtb", memFdt)
          /\ \A q \in Places: flash'[q].kind = "dtb" => flash'[q].ver # 0 /\ KernelHome[flash'[q].ver] # q
      BY <3>1, <2>2, <1>0, WrittenIs DEF UpdTypeOK
    <3>3. TreesSafe'
      BY <3>2 DEF TreesSafe
    <3>4. FdtAt(flash', env) = memFdt
      BY <3>2 DEF FdtAt, Image
    <3>5. Sound' /\ DtbWhereToldSo'
      <4>1. told' # 0 \/ ~stopped' => saved' = env' /\ saved' = env
        BY <1>1, <1>4, <2>3, <2>5
      <4>2. told' # 0 => told' = memFdt
        BY <2>3
      <4> QED BY <1>1, <3>2, <3>4, <4>1, <4>2 DEF Sound, Agreed, DtbWhereToldSo
    <3> QED BY <1>0, <1>1, <2>4, <3>2, <3>3, <3>5, ReturnKeeps DEF UpdTypeOK, UpdPlaces
  <2>6. CASE ~ok
    <3>1. flash' \in Partly(env)
      BY <2>1, <2>6 DEF WriteFile
    <3>2. flash' \in [Places -> Images]
          /\ \A q \in Places: flash'[q].kind = "dtb" => flash'[q].ver # 0 /\ KernelHome[flash'[q].ver] # q
      BY <3>1, <2>2, <1>0, PartlyIs DEF UpdTypeOK
    <3>3. TreesSafe'
      BY <3>2 DEF TreesSafe
    <3>4. Sound' /\ DtbWhereToldSo'
      BY <2>3, <2>6 DEF Sound, DtbWhereToldSo
    <3> QED BY <1>0, <1>1, <2>4, <3>2, <3>3, <3>4, ReturnKeeps DEF UpdTypeOK, UpdPlaces
  <2> QED BY <2>5, <2>6
<1>5. CASE OneOther /\ Sound
  <2>1. PICK k \in {"kernel", "uboot"}, v \in Versions, p \in Places:
           /\ file = <<[kind |-> k, ver |-> v, place |-> p, len |-> 1]>>
           /\ told # 0 \/ ~stopped => p # saved
    BY <1>5 DEF OneOther
  <2>2. file # NoFile /\ file[1].kind = k /\ file[1].ver = v /\ file[1].place = p /\ k # "dtb"
    BY <2>1 DEF NoFile
  <2>3. told' = told /\ stopped' = stopped
    BY <2>2 DEF WriteFile
  <2>4. /\ flash' \in [Places -> Images] /\ \A q \in Places: q # p => flash'[q] = flash[q]
        /\ \A q \in Places: flash'[q].kind = "dtb" => flash'[q].ver # 0 /\ KernelHome[flash'[q].ver] # q
    <3>1. CASE ok
      <4>1. flash' = [flash EXCEPT ![p] = Image(k, v)]
        BY <2>2, <3>1 DEF WriteFile
      <4> QED BY <4>1, <2>2, <1>0, WrittenIs DEF UpdTypeOK
    <3>2. CASE ~ok
      <4>1. flash' \in Partly(p)
        BY <2>2, <3>2 DEF WriteFile
      <4> QED BY <4>1, <1>0, PartlyIs DEF UpdTypeOK
    <3> QED BY <3>1, <3>2
  <2>5. saved \in Places
    BY <1>0 DEF UpdTypeOK
  <2>6. told # 0 \/ ~stopped => flash'[saved] = flash[saved]
    BY <2>1, <2>4, <2>5
  <2>7. Sound' /\ DtbWhereToldSo'
    BY <1>0, <1>1, <1>5, <2>3, <2>6 DEF Sound, Agreed, FdtAt, DtbWhereToldSo
  <2>8. TreesSafe'
    BY <2>4 DEF TreesSafe
  <2> QED BY <1>0, <1>1, <2>3, <2>4, <2>7, <2>8, ReturnKeeps DEF UpdTypeOK, UpdPlaces
<1> QED BY <1>2, <1>3, <1>4, <1>5

LEMMA UpdateAllKeeps ==
  ASSUME UpdInv, NEW f \in Files, UpdateAll(f)
  PROVE  UpdInv'
<1>0. UpdTypeOK /\ UpdPlaces /\ TreesSafe
  BY DEF UpdInv
<1>1. /\ file' = f /\ index' = 1 /\ left' = (FileLen(f) + Words - FileHeader) % Words
      /\ cmd = "idle" /\ cmd' = "all" /\ told' = 0 /\ before' = flash /\ savedOk' = FALSE
      /\ UNCHANGED <<flash, saved, env, memFdt, fdtSet, dtbLen, stopped>>
  BY DEF UpdateAll, Begin, fdtVars
<1>2. Sound
  BY <1>1 DEF UpdInv, OneInv
<1> DEFINE total == Sizes(f)[Len(f)]
<1>3. Len(f) \in Nat /\ f \in Seq(Sections)
  BY FileSections
<1>4. total \in Nat /\ Sizes(f)[0] = 0 /\ 1 + total < Words
  BY <1>3, SizesAre, FilesAssumption DEF FileHeader
<1>5. left' = total
  <2> HIDE DEF total
  <2>1. FileLen(f) = 1 + total
    <3>1. (1 + total) % Words = 1 + total
      BY <1>4, Modulo
    <3> QED BY <3>1 DEF FileLen, FileHeader, total
  <2>2. (1 + total) + Words - 1 = total + Words
    BY <1>4, UpdateAssumption
  <2>3. (total + Words) % Words = total
    <3>1. total < Words
      BY <1>4, UpdateAssumption
    <3> QED BY <3>1, <1>4, Modulo
  <2> QED BY <1>1, <2>1, <2>2, <2>3 DEF FileHeader
<1>6. UpdTypeOK'
  <2>1. index' \in 0..(Len(file') + 1) /\ left' \in 0..(Words - 1)
    <3> HIDE DEF total
    <3> QED BY <1>1, <1>3, <1>4, <1>5, UpdateAssumption
  <2> QED BY <1>0, <1>1, <2>1 DEF UpdTypeOK
<1>7. UpdPlaces'
  BY <1>0, <1>1, <1>3 DEF UpdPlaces, UpdTypeOK
<1>8. TreesSafe' /\ DtbWhereToldSo' /\ OneInv'
  BY <1>0, <1>1 DEF TreesSafe, DtbWhereToldSo, OneInv
<1>9. AllInv'
  <2>1. FlashAfter(flash, f)[0] = flash
    <3>1. flash \in [Places -> AnyImage]
      BY <1>0 DEF UpdTypeOK, Images, AnyImage
    <3> QED BY <3>1, AfterIs
  <2>2. \A j \in DtbSections(f): j \in 1..Len(f)
    BY FileSections DEF DtbSections
  <2>3. Met' = {} /\ \A j \in DtbSections(file'): ~(j < index')
    BY <1>1, <1>3, <2>2 DEF Met
  <2>4. left' = Sizes(file')[Len(file')] - Sizes(file')[index' - 1]
    <3>1. total - 0 = total
      BY <1>4
    <3> QED BY <1>1, <1>4, <1>5, <3>1
  <2>5. Sound'
    BY <1>1, <1>2 DEF Sound, Agreed, FdtAt
  <2>6. flash' = FlashAfter(before', file')[index' - 1]
    BY <1>1, <2>1
  <2>7. index' \in 1..(Len(file') + 1)
    BY <1>1, <1>3
  <2> QED BY <1>1, <2>3, <2>4, <2>5, <2>6, <2>7 DEF AllInv
<1> QED BY <1>6, <1>7, <1>8, <1>9 DEF UpdInv

\* When the loop ends, what follows are sections that end the file.
LEMMA AllEndsAtEnd ==
  ASSUME UpdInv, cmd \in {"all", "allwrite"}
  PROVE  /\ left # 0 => index <= Len(file)
         /\ AllEnds => \A i \in index..Len(file): file[i].kind = "end"
<1>1. /\ file \in Files /\ index \in 1..(Len(file) + 1)
      /\ left = Sizes(file)[Len(file)] - Sizes(file)[index - 1]
  BY DEF UpdInv, AllInv
<1>2. Len(file) \in Nat /\ DOMAIN file = 1..Len(file)
  BY <1>1, FileSections
<1> DEFINE z == Sizes(file)
           n == Len(file)
<1>3. z \in [0..n -> Nat] /\ \A i \in 0..(n - 1): z[i] < z[n]
  BY <1>1, SizesAre
<1> HIDE DEF z
<1>4. left = z[n] - z[index - 1]
  BY <1>1 DEF z
<1>5. left # 0 => index <= n
  BY <1>1, <1>2, <1>3, <1>4
<1>6. ASSUME index <= n PROVE left # 0
  <2>1. index - 1 \in 0..(n - 1) /\ n \in 0..n /\ index - 1 \in 0..n
    BY <1>1, <1>2, <1>6
  <2>2. z[index - 1] < z[n] /\ z[index - 1] \in Nat /\ z[n] \in Nat
    BY <2>1, <1>3
  <2> QED BY <2>2, <1>4
<1>7. ASSUME AllEnds, NEW i \in index..n PROVE file[i].kind = "end"
  <2>1. index <= n /\ i \in DOMAIN file /\ index \in DOMAIN file
    BY <1>1, <1>2
  <2>2. file[index].kind = "end"
    BY <2>1, <1>6, <1>7 DEF AllEnds
  <2>3. i > index => file[i].kind = "end"
    BY <1>1, <2>1, <2>2, FilesAssumption
  <2> QED BY <2>2, <2>3, <1>1, <1>2
<1> QED BY <1>5, <1>7

\* The device tree of a file: its only one.
LEMMA DtbOfIs ==
  ASSUME NEW f \in Files
  PROVE  /\ DtbSections(f) = {} => DtbOf(f) = 0
         /\ \A j \in DtbSections(f): /\ DtbSections(f) = {j} /\ DtbOf(f) = f[j].ver
                                      /\ f[j].ver \in Versions
                                      /\ j \in 1..Len(f) /\ f[j].kind = "dtb"
<1>1. ASSUME NEW j \in DtbSections(f)
      PROVE  DtbSections(f) = {j} /\ f[j].ver # 0 /\ j \in DOMAIN f /\ f[j].kind = "dtb"
  <2>1. j \in DOMAIN f /\ f[j].kind = "dtb"
    BY DEF DtbSections
  <2> QED BY <2>1, FilesAssumption
<1>2. ASSUME NEW j \in DtbSections(f) PROVE DtbOf(f) = f[j].ver /\ f[j].ver \in Versions /\ j \in 1..Len(f)
  <2>1. (CHOOSE i \in DtbSections(f): TRUE) = j
    <3>1. (CHOOSE i \in DtbSections(f): TRUE) \in DtbSections(f)
      OBVIOUS
    <3> QED BY <3>1, <1>1
  <2>2. DtbSections(f) # {}
    OBVIOUS
  <2>3. j \in 1..Len(f) /\ f[j].ver \in Versions \cup {0}
    BY <1>1, FileSections
  <2> QED BY <2>1, <2>2, <2>3, <1>1 DEF DtbOf
<1>3. DtbSections(f) = {} => DtbOf(f) = 0
  BY DEF DtbOf
<1> QED BY <1>1, <1>2, <1>3

LEMMA AllDoneKeeps ==
  ASSUME UpdInv, AllDone
  PROVE  UpdInv'
<1>0. UpdTypeOK /\ UpdPlaces /\ TreesSafe
  BY DEF UpdInv
<1>1. /\ cmd = "all" /\ AllEnds /\ told' = (IF savedOk THEN DtbOf(file) ELSE 0) /\ Return
      /\ stopped' = (IF DtbOf(file) # 0 /\ fdtSet THEN ~savedOk ELSE stopped)
      /\ UNCHANGED <<flash, saved, env, memFdt, fdtSet, dtbLen, before, savedOk>>
  BY DEF AllDone, fdtVars
<1>2. /\ file \in Files /\ (Met = {} => ~savedOk /\ Sound) /\ told = 0
      /\ index \in 1..(Len(file) + 1)
      /\ \A j \in Met: memFdt = file[j].ver /\ env = file[j].place /\ stopped /\ (savedOk => saved = env)
      /\ \A j \in DtbSections(file): j < index => flash[file[j].place] = Image("dtb", file[j].ver)
  BY <1>1 DEF UpdInv, AllInv
<1>3. \A j \in DtbSections(file): j < index /\ j \in Met
  <2> SUFFICES ASSUME NEW j \in DtbSections(file) PROVE j < index /\ j \in Met
    OBVIOUS
  <2>1. j \in 1..Len(file) /\ file[j].kind = "dtb" /\ Len(file) \in Nat
    BY <1>2, DtbOfIs, FileSections
  <2>2. ~(j \in index..Len(file))
    BY <1>1, <2>1, AllEndsAtEnd
  <2>3. j < index
    BY <2>1, <2>2, <1>2
  <2> QED BY <2>3 DEF Met
<1>4. TreesSafe'
  BY <1>0, <1>1 DEF TreesSafe
<1>5. CASE DtbSections(file) = {}
  <2>1. Met = {}
    BY <1>5 DEF Met
  <2>2. ~savedOk /\ Sound /\ told' = 0 /\ stopped' = stopped
    BY <2>1, <1>1, <1>2, <1>5, DtbOfIs
  <2>3. Sound' /\ DtbWhereToldSo'
    BY <2>2, <1>1, <1>2 DEF Sound, Agreed, FdtAt, DtbWhereToldSo
  <2> QED BY <1>0, <1>1, <1>4, <2>2, <2>3, ReturnKeeps DEF UpdTypeOK, UpdPlaces
<1>6. CASE DtbSections(file) # {}
  <2>1. PICK j \in DtbSections(file): TRUE
    BY <1>6
  <2>2. /\ memFdt = file[j].ver /\ env = file[j].place /\ stopped /\ (savedOk => saved = env)
        /\ flash[file[j].place] = Image("dtb", file[j].ver)
    BY <2>1, <1>2, <1>3
  <2>3. DtbOf(file) = memFdt /\ memFdt \in Versions
    BY <2>1, <2>2, <1>2, DtbOfIs
  <2>4. told' \in Versions \cup {0} /\ stopped' \in BOOLEAN
    BY <2>3, <1>0, <1>1 DEF UpdTypeOK
  <2>5. told' # 0 \/ ~stopped' => savedOk
    BY <1>1, <2>2
  <2>6. flash[env] = Image("dtb", memFdt) /\ FdtAt(flash, env) = memFdt
    BY <2>2 DEF FdtAt, Image
  <2>7. Sound' /\ DtbWhereToldSo'
    BY <1>1, <2>2, <2>3, <2>5, <2>6 DEF Sound, Agreed, FdtAt, DtbWhereToldSo
  <2> QED BY <1>0, <1>1, <1>4, <2>4, <2>7, ReturnKeeps DEF UpdTypeOK, UpdPlaces
<1> QED BY <1>5, <1>6

\* The section that the loop is at.
LEMMA AtSection ==
  ASSUME UpdInv, cmd \in {"all", "allwrite"}, index <= Len(file)
  PROVE  /\ file \in Files /\ index \in 1..Len(file) /\ Len(file) \in Nat /\ index \in DOMAIN file
         /\ file[index] \in Sections /\ file[index].place \in Places
         /\ file[index].ver \in Versions \cup {0} /\ file[index].len \in Nat
         /\ file[index].kind \in {"dtb", "kernel", "uboot", "end"}
<1>1. file \in Files /\ index \in 1..(Len(file) + 1)
  BY DEF UpdInv, AllInv
<1>2. Len(file) \in Nat
  BY <1>1, FileSections
<1>3. index \in 1..Len(file)
  BY <1>1, <1>2
<1> QED BY <1>1, <1>2, <1>3, FileSections

LEMMA AllSectionKeeps ==
  ASSUME UpdInv, NEW ok \in BOOLEAN, AllSection(ok)
  PROVE  UpdInv'
<1>0. UpdTypeOK /\ UpdPlaces /\ TreesSafe
  BY DEF UpdInv
<1>1. /\ cmd = "all" /\ left # 0 /\ file[index].kind # "end" /\ cmd' = "allwrite"
      /\ UNCHANGED <<flash, fdtSet, dtbLen, file, index, left, before, told>>
  BY DEF AllSection, AllEnds
<1>2. index <= Len(file)
  BY <1>1, AllEndsAtEnd
<1>3. /\ file \in Files /\ index \in 1..Len(file) /\ Len(file) \in Nat /\ index \in DOMAIN file
      /\ file[index].place \in Places /\ file[index].ver \in Versions \cup {0}
  BY <1>1, <1>2, AtSection
<1>4. /\ told = 0 /\ left = Sizes(file)[Len(file)] - Sizes(file)[index - 1]
      /\ flash = FlashAfter(before, file)[index - 1] /\ (Met = {} => ~savedOk /\ Sound)
      /\ \A j \in Met: memFdt = file[j].ver /\ env = file[j].place /\ stopped /\ (savedOk => saved = env)
      /\ \A j \in DtbSections(file): j < index => flash[file[j].place] = Image("dtb", file[j].ver)
  BY <1>1 DEF UpdInv, AllInv
<1>5. OneInv' /\ TreesSafe' /\ DtbWhereToldSo'
  BY <1>0, <1>1, <1>4 DEF OneInv, TreesSafe, DtbWhereToldSo
<1>6. CASE file[index].kind = "dtb"
  <2>1. /\ env' = file[index].place /\ saved' = (IF ok THEN env' ELSE saved) /\ savedOk' = ok
        /\ memFdt' = file[index].ver /\ stopped' = TRUE
    BY <1>6 DEF AllSection, Save
  <2>2. index \in DtbSections(file)
    BY <1>3, <1>6 DEF DtbSections
  <2>3. env' \in DtbPlaces /\ saved' \in DtbPlaces
    BY <2>1, <2>2, <1>0, <1>3, TreePlaces DEF UpdPlaces
  <2>4. Met' = {index}
    <3>1. DtbSections(file') = {index}
      BY <2>2, <1>1, <1>3, DtbOfIs
    <3> QED BY <3>1, <1>1 DEF Met
  <2>5. AllInv'
    <3>1. \A j \in Met': /\ memFdt' = file'[j].ver /\ env' = file'[j].place
                          /\ stopped' /\ (savedOk' => saved' = env')
      BY <2>1, <2>4, <1>1
    <3>2. Met' # {} /\ index' \in 1..(Len(file') + 1)
      BY <2>4, <1>1, <1>3
    <3> QED BY <1>1, <1>2, <1>3, <1>4, <3>1, <3>2 DEF AllInv
  <2>6. UpdTypeOK'
    <3>1. env' \in Places /\ saved' \in Places /\ memFdt' \in Versions \cup {0} /\ savedOk' \in BOOLEAN
          /\ stopped' \in BOOLEAN
      BY <2>1, <2>3, <1>3, TreePlaces
    <3> QED BY <1>0, <1>1, <3>1 DEF UpdTypeOK
  <2>7. UpdPlaces'
    BY <1>0, <1>1, <2>3 DEF UpdPlaces
  <2> QED BY <1>5, <2>5, <2>6, <2>7 DEF UpdInv
<1>7. CASE file[index].kind # "dtb"
  <2>1. UNCHANGED <<env, saved, savedOk, memFdt, stopped>>
    BY <1>7 DEF AllSection
  <2>2. Met' = Met
    <3>1. index \notin DtbSections(file)
      BY <1>7 DEF DtbSections
    <3> QED BY <3>1, <1>1 DEF Met
  <2>3. Sound' <=> Sound
    BY <1>1, <2>1 DEF Sound, Agreed, FdtAt
  <2>4. AllInv'
    <3>1. index' \in 1..(Len(file') + 1)
      BY <1>1, <1>3
    <3>2. \A j \in Met': /\ memFdt' = file'[j].ver /\ env' = file'[j].place
                          /\ stopped' /\ (savedOk' => saved' = env')
      BY <1>1, <1>4, <2>1, <2>2
    <3>3. Met' = {} => ~savedOk' /\ Sound'
      BY <1>4, <2>1, <2>2, <2>3
    <3> QED BY <1>1, <1>2, <1>3, <1>4, <3>1, <3>2, <3>3 DEF AllInv
  <2>5. UpdTypeOK' /\ UpdPlaces'
    BY <1>0, <1>1, <2>1 DEF UpdTypeOK, UpdPlaces
  <2> QED BY <1>5, <2>4, <2>5 DEF UpdInv
<1> QED BY <1>6, <1>7

LEMMA AllWriteKeeps ==
  ASSUME UpdInv, AllWrite
  PROVE  UpdInv'
<1> DEFINE k == file[index].kind
           v == file[index].ver
           p == file[index].place
           l == file[index].len
<1>0. UpdTypeOK /\ UpdPlaces /\ TreesSafe
  BY DEF UpdInv
<1>1. /\ cmd = "allwrite" /\ l # 0 /\ flash' = [flash EXCEPT ![p] = Image(k, v)]
      /\ left' = LeftAfter(l) /\ index' = index + 1 /\ cmd' = "all"
      /\ UNCHANGED <<saved, env, memFdt, fdtSet, dtbLen, file, before, told, savedOk, stopped>>
  BY DEF AllWrite, fdtVars
<1>2. /\ index <= Len(file) /\ k # "end" /\ told = 0
      /\ left = Sizes(file)[Len(file)] - Sizes(file)[index - 1]
      /\ flash = FlashAfter(before, file)[index - 1] /\ (Met = {} => ~savedOk /\ Sound)
      /\ \A j \in Met: memFdt = file[j].ver /\ env = file[j].place /\ stopped /\ (savedOk => saved = env)
      /\ \A j \in DtbSections(file): j < index => flash[file[j].place] = Image("dtb", file[j].ver)
  BY <1>1 DEF UpdInv, AllInv
<1>3. /\ file \in Files /\ index \in 1..Len(file) /\ Len(file) \in Nat /\ index \in DOMAIN file
      /\ p \in Places /\ v \in Versions \cup {0} /\ l \in Nat
      /\ k \in {"dtb", "kernel", "uboot", "end"}
  BY <1>1, <1>2, AtSection
<1>4. k = "dtb" => v # 0 /\ KernelHome[v] # p
  BY <1>1, <1>3, FilesAssumption
<1>5. k # "dtb" => p \notin DtbPlaces
  BY <1>2, <1>3, FilesAssumption
<1>i. index \in DtbSections(file) <=> k = "dtb"
  BY <1>3 DEF DtbSections
<1> HIDE DEF k, v, p, l
<1>6. /\ flash' \in [Places -> Images] /\ flash'[p] = Image(k, v)
      /\ \A q \in Places: q # p => flash'[q] = flash[q]
      /\ \A q \in Places: flash'[q].kind = "dtb" => flash'[q].ver # 0 /\ KernelHome[flash'[q].ver] # q
  BY <1>0, <1>1, <1>2, <1>3, <1>4, WrittenIs DEF UpdTypeOK
<1>7. TreesSafe' /\ DtbWhereToldSo' /\ OneInv'
  BY <1>1, <1>2, <1>6 DEF TreesSafe, DtbWhereToldSo, OneInv
<1>8. left' = Sizes(file)[Len(file)] - Sizes(file)[index] /\ left' \in 0..(Words - 1)
  <2> DEFINE z == Sizes(file)
             n == Len(file)
  <2>1. /\ z[n] \in Nat /\ z[index - 1] \in Nat /\ z[index] \in Nat
        /\ z[index] = z[index - 1] + l + 1
    BY <1>3, SizesAre DEF l
  <2>2. z[index] <= z[n]
    <3>1. CASE index = n
      BY <2>1, <3>1
    <3>2. CASE index # n
      <4>1. index \in 0..(n - 1)
        BY <1>3, <3>2
      <4>2. z[index] < z[n]
        BY <4>1, <1>3, SizesAre
      <4> HIDE DEF z
      <4> QED BY <4>2, <2>1
    <3> QED BY <3>1, <3>2
  <2>3. 1 + z[n] < Words
    BY <1>3, FilesAssumption DEF FileHeader
  <2> DEFINE x == z[n] - z[index]
  <2>4. left = z[n] - z[index - 1]
    BY <1>2
  <2> HIDE DEF z, n
  <2>5. x \in Nat /\ x < Words
    BY <2>1, <2>2, <2>3, UpdateAssumption
  <2>6. left + Words - (l + 1) = x + Words
    <3>1. Words \in Nat /\ l \in Nat
      BY <1>3, UpdateAssumption
    <3>2. left - (l + 1) = x
      BY <2>1, <2>4, <3>1
    <3>3. left \in Int /\ x \in Int
      BY <2>1, <2>4
    <3> HIDE DEF x
    <3> QED BY <3>1, <3>2, <3>3
  <2>7. (x + Words) % Words = x
    <3> HIDE DEF x
    <3> QED BY <2>5, Modulo
  <2>8. left' = x
    BY <1>1, <2>6, <2>7 DEF LeftAfter, SectionHeader
  <2> QED BY <2>5, <2>8, UpdateAssumption DEF z, n
<1>9. flash' = FlashAfter(before, file)[index]
  <2>1. before \in [Places -> AnyImage]
    BY <1>0 DEF UpdPlaces, Images, AnyImage
  <2> DEFINE g == FlashAfter(before, file)
  <2>2. g[index] = [g[index - 1] EXCEPT ![file[index].place] = Image(file[index].kind, file[index].ver)]
    BY <1>3, <2>1, AfterIs
  <2> QED BY <2>2, <1>1, <1>2 DEF p, k, v
<1>10. Met' = Met
  <2>1. \A j \in DtbSections(file): j \in Int
    BY <1>3, DtbOfIs
  <2>2. \A j \in DtbSections(file): j < index + 1 <=> j < index \/ j = index
    BY <2>1, <1>3
  <2> QED BY <1>1, <2>2 DEF Met
<1>11. Met' = {} => ~savedOk' /\ Sound'
  <2> SUFFICES ASSUME Met = {} PROVE ~savedOk' /\ Sound'
    BY <1>10
  <2>1. k # "dtb"
    BY <1>i, <1>1 DEF Met
  <2>2. saved \in DtbPlaces /\ saved \in Places /\ saved # p
    BY <2>1, <1>0, <1>5, TreePlaces DEF UpdPlaces
  <2>3. flash'[saved] = flash[saved]
    BY <2>2, <1>6
  <2> QED BY <1>1, <1>2, <2>3 DEF Sound, Agreed, FdtAt
<1>12. ASSUME NEW j \in DtbSections(file), j < index + 1
       PROVE  flash'[file[j].place] = Image("dtb", file[j].ver)
  <2>1. j \in 1..Len(file) /\ DtbSections(file) = {j} /\ file[j].place \in DtbPlaces
        /\ file[j].place \in Places
    BY <1>3, DtbOfIs, TreePlaces
  <2>2. CASE j = index
    BY <2>2, <1>i, <1>6 DEF p, v
  <2>3. CASE j # index
    <3>1. k # "dtb"
      BY <2>1, <2>3, <1>i
    <3>2. file[j].place # p
      BY <3>1, <2>1, <1>5
    <3>3. j < index
      BY <1>12, <2>1, <2>3, <1>3
    <3> QED BY <3>2, <3>3, <2>1, <1>2, <1>6
  <2> QED BY <2>2, <2>3
<1>13. AllInv'
  <2>1. index' \in 1..(Len(file') + 1) /\ index' - 1 = index
    BY <1>1, <1>3
  <2>2. left' = Sizes(file')[Len(file')] - Sizes(file')[index' - 1]
    BY <1>1, <1>8, <2>1
  <2>3. flash' = FlashAfter(before', file')[index' - 1]
    BY <1>1, <1>9, <2>1
  <2>4. \A j \in Met': /\ memFdt' = file'[j].ver /\ env' = file'[j].place
                        /\ stopped' /\ (savedOk' => saved' = env')
    BY <1>1, <1>2, <1>10
  <2>5. \A j \in DtbSections(file'): j < index' => flash'[file'[j].place] = Image("dtb", file'[j].ver)
    BY <1>1, <1>12
  <2> QED BY <1>1, <1>2, <1>3, <1>11, <2>1, <2>2, <2>3, <2>4, <2>5 DEF AllInv
<1>14. UpdTypeOK' /\ UpdPlaces'
  <2>1. index' \in 0..(Len(file') + 1)
    BY <1>1, <1>3
  <2> QED BY <1>0, <1>1, <1>6, <1>8, <2>1 DEF UpdTypeOK, UpdPlaces
<1> QED BY <1>7, <1>13, <1>14 DEF UpdInv

LEMMA AllFailsKeeps ==
  ASSUME UpdInv, AllFails
  PROVE  UpdInv'
<1> DEFINE p == file[index].place
<1>0. UpdTypeOK /\ UpdPlaces /\ TreesSafe
  BY DEF UpdInv
<1>1. /\ cmd = "allwrite" /\ Return /\ flash' \in {flash} \cup Partly(p)
      /\ UNCHANGED <<saved, env, memFdt, fdtSet, dtbLen, before, told, savedOk, stopped>>
  BY DEF AllFails, fdtVars
<1>2. /\ index <= Len(file) /\ file[index].kind # "end" /\ told = 0 /\ (Met = {} => Sound)
      /\ \A j \in Met: stopped
  BY <1>1 DEF UpdInv, AllInv
<1>3. /\ file \in Files /\ index \in DOMAIN file /\ p \in Places
      /\ file[index].kind \in {"dtb", "kernel", "uboot", "end"}
  BY <1>1, <1>2, AtSection
<1>4. /\ flash' \in [Places -> Images] /\ \A q \in Places: q # p => flash'[q] = flash[q]
      /\ \A q \in Places: flash'[q].kind = "dtb" => flash'[q].ver # 0 /\ KernelHome[flash'[q].ver] # q
  <2>1. flash' \in Partly(p)
    BY <1>1 DEF Partly
  <2> HIDE DEF p
  <2> QED BY <2>1, <1>0, <1>3, PartlyIs DEF UpdTypeOK
<1>5. TreesSafe' /\ DtbWhereToldSo'
  BY <1>1, <1>2, <1>4 DEF TreesSafe, DtbWhereToldSo
<1>6. Sound'
  <2>1. CASE stopped
    BY <2>1, <1>1, <1>2 DEF Sound
  <2>2. CASE ~stopped
    <3>1. Met = {}
      BY <2>2, <1>2
    <3>2. file[index].kind # "dtb"
      BY <3>1, <1>1, <1>3 DEF Met, DtbSections
    <3>3. p \notin DtbPlaces
      BY <3>2, <1>2, <1>3, FilesAssumption
    <3>4. saved \in DtbPlaces /\ saved \in Places
      BY <1>0, TreePlaces DEF UpdPlaces
    <3>5. flash'[saved] = flash[saved]
      BY <3>3, <3>4, <1>4
    <3> QED BY <3>1, <3>5, <1>1, <1>2 DEF Sound, Agreed, FdtAt
  <2> QED BY <2>1, <2>2
<1> QED BY <1>0, <1>1, <1>4, <1>5, <1>6, ReturnKeeps DEF UpdTypeOK, UpdPlaces

\* A power cut during a write spares the device tree that was promised.
LEMMA RestartKeeps ==
  ASSUME UpdInv, Restart
  PROVE  UpdInv'
<1>0. UpdTypeOK /\ UpdPlaces /\ TreesSafe /\ DtbWhereToldSo
  BY DEF UpdInv
<1>1. /\ env' = saved /\ memFdt' = FdtAt(flash', saved) /\ fdtSet' = (memFdt' # 0) /\ dtbLen' = TRUE
      /\ stopped' = FALSE /\ before' = flash' /\ savedOk' = FALSE /\ Return
      /\ UNCHANGED <<saved, told>>
  BY DEF Restart
<1>2. /\ flash' \in [Places -> Images] /\ (told # 0 => flash'[saved] = flash[saved])
      /\ \A q \in Places: flash'[q].kind = "dtb" => flash'[q].ver # 0 /\ KernelHome[flash'[q].ver] # q
  <2>0. saved \in Places /\ env \in Places /\ flash \in [Places -> Images]
    BY <1>0 DEF UpdTypeOK
  <2>1. CASE cmd = "write" /\ file # NoFile
    <3>1. flash' \in Partly(file[1].place)
      BY <2>1 DEF Restart
    <3>2. OneTree \/ OneOther
      BY <2>1 DEF UpdInv, OneInv
    <3>3. file[1].place \in Places /\ (told # 0 => file[1].place # saved)
      <4>1. CASE OneTree
        BY <4>1, <2>0 DEF OneTree
      <4>2. CASE OneOther
        <5>1. PICK k \in {"kernel", "uboot"}, v \in Versions, p \in Places:
                 /\ file = <<[kind |-> k, ver |-> v, place |-> p, len |-> 1]>>
                 /\ told # 0 \/ ~stopped => p # saved
          BY <4>2 DEF OneOther
        <5> QED BY <5>1
      <4> QED BY <3>2, <4>1, <4>2
    <3> QED BY <3>1, <3>3, <2>0, <1>0, PartlyIs
  <2>2. CASE cmd = "allwrite"
    <3>1. flash' \in Partly(file[index].place)
      BY <2>2 DEF Restart
    <3>2. index <= Len(file) /\ told = 0
      BY <2>2 DEF UpdInv, AllInv
    <3>3. file[index].place \in Places
      BY <2>2, <3>2, AtSection
    <3> QED BY <3>1, <3>2, <3>3, <2>0, <1>0, PartlyIs
  <2>3. CASE ~(cmd = "write" /\ file # NoFile) /\ cmd # "allwrite"
    <3>1. flash' = flash
      BY <2>3 DEF Restart
    <3> QED BY <3>1, <2>0, <1>0 DEF TreesSafe
  <2> QED BY <2>1, <2>2, <2>3
<1>3. TreesSafe' /\ DtbWhereToldSo'
  BY <1>0, <1>1, <1>2 DEF TreesSafe, DtbWhereToldSo
<1>4. Sound'
  BY <1>1 DEF Sound, Agreed
<1>5. memFdt' \in Versions \cup {0}
  BY <1>0, <1>1, <1>2, FdtType DEF UpdTypeOK
<1>6. fdtSet' \in BOOLEAN /\ dtbLen' \in BOOLEAN
  BY <1>1
<1> QED BY <1>0, <1>1, <1>2, <1>3, <1>4, <1>5, <1>6, ReturnKeeps DEF UpdTypeOK, UpdPlaces

LEMMA UpdStep == UpdInv /\ [UpdNext]_updVars => UpdInv'
<1> SUFFICES ASSUME UpdInv, [UpdNext]_updVars PROVE UpdInv'
  OBVIOUS
<1>1. CASE UNCHANGED updVars
  <2>1. UNCHANGED <<flash, saved, env, memFdt, fdtSet, dtbLen, cmd, file, index, left,
                    before, told, savedOk, stopped>>
    BY <1>1 DEF updVars
  <2>2. UpdTypeOK' /\ UpdPlaces' /\ TreesSafe' /\ DtbWhereToldSo'
    BY <2>1 DEF UpdInv, UpdTypeOK, UpdPlaces, TreesSafe, DtbWhereToldSo
  <2>3. (Sound' <=> Sound) /\ (OneTree' <=> OneTree) /\ (OneOther' <=> OneOther) /\ Met' = Met
    BY <2>1 DEF Sound, Agreed, FdtAt, OneTree, OneOther, Met
  <2>4. OneInv'
    BY <2>1, <2>3 DEF UpdInv, OneInv
  <2>5. AllInv'
    BY <2>1, <2>3 DEF UpdInv, AllInv
  <2> QED BY <2>2, <2>4, <2>5 DEF UpdInv
<1>2. ASSUME NEW v \in Versions \cup {0}, UpdateDtb(v) \/ UpdateKernel(v) \/ UpdateUboot(v)
      PROVE  UpdInv'
  BY <1>2, UpdateDtbKeeps, UpdateKernelKeeps, UpdateUbootKeeps
<1>3. ASSUME NEW ok \in BOOLEAN, DtbSave(ok) \/ WriteFile(ok) \/ AllSection(ok)
      PROVE  UpdInv'
  BY <1>3, DtbSaveKeeps, WriteFileKeeps, AllSectionKeeps
<1>4. ASSUME NEW f \in Files, UpdateAll(f) PROVE UpdInv'
  BY <1>4, UpdateAllKeeps
<1>5. CASE AllDone \/ AllWrite \/ AllFails \/ Restart
  BY <1>5, AllDoneKeeps, AllWriteKeeps, AllFailsKeeps, RestartKeeps
<1> QED BY <1>1, <1>2, <1>3, <1>4, <1>5 DEF UpdNext

\* However transfers, saves and writes fail and power is cut: the next boot finds
\* the device tree of an update that reported success, the offsets of later
\* updates come from the device tree that it will find, and `update all' writes
\* its sections in order and never reads past its file (do_update_dtb,
\* do_update_kernel, _do_write_all_); for every layout and all files that fit it.
THEOREM UpdateCoherentCorrect == UpdSpec => []UpdateCoherent
<1>1. UpdInv => UpdateCoherent
  <2> SUFFICES ASSUME UpdInv PROVE UpdateCoherent
    OBVIOUS
  <2>1. UpdTypeOK /\ DtbWhereToldSo
    BY DEF UpdInv
  <2>2. FdtCoherent
    BY DEF UpdInv, OneInv, Sound, Agreed, FdtCoherent
  <2>3. AllInOrder
    <3>1. cmd \in {"all", "allwrite"} => flash = FlashAfter(before, file)[index - 1]
      BY DEF UpdInv, AllInv
    <3> QED BY <3>1, AllEndsAtEnd DEF AllInOrder
  <2> QED BY <2>1, <2>2, <2>3 DEF UpdateCoherent
<1> QED BY UpdInitHolds, UpdStep, <1>1, PTL DEF UpdSpec
=============================================================================

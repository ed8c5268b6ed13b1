--------------------------- MODULE UpdaterProofs ----------------------------
(***************************************************************************)
(* Theorems of the updater, for every set of releases, every release list  *)
(* the booth may serve, every canary window and every choice of faults.    *)
(*                                                                         *)
(* The argument is IInv (Updater.tla): the three statements about the      *)
(* recorded version are not inductive by themselves, because a rollback    *)
(* keeps the recorded version only if it is still in the tick's list when  *)
(* it is looked up (Resolved), an applied release is above it only if the  *)
(* target was (Aimed), and it was certified only if it is what the canary  *)
(* ran against (Tried).                                                    *)
(***************************************************************************)
EXTENDS Updater, TLAPS

-----------------------------------------------------------------------------
(* Lemmas about the decision rules. *)

(* Cutting the kept images down to two keeps the newest one                *)
(* (versions.ts, fromLibState).                                            *)
LEMMA NewestTwoKeepsNewest ==
    ASSUME NEW S \in SUBSET Nat, NEW v \in S, \A k \in S : k <= v
    PROVE  v \in NewestTwo(S) /\ NewestTwo(S) \subseteq S
BY DEF NewestTwo

(* A rollback goes to the newest kept image whenever the schema covers it  *)
(* (decisions.ts, rollbackTarget).                                         *)
LEMMA RollbackFindsNewest ==
    ASSUME NEW kept \in SUBSET Nat, NEW v \in kept, \A k \in kept : k <= v,
           NEW migratedSchema \in Nat, v <= migratedSchema
    PROVE  RollbackTarget(kept, migratedSchema) = v
<1> DEFINE compatible == {k \in kept : k <= migratedSchema}
<1>1. v \in compatible /\ \A j \in compatible : j <= v
    OBVIOUS
<1>2. \A k \in compatible : (\A j \in compatible : j <= k) => k = v
    BY <1>1
<1>3. (CHOOSE k \in compatible : \A j \in compatible : j <= k) = v
    BY <1>1, <1>2
<1> QED
    BY <1>1, <1>3 DEF RollbackTarget

(* A poll applies only a release of its list that is above the current one:*)
(* without a signed downgrade no step goes down (decisions.ts, decideStep).*)
LEMMA StepsGoUp ==
    ASSUME NEW list \in SUBSET Nat, NEW v \in Nat, NEW desired, NEW floor,
           NEW step \in DecideStep(list, v, desired, floor, FALSE)
    PROVE  \/ step = Hold
           \/ step = Refuse
           \/ step.action = "apply" /\ step.to \in list /\ step.to > v
BY DEF DecideStep, IsNext, Hold, Refuse, Apply

(* What a finished tick saves is sound again when the version it records is*)
(* no older than the floor and every kept image (versions.ts, fromLibState)*)
LEMMA FromLibStateSound ==
    ASSUME NEW prev \in Persisted, NEW v \in Versions, prev.floor <= v,
           NEW attempts \in [Versions -> Nat],
           NEW kept \in SUBSET Versions, \A k \in kept : k <= v,
           NEW next, next = FromLibState(prev, v, attempts, kept)
    PROVE  /\ next \in Persisted
           /\ next.current = v /\ next.floor = v /\ next.attempting = NoVersion
           /\ v \in next.kept /\ \A k \in next.kept : k <= v
<1> USE VersionsAssumption
<1>1. v \in NewestTwo(kept \cup {v}) /\ NewestTwo(kept \cup {v}) \subseteq kept \cup {v}
    BY NewestTwoKeepsNewest, kept \cup {v} \in SUBSET Nat
<1>2. prev.floor \in Nat /\ v \in Nat
    BY DEF Persisted
<1>3. (IF prev.floor < v THEN v ELSE prev.floor) = v
    BY <1>2
<1>4. NewestTwo(kept \cup {v}) \in SUBSET Versions
    BY <1>1
<1>5. next = [current |-> v, floor |-> v, attempts |-> attempts,
              kept |-> NewestTwo(kept \cup {v}), attempting |-> NoVersion]
    BY <1>3 DEF FromLibState
<1>6. next \in Persisted
    BY <1>4, <1>5 DEF Persisted, NoVersion
<1>7. v \in next.kept /\ \A k \in next.kept : k <= v
    <2>1. next.kept = NewestTwo(kept \cup {v})
        BY <1>5
    <2>2. \A k \in kept \cup {v} : k <= v
        BY <1>2
    <2> QED
        BY <1>1, <2>1, <2>2
<1> QED
    BY <1>5, <1>6, <1>7

(* Counting a failure leaves a count for every release (updater.ts,        *)
(* bumpFailure).                                                           *)
LEMMA BumpFailureType ==
    ASSUME NEW attempts \in [Versions -> Nat], NEW v
    PROVE  /\ BumpFailure(attempts, v) \in [Versions -> Nat]
           /\ ClearFailure(attempts, v) \in [Versions -> Nat]
<1>1. BumpFailure(attempts, v) = [w \in Versions |-> IF w = v THEN attempts[w] + 1 ELSE attempts[w]]
    BY DEF BumpFailure
<1>2. ClearFailure(attempts, v) = [w \in Versions |-> IF w = v THEN 0 ELSE attempts[w]]
    BY DEF ClearFailure
<1> QED
    BY <1>1, <1>2

-----------------------------------------------------------------------------
(* The initial state. *)
LEMMA InitIInv == Init => IInv
<1> USE VersionsAssumption, InstalledAssumption, MaxStrikesAssumption
<1> SUFFICES ASSUME Init PROVE IInv
    OBVIOUS
<1>1. disk \in Persisted
    BY DEF Init, Bootstrap, Persisted, NoVersion
<1>2. TypeOK
    <2>1. PersistedHere \subseteq Persisted
        BY <1>1 DEF Init, PersistedHere
    <2>2. strikes \in [Versions -> 0 .. MaxStrikes]
        BY DEF Init
    <2>3. env \in Deploy /\ snap \in [stamp : Versions \cup {NoVersion}, env : Deploy]
        BY DEF Init, Deploy, InstalledDeploy, NoSnapshot, NoVersion
    <2>4. running \in [app : Versions, infra : SUBSET Versions]
        BY DEF Init
    <2> QED
        BY <2>1, <2>2, <2>3, <2>4 DEF Init, TypeOK, Deploy, InstalledDeploy, NoSnapshot,
                                       NoVersion, Outcomes
<1>3. CurrentWasCertified /\ RollbackNeverDowngrades
    BY DEF Init, Bootstrap, CurrentWasCertified, RollbackNeverDowngrades, PersistedHere
<1>4. Agreed /\ Resolved /\ Aimed /\ Tried
    BY DEF Init, Agreed, Resolved, Aimed, Tried, Swapping, OnTrial, GoingBack
<1> QED
    BY <1>2, <1>3, <1>4 DEF IInv

(* A condemned release is rolled back to the recorded version, never below *)
(* it (updater.ts, tick; decisions.ts, rollbackTarget).                    *)
LEMMA RollbackStays ==
    ASSUME IInv,
           \/ pc \in {"rollback", "rollback_up"}
           \/ pc = "save" /\ outcome = "rolled_back"
    PROVE  RollbackTo = st.current
<1> USE VersionsAssumption
<1>1. /\ st.current \in canon /\ target \in Versions /\ target > st.current
      /\ st \in Persisted /\ st.current \in st.kept /\ \A k \in st.kept : k <= st.current
    BY DEF IInv, TypeOK, Resolved, Aimed, Swapping, GoingBack, RollbackNeverDowngrades,
           PersistedHere
<1>2. /\ ToLibKept(st.kept, canon) \in SUBSET Nat
      /\ st.current \in ToLibKept(st.kept, canon)
      /\ \A k \in ToLibKept(st.kept, canon) : k <= st.current
    BY <1>1 DEF ToLibKept, Persisted
<1>3. target \in Nat /\ st.current \in Nat /\ st.current <= target
    <2>1. st.current \in Versions
        BY <1>1 DEF Persisted
    <2>2. target \in Nat /\ st.current \in Nat
        BY <1>1, <2>1
    <2> QED
        BY <1>1, <2>2
<1>4. RollbackTarget(ToLibKept(st.kept, canon), target) = st.current
    BY <1>2, <1>3, RollbackFindsNewest
<1>5. st.current # NoVersion
    BY <1>1 DEF Persisted, NoVersion
<1> QED
    BY <1>4, <1>5 DEF RollbackTo

(* A step that leaves the records and the box alone keeps the invariant if *)
(* the tick's locals stay sound.                                           *)
LEMMA OnlyLocals ==
    ASSUME IInv, UNCHANGED <<disk, mem, st, boxVars, history>>,
           pc' \in {"idle", "lib", "poll", "save", "op", "final"} \cup Healing \cup Swapping,
           outcome' \in Outcomes, canon' \in SUBSET Versions,
           curImg' \in Versions \cup {NoVersion}, target' \in Versions \cup {NoVersion},
           bundle' \in BOOLEAN, healed' \in BOOLEAN,
           Agreed', Resolved', Aimed', Tried'
    PROVE  IInv'
<1>1. TypeOK'
    BY DEF IInv, TypeOK, PersistedHere, boxVars, history
<1>2. CurrentWasCertified' /\ RollbackNeverDowngrades'
    BY DEF IInv, CurrentWasCertified, RollbackNeverDowngrades, PersistedHere, history
<1> QED
    BY <1>1, <1>2 DEF IInv

(* The steps up to the journal: they only choose the tick's target. *)
LEMMA LocalsIInv ==
    ASSUME IInv,
           \/ ToLib \/ VerifyFailed \/ VerifyDeferred \/ Verified \/ PullByDigest
           \/ \E desired \in Desireds : Poll(desired)
    PROVE  IInv'
<1> USE VersionsAssumption
<1>1. /\ st.current \in Versions /\ canon \in SUBSET Versions /\ env.app \in Versions
      /\ curImg \in Versions \cup {NoVersion} /\ target \in Versions \cup {NoVersion}
      /\ bundle \in BOOLEAN /\ healed \in BOOLEAN /\ outcome \in Outcomes
      /\ st.current = disk.current
      /\ pc \in {"lib", "poll", "verify", "pull"} => mem.current = disk.current
    BY DEF IInv, TypeOK, PersistedHere, Persisted, Deploy, Agreed
<1>2. CASE ToLib
    <2>1. UNCHANGED <<disk, mem, st, boxVars, history, target, bundle, healed>> /\ pc = "lib"
        BY <1>2 DEF ToLib, Goto
    <2>2. \/ pc' = "poll" /\ UNCHANGED outcome /\ st.current \in canon' /\ curImg' \in Versions
             /\ canon' \in SUBSET Versions
          \/ pc' = "op" /\ outcome' = "skipped" /\ UNCHANGED <<canon, curImg>>
        BY <1>1, <1>2 DEF ToLib, Goto
    <2>3. Agreed' /\ Resolved'
        BY <1>1, <2>1, <2>2 DEF Agreed, Resolved, Swapping, OnTrial, GoingBack
    <2>4. Aimed' /\ Tried'
        BY <2>2 DEF Aimed, Tried, Swapping, OnTrial, GoingBack
    <2> QED
        BY <1>1, <2>1, <2>2, <2>3, <2>4, OnlyLocals DEF Outcomes
<1>3. ASSUME NEW desired \in Desireds, Poll(desired) PROVE IInv'
    <2>1. st.current \in Nat /\ canon \in SUBSET Nat
        BY <1>1
    <2>2. /\ pc = "poll"
          /\ UNCHANGED <<disk, mem, st, boxVars, canon, curImg, bundle, healed, history>>
        BY <1>3 DEF Poll, Goto, Conclude
    <2>3. PICK step \in DecideStep(canon, st.current,
                                  DesiredOrdinal(canon, desired, st.current),
                                  IF st.floor \in canon THEN st.floor ELSE NoVersion, FALSE) :
              \/ step = Hold /\ Conclude("up_to_date", "save")
              \/ step = Refuse /\ Conclude("refused", "save")
              \/ /\ step.action = "apply"
                 /\ target' = step.to
                 /\ \/ outcome' = "latched" /\ Goto("save")
                    \/ outcome' = outcome /\ Goto("verify")
        BY <1>3 DEF Poll
    <2>4. \/ step = Hold
          \/ step = Refuse
          \/ step.action = "apply" /\ step.to \in canon /\ step.to > st.current
        BY ONLY <2>1, <2>3, StepsGoUp
    <2>5. Hold.action # "apply" /\ Refuse.action # "apply"
        BY ONLY DEF Hold, Refuse
    <2>6. \/ outcome' \in {"up_to_date", "refused"} /\ pc' = "save" /\ UNCHANGED target
          \/ /\ target' \in canon /\ target' > st.current
             /\ \/ outcome' = "latched" /\ pc' = "save"
                \/ outcome' = outcome /\ pc' = "verify"
        BY <2>3, <2>4, <2>5 DEF Conclude, Goto
    <2>7. Agreed' /\ Tried'
        BY <1>1, <2>2, <2>6 DEF Agreed, Tried, OnTrial
    <2>8. Resolved' /\ Aimed'
        <3>1. st.current \in canon /\ curImg \in Versions
            BY <2>2 DEF IInv, Resolved
        <3> QED
            BY <1>1, <2>2, <2>6, <3>1 DEF Resolved, Aimed, Swapping, OnTrial, GoingBack
    <2>9. pc' \in {"save"} \cup Swapping /\ outcome' \in Outcomes
          /\ target' \in Versions \cup {NoVersion}
        BY <1>1, <2>6 DEF Swapping, Outcomes
    <2> QED
        BY <1>1, <2>2, <2>7, <2>8, <2>9, OnlyLocals
<1>4. CASE VerifyFailed \/ VerifyDeferred \/ Verified \/ PullByDigest
    <2>1. /\ UNCHANGED <<disk, mem, st, boxVars, history, canon, curImg, target, healed>>
          /\ pc \in {"verify", "pull"}
        BY <1>4 DEF VerifyFailed, VerifyDeferred, Verified, PullByDigest, Goto, Conclude, tickVars
    <2>2. \/ pc' \in {"pull", "journal"} /\ UNCHANGED outcome
          \/ pc' = "save" /\ outcome' \in {"verify_failed", "verify_deferred"}
          \/ pc' = "op" /\ outcome' = "threw"
        BY <1>4 DEF VerifyFailed, VerifyDeferred, Verified, PullByDigest, Goto, Conclude
    <2>6. bundle' \in BOOLEAN
        <3>1. CASE Verified
            <4>1. bundle' = (target \in Bundles)
                BY ONLY <3>1 DEF Verified
            <4> QED
                BY ONLY <4>1
        <3>2. CASE VerifyFailed \/ VerifyDeferred \/ PullByDigest
            BY <1>1, <3>2, Zenon DEF VerifyFailed, VerifyDeferred, PullByDigest, Conclude
        <3> QED
            BY ONLY <1>4, <3>1, <3>2
    <2>3. Agreed' /\ Tried'
        BY <1>1, <2>1, <2>2 DEF Agreed, Tried, OnTrial
    <2>4. Resolved' /\ Aimed'
        BY <1>1, <2>1, <2>2 DEF IInv, Resolved, Aimed, Swapping, OnTrial, GoingBack
    <2>5. pc' \in {"save", "op"} \cup Swapping /\ outcome' \in Outcomes
        BY <1>1, <2>2 DEF Swapping, Outcomes
    <2> QED
        BY <1>1, <2>1, <2>3, <2>4, <2>5, <2>6, OnlyLocals
<1> QED
    BY <1>2, <1>3, <1>4

(* The canary's verdict certifies what is up, which is the target.         *)
LEMMA CanaryIInv ==
    ASSUME IInv, NEW window \in Windows, Canary(window)
    PROVE  IInv'
<1> USE VersionsAssumption
<1>1. /\ pc = "canary" /\ running.app = target /\ running.app \in Versions /\ env.app = target
      /\ UNCHANGED <<disk, mem, st, boxVars, base, parked, strikes, canon, curImg, target,
                     bundle, healed>>
      /\ mem.current = disk.current /\ st.current = disk.current
    <2>1. /\ pc = "canary" /\ UNCHANGED <<disk, mem, st, boxVars, base, parked, strikes, canon,
                                          curImg, target, bundle, healed>>
        BY DEF Canary, Goto, Conclude, tickVars
    <2>2. running.app = target /\ env.app = target /\ running.app \in Versions
        BY <2>1 DEF IInv, TypeOK, Tried, OnTrial
    <2>3. mem.current = disk.current /\ st.current = disk.current
        BY <2>1 DEF IInv, Agreed
    <2> QED
        BY <2>1, <2>2, <2>3
<1>2. \/ pc' = "save" /\ outcome' = "applied" /\ certified' = certified \cup {target}
      \/ pc' = "save" /\ outcome' = "busy_retry" /\ UNCHANGED certified
      \/ pc' = "rollback" /\ UNCHANGED outcome /\ UNCHANGED certified
    BY <1>1 DEF Canary, Goto, Conclude, tickVars
<1>3. TypeOK'
    BY <1>1, <1>2 DEF IInv, TypeOK, PersistedHere, boxVars, Outcomes, Swapping, GoingBack
<1>4. CurrentWasCertified' /\ RollbackNeverDowngrades'
    BY <1>1, <1>2 DEF IInv, CurrentWasCertified, RollbackNeverDowngrades, PersistedHere
<1>5. Agreed' /\ Tried'
    BY <1>1, <1>2 DEF Agreed, Tried, OnTrial, boxVars
<1>6. Resolved' /\ Aimed'
    BY <1>1, <1>2 DEF IInv, Resolved, Aimed, Swapping, OnTrial, GoingBack
<1> QED
    BY <1>3, <1>4, <1>5, <1>6 DEF IInv

(* The tick's steps that neither write the state file, nor change the      *)
(* loop's memory or the tick's state: what is recorded stands, and only    *)
(* what the tick knows of its locals is at stake.                          *)
LEMMA QuietIInv ==
    ASSUME IInv,
           \/ HealFiles \/ HealApp \/ HealInfra
           \/ \E feed \in Feeds : TickBegin(feed)
           \/ LayDeployTree \/ PinTarget \/ UpPostgresWait \/ Migrate \/ RestartTarget
           \/ ListFails \/ RollbackFiles \/ ComposeUp
    PROVE  IInv'
<1> USE VersionsAssumption, InstalledAssumption
<1> USE DEF IInv, TypeOK, Agreed, Resolved, Aimed, Tried, CurrentWasCertified, 
            RollbackNeverDowngrades, PersistedHere, Persisted, Deploy, NoVersion,
            Swapping, OnTrial, GoingBack, Healing, Outcomes, Goto, Conclude, history, tickVars
<1>1. CASE ListFails
    BY <1>1 DEF ListFails, boxVars
<1>2. ASSUME NEW feed \in Feeds, TickBegin(feed) PROVE IInv'
    BY <1>2, FeedsAssumption DEF TickBegin, boxVars, CanonicalOrder, Feed
<1>3. CASE HealFiles
    BY <1>3 DEF HealFiles, PinImage, RestoreDeploySnapshot, NoSnapshot, InstalledDeploy
<1>4. CASE HealApp
    BY <1>4 DEF HealApp, RestartedApp, PartlyUp
<1>5. CASE HealInfra
    BY <1>5 DEF HealInfra, UpInfra, PartlyUp, NoSnapshot, InstalledDeploy
<1>6. CASE LayDeployTree
    BY <1>6 DEF LayDeployTree, SnapshotDeploy, ApplyDeployTree
<1>7. CASE PinTarget
    BY <1>7 DEF PinTarget, PinImage
<1>8. CASE UpPostgresWait
    BY <1>8 DEF UpPostgresWait, UpPostgres, PartlyUp
<1>9. CASE Migrate
    BY <1>9 DEF Migrate
<1>10. CASE RestartTarget
    BY <1>10 DEF RestartTarget, UpInfra, RestartedApp, PartlyUp
<1>11. CASE RollbackFiles
    <2>1. Resolve(RollbackTo) = curImg
        BY <1>11, RollbackStays DEF RollbackFiles, Resolve
    <2> QED
        BY <1>11, <2>1 DEF RollbackFiles, PinImage, RestoreDeploySnapshot
<1>12. CASE ComposeUp
    BY <1>12 DEF ComposeUp, RestartedApp, UpInfra
<1> QED
    BY <1>1, <1>2, <1>3, <1>4, <1>5, <1>6, <1>7, <1>8, <1>9, <1>10, <1>11, <1>12

(* The steps at which the tick's state, the loop's memory or the state file*)
(* change without a release being judged.                                  *)
LEMMA RecordingIInv ==
    ASSUME IInv,
           \/ HealSave \/ HeartbeatFails \/ JournalSwap \/ UndoFiles \/ UndoUp \/ RollbackUp
           \/ HonorRestartOp \/ RestartOpFails \/ SelfUpdate \/ Crash
    PROVE  IInv'
<1> USE VersionsAssumption, InstalledAssumption, MaxStrikesAssumption
<1> USE DEF IInv, TypeOK, Agreed, Resolved, Aimed, Tried, CurrentWasCertified,
            RollbackNeverDowngrades, PersistedHere, Persisted, Deploy, NoVersion,
            Swapping, OnTrial, GoingBack, Healing, Outcomes, Goto, Conclude, Return, ResetTick,
            history, tickVars, boxVars
<1>1. CASE HealSave
    <2>1. BumpFailure(st.attempts, st.attempting) \in [Versions -> Nat]
        BY BumpFailureType
    <2>2. /\ st' \in Persisted /\ disk' = st'
          /\ st'.current = st.current /\ st'.floor = st.floor /\ st'.kept = st.kept
        BY <1>1, <2>1 DEF HealSave
    <2> QED
        BY <1>1, <2>2 DEF HealSave
<1>2. CASE HeartbeatFails
    BY <1>2 DEF HeartbeatFails
<1>3. CASE JournalSwap
    BY <1>3 DEF JournalSwap
<1>4. CASE UndoFiles
    BY <1>4 DEF UndoFiles, PinImage, RestoreDeploySnapshot, Rethrow
<1>5. CASE UndoUp
    BY <1>5 DEF UndoUp, PinImage, UpInfra, PartlyUp, Rethrow, NoSnapshot, InstalledDeploy
<1>6. CASE RollbackUp
    BY <1>6 DEF RollbackUp, UpInfra, RestartedApp, PartlyUp, Rethrow, NoSnapshot, InstalledDeploy
<1>7. CASE HonorRestartOp
    <2>1. CASE Return
        BY <1>7, <2>1 DEF HonorRestartOp
    <2>2. CASE Goto("final") /\ UNCHANGED <<st, tickVars>>
        BY <1>7, <2>2 DEF HonorRestartOp
    <2> QED
        BY ONLY <1>7, <2>1, <2>2 DEF HonorRestartOp, AfterOp, WasCompleted
<1>8. CASE RestartOpFails
    BY <1>8 DEF RestartOpFails, Throw, RestartedThisTick, JournaledThisTick, WasCompleted
<1>9. CASE SelfUpdate
    <2>1. env' \in Deploy /\ snap' \in [stamp : Versions \cup {NoVersion}, env : Deploy]
        BY <1>9 DEF SelfUpdate, NoSnapshot, InstalledDeploy
    <2>2. selfRun' \in Versions
        BY <1>9, <2>1 DEF SelfUpdate
    <2>3. TypeOK'
        BY <1>9, <2>1, <2>2 DEF SelfUpdate
    <2>4. CurrentWasCertified' /\ RollbackNeverDowngrades'
        BY <1>9 DEF SelfUpdate
    <2>5. Agreed' /\ Resolved' /\ Aimed' /\ Tried'
        BY <1>9 DEF SelfUpdate
    <2> QED
        BY ONLY <2>3, <2>4, <2>5 DEF IInv
<1>10. CASE Crash
    BY <1>10 DEF Crash
<1> QED
    BY <1>1, <1>2, <1>3, <1>4, <1>5, <1>6, <1>7, <1>8, <1>9, <1>10

(* The save: the version it records is the one recorded before, or the     *)
(* certified target.                                                       *)
LEMMA SaveTickIInv ==
    ASSUME IInv, SaveTick
    PROVE  IInv' /\ st.current <= st'.current
<1> USE VersionsAssumption
<1> DEFINE kept == ToLibKept(st.kept, canon)
           next == FromLibState(st, NextCurrent, NextAttempts, kept)
<1>1. /\ st \in Persisted /\ st.floor = st.current /\ st.current \in certified
      /\ \A k \in st.kept : k <= st.current
      /\ outcome \in Outcomes /\ canon \in SUBSET Versions
    BY DEF IInv, TypeOK, PersistedHere, RollbackNeverDowngrades, CurrentWasCertified
<1>2. pc = "save"
    BY DEF SaveTick
<1>3. st.current \in Versions /\ st.current \in Nat
    BY <1>1 DEF Persisted
<1>4. /\ NextCurrent \in Versions /\ NextCurrent \in certified /\ NextCurrent >= st.current
      /\ NextCurrent = IF outcome = "applied" THEN target ELSE st.current
    <2>1. CASE outcome = "applied"
        BY <1>2, <1>3, <2>1 DEF IInv, Aimed, Tried, NextCurrent
    <2>2. CASE outcome = "rolled_back"
        BY <1>1, <1>2, <1>3, <2>2, RollbackStays DEF NextCurrent
    <2>3. CASE outcome \notin {"applied", "rolled_back"}
        BY <1>1, <1>3, <2>3 DEF NextCurrent
    <2> QED
        BY <2>1, <2>2, <2>3
<1>5. NextAttempts \in [Versions -> Nat]
    <2>1. ToLibAttempts(st.attempts, canon) \in [Versions -> Nat]
        BY <1>1 DEF ToLibAttempts, Persisted
    <2> QED
        BY <2>1, BumpFailureType DEF NextAttempts
<1>6. kept \in SUBSET Versions /\ \A k \in kept : k <= NextCurrent
    <2>1. kept \subseteq st.kept /\ st.kept \in SUBSET Versions
        BY <1>1 DEF ToLibKept, Persisted
    <2>2. SUFFICES ASSUME NEW k \in kept PROVE k <= NextCurrent
        BY <2>1
    <2>3. k \in Nat /\ NextCurrent \in Nat /\ k <= st.current
        BY <1>1, <1>4, <2>1, <2>2
    <2> QED
        BY <1>3, <1>4, <2>3
<1>7. /\ next \in Persisted /\ next.current = NextCurrent /\ next.floor = NextCurrent
      /\ NextCurrent \in next.kept /\ \A k \in next.kept : k <= NextCurrent
    BY <1>1, <1>3, <1>4, <1>5, <1>6, FromLibStateSound
<1>8. st' = next \/ st' = [next EXCEPT !.attempting = st.attempting]
    BY DEF SaveTick
<1>9. /\ st' \in Persisted /\ st'.current = NextCurrent /\ st'.floor = NextCurrent
      /\ NextCurrent \in st'.kept /\ \A k \in st'.kept : k <= NextCurrent
    BY <1>1, <1>7, <1>8 DEF Persisted
<1>10. TypeOK'
    <2>1. mem' = mem /\ disk' = st' /\ pc' = "op" /\ UNCHANGED <<boxVars, tickVars, certified>>
        BY DEF SaveTick, Goto
    <2>2. parked' \in {target, NoVersion, parked}
        BY DEF SaveTick
    <2>3. strikes' \in [Versions -> 0 .. MaxStrikes]
        <3>1. strikes \in [Versions -> 0 .. MaxStrikes]
            BY DEF IInv, TypeOK
        <3>2. \/ strikes' = [strikes EXCEPT ![target] = 0]
              \/ strikes[target] > 0 /\ strikes' = [strikes EXCEPT ![target] = @ - 1]
              \/ strikes' = strikes
            BY DEF SaveTick
        <3>3. \/ strikes' = [v \in Versions |-> IF v = target THEN 0 ELSE strikes[v]]
              \/ /\ strikes[target] > 0
                 /\ strikes' = [v \in Versions |-> IF v = target THEN strikes[v] - 1 ELSE strikes[v]]
              \/ strikes' = strikes
            BY <3>1, <3>2
        <3> QED
            BY <3>1, <3>3, MaxStrikesAssumption
    <2>4. base' \in Versions
        BY DEF SaveTick, IInv, TypeOK, Deploy
    <2> QED
        BY <1>9, <2>1, <2>2, <2>3, <2>4 DEF IInv, TypeOK, PersistedHere, tickVars, boxVars
<1>11. CurrentWasCertified' /\ RollbackNeverDowngrades'
    BY <1>4, <1>9 DEF SaveTick, IInv, CurrentWasCertified, RollbackNeverDowngrades,
                      PersistedHere, Goto
<1>12. Agreed'
    BY <1>2, <1>4, <1>9 DEF SaveTick, IInv, Agreed, Goto, tickVars
<1>13. Resolved' /\ Aimed' /\ Tried'
    BY <1>2 DEF SaveTick, IInv, Resolved, Aimed, Tried, Goto, tickVars, Swapping, OnTrial, GoingBack
<1> QED
    BY <1>4, <1>9, <1>10, <1>11, <1>12, <1>13 DEF IInv

-----------------------------------------------------------------------------
(* Every step keeps the inductive invariant. *)
LEMMA NextIInv == IInv /\ [Next]_vars => IInv'
<1> SUFFICES ASSUME IInv, [Next]_vars PROVE IInv'
    OBVIOUS
<1>1. CASE UNCHANGED vars
    BY <1>1 DEF vars, boxVars, tickVars, history, IInv, TypeOK, Agreed, Resolved, Aimed, Tried,
                CurrentWasCertified, RollbackNeverDowngrades, PersistedHere
<1>2. CASE Next
    BY <1>2, LocalsIInv, CanaryIInv, QuietIInv, RecordingIInv, SaveTickIInv DEF Next, TickStep
<1> QED
    BY <1>1, <1>2

(* The inductive invariant, of every behaviour of the updater. *)
THEOREM Invariance == Spec => []IInv
    BY InitIInv, NextIInv, PTL DEF Spec

(* Type correctness: whatever the booth serves and docker does, the state  *)
(* file, the loop's memory and the box stay well formed.                   *)
THEOREM TypeCorrect == Spec => []TypeOK
<1>1. IInv => TypeOK
    BY DEF IInv
<1> QED
    BY <1>1, Invariance, PTL

(* Only a version a canary found healthy while it was up is ever recorded  *)
(* (updater.ts, tick).                                                     *)
THEOREM OnlyCertified == Spec => []CurrentWasCertified
<1>1. IInv => CurrentWasCertified
    BY DEF IInv
<1> QED
    BY <1>1, Invariance, PTL

(* The floor is the recorded version, itself the newest image kept for a   *)
(* rollback (versions.ts, fromLibState; decisions.ts, rollbackTarget).     *)
THEOREM RollbackIsSafe == Spec => []RollbackNeverDowngrades
<1>1. IInv => RollbackNeverDowngrades
    BY DEF IInv
<1> QED
    BY <1>1, Invariance, PTL

(* Only the save of a finished tick changes the version recorded. *)
LEMMA OnlySaveRecords ==
    ASSUME IInv, Next, ~SaveTick
    PROVE  disk'.current = disk.current
<1>1. \/ UNCHANGED disk
      \/ disk' = [st EXCEPT !.attempting = target]
      \/ disk' = st
      \/ HealSave
    <2>1. CASE HealSave \/ JournalSwap \/ HonorRestartOp \/ RestartOpFails
        BY <2>1 DEF JournalSwap, HonorRestartOp, RestartOpFails
    <2>2. CASE \/ ListFails \/ \E feed \in Feeds : TickBegin(feed)
               \/ HealFiles \/ HealApp \/ HealInfra \/ ToLib
               \/ HeartbeatFails \/ \E desired \in Desireds : Poll(desired)
               \/ VerifyFailed \/ VerifyDeferred \/ Verified \/ PullByDigest
        BY <2>2 DEF ListFails, TickBegin, HealFiles, HealApp, HealInfra, ToLib,
            HeartbeatFails, Poll, VerifyFailed, VerifyDeferred, Verified, PullByDigest
    <2>3. CASE LayDeployTree \/ PinTarget \/ UpPostgresWait \/ Migrate \/ RestartTarget
        BY <2>3 DEF LayDeployTree, PinTarget, UpPostgresWait, Migrate, RestartTarget
    <2>4. CASE \/ UndoFiles \/ UndoUp \/ RollbackFiles \/ RollbackUp \/ SelfUpdate
               \/ \E window \in Windows : Canary(window)
        BY <2>4 DEF UndoFiles, UndoUp, RollbackFiles, RollbackUp, SelfUpdate, Canary
    <2>5. CASE Crash \/ ComposeUp
        BY <2>5 DEF Crash, ComposeUp
    <2> QED
        BY <2>1, <2>2, <2>3, <2>4, <2>5 DEF Next, TickStep
<1>2. st \in Persisted /\ st.current = disk.current
    BY DEF IInv, TypeOK, PersistedHere, Agreed
<1>3. CASE HealSave
    BY <1>2, <1>3 DEF Persisted, HealSave
<1> QED
    BY <1>1, <1>2, <1>3 DEF Persisted

(* The recorded version and the anti-downgrade floor never go back, through*)
(* crashes, heals, rollbacks and saves of an older memory.                 *)
THEOREM NeverFalls == Spec => CurrentNeverFalls
<1>1. IInv /\ [Next]_vars => [disk'.current >= disk.current /\ disk'.floor >= disk.floor]_vars
    <2> SUFFICES ASSUME IInv, IInv', Next
                 PROVE  disk'.current >= disk.current
        BY NextIInv DEF IInv, RollbackNeverDowngrades, PersistedHere
    <2>1. disk.current \in Nat /\ st.current = disk.current
        BY VersionsAssumption DEF IInv, TypeOK, Agreed, PersistedHere, Persisted
    <2>2. CASE SaveTick
        BY <2>1, <2>2, SaveTickIInv DEF SaveTick
    <2>3. CASE ~SaveTick
        BY <2>1, <2>3, OnlySaveRecords
    <2> QED
        BY <2>2, <2>3
<1> QED
    BY <1>1, Invariance, PTL DEF Spec, CurrentNeverFalls
=============================================================================

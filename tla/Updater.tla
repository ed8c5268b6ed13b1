------------------------------ MODULE Updater -------------------------------
(***************************************************************************)
(* The updater's main loop (apps/updater/src/main.ts), one tick of it      *)
(* (runtime.ts, runTick, with the library's updater.ts, Updater.tick) and  *)
(* the box it drives (host.ts): one action per awaited host call, so that  *)
(* the process may die, docker may fail and an operator may act between    *)
(* any two of them.                                                        *)
(*                                                                         *)
(* Simplifications.  File operations the code runs without an await between*)
(* them are one action, except that the swap journal is saved in a step of *)
(* its own.  A deploy shape (compose tree, configs, postgres and caddy     *)
(* pins) is named by the release that shipped it, and a partly written one *)
(* by the newer release.  The operator ops are what they do to this state: *)
(* an honoured op saves the state at hand, a forced restart may fail.      *)
(* Deferral counts, image pruning and telemetry are left out.              *)
(***************************************************************************)
EXTENDS UpdaterDecisions

CONSTANTS
    Installed,      \* BRAIN_CURRENT_VERSION, the release the box was built from
    Bundles,        \* the releases that ship a bundle (a whole-box update)
    Feeds,          \* the release lists the booth may serve
    Desireds,       \* the desired versions it may name (NoVersion for null)
    Windows,        \* the sample windows /canary may answer with
    Faults,         \* which host calls may fail (see FaultKinds)
    MaxStrikes      \* where the history counter of failed swaps saturates

FaultKinds ==
    {"feed", "booth", "verify", "bundle", "pull", "compose", "migrate", "heal",
     "op", "self", "crash"}

ASSUME InstalledAssumption == Installed \in Versions
ASSUME BundlesAssumption == Bundles \subseteq Versions
ASSUME FeedsAssumption == Feeds \subseteq Feed
ASSUME DesiredsAssumption == Desireds \subseteq Versions \cup {NoVersion}
ASSUME WindowsAssumption == Windows \subseteq SUBSET CanarySample
ASSUME FaultsAssumption == Faults \subseteq FaultKinds
ASSUME MaxStrikesAssumption == MaxStrikes \in Nat

VARIABLES
    disk,       \* the state file
    mem,        \* main.ts `state`, carried from tick to tick
    st,         \* runTick's `persisted`, then its `next`
    env,        \* deploy/.env (app and updater pins) and the deploy shape on disk
    snap,       \* the deploy snapshot and its stamp
    running,    \* the app image and the infra shapes that are up
    schema,     \* the newest release whose migrations have run
    selfRun,    \* the image the updater container runs
    pc,         \* the host call the tick awaits
    canon,      \* the tick's canonical release list
    curImg,     \* the image that list gives the current version
    target,     \* the release being applied
    bundle,     \* pendingBundle is not null
    healed,     \* healRestarted
    outcome,    \* the tick's outcome
    certified,  \* history: images that were running when a canary was healthy
    base,       \* history: the deploy shape of the last applied release
    parked,     \* history: the release a busy canary left live
    strikes     \* history: swaps of a release begun and not ended well

boxVars == <<env, snap, running, schema, selfRun>>
tickVars == <<canon, curImg, target, bundle, healed, outcome>>
history == <<certified, base, parked, strikes>>
vars == <<disk, mem, st, boxVars, pc, tickVars, history>>

-----------------------------------------------------------------------------
Deploy == [app : Versions, tree : Versions, updater : Versions]

InstalledDeploy == [app |-> Installed, tree |-> Installed, updater |-> Installed]

NoSnapshot == [stamp |-> NoVersion, env |-> InstalledDeploy]

Init ==
    /\ disk = Bootstrap(Installed)
    /\ mem = disk
    /\ st = disk
    /\ env = InstalledDeploy
    /\ snap = NoSnapshot
    /\ running = [app |-> Installed, infra |-> {Installed}]
    /\ schema = Installed
    /\ selfRun = Installed
    /\ pc = "idle"
    /\ canon = {}
    /\ curImg = NoVersion
    /\ target = NoVersion
    /\ bundle = FALSE
    /\ healed = FALSE
    /\ outcome = "none"
    /\ certified = {Installed}
    /\ base = Installed
    /\ parked = NoVersion
    /\ strikes = [v \in Versions |-> 0]

-----------------------------------------------------------------------------
(* The host calls of host.ts.  A compose command that fails may have got   *)
(* any part of its work done.                                              *)
RestartedApp == [running EXCEPT !.app = env.app]

UpInfra == [app |-> env.app, infra |-> {env.tree}]

UpPostgres == [running EXCEPT !.infra = @ \cup {env.tree}]

PartlyUp(full) ==
    [app : {running.app, full.app}, infra : {running.infra, running.infra \cup full.infra}]

SnapshotDeploy(v) == [stamp |-> v, env |-> env]

RestoreDeploySnapshot == snap.env

PinImage(deploy, v) == [deploy EXCEPT !.app = v]

ApplyDeployTree(v) == [env EXCEPT !.tree = v]

(* The image a version resolves to in this tick's list. *)
Resolve(v) == IF v = st.current THEN curImg ELSE v

-----------------------------------------------------------------------------
(* The tick's locals, dead between ticks. *)
ResetTick ==
    /\ canon' = {}
    /\ curImg' = NoVersion
    /\ target' = NoVersion
    /\ bundle' = FALSE
    /\ healed' = FALSE
    /\ outcome' = "none"

(* runTick returns: main.ts takes the state it was handed. *)
Return ==
    /\ mem' = st
    /\ st' = st
    /\ pc' = "idle"
    /\ ResetTick

(* runTick throws: main.ts keeps the state it had. *)
Throw ==
    /\ mem' = mem
    /\ st' = mem
    /\ pc' = "idle"
    /\ ResetTick

Goto(label) ==
    /\ pc' = label
    /\ UNCHANGED mem

(* The tick goes on to the operator op with the given outcome. *)
Conclude(kind, label) ==
    /\ Goto(label)
    /\ outcome' = kind
    /\ UNCHANGED <<canon, curImg, target, bundle, healed>>

(* Slip: the journal stays on disk only. *)
Rethrow_Forgotten == st' = st /\ Conclude("threw", "op")

(* A throw from migrate, restart or rollback: the library tick is lost and *)
(* the journal, already on disk, is put back into the state to return.     *)
Rethrow ==
    /\ st' = [st EXCEPT !.attempting = target]
    /\ Conclude("threw", "op")

-----------------------------------------------------------------------------
(* The release list: a failed one skips the tick. *)
ListFails ==
    /\ pc = "idle"
    /\ "feed" \in Faults
    /\ Conclude("skipped", "op")
    /\ UNCHANGED <<disk, st, boxVars, history>>

(* A list in hand.  A journal found now means an earlier tick died or threw*)
(* mid-swap: heal, unless the list cannot resolve the current version.     *)
TickBegin(feed) ==
    /\ pc = "idle"
    /\ canon' = CanonicalOrder(feed, st.current)
    /\ Goto(IF st.attempting # NoVersion /\ st.current \in canon' THEN "heal" ELSE "lib")
    /\ UNCHANGED <<curImg, target, bundle, healed, outcome>>
    /\ UNCHANGED <<disk, st, boxVars, history>>

(* Slip: the heal leaves the app pin as it is. *)
HealFiles_Unpinned ==
    /\ pc = "heal"
    /\ LET stamped == snap.stamp = st.attempting
       IN  /\ env' = IF stamped THEN RestoreDeploySnapshot ELSE env
           /\ snap' = IF stamped THEN snap ELSE NoSnapshot
    /\ Goto("heal_app")
    /\ UNCHANGED <<disk, st, running, schema, selfRun, tickVars, history>>

(* Restore the shape from a snapshot stamped with the journaled release,   *)
(* discard any other snapshot, and pin the current image.                  *)
HealFiles ==
    /\ pc = "heal"
    /\ LET stamped == snap.stamp = st.attempting
       IN  /\ env' = PinImage(IF stamped THEN RestoreDeploySnapshot ELSE env, st.current)
           /\ snap' = IF stamped THEN snap ELSE NoSnapshot
    /\ Goto("heal_app")
    /\ UNCHANGED <<disk, st, running, schema, selfRun, tickVars, history>>

(* Slip: a heal that docker refused counts as done. *)
HealApp_Optimistic ==
    /\ pc = "heal_app"
    /\ running' \in IF "heal" \in Faults THEN PartlyUp(RestartedApp) ELSE {RestartedApp}
    /\ Goto(IF snap.stamp = st.attempting THEN "heal_infra" ELSE "heal_save")
    /\ UNCHANGED <<disk, st, env, snap, schema, selfRun, tickVars, history>>

HealApp ==
    /\ pc = "heal_app"
    /\ \/ /\ running' = RestartedApp
          /\ Goto(IF snap.stamp = st.attempting THEN "heal_infra" ELSE "heal_save")
       \/ /\ "heal" \in Faults
          /\ running' \in PartlyUp(RestartedApp)
          /\ Goto("lib")
    /\ UNCHANGED <<disk, st, env, snap, schema, selfRun, tickVars, history>>

HealInfra ==
    /\ pc = "heal_infra"
    /\ \/ /\ running' = UpInfra
          /\ snap' = NoSnapshot
          /\ Goto("heal_save")
       \/ /\ "heal" \in Faults
          /\ running' \in PartlyUp(UpInfra)
          /\ Goto("lib")
          /\ UNCHANGED snap
    /\ UNCHANGED <<disk, st, env, schema, selfRun, tickVars, history>>

(* Only a heal that ran counts the failed attempt and drops the journal. *)
HealSave ==
    /\ pc = "heal_save"
    /\ st' = [st EXCEPT !.attempts = BumpFailure(st.attempts, st.attempting),
                        !.attempting = NoVersion]
    /\ disk' = st'
    /\ healed' = TRUE
    /\ parked' = NoVersion
    /\ Goto("lib")
    /\ UNCHANGED <<canon, curImg, target, bundle, outcome, boxVars>>
    /\ UNCHANGED <<certified, base, strikes>>

(* Slip: the image of the current version is never resolved. *)
ToLib_Unresolved ==
    /\ pc = "lib"
    /\ st.current \in canon
    /\ Goto("poll")
    /\ UNCHANGED <<tickVars, disk, st, boxVars, history>>

(* The library state: a current version missing from the list is           *)
(* synthesized from the app pin, but only with no swap in flight.          *)
ToLib ==
    /\ pc = "lib"
    /\ \/ /\ st.current \in canon
          /\ curImg' = st.current
          /\ UNCHANGED <<canon, outcome>>
          /\ Goto("poll")
       \/ /\ st.current \notin canon
          /\ st.attempting = NoVersion
          /\ curImg' = env.app
          /\ canon' = canon \cup {st.current}
          /\ UNCHANGED outcome
          /\ Goto("poll")
       \/ /\ st.current \notin canon
          /\ st.attempting # NoVersion
          /\ outcome' = "skipped"
          /\ UNCHANGED <<canon, curImg>>
          /\ Goto("op")
    /\ UNCHANGED <<target, bundle, healed, disk, st, boxVars, history>>

-----------------------------------------------------------------------------
(* The heartbeat does not get through: nothing verified, nothing to honour.*)
HeartbeatFails ==
    /\ pc = "poll"
    /\ "booth" \in Faults
    /\ Return
    /\ UNCHANGED <<disk, boxVars, history>>

(* The heartbeat's answer decides the step; no signed downgrade reaches it *)
(* (the runtime's heartbeat adapter never sets one).                       *)
Poll(desired) ==
    /\ pc = "poll"
    /\ \E step \in DecideStep(canon, st.current,
                              DesiredOrdinal(canon, desired, st.current),
                              IF st.floor \in canon THEN st.floor ELSE NoVersion, FALSE) :
          \/ /\ step = Hold
             /\ Conclude("up_to_date", "save")
          \/ /\ step = Refuse
             /\ Conclude("refused", "save")
          \/ /\ step.action = "apply"
             /\ target' = step.to
             /\ IF IsPoisoned(ToLibAttempts(st.attempts, canon), step.to)
                  THEN outcome' = "latched" /\ Goto("save")
                  ELSE outcome' = outcome /\ Goto("verify")
             /\ UNCHANGED <<canon, curImg, bundle, healed>>
    /\ UNCHANGED <<disk, st, boxVars, history>>

(* A release below the floor, or a structurally bad or hostile one. *)
VerifyFailed ==
    /\ pc = "verify"
    /\ \/ target < st.floor
       \/ "bundle" \in Faults
    /\ Conclude("verify_failed", "save")
    /\ UNCHANGED <<disk, st, boxVars, history>>

(* cosign or the registry is away: never held against the release. *)
VerifyDeferred ==
    /\ pc = "verify"
    /\ target >= st.floor
    /\ "verify" \in Faults
    /\ Conclude("verify_deferred", "save")
    /\ UNCHANGED <<disk, st, boxVars, history>>

Verified ==
    /\ pc = "verify"
    /\ target >= st.floor
    /\ bundle' = (target \in Bundles)
    /\ Goto("pull")
    /\ UNCHANGED <<canon, curImg, target, healed, outcome>>
    /\ UNCHANGED <<disk, st, boxVars, history>>

PullByDigest ==
    /\ pc = "pull"
    /\ \/ Conclude(outcome, "journal")
       \/ "pull" \in Faults /\ Conclude("threw", "op")
    /\ UNCHANGED <<disk, st, boxVars, history>>

-----------------------------------------------------------------------------
(* Slip: the swap starts without its journal. *)
JournalSwap_Unsaved ==
    /\ pc = "journal"
    /\ strikes' = [strikes EXCEPT ![target] = IF @ < MaxStrikes THEN @ + 1 ELSE @]
    /\ Goto(IF bundle THEN "tree" ELSE "pin")
    /\ UNCHANGED <<disk, st, boxVars, tickVars, certified, base, parked>>

(* The point of no return: journal first. *)
JournalSwap ==
    /\ pc = "journal"
    /\ disk' = [st EXCEPT !.attempting = target]
    /\ strikes' = [strikes EXCEPT ![target] = IF @ < MaxStrikes THEN @ + 1 ELSE @]
    /\ Goto(IF bundle THEN "tree" ELSE "pin")
    /\ UNCHANGED <<st, boxVars, tickVars, certified, base, parked>>

(* Slip: a retry of the same release takes a new snapshot. *)
LayDeployTree_Resnap ==
    /\ pc = "tree"
    /\ snap' = SnapshotDeploy(target)
    /\ env' = ApplyDeployTree(target)
    /\ Goto("pin")
    /\ UNCHANGED <<disk, st, running, schema, selfRun, tickVars, history>>

(* Snapshot, unless this release's own snapshot is still there, then lay   *)
(* the bundle's tree over the deploy directory.                            *)
LayDeployTree ==
    /\ pc = "tree"
    /\ snap' = IF snap.stamp = target THEN snap ELSE SnapshotDeploy(target)
    /\ \/ env' = ApplyDeployTree(target) /\ Goto("pin")
       \/ "compose" \in Faults /\ env' \in {env, ApplyDeployTree(target)} /\ Goto("undo_migrate")
    /\ UNCHANGED <<disk, st, running, schema, selfRun, tickVars, history>>

(* Slip: the app is recreated on its old pin. *)
PinTarget_Skipped ==
    /\ pc = "pin"
    /\ Goto(IF bundle THEN "postgres" ELSE "migrate")
    /\ UNCHANGED <<disk, st, boxVars, tickVars, history>>

PinTarget ==
    /\ pc = "pin"
    /\ env' = PinImage(env, target)
    /\ Goto(IF bundle THEN "postgres" ELSE "migrate")
    /\ UNCHANGED <<disk, st, snap, running, schema, selfRun, tickVars, history>>

(* The new postgres first, when the bundle changes it. *)
UpPostgresWait ==
    /\ pc = "postgres"
    /\ \/ running' \in {running, UpPostgres} /\ Goto("migrate")
       \/ "compose" \in Faults /\ running' \in PartlyUp(UpPostgres) /\ Goto("undo_migrate")
    /\ UNCHANGED <<disk, st, env, snap, schema, selfRun, tickVars, history>>

Migrate ==
    /\ pc = "migrate"
    /\ LET migrated == IF schema < target THEN target ELSE schema
       IN  \/ schema' = migrated /\ Goto("restart")
           \/ "migrate" \in Faults /\ schema' \in {schema, migrated} /\ Goto("undo_migrate")
    /\ UNCHANGED <<disk, st, env, snap, running, selfRun, tickVars, history>>

(* Recreate on the new pins: the whole topology for a bundle, else the app.*)
RestartTarget ==
    /\ pc = "restart"
    /\ LET full == IF bundle THEN UpInfra ELSE RestartedApp
       IN  \/ running' = full /\ Goto("canary")
           \/ "compose" \in Faults /\ running' \in PartlyUp(full) /\ Goto("undo_restart")
    /\ UNCHANGED <<disk, st, env, snap, schema, selfRun, tickVars, history>>

(* The catch of migrate, and that of restart: bring the whole previous     *)
(* shape back when there is a snapshot for it, else just the app pin.      *)
UndoFiles ==
    /\ \/ pc = "undo_migrate"
       \/ pc = "undo_restart"
    /\ LET usable == IF pc = "undo_migrate" THEN snap.stamp = target
                                            ELSE snap.stamp # NoVersion
       IN  \/ /\ bundle /\ usable
              /\ env' = RestoreDeploySnapshot
              /\ Goto("undo_up")
              /\ UNCHANGED <<st, tickVars>>
           \/ /\ ~(bundle /\ usable)
              /\ env' = PinImage(env, curImg)
              /\ Rethrow
    /\ UNCHANGED <<disk, snap, running, schema, selfRun, history>>

UndoUp ==
    /\ pc = "undo_up"
    /\ \/ /\ running' = UpInfra
          /\ snap' = NoSnapshot
          /\ env' = PinImage(env, curImg)
       \/ /\ "compose" \in Faults
          /\ running' \in PartlyUp(UpInfra)
          /\ UNCHANGED <<snap, env>>
    /\ Rethrow
    /\ UNCHANGED <<disk, schema, selfRun, history>>

-----------------------------------------------------------------------------
(* The canary's verdict on the recreated box. *)
Canary(window) ==
    /\ pc = "canary"
    /\ LET verdict == CanaryVerdict(window)
       IN  \/ /\ verdict = "healthy"
              /\ certified' = certified \cup {running.app}
              /\ Conclude("applied", "save")
           \/ /\ verdict = "busy"
              /\ Conclude("busy_retry", "save")
              /\ UNCHANGED certified
           \/ /\ verdict \in {"write_broken", "collab_broken"}
              /\ Goto("rollback")
              /\ UNCHANGED <<tickVars, certified>>
    /\ UNCHANGED <<disk, st, boxVars, base, parked, strikes>>

(* Where a condemned release is rolled back to. *)
RollbackTo ==
    LET to == RollbackTarget(ToLibKept(st.kept, canon), target)
    IN  IF to = NoVersion THEN st.current ELSE to

RollbackFiles ==
    /\ pc = "rollback"
    /\ env' = PinImage(IF bundle /\ snap.stamp # NoVersion THEN RestoreDeploySnapshot ELSE env,
                       Resolve(RollbackTo))
    /\ Goto("rollback_up")
    /\ UNCHANGED <<disk, st, snap, running, schema, selfRun, tickVars, history>>

RollbackUp ==
    /\ pc = "rollback_up"
    /\ LET whole == bundle /\ snap.stamp # NoVersion
           full == IF whole THEN UpInfra ELSE RestartedApp
       IN  \/ /\ running' = full
              /\ snap' = IF whole THEN NoSnapshot ELSE snap
              /\ Conclude("rolled_back", "save")
              /\ UNCHANGED st
           \/ /\ "compose" \in Faults
              /\ running' \in PartlyUp(full)
              /\ Rethrow
              /\ UNCHANGED snap
    /\ UNCHANGED <<disk, env, schema, selfRun, history>>

-----------------------------------------------------------------------------
(* Slip: a rollback is not held against its release. *)
NextAttempts_Lenient ==
    LET attempts == ToLibAttempts(st.attempts, canon)
    IN  IF outcome = "verify_failed" THEN BumpFailure(attempts, target) ELSE attempts

(* What the library tick left, back as persisted state. *)
NextAttempts ==
    LET attempts == ToLibAttempts(st.attempts, canon)
    IN  CASE outcome \in {"verify_failed", "rolled_back"} -> BumpFailure(attempts, target)
          [] outcome = "applied" -> ClearFailure(attempts, target)
          [] OTHER -> attempts

(* Slip: a busy canary is taken for a healthy one. *)
NextCurrent_Hasty ==
    IF outcome \in {"applied", "busy_retry"} THEN target ELSE st.current

NextCurrent ==
    CASE outcome = "applied" -> target
      [] outcome = "rolled_back" -> RollbackTo
      [] OTHER -> st.current

(* The swap got as far as its journal this tick. *)
JournaledThisTick == outcome \in {"applied", "busy_retry", "rolled_back"}

(* Whether the end of the tick knows of a restart: a tick that was skipped *)
(* or threw is ended as if there had been none, its heal's included.       *)
WasCompleted == outcome \notin {"skipped", "threw"}

(* Slip: the swap's own restart is not counted. *)
RestartedThisTick_HealOnly == WasCompleted /\ healed

RestartedThisTick == WasCompleted /\ (healed \/ JournaledThisTick)

(* A completed tick is saved.  A journal the heal had to retain is carried *)
(* over, unless this tick journaled a swap of its own.                     *)
SaveTick ==
    /\ pc = "save"
    /\ LET next == FromLibState(st, NextCurrent, NextAttempts, ToLibKept(st.kept, canon))
       IN  st' = IF JournaledThisTick THEN next
                 ELSE [next EXCEPT !.attempting = st.attempting]
    /\ disk' = st'
    /\ parked' = CASE outcome = "busy_retry" -> target
                   [] outcome # "busy_retry" /\ env.app = st'.current -> NoVersion
                   [] OTHER -> parked
    /\ strikes' = CASE outcome = "applied" -> [strikes EXCEPT ![target] = 0]
                    [] outcome = "busy_retry" /\ strikes[target] > 0 ->
                            [strikes EXCEPT ![target] = @ - 1]
                    [] OTHER -> strikes
    /\ base' = IF outcome = "applied" THEN env.tree ELSE base
    /\ Goto("op")
    /\ UNCHANGED <<boxVars, tickVars, certified>>

(* The operator restart op, at the end of every path through the tick: the *)
(* state at hand is saved when an op is honoured or adopted; a forced      *)
(* restart (`compose restart`, which never changes the image) that fails   *)
(* throws out of runTick, also after a heal whose tick threw: the loop is  *)
(* then back at the state it began the tick with.                          *)
AfterOp ==
    IF WasCompleted
      THEN Goto("final") /\ UNCHANGED <<st, tickVars>>
      ELSE Return

HonorRestartOp ==
    /\ pc = "op"
    /\ disk' \in {disk, st}
    /\ AfterOp
    /\ UNCHANGED <<boxVars, history>>

RestartOpFails ==
    /\ pc = "op"
    /\ "op" \in Faults
    /\ ~RestartedThisTick
    /\ Throw
    /\ UNCHANGED <<disk, boxVars, history>>

(* Slip: a hand-over cut short is not taken up again. *)
SelfUpdate_Once ==
    /\ pc = "final"
    /\ snap' = IF outcome = "applied" /\ bundle THEN NoSnapshot ELSE snap
    /\ env' = IF outcome = "applied" /\ bundle THEN [env EXCEPT !.updater = target] ELSE env
    /\ \/ selfRun' = IF outcome = "applied" /\ bundle THEN target ELSE selfRun
       \/ "self" \in Faults /\ selfRun' = selfRun
    /\ Return
    /\ UNCHANGED <<disk, running, schema, history>>

(* The last act: an applied bundle retires its snapshot and hands over to  *)
(* its own updater image; an idle box finishes a hand-over cut short.      *)
SelfUpdate ==
    /\ pc = "final"
    /\ \/ /\ outcome = "applied" /\ bundle
          /\ snap' = NoSnapshot
          /\ env' = [env EXCEPT !.updater = target]
       \/ /\ ~(outcome = "applied" /\ bundle)
          /\ UNCHANGED <<snap, env>>
    /\ \/ selfRun' = IF outcome = "up_to_date" \/ (outcome = "applied" /\ bundle)
                     THEN env'.updater ELSE selfRun
       \/ "self" \in Faults /\ selfRun' = selfRun
    /\ Return
    /\ UNCHANGED <<disk, running, schema, history>>

-----------------------------------------------------------------------------
(* The updater process dies and is started again: only the state file and  *)
(* the box itself survive.                                                 *)
Crash ==
    /\ "crash" \in Faults
    /\ \/ pc # "idle"
       \/ mem # disk
    /\ mem' = disk
    /\ st' = disk
    /\ pc' = "idle"
    /\ ResetTick
    /\ UNCHANGED <<disk, boxVars, history>>

(* An unrelated `compose up`: the install's connector-key heal at start, or*)
(* an operator's redeploy.  It brings whatever is pinned live.             *)
ComposeUp ==
    /\ running' \in {RestartedApp, UpInfra}
    /\ running' # running
    /\ UNCHANGED <<disk, mem, st, env, snap, schema, selfRun, pc, tickVars, history>>

TickStep ==
    \/ ListFails \/ \E feed \in Feeds : TickBegin(feed)
    \/ HealFiles \/ HealApp \/ HealInfra \/ HealSave \/ ToLib
    \/ HeartbeatFails \/ \E desired \in Desireds : Poll(desired)
    \/ VerifyFailed \/ VerifyDeferred \/ Verified \/ PullByDigest
    \/ JournalSwap \/ LayDeployTree \/ PinTarget \/ UpPostgresWait \/ Migrate
    \/ RestartTarget \/ UndoFiles \/ UndoUp
    \/ \E window \in Windows : Canary(window)
    \/ RollbackFiles \/ RollbackUp
    \/ SaveTick \/ HonorRestartOp \/ RestartOpFails \/ SelfUpdate

Next == TickStep \/ Crash \/ ComposeUp

Spec == Init /\ [][Next]_vars

-----------------------------------------------------------------------------
(* The host calls a tick may be awaiting, by what they are part of. *)
Healing == {"heal", "heal_app", "heal_infra", "heal_save"}
OnTrial == {"postgres", "migrate", "restart", "canary"}
GoingBack == {"undo_migrate", "undo_restart", "undo_up", "rollback", "rollback_up"}
Swapping == {"verify", "pull", "journal", "tree", "pin"} \cup OnTrial \cup GoingBack

Outcomes ==
    {"none", "skipped", "up_to_date", "refused", "latched", "verify_failed",
     "verify_deferred", "threw", "applied", "busy_retry", "rolled_back"}

PersistedHere == {disk, mem, st}

(* Type invariant. *)
TypeOK ==
    /\ PersistedHere \subseteq Persisted
    /\ env \in Deploy
    /\ snap \in [stamp : Versions \cup {NoVersion}, env : Deploy]
    /\ running \in [app : Versions, infra : SUBSET Versions]
    /\ schema \in Versions
    /\ selfRun \in Versions
    /\ canon \in SUBSET Versions
    /\ {curImg, target, parked} \subseteq Versions \cup {NoVersion}
    /\ bundle \in BOOLEAN
    /\ healed \in BOOLEAN
    /\ certified \in SUBSET Versions
    /\ base \in Versions
    /\ strikes \in [Versions -> 0 .. MaxStrikes]
    /\ pc \in {"idle", "lib", "poll", "save", "op", "final"} \cup Healing \cup Swapping
    /\ outcome \in Outcomes

-----------------------------------------------------------------------------
(* Safety that holds whatever the booth serves, docker does and dies.      *)

(* The recorded version is an image that was itself up when a canary       *)
(* judged the box healthy: in the state file, in the loop's memory and in  *)
(* the tick, across crashes, heals and thrown ticks (updater.ts, tick).    *)
CurrentWasCertified == \A p \in PersistedHere : p.current \in certified

(* The floor is the version recorded, which is always a rollback candidate *)
(* and the newest of them: whatever the schema, a rollback finds it and    *)
(* never goes below the floor (rollbackTarget, fromLibState).              *)
RollbackNeverDowngrades ==
    \A p \in PersistedHere :
        /\ p.floor = p.current
        /\ p.current \in p.kept
        /\ \A k \in p.kept : k <= p.current

(* Neither the recorded version nor the floor ever goes back, although the *)
(* loop's memory may be older than the state file it overwrites (main.ts,  *)
(* fromLibState).                                                          *)
CurrentNeverFalls == [][disk'.current >= disk.current /\ disk'.floor >= disk.floor]_vars

(* The inductive form of the three properties above: what the tick's locals*)
(* know at each host call.  The state file, the loop's memory and the tick *)
(* record one version, except that the memory is behind once a release is  *)
(* applied; past the library state the current version is in the list and  *)
(* the target is above it; a release on trial is the one pinned, and the   *)
(* one up when the canary asks.                                            *)
Agreed ==
    /\ st.current = disk.current
    /\ mem.current = disk.current \/ (pc \in {"op", "final"} /\ outcome = "applied")

Resolved == pc \in Swapping \cup {"poll", "save"} => st.current \in canon /\ curImg \in Versions

Aimed ==
    pc \in Swapping \/ (pc = "save" /\ outcome \in {"applied", "rolled_back"}) =>
        target \in Versions /\ target > st.current

Tried ==
    /\ pc \in OnTrial => env.app = target
    /\ pc = "canary" => running.app = target
    /\ pc \in {"save", "op", "final"} /\ outcome = "applied" => target \in certified

IInv ==
    /\ TypeOK
    /\ CurrentWasCertified
    /\ RollbackNeverDowngrades
    /\ Agreed
    /\ Resolved
    /\ Aimed
    /\ Tried

-----------------------------------------------------------------------------
(* Safety of the swap's journal and shape.                                 *)

(* A pin or a running app that is not the recorded version is known to the *)
(* updater: a journal on disk covers it, or a busy canary left it there    *)
(* for the next tick (runtime.ts, the migrate and rollback adapters).      *)
SwapAccounted ==
    env.app # disk.current \/ running.app # disk.current =>
        disk.attempting # NoVersion \/ parked # NoVersion

(* Between ticks, with no swap pending, the box is whole: app, deploy tree *)
(* and infra are those of the last applied release, whatever failed or     *)
(* died on the way (the snapshot's whole-shape restore).                   *)
Settled == pc = "idle" /\ mem.attempting = NoVersion /\ parked = NoVersion

SettledShape ==
    Settled => /\ env.app = mem.current
               /\ running.app = mem.current
               /\ env.tree = base
               /\ running.infra = {base}

(* When the current version is synthesized from the app pin, the pin is    *)
(* the current version's image (runtime.ts, vanished-current heal).        *)
TruthfulSynthesis ==
    pc = "lib" /\ st.current \notin canon /\ st.attempting = NoVersion => env.app = st.current

(* Every swap begun is in the end applied, put off by a busy canary, or    *)
(* counted against its release: a version cannot dodge the latch by        *)
(* killing the updater (runtime.ts, the resume block).                     *)
StrikesCounted ==
    \A v \in Versions :
        strikes[v] <= disk.attempts[v] + (IF disk.attempting = v THEN 1 ELSE 0)

(* Once a release is latched, it stays latched (host.ts: "only a runbook   *)
(* clears it").                                                            *)
LatchIsSticky ==
    [][\A v \in Versions :
            disk.attempts[v] >= MaxFailures => disk'.attempts[v] >= MaxFailures]_vars

(* The schema is never more than one release ahead of the recorded version *)
(* a rollback would bring back (versions.ts, toLibState).                  *)
SchemaOneStepAhead == \A v \in Versions : ~(disk.current < v /\ v < schema)

(* The abstract promise, with the journaled and the parked release as the  *)
(* ones on trial.                                                          *)
Promise ==
    INSTANCE SupervisedBox WITH
        Releases <- Versions, First <- Installed,
        current <- disk.current, live <- running.app,
        trial <- {disk.attempting, parked} \ {NoVersion}

Supervised == Promise!Spec

-----------------------------------------------------------------------------
(* Liveness.  main.ts loops for ever, so a tick that can go on does; and a *)
(* call that is made again and again, tick after tick, does not fail, stay *)
(* undecided or die every single time.  The swap itself may: the tree, the *)
(* pins, migrate, restart and a rollback have no fairness of their own.    *)
HealFairness ==
    /\ SF_vars(HealFiles)
    /\ SF_vars(HealApp /\ pc' # "lib")
    /\ SF_vars(HealInfra /\ pc' # "lib")
    /\ SF_vars(HealSave)
    /\ SF_vars(HonorRestartOp)

StepFairness ==
    /\ SF_vars(ToLib)
    /\ SF_vars(\E desired \in Desireds : Poll(desired))
    /\ SF_vars(Verified)
    /\ SF_vars(PullByDigest /\ pc' = "journal")
    /\ SF_vars(JournalSwap)
    /\ SF_vars(\E window \in Windows : Canary(window) /\ outcome' # "busy_retry")
    /\ SF_vars(SaveTick)
    /\ SF_vars(HonorRestartOp /\ pc' = "final")
    /\ SF_vars(SelfUpdate /\ selfRun' = env'.updater)

HealSpec ==
    Spec /\ WF_vars(TickStep) /\ SF_vars(\E feed \in Feeds : TickBegin(feed)) /\ HealFairness

ProgressSpec == HealSpec /\ StepFairness

(* A journal left on disk is resolved in the end: no swap stays half done. *)
JournalResolved == disk.attempting # NoVersion ~> disk.attempting = NoVersion

(* The box reaches the release the booth wants, or stops short of one it   *)
(* has latched: outages, deferrals, busy canaries and deaths of the updater*)
(* do not hold it up.                                                      *)
ReachesDesired ==
    \A d \in Desireds :
        <>(disk.current = d \/ \E v \in Versions : IsNext(Versions, disk.current, v)
                                                     /\ disk.attempts[v] >= MaxFailures)

(* As long as there are idle polls, on which a hand-over cut short is      *)
(* taken up again, the updater's container ends on the image pinned for it.*)
UpdaterConverges == []<>(outcome = "up_to_date") => <>[](selfRun = env.updater)
=============================================================================

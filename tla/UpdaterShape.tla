---------------------------- MODULE UpdaterShape ----------------------------
(***************************************************************************)
(* Theorems on the swap of a release: its journal, the shape of the box,   *)
(* the latch and the abstract promise (SupervisedBox).                     *)
(*                                                                         *)
(* They hold where the runs check them, and the hypotheses are named: no   *)
(* forced restart fails (a failed one throws the tick's state away), and   *)
(*   Steady    the booth lists every release at every tick and yanks none, *)
(*   Decisive  no canary window is all busy, so that no release is parked. *)
(* Each layer of the invariant below rests on the ones before it, and      *)
(* IInv (UpdaterProofs) is under them all.                                 *)
(***************************************************************************)
EXTENDS UpdaterProofs

Steady == \A feed \in Feeds : feed.listed = Versions /\ feed.yanked = {}

Decisive == \A window \in Windows : CanaryVerdict(window) # "busy"

-----------------------------------------------------------------------------
(* The releases a swap has put on trial and not ended. *)
Pending == {disk.attempting, parked} \ {NoVersion}

Begun == {"tree", "pin"} \cup OnTrial \cup GoingBack

(* The tick has journaled a swap it has not ended. *)
Journaled == pc \in Begun \/ (pc = "save" /\ JournaledThisTick)

(* The tick's state is the state file, but for the journal it has written; *)
(* between ticks the loop's memory is the state file too.                  *)
Synced ==
    /\ Journaled => disk = [st EXCEPT !.attempting = target]
    /\ ~Journaled => st = disk
    /\ pc = "idle" => mem = disk

(* What the tick decides on, while it is deciding. *)
Deciding == Healing \cup Swapping \cup {"lib", "poll", "save"}

Listed == Steady => (pc \in Deciding => canon = Versions)

(* Where a heal cannot fail, no swap begins with a journal pending. *)
Unburdened ==
    "heal" \notin Faults =>
        /\ pc \in {"poll", "verify", "pull", "journal"} => disk.attempting = NoVersion
        /\ pc = "lib" /\ st.current \in canon => disk.attempting = NoVersion

Decided == Decisive => parked = NoVersion /\ ~(pc = "save" /\ outcome = "busy_retry")

(* What a canary has not condemned is pinned and up until it is saved. *)
Judged ==
    pc = "save" /\ outcome \in {"applied", "busy_retry"} => env.app = target /\ running.app = target

(* Only a release above the recorded one is on trial. *)
Above == \A v \in Pending : v > disk.current

RInv == Synced /\ Listed /\ Unburdened /\ Decided /\ Judged /\ Above

-----------------------------------------------------------------------------
(* The tick's host calls before its journal, none of which writes a state: *)
(* the local list and the position are all that changes.                   *)
LEMMA SyncedStart == Init => RInv
BY DEF Init, Bootstrap, RInv, Synced, Listed, Unburdened, Decided, Judged, Above, Pending, Journaled,
       Begun, Deciding, JournaledThisTick, Healing, Swapping, OnTrial, GoingBack, NoVersion

(* Every step keeps the tick's state and the state file in step. *)
LEMMA SyncedNext ==
    ASSUME IInv, Synced, "op" \notin Faults, Next
    PROVE  Synced'
<1> USE DEF Synced, Journaled, Begun, JournaledThisTick, Swapping, OnTrial, GoingBack,
            Goto, Conclude, Return, ResetTick, tickVars, history
<1>0. st \in Persisted
    BY DEF IInv, TypeOK, PersistedHere
<1>1. CASE ListFails \/ \E feed \in Feeds : TickBegin(feed)
    BY <1>1 DEF ListFails, TickBegin
<1>2. CASE HealFiles \/ HealApp \/ HealInfra \/ HealSave
    BY <1>2 DEF HealFiles, HealApp, HealInfra, HealSave
<1>3. CASE ToLib \/ HeartbeatFails
    BY <1>3 DEF ToLib, HeartbeatFails
<1>4. CASE \E desired \in Desireds : Poll(desired)
    BY <1>4 DEF Poll
<1>5. CASE VerifyFailed \/ VerifyDeferred \/ Verified \/ PullByDigest
    BY <1>5 DEF VerifyFailed, VerifyDeferred, Verified, PullByDigest
<1>6. CASE JournalSwap
    BY <1>6 DEF JournalSwap
<1>7. CASE LayDeployTree \/ PinTarget \/ UpPostgresWait \/ Migrate \/ RestartTarget
    BY <1>7 DEF LayDeployTree, PinTarget, UpPostgresWait, Migrate, RestartTarget
<1>8. CASE UndoFiles \/ UndoUp
    BY <1>0, <1>8 DEF UndoFiles, UndoUp, Rethrow
<1>9. CASE \E window \in Windows : Canary(window)
    BY <1>9 DEF Canary
<1>10. CASE RollbackFiles \/ RollbackUp
    BY <1>0, <1>10 DEF RollbackFiles, RollbackUp, Rethrow
<1>11. CASE SaveTick
    BY <1>11 DEF SaveTick
<1>12. CASE HonorRestartOp
    BY <1>12 DEF HonorRestartOp, AfterOp, WasCompleted
<1>13. CASE RestartOpFails
    BY <1>13 DEF RestartOpFails
<1>14. CASE SelfUpdate
    BY <1>14 DEF SelfUpdate
<1>15. CASE Crash \/ ComposeUp
    BY <1>15 DEF Crash, ComposeUp
<1> QED
    BY <1>1, <1>2, <1>3, <1>4, <1>5, <1>6, <1>7, <1>8, <1>9, <1>10, <1>11, <1>12, <1>13,
       <1>14, <1>15 DEF Next, TickStep

(* The list a tick decides on is whole where every list of the booth is.   *)
LEMMA ListedNext ==
    ASSUME IInv, Listed, Next
    PROVE  Listed'
<1> SUFFICES ASSUME Steady, pc' \in Deciding PROVE canon' = Versions
    BY DEF Listed
<1> USE DEF Listed, Deciding, Healing, Swapping, OnTrial, GoingBack, Goto, Conclude, Return,
            ResetTick, tickVars
<1>1. CASE ListFails \/ HealFiles \/ HealApp \/ HealInfra \/ HealSave \/ HeartbeatFails
    BY <1>1 DEF ListFails, HealFiles, HealApp, HealInfra, HealSave, HeartbeatFails
<1>2. CASE \E feed \in Feeds : TickBegin(feed)
    BY <1>2 DEF Steady, TickBegin, CanonicalOrder
<1>3. CASE ToLib
    <2>1. st.current \in Versions
        BY DEF IInv, TypeOK, PersistedHere, Persisted
    <2> QED
        BY <1>3, <2>1 DEF ToLib
<1>4. CASE \E desired \in Desireds : Poll(desired)
    BY <1>4 DEF Poll
<1>5. CASE VerifyFailed \/ VerifyDeferred \/ Verified \/ PullByDigest \/ JournalSwap
    BY <1>5 DEF VerifyFailed, VerifyDeferred, Verified, PullByDigest, JournalSwap
<1>6. CASE LayDeployTree \/ PinTarget \/ UpPostgresWait \/ Migrate \/ RestartTarget
    BY <1>6 DEF LayDeployTree, PinTarget, UpPostgresWait, Migrate, RestartTarget
<1>7. CASE \/ UndoFiles \/ UndoUp \/ RollbackFiles \/ RollbackUp
           \/ \E window \in Windows : Canary(window)
    BY <1>7 DEF UndoFiles, UndoUp, RollbackFiles, RollbackUp, Canary, Rethrow
<1>8. CASE SaveTick \/ HonorRestartOp \/ RestartOpFails \/ SelfUpdate
    BY <1>8 DEF SaveTick, HonorRestartOp, RestartOpFails, SelfUpdate, AfterOp, WasCompleted, Throw
<1>9. CASE Crash \/ ComposeUp
    BY <1>9 DEF Crash, ComposeUp
<1> QED
    BY <1>1, <1>2, <1>3, <1>4, <1>5, <1>6, <1>7, <1>8, <1>9 DEF Next, TickStep

(* No swap begins over a pending journal where heals do not fail, and a    *)
(* release that was not condemned is still the one pinned.                 *)
LEMMA DecidingNext ==
    ASSUME IInv, Synced, Unburdened, Decided, Judged, "op" \notin Faults, Next
    PROVE  Unburdened' /\ Decided' /\ Judged'
<1> USE DEF Synced, Journaled, Begun, JournaledThisTick, Swapping, OnTrial, GoingBack, Healing,
            Unburdened, Decided, Judged,
            Goto, Conclude, Return, ResetTick, tickVars, history, boxVars
<1>0. /\ st \in Persisted /\ disk \in Persisted /\ st.current \in Versions /\ canon \subseteq Versions
      /\ pc \in OnTrial => env.app = target
      /\ pc = "canary" => running.app = target
      /\ running \in [app : Versions, infra : SUBSET Versions]
    BY DEF IInv, TypeOK, PersistedHere, Tried, Persisted
<1>1. CASE ListFails
    BY <1>1 DEF ListFails
<1>2. CASE \E feed \in Feeds : TickBegin(feed)
    BY <1>0, <1>2 DEF TickBegin
<1>3. CASE HealFiles
    BY <1>3 DEF HealFiles
<1>4. CASE HealApp \/ HealInfra
    BY <1>4 DEF HealApp, HealInfra
<1>5. CASE HealSave
    BY <1>0, <1>5 DEF HealSave, Persisted
<1>6. CASE ToLib
    BY <1>0, <1>6 DEF ToLib
<1>7. CASE HeartbeatFails
    BY <1>7 DEF HeartbeatFails
<1>8. CASE \E desired \in Desireds : Poll(desired)
    BY <1>8 DEF Poll
<1>9. CASE VerifyFailed \/ VerifyDeferred \/ Verified \/ PullByDigest
    BY <1>9 DEF VerifyFailed, VerifyDeferred, Verified, PullByDigest
<1>10. CASE JournalSwap
    BY <1>10 DEF JournalSwap
<1>11. CASE LayDeployTree \/ PinTarget \/ UpPostgresWait \/ Migrate \/ RestartTarget
    BY <1>11 DEF LayDeployTree, PinTarget, UpPostgresWait, Migrate, RestartTarget
<1>12. CASE UndoFiles \/ UndoUp
    BY <1>12 DEF UndoFiles, UndoUp, Rethrow
<1>13. ASSUME NEW window \in Windows, Canary(window)
       PROVE  Unburdened' /\ Decided' /\ Judged'
    BY <1>0, <1>13 DEF Canary, Decisive
<1>14. CASE RollbackFiles \/ RollbackUp
    BY <1>14 DEF RollbackFiles, RollbackUp, Rethrow
<1>15. CASE SaveTick
    BY <1>15 DEF SaveTick
<1>16. CASE HonorRestartOp
    BY <1>16 DEF HonorRestartOp, AfterOp, WasCompleted
<1>17. CASE RestartOpFails
    BY <1>17 DEF RestartOpFails
<1>18. CASE SelfUpdate
    BY <1>18 DEF SelfUpdate
<1>19. CASE Crash
    BY <1>19 DEF Crash
<1>20. CASE ComposeUp
    BY <1>0, <1>20 DEF ComposeUp, RestartedApp, UpInfra
<1> QED
    BY <1>1, <1>2, <1>3, <1>4, <1>5, <1>6, <1>7, <1>8, <1>9, <1>10, <1>11, <1>12, <1>13,
       <1>14, <1>15, <1>16, <1>17, <1>18, <1>19, <1>20 DEF Next, TickStep

-----------------------------------------------------------------------------
(* What writes the state file, and what it then holds. *)

(* A swap's journal names its release, and nothing else changes. *)
LEMMA JournalWrites ==
    ASSUME IInv, Synced, JournalSwap
    PROVE  /\ disk'.current = disk.current /\ disk'.attempts = disk.attempts
           /\ disk'.attempting = target /\ UNCHANGED parked /\ disk.attempting = st.attempting
           /\ target \in Versions /\ target > disk.current
<1>1. st \in Persisted /\ pc = "journal" /\ disk = st
    BY DEF IInv, TypeOK, PersistedHere, JournalSwap, Synced, Journaled, Begun, OnTrial, GoingBack
<1>2. target \in Versions /\ target > disk.current
    BY <1>1 DEF IInv, Aimed, Swapping
<1> QED
    BY <1>1, <1>2 DEF JournalSwap, Persisted

(* A heal that ran counts the failure and ends every trial. *)
LEMMA HealWrites ==
    ASSUME IInv, Synced, HealSave
    PROVE  /\ disk'.current = disk.current
           /\ disk'.attempts = BumpFailure(disk.attempts, disk.attempting)
           /\ disk'.attempting = NoVersion /\ parked' = NoVersion
<1>1. st \in Persisted /\ pc = "heal_save" /\ disk = st
    BY DEF IInv, TypeOK, PersistedHere, HealSave, Synced, Journaled, Begun, OnTrial, GoingBack
<1> QED
    BY <1>1 DEF HealSave, Persisted

(* The save ends the journal of the tick's own swap and carries another    *)
(* over; an applied release becomes the recorded one.                      *)
LEMMA SaveWrites ==
    ASSUME IInv, Synced, SaveTick
    PROVE  /\ disk'.current = IF outcome = "applied" THEN target ELSE disk.current
           /\ disk'.attempts = NextAttempts
           /\ disk'.attempting = IF JournaledThisTick THEN NoVersion ELSE disk.attempting
           /\ JournaledThisTick => disk.attempting = target
<1>1. st \in Persisted /\ pc = "save" /\ st.current = disk.current
    BY DEF IInv, TypeOK, PersistedHere, SaveTick, Agreed
<1>2. NextCurrent = IF outcome = "applied" THEN target ELSE disk.current
    BY <1>1, RollbackStays DEF NextCurrent
<1> DEFINE next == FromLibState(st, NextCurrent, NextAttempts, ToLibKept(st.kept, canon))
<1>3. next.current = NextCurrent /\ next.attempts = NextAttempts /\ next.attempting = NoVersion
    BY DEF FromLibState
<1>4. disk' = IF JournaledThisTick THEN next ELSE [next EXCEPT !.attempting = st.attempting]
    BY DEF SaveTick
<1>5. /\ disk'.current = NextCurrent /\ disk'.attempts = NextAttempts
      /\ disk'.attempting = IF JournaledThisTick THEN NoVersion ELSE st.attempting
    BY <1>4 DEF FromLibState
<1>6. ~JournaledThisTick => st = disk
    BY <1>1 DEF Synced, Journaled, Begun, OnTrial, GoingBack
<1>7. JournaledThisTick => disk.attempting = target
    BY <1>1 DEF Synced, Journaled, Persisted
<1> QED
    BY <1>2, <1>5, <1>6, <1>7

(* No other step writes it: the operator op finds it already saved.        *)
LEMMA OnlyWriters ==
    ASSUME Synced, Next
    PROVE  UNCHANGED <<disk, parked>> \/ HealSave \/ JournalSwap \/ SaveTick
<1>1. CASE HonorRestartOp
    BY <1>1 DEF HonorRestartOp, Synced, Journaled, Begun, OnTrial, GoingBack, history
<1>2. CASE \/ ListFails \/ \E feed \in Feeds : TickBegin(feed)
           \/ HealFiles \/ HealApp \/ HealInfra \/ ToLib
           \/ HeartbeatFails \/ \E desired \in Desireds : Poll(desired)
           \/ VerifyFailed \/ VerifyDeferred \/ Verified \/ PullByDigest
    BY <1>2 DEF ListFails, TickBegin, HealFiles, HealApp, HealInfra, ToLib, HeartbeatFails, Poll,
                VerifyFailed, VerifyDeferred, Verified, PullByDigest, history
<1>3. CASE LayDeployTree \/ PinTarget \/ UpPostgresWait \/ Migrate \/ RestartTarget
    BY <1>3 DEF LayDeployTree, PinTarget, UpPostgresWait, Migrate, RestartTarget, history
<1>4. CASE \/ UndoFiles \/ UndoUp \/ RollbackFiles \/ RollbackUp \/ SelfUpdate
           \/ RestartOpFails \/ \E window \in Windows : Canary(window)
    BY <1>4 DEF UndoFiles, UndoUp, RollbackFiles, RollbackUp, SelfUpdate, RestartOpFails, Canary,
                history
<1>5. CASE Crash \/ ComposeUp
    BY <1>5 DEF Crash, ComposeUp, history
<1> QED
    BY <1>1, <1>2, <1>3, <1>4, <1>5 DEF Next, TickStep

(* A release on trial is above the recorded one: the one applied is the one*)
(* recorded from then on, and no longer on trial.                          *)
LEMMA AboveNext ==
    ASSUME IInv, RInv, Next
    PROVE  Above'
<1> USE VersionsAssumption
<1>0. Synced /\ Above /\ Judged
    BY DEF RInv
<1>1. CASE UNCHANGED <<disk, parked>>
    BY <1>0, <1>1 DEF Above, Pending
<1>2. CASE HealSave
    BY <1>0, <1>2, HealWrites DEF Above, Pending
<1>3. CASE JournalSwap
    BY <1>0, <1>3, JournalWrites DEF Above, Pending
<1>4. CASE SaveTick
    <2>1. /\ outcome \in {"applied", "busy_retry"} => env.app = target /\ target # NoVersion
          /\ parked' = CASE outcome = "busy_retry" -> target
                         [] outcome # "busy_retry" /\ env.app = st'.current -> NoVersion
                         [] OTHER -> parked
          /\ disk' = st'
        BY <1>0, <1>4 DEF SaveTick, Judged, IInv, TypeOK, Deploy, NoVersion
    <2>2. outcome = "busy_retry" => target > disk.current
        BY <1>0, <1>4, <2>1, SaveWrites DEF Above, Pending, JournaledThisTick, NoVersion
    <2> QED
        BY <1>0, <1>4, <2>1, <2>2, SaveWrites DEF Above, Pending, JournaledThisTick
<1> QED
    BY <1>0, <1>1, <1>2, <1>3, <1>4, OnlyWriters

(* Every step keeps the first layer. *)
LEMMA RNext ==
    ASSUME "op" \notin Faults, IInv, RInv, [Next]_vars
    PROVE  RInv'
<1>1. CASE Next
    BY <1>1, SyncedNext, ListedNext, DecidingNext, AboveNext DEF RInv
<1>2. CASE UNCHANGED vars
    BY <1>2 DEF vars, boxVars, tickVars, history, RInv, Synced, Listed, Unburdened, Decided,
                Judged, Above, Pending, Journaled, JournaledThisTick
<1> QED
    BY <1>1, <1>2

(* The state file, the tick's state and the loop's memory are in step.     *)
THEOREM InStep ==
    ASSUME "op" \notin Faults
    PROVE  Spec => []RInv
<1>1. IInv /\ RInv /\ [Next]_vars => RInv'
    BY RNext
<1> QED
    BY <1>1, SyncedStart, Invariance, PTL DEF Spec

-----------------------------------------------------------------------------
(* The second layer: what is pinned and up is accounted for. *)

(* A parked release is the one pinned, unless a later swap of it is under  *)
(* way.                                                                    *)
Parking == parked # NoVersion /\ disk.attempting = NoVersion => env.app = parked

(* What a rollback leads back to: the recorded release, or, where the list *)
(* changes and canaries may be all busy, the parked one, whose pin the     *)
(* vanished-current heal takes for the recorded release's.                 *)
Home == {disk.current} \cup (IF Steady \/ Decisive THEN {} ELSE {parked} \ {NoVersion})

(* A heal runs over a journal; the release to go back to is pinned, and    *)
(* then up, before a heal or a rollback ends.                              *)
Standing ==
    /\ pc \in Healing => disk.attempting # NoVersion
    /\ pc \in {"heal_app", "heal_infra", "heal_save"} => env.app = disk.current
    /\ pc \in {"heal_infra", "heal_save"} => running.app = disk.current
    /\ pc = "rollback_up" => env.app \in Home
    /\ pc = "save" /\ outcome = "rolled_back" => env.app \in Home /\ running.app = env.app

(* The image the tick would go back to.                                    *)
Sighted == pc \in {"poll", "save"} \cup Swapping => curImg \in Home

AInv == Parking /\ Standing /\ Sighted /\ SwapAccounted

(* Nothing is pinned or parked at the start.                               *)
LEMMA AccountsStart == Init => AInv
BY DEF Init, Bootstrap, InstalledDeploy, AInv, Parking, Standing, Sighted, Home, SwapAccounted, Healing,
       Swapping, OnTrial, GoingBack

(* A current release the list has dropped is found under the app pin.      *)
LEMMA PinIsCurrent ==
    ASSUME Steady \/ Decisive, IInv, RInv, AInv
    PROVE  TruthfulSynthesis
<1> SUFFICES ASSUME pc = "lib", st.current \notin canon, st.attempting = NoVersion
             PROVE  env.app = st.current
    BY DEF TruthfulSynthesis
<1>1. st = disk /\ st.current \in Versions
    BY DEF IInv, TypeOK, PersistedHere, Persisted, RInv, Synced, Journaled, Begun, OnTrial, GoingBack
<1>2. ~Steady
    BY <1>1 DEF RInv, Listed, Deciding
<1>3. parked = NoVersion
    BY <1>2 DEF RInv, Decided
<1> QED
    BY <1>1, <1>3 DEF AInv, SwapAccounted

(* The steps up to the journal, which leave the box as it is. *)
LEMMA AccountsBefore ==
    ASSUME IInv, RInv, AInv,
           \/ ListFails \/ \E feed \in Feeds : TickBegin(feed)
           \/ ToLib \/ HeartbeatFails \/ \E desired \in Desireds : Poll(desired)
           \/ VerifyFailed \/ VerifyDeferred \/ Verified \/ PullByDigest
    PROVE  AInv'
<1> USE DEF AInv, Parking, Standing, Sighted, Home, SwapAccounted, Goto, Conclude, Return, ResetTick,
            tickVars, history, boxVars, Healing, Swapping, OnTrial, GoingBack
<1>0. (pc = "idle" => st = disk) /\ st.current = disk.current
    BY DEF RInv, Synced, Journaled, Begun, IInv, Agreed
<1>1. CASE ListFails \/ \E feed \in Feeds : TickBegin(feed)
    BY <1>0, <1>1 DEF ListFails, TickBegin
<1>2. CASE ToLib
    <2>1. st.attempting = NoVersion /\ st.current \notin canon => env.app \in Home
        <3>1. CASE Steady \/ Decisive
            BY <1>2, <1>0, <3>1, PinIsCurrent DEF ToLib, TruthfulSynthesis
        <3>2. CASE ~(Steady \/ Decisive)
            BY <1>0, <1>2, <3>2 DEF ToLib, RInv, Synced, Journaled, Begun
        <3> QED
            BY <3>1, <3>2
    <2> QED
        BY <1>0, <1>2, <2>1 DEF ToLib
<1>3. CASE HeartbeatFails
    BY <1>3 DEF HeartbeatFails
<1>4. CASE \E desired \in Desireds : Poll(desired)
    BY <1>4 DEF Poll
<1>5. CASE VerifyFailed \/ VerifyDeferred \/ Verified \/ PullByDigest
    BY <1>5 DEF VerifyFailed, VerifyDeferred, Verified, PullByDigest
<1> QED
    BY <1>1, <1>2, <1>3, <1>4, <1>5

(* The heal. *)
LEMMA AccountsHeal ==
    ASSUME IInv, RInv, AInv, HealFiles \/ HealApp \/ HealInfra \/ HealSave
    PROVE  AInv'
<1> USE DEF AInv, Parking, Standing, Sighted, Home, SwapAccounted, Goto,
            tickVars, history, boxVars, Healing, Swapping, OnTrial, GoingBack
<1>0. /\ st.current = disk.current /\ Synced /\ env \in Deploy /\ snap.env \in Deploy
      /\ running \in [app : Versions, infra : SUBSET Versions]
    BY DEF RInv, IInv, Agreed, TypeOK
<1>1. CASE HealFiles
    BY <1>0, <1>1 DEF HealFiles, PinImage, RestoreDeploySnapshot, Deploy
<1>2. CASE HealApp
    BY <1>0, <1>2 DEF HealApp, PartlyUp, RestartedApp
<1>3. CASE HealInfra
    BY <1>0, <1>3 DEF HealInfra, PartlyUp, UpInfra
<1>4. CASE HealSave
    <2>1. /\ disk'.current = disk.current /\ pc = "heal_save" /\ pc' = "lib" /\ UNCHANGED boxVars
          /\ parked' = NoVersion
        BY <1>0, <1>4, HealWrites DEF HealSave
    <2> QED
        BY <2>1
<1> QED
    BY <1>1, <1>2, <1>3, <1>4

(* The swap, under its journal. *)
LEMMA AccountsSwap ==
    ASSUME IInv, RInv, AInv,
           \/ JournalSwap \/ LayDeployTree \/ PinTarget \/ UpPostgresWait \/ Migrate
           \/ RestartTarget \/ UndoFiles \/ UndoUp
           \/ \E window \in Windows : Canary(window)
           \/ RollbackFiles \/ RollbackUp
    PROVE  AInv'
<1> USE DEF AInv, Parking, Standing, Sighted, Home, SwapAccounted, Goto, Conclude,
            tickVars, history, boxVars, Healing, Swapping, OnTrial, GoingBack, Begun
<1>0. /\ st.current = disk.current /\ Synced /\ env \in Deploy /\ snap.env \in Deploy
      /\ running \in [app : Versions, infra : SUBSET Versions]
      /\ pc \in Begun => disk.attempting = target /\ target # NoVersion
    <2>1. st \in Persisted /\ (pc \in Begun => target \in Versions)
        BY DEF IInv, TypeOK, PersistedHere, Aimed
    <2>2. pc \in Begun => disk.attempting = target
        BY <2>1 DEF RInv, Synced, Journaled, Persisted
    <2> QED
        BY <2>1, <2>2, VersionsAssumption DEF RInv, IInv, Agreed, TypeOK, NoVersion
<1>1. CASE JournalSwap
    <2>1. /\ disk'.current = disk.current /\ disk'.attempting = target /\ UNCHANGED parked
          /\ target # NoVersion
        BY <1>0, <1>1, JournalWrites, VersionsAssumption DEF NoVersion
    <2> QED
        BY <1>1, <2>1 DEF JournalSwap
<1>2. CASE LayDeployTree \/ PinTarget \/ UpPostgresWait \/ Migrate \/ RestartTarget
    BY <1>0, <1>2 DEF LayDeployTree, PinTarget, UpPostgresWait, Migrate, RestartTarget
<1>3. CASE UndoFiles \/ UndoUp
    BY <1>0, <1>3 DEF UndoFiles, UndoUp, Rethrow
<1>4. CASE \E window \in Windows : Canary(window)
    BY <1>0, <1>4 DEF Canary
<1>5. CASE RollbackFiles
    <2>1. Resolve(RollbackTo) \in Home
        BY <1>0, <1>5, RollbackStays DEF RollbackFiles, Resolve
    <2>2. env'.app \in Home
        BY <1>0, <1>5, <2>1 DEF RollbackFiles, PinImage, RestoreDeploySnapshot, Deploy
    <2> QED
        BY <1>0, <1>5, <2>2 DEF RollbackFiles
<1>6. CASE RollbackUp
    <2>1. CASE Conclude("rolled_back", "save") /\ running'.app = env.app
        BY <1>0, <1>6, <2>1 DEF RollbackUp
    <2>2. CASE Rethrow
        BY <1>0, <1>6, <2>2 DEF RollbackUp, Rethrow
    <2> QED
        BY <1>0, <1>6, <2>1, <2>2 DEF RollbackUp, UpInfra, RestartedApp
<1> QED
    BY <1>1, <1>2, <1>3, <1>4, <1>5, <1>6

(* The save, and what may follow or interrupt it. *)
LEMMA AccountsAfter ==
    ASSUME "op" \notin Faults, IInv, RInv, AInv,
           SaveTick \/ HonorRestartOp \/ RestartOpFails \/ SelfUpdate \/ Crash \/ ComposeUp
    PROVE  AInv'
<1> USE DEF AInv, Parking, Standing, Sighted, Home, SwapAccounted, Goto, Return, ResetTick,
            tickVars, history, boxVars, Healing, Swapping, OnTrial, GoingBack
<1>0. /\ Synced /\ Above /\ Judged /\ env \in Deploy
      /\ running \in [app : Versions, infra : SUBSET Versions]
      /\ outcome \in {"applied", "busy_retry"} /\ pc = "save" => target # NoVersion
    BY VersionsAssumption DEF RInv, IInv, TypeOK, Judged, NoVersion, Deploy
<1>1. CASE SaveTick
    <2>1. /\ disk'.current = IF outcome = "applied" THEN target ELSE disk.current
          /\ disk'.attempting = IF JournaledThisTick THEN NoVersion ELSE disk.attempting
          /\ parked' = CASE outcome = "busy_retry" -> target
                         [] outcome # "busy_retry" /\ env.app = disk'.current -> NoVersion
                         [] OTHER -> parked
          /\ pc = "save" /\ pc' = "op" /\ UNCHANGED boxVars
        BY <1>0, <1>1, SaveWrites DEF SaveTick
    <2>2. Parking'
        BY <1>0, <2>1 DEF Judged, JournaledThisTick
    <2>3. SwapAccounted'
        <3>1. CASE outcome = "applied" \/ outcome = "busy_retry"
            BY <1>0, <2>1, <3>1 DEF Judged
        <3>2. CASE outcome = "rolled_back"
            BY <2>1, <3>2
        <3>3. CASE ~JournaledThisTick
            <4>1. parked' = parked \/ env.app = disk.current
                BY <2>1, <3>3 DEF JournaledThisTick
            <4>2. env.app = disk.current /\ parked # NoVersion => disk.attempting # NoVersion
                <5> SUFFICES ASSUME env.app = disk.current, parked # NoVersion,
                                    disk.attempting = NoVersion
                             PROVE  FALSE
                    OBVIOUS
                <5>1. parked > disk.current /\ env.app = parked
                    BY <1>0 DEF Above, Pending
                <5>2. disk.current \in Nat
                    BY VersionsAssumption DEF IInv, TypeOK, PersistedHere, Persisted
                <5> QED
                    BY <5>1, <5>2
            <4> QED
                BY <2>1, <3>3, <4>1, <4>2 DEF JournaledThisTick
        <3> QED
            BY <3>1, <3>2, <3>3 DEF JournaledThisTick
    <2> QED
        BY <2>1, <2>2, <2>3
<1>2. CASE HonorRestartOp
    <2>1. disk' = disk
        BY <1>0, <1>2 DEF HonorRestartOp, Synced, Journaled, Begun
    <2> QED
        BY <1>2, <2>1 DEF HonorRestartOp, AfterOp, WasCompleted
<1>3. CASE RestartOpFails
    BY <1>3 DEF RestartOpFails
<1>4. CASE SelfUpdate
    BY <1>0, <1>4 DEF SelfUpdate, Deploy
<1>5. CASE Crash
    BY <1>5 DEF Crash
<1>6. CASE ComposeUp
    BY <1>0, <1>6 DEF ComposeUp, RestartedApp, UpInfra
<1> QED
    BY <1>1, <1>2, <1>3, <1>4, <1>5, <1>6

(* Every step keeps the second layer. *)
LEMMA ANext ==
    ASSUME "op" \notin Faults, IInv, RInv, AInv, [Next]_vars
    PROVE  AInv'
<1>1. CASE Next
    BY <1>1, AccountsBefore, AccountsHeal, AccountsSwap, AccountsAfter DEF Next, TickStep
<1>2. CASE UNCHANGED vars
    BY <1>2 DEF vars, boxVars, tickVars, history, AInv, Parking, Standing, Sighted, Home,
                SwapAccounted
<1> QED
    BY <1>1, <1>2

(* A pin or a running app that is not the recorded release is always       *)
(* covered by a journal or left there by a busy canary; and the image the  *)
(* tick would go back to is the recorded release's or the parked one's     *)
(* (runtime.ts: the vanished-current heal, the adapters of the swap).      *)
LEMMA Accounts ==
    ASSUME "op" \notin Faults
    PROVE  Spec => [](IInv /\ RInv /\ AInv)
<1>1. IInv /\ RInv /\ AInv /\ [Next]_vars => AInv'
    BY ANext
<1>2. Spec => []RInv
    BY InStep
<1> QED
    BY <1>1, <1>2, AccountsStart, Invariance, PTL DEF Spec

(* What is pinned and up is never unknown to the updater: a release other  *)
(* than the recorded one is covered by the journal on disk or was parked by*)
(* a busy canary (runtime.ts, the adapters of the swap; main.ts).          *)
THEOREM NothingUnknown ==
    ASSUME "op" \notin Faults
    PROVE  Spec => []SwapAccounted
<1>1. AInv => SwapAccounted
    BY DEF AInv
<1>2. Spec => [](IInv /\ RInv /\ AInv)
    BY Accounts
<1> QED
    BY <1>1, <1>2, PTL

(* A current release the list has dropped is synthesized from its own image*)
(* (runtime.ts, the vanished-current heal).                                *)
THEOREM SynthesisIsTruthful ==
    ASSUME "op" \notin Faults, Steady \/ Decisive
    PROVE  Spec => []TruthfulSynthesis
<1>1. IInv /\ RInv /\ AInv => TruthfulSynthesis
    BY PinIsCurrent
<1>2. Spec => [](IInv /\ RInv /\ AInv)
    BY Accounts
<1> QED
    BY <1>1, <1>2, PTL

-----------------------------------------------------------------------------
(* The third layer: one release on trial, and a box that can be brought    *)
(* back whole.                                                             *)

(* With a whole list, the only release ever swapped in is the next one,    *)
(* and so the only one ever on trial.                                      *)
NextAimed ==
    Steady /\ (pc \in Swapping \/ (pc = "save" /\ JournaledThisTick)) =>
        IsNext(Versions, disk.current, target)

NextOnly == NextAimed /\ (Steady => \A v \in Pending : IsNext(Versions, disk.current, v))

(* One release is on trial at a time, and a tick swaps that one.           *)
OneTrial ==
    /\ \A v, w \in Pending : v = w
    /\ pc \in Swapping \/ (pc = "save" /\ JournaledThisTick) => Pending \subseteq {target}

(* There is one next release. *)
LEMMA NextIsUnique ==
    ASSUME NEW list \in SUBSET Nat, NEW v \in Nat, NEW a, NEW b,
           IsNext(list, v, a), IsNext(list, v, b)
    PROVE  a = b
BY DEF IsNext

(* A poll applies only the next release of its list (decisions.ts,         *)
(* decideStep).                                                            *)
LEMMA AppliesNext ==
    ASSUME NEW list, NEW v, NEW desired, NEW floor,
           NEW step \in DecideStep(list, v, desired, floor, FALSE), step.action = "apply"
    PROVE  IsNext(list, v, step.to)
BY DEF DecideStep, Hold, Refuse, Apply

(* What is journaled and what is parked are one release.                   *)
LEMMA TrialIsOne ==
    ASSUME Steady \/ (Decisive /\ "heal" \notin Faults), IInv, RInv, NextOnly
    PROVE  OneTrial
<1> USE VersionsAssumption
<1>0. disk.current \in Nat /\ Versions \in SUBSET Nat /\ st \in Persisted
    BY DEF IInv, TypeOK, PersistedHere, Persisted
<1>1. CASE Steady
    <2>1. \A v, w : IsNext(Versions, disk.current, v) /\ IsNext(Versions, disk.current, w) => v = w
        BY <1>0, NextIsUnique
    <2> QED
        BY <1>1, <2>1 DEF NextOnly, NextAimed, OneTrial
<1>2. CASE Decisive /\ "heal" \notin Faults
    <2>1. Pending \subseteq {disk.attempting} /\ (disk.attempting = NoVersion => Pending = {})
        BY <1>2 DEF Pending, RInv, Decided
    <2>2. Journaled => disk.attempting = target
        BY <1>0 DEF RInv, Synced, Persisted
    <2>3. pc \in {"verify", "pull", "journal"} => disk.attempting = NoVersion
        BY <1>2 DEF RInv, Unburdened
    <2>4. pc \in Swapping \/ (pc = "save" /\ JournaledThisTick) =>
                Journaled \/ pc \in {"verify", "pull", "journal"}
        BY DEF Journaled, Begun, Swapping
    <2> QED
        BY <2>1, <2>2, <2>3, <2>4 DEF OneTrial
<1> QED
    BY <1>1, <1>2

(* A poll goes on to verify only the next release of its list, and only if *)
(* that is not latched (updater.ts, tick).                                 *)
LEMMA PollPicks ==
    ASSUME NEW desired, Poll(desired)
    PROVE  /\ pc = "poll" /\ UNCHANGED <<disk, parked>>
           /\ \/ pc' = "save" /\ outcome' \in {"up_to_date", "refused", "latched"}
              \/ /\ pc' = "verify"
                 /\ IsNext(canon, st.current, target')
                 /\ ~IsPoisoned(ToLibAttempts(st.attempts, canon), target')
<1>1. pc = "poll" /\ UNCHANGED <<disk, parked>>
    BY DEF Poll, history
<1>2. PICK step \in DecideStep(canon, st.current, DesiredOrdinal(canon, desired, st.current),
                               IF st.floor \in canon THEN st.floor ELSE NoVersion, FALSE) :
          \/ step = Hold /\ Conclude("up_to_date", "save")
          \/ step = Refuse /\ Conclude("refused", "save")
          \/ /\ step.action = "apply" /\ target' = step.to
             /\ IF IsPoisoned(ToLibAttempts(st.attempts, canon), step.to)
                  THEN outcome' = "latched" /\ Goto("save")
                  ELSE outcome' = outcome /\ Goto("verify")
    BY DEF Poll
<1>3. CASE step.action = "apply" /\ target' = step.to
    <2>1. IsNext(canon, st.current, target')
        BY ONLY <1>3, AppliesNext
    <2> QED
        BY <1>1, <1>2, <1>3, <2>1 DEF Conclude, Goto
<1>4. CASE Conclude("up_to_date", "save") \/ Conclude("refused", "save")
    BY <1>1, <1>4 DEF Conclude, Goto
<1> QED
    BY <1>2, <1>3, <1>4

(* Every step keeps the swap aimed at the next release.                    *)
LEMMA NextAimedNext ==
    ASSUME IInv, Listed, NextAimed, [Next]_vars
    PROVE  NextAimed'
<1> SUFFICES ASSUME Steady, (pc \in Swapping \/ (pc = "save" /\ JournaledThisTick))'
             PROVE  IsNext(Versions, disk'.current, target')
    BY DEF NextAimed
<1> USE DEF JournaledThisTick, Swapping, OnTrial, GoingBack, Goto, Conclude,
            Return, ResetTick, tickVars
<1>0. /\ st.current = disk.current
      /\ pc = "poll" => canon = Versions
    BY DEF IInv, Agreed, Listed, Deciding
<1>1. CASE UNCHANGED vars
    BY <1>1 DEF vars, NextAimed
<1>2. CASE \E desired \in Desireds : Poll(desired)
    <2>1. PICK desired \in Desireds : Poll(desired)
        BY <1>2
    <2> QED
        BY <1>0, <2>1, PollPicks
<1>3. CASE Next /\ ~(\E desired \in Desireds : Poll(desired))
    <2>1. UNCHANGED target /\ (pc \in Swapping \/ (pc = "save" /\ JournaledThisTick)) /\ ~SaveTick
        <3>1. CASE \/ ListFails \/ \E feed \in Feeds : TickBegin(feed)
                   \/ HealFiles \/ HealApp \/ HealInfra \/ HealSave \/ ToLib \/ HeartbeatFails
            BY <3>1 DEF ListFails, TickBegin, HealFiles, HealApp, HealInfra, HealSave, ToLib,
                        HeartbeatFails
        <3>2. CASE VerifyFailed \/ VerifyDeferred \/ Verified \/ PullByDigest \/ JournalSwap
            BY <3>2 DEF VerifyFailed, VerifyDeferred, Verified, PullByDigest, JournalSwap, SaveTick
        <3>3. CASE LayDeployTree \/ PinTarget \/ UpPostgresWait \/ Migrate \/ RestartTarget
            BY <3>3 DEF LayDeployTree, PinTarget, UpPostgresWait, Migrate, RestartTarget, SaveTick
        <3>4. CASE \/ UndoFiles \/ UndoUp \/ RollbackFiles \/ RollbackUp
                   \/ \E window \in Windows : Canary(window)
            BY <3>4 DEF UndoFiles, UndoUp, RollbackFiles, RollbackUp, Canary, Rethrow, SaveTick
        <3>5. CASE SaveTick \/ HonorRestartOp \/ RestartOpFails \/ SelfUpdate
            BY <3>5 DEF SaveTick, HonorRestartOp, RestartOpFails, SelfUpdate, AfterOp, WasCompleted, Throw
        <3>6. CASE Crash
            BY <3>6 DEF Crash
        <3>7. CASE ComposeUp
            BY <3>7 DEF ComposeUp, SaveTick
        <3> QED
            BY <1>3, <3>1, <3>2, <3>3, <3>4, <3>5, <3>6, <3>7 DEF Next, TickStep
    <2>2. disk'.current = disk.current
        BY <1>3, <2>1, OnlySaveRecords
    <2> QED
        BY <2>1, <2>2 DEF NextAimed
<1> QED
    BY <1>1, <1>2, <1>3

(* And keeps what is on trial to the next release.                         *)
LEMMA NextOnlyNext ==
    ASSUME "op" \notin Faults, IInv, RInv, NextOnly, [Next]_vars
    PROVE  NextOnly'
<1>1. NextAimed'
    BY NextAimedNext DEF NextOnly, RInv
<1> SUFFICES ASSUME Steady, UNCHANGED vars \/ Next
             PROVE  \A v \in Pending' : IsNext(Versions, disk'.current, v)
    BY <1>1 DEF NextOnly
<1>0. /\ Synced /\ Judged
      /\ \A v \in Pending : IsNext(Versions, disk.current, v)
    BY DEF RInv, NextOnly
<1>2. CASE UNCHANGED <<disk, parked>>
    BY <1>0, <1>2 DEF Pending
<1>3. CASE HealSave
    <2>1. Pending' = {}
        BY <1>0, <1>3, HealWrites DEF Pending
    <2> QED
        BY <2>1
<1>4. CASE JournalSwap
    <2>1. /\ disk'.current = disk.current /\ Pending' \subseteq Pending \cup {target}
          /\ pc = "journal"
        BY <1>0, <1>4, JournalWrites DEF Pending, JournalSwap
    <2>2. IsNext(Versions, disk.current, target)
        BY <2>1 DEF NextOnly, NextAimed, Swapping
    <2> QED
        BY <1>0, <2>1, <2>2
<1>5. CASE SaveTick
    <2>1. /\ disk'.current = IF outcome = "applied" THEN target ELSE disk.current
          /\ disk'.attempting = IF JournaledThisTick THEN NoVersion ELSE disk.attempting
          /\ pc = "save"
        BY <1>0, <1>5, SaveWrites DEF SaveTick
    <2>2. CASE outcome = "applied"
        <3>1. parked' = NoVersion
            BY <1>0, <1>5, <2>1, <2>2 DEF SaveTick, Judged
        <3>2. Pending' = {}
            BY <2>1, <2>2, <3>1 DEF Pending, JournaledThisTick
        <3> QED
            BY <3>2
    <2>3. CASE outcome = "busy_retry"
        <3>1. Pending' \subseteq {target}
            BY <1>5, <2>1, <2>3 DEF SaveTick, Pending, JournaledThisTick
        <3>2. IsNext(Versions, disk.current, target)
            BY <2>1, <2>3 DEF NextOnly, NextAimed, JournaledThisTick
        <3> QED
            BY <2>1, <2>3, <3>1, <3>2
    <2>4. CASE outcome \notin {"applied", "busy_retry"}
        <3>1. parked' \in {NoVersion, parked}
            BY <1>5, <2>4 DEF SaveTick
        <3>2. Pending' \subseteq Pending
            BY <2>1, <3>1 DEF Pending
        <3> QED
            BY <1>0, <2>1, <2>4, <3>2
    <2> QED
        BY <2>2, <2>3, <2>4
<1> QED
    BY <1>0, <1>2, <1>3, <1>4, <1>5, OnlyWriters DEF vars, history

-----------------------------------------------------------------------------
(* The pin and the running app are the recorded release or the one on      *)
(* trial; a bundle is pinned only over the snapshot taken for it; and a    *)
(* tree or a topology that is not that of the last applied release can be  *)
(* brought back whole from such a snapshot.                                *)
Restorable ==
    /\ {env.app, running.app} \subseteq Pending \cup {disk.current}
    /\ env.app # disk.current /\ env.app \in Bundles => snap.stamp = env.app
    /\ env.tree # base \/ running.infra # {base} => snap.stamp > disk.current
    /\ snap.stamp > disk.current =>
            /\ snap.stamp \in Pending /\ snap.stamp \in Bundles
            /\ snap.env.app = disk.current /\ snap.env.tree = base

(* What the tick knows of the shape at each host call. *)
Stages ==
    /\ pc \in {"heal_app", "heal_infra", "heal_save", "undo_up", "rollback_up"} => env.tree = base
    /\ pc = "heal_infra" => snap.stamp = disk.attempting
    /\ pc = "heal_save" => snap.stamp <= disk.current
    /\ pc \in {"pull", "journal"} \cup Begun \/ (pc = "save" /\ JournaledThisTick) =>
            bundle = (target \in Bundles)
    /\ pc \in {"tree", "undo_up"} => bundle
    /\ pc \in Begun \ {"tree"} /\ bundle => snap.stamp = target
    /\ pc = "undo_up" => env.app = disk.current
    /\ bundle /\ (pc = "canary" \/ (pc = "save" /\ outcome \in {"applied", "busy_retry"})) =>
            running.infra = {env.tree}
    /\ pc = "save" /\ outcome = "rolled_back" => snap.stamp <= disk.current
    /\ pc \in {"op", "final"} /\ outcome = "applied" => Pending = {}

SInv == Restorable /\ Stages

(* What the layers below say, where the shape is argued about. *)
Sound == IInv /\ RInv /\ AInv /\ OneTrial /\ (Steady \/ Decisive)

(* The box starts with one whole shape.                                    *)
LEMMA ShapeStart == Init => SInv
<1> SUFFICES ASSUME Init PROVE SInv
    OBVIOUS
<1>1. Restorable
    BY VersionsAssumption, InstalledAssumption
       DEF Init, Bootstrap, InstalledDeploy, NoSnapshot, Restorable, NoVersion
<1>2. Stages
    BY DEF Init, Stages, Begun, OnTrial, GoingBack
<1> QED
    BY <1>1, <1>2 DEF SInv

(* A version, or none, is a number.                                        *)
LEMMA OrdinalOrNone == \A v \in Versions \cup {NoVersion} : v \in Nat
BY VersionsAssumption DEF NoVersion

(* The facts every step uses. *)
LEMMA SoundFacts ==
    ASSUME Sound
    PROVE  /\ st.current = disk.current /\ disk.current \in Nat /\ disk.current # NoVersion
           /\ env \in Deploy /\ snap.env \in Deploy
           /\ snap \in [stamp : Versions \cup {NoVersion}, env : Deploy]
           /\ snap.stamp \in Nat /\ base \in Versions /\ target \in Nat
           /\ running \in [app : Versions, infra : SUBSET Versions]
           /\ pc \in Begun \/ (pc = "save" /\ JournaledThisTick) =>
                  Pending = {target} /\ target > disk.current /\ disk.attempting = target
<1> USE VersionsAssumption
<1>1. /\ st.current = disk.current /\ disk \in Persisted /\ st \in Persisted /\ disk.current \in Versions
      /\ env \in Deploy /\ snap \in [stamp : Versions \cup {NoVersion}, env : Deploy]
      /\ base \in Versions /\ target \in Versions \cup {NoVersion}
      /\ running \in [app : Versions, infra : SUBSET Versions]
    BY DEF Sound, IInv, TypeOK, PersistedHere, Persisted, Agreed
<1>2. /\ disk.current \in Nat /\ disk.current # NoVersion
      /\ snap.env \in Deploy /\ snap.stamp \in Nat /\ target \in Nat
    <2>1. disk.current \in Nat /\ disk.current # NoVersion
        BY <1>1 DEF NoVersion
    <2>2. snap.env \in Deploy /\ snap.stamp \in Versions \cup {NoVersion}
        BY <1>1
    <2>3. snap.stamp \in Nat /\ target \in Nat
        BY ONLY <1>1, <2>2, OrdinalOrNone
    <2> QED
        BY <2>1, <2>2, <2>3
<1>3. ASSUME pc \in Begun \/ (pc = "save" /\ JournaledThisTick)
      PROVE  Pending = {target} /\ target > disk.current /\ disk.attempting = target
    <2>1. disk.attempting = target
        BY <1>1, <1>3 DEF Sound, RInv, Synced, Journaled, Persisted
    <2>2. target # NoVersion
        BY <1>1, <1>3 DEF Sound, IInv, Aimed, RInv, Judged, JournaledThisTick, Deploy, NoVersion,
                          Begun, Swapping
    <2>3. Pending \subseteq {target}
        BY <1>3 DEF Sound, OneTrial, Begun, Swapping
    <2>4. target \in Pending
        BY <2>1, <2>2 DEF Pending
    <2> QED
        BY <2>1, <2>3, <2>4 DEF Sound, RInv, Above
<1> QED
    BY <1>1, <1>2, <1>3

(* The steps that leave the records and the box alone. *)
LEMMA ShapeBefore ==
    ASSUME Sound, SInv,
           \/ ListFails \/ \E feed \in Feeds : TickBegin(feed)
           \/ ToLib \/ HeartbeatFails
           \/ VerifyFailed \/ VerifyDeferred \/ Verified \/ PullByDigest
           \/ \E desired \in Desireds : Poll(desired)
    PROVE  SInv'
<1> USE DEF SInv, Restorable, Stages, Goto, Conclude, Return, ResetTick, tickVars, history, boxVars,
            OnTrial, GoingBack, Begun, JournaledThisTick, Pending
<1>1. CASE ListFails \/ \E feed \in Feeds : TickBegin(feed)
    BY <1>1 DEF ListFails, TickBegin
<1>2. CASE ToLib \/ HeartbeatFails
    BY <1>2 DEF ToLib, HeartbeatFails
<1>3. CASE VerifyFailed \/ VerifyDeferred \/ PullByDigest
    BY <1>3 DEF VerifyFailed, VerifyDeferred, PullByDigest
<1>4. CASE Verified
    BY <1>4 DEF Verified
<1>5. CASE \E desired \in Desireds : Poll(desired)
    BY <1>5 DEF Poll
<1> QED
    BY <1>1, <1>2, <1>3, <1>4, <1>5

(* A heal brings back the shape its snapshot kept, or finds it in place.   *)
LEMMA ShapeHeal ==
    ASSUME Sound, SInv, HealFiles \/ HealApp \/ HealInfra \/ HealSave
    PROVE  SInv'
<1> USE SoundFacts DEF SInv, Restorable, Stages, Goto, tickVars, history, boxVars,
            OnTrial, GoingBack, Begun
<1>0. /\ pc \in Healing => disk.attempting # NoVersion /\ st = disk
      /\ pc \in {"heal_app", "heal_infra", "heal_save", "rollback_up"} => env.app = disk.current
      /\ pc \in {"heal_infra", "heal_save"} => running.app = disk.current
      /\ \A v \in Pending : pc \in Healing => v = disk.attempting
    BY DEF Sound, AInv, Standing, Home, RInv, Synced, Journaled, OneTrial, Pending, Healing
<1>1. CASE HealFiles
    <2>1. /\ pc = "heal" /\ pc' = "heal_app" /\ UNCHANGED <<disk, parked, base, running>>
          /\ snap.stamp > disk.current => snap.stamp = st.attempting
        BY <1>0, <1>1 DEF HealFiles, Healing
    <2>2. Pending' = Pending
        BY <2>1 DEF Pending
    <2>3. CASE snap.stamp = st.attempting
        <3>1. st.attempting > disk.current
            BY <1>0, <2>1 DEF Healing, Sound, RInv, Above, Pending
        <3>2. env' = PinImage(snap.env, st.current) /\ snap' = snap
            BY <1>1, <2>3 DEF HealFiles, RestoreDeploySnapshot
        <3>3. env'.app = disk.current /\ env'.tree = base
            BY <3>1, <3>2, <2>3 DEF PinImage, Deploy
        <3> QED
            BY <2>1, <2>2, <3>2, <3>3
    <2>4. CASE snap.stamp # st.attempting
        <3>1. env' = PinImage(env, st.current) /\ snap' = NoSnapshot
            BY <1>1, <2>4 DEF HealFiles
        <3>2. env.tree = base /\ running.infra = {base}
            BY <2>1, <2>4
        <3>3. env'.app = disk.current /\ env'.tree = base /\ ~(snap'.stamp > disk.current)
            BY <3>1, <3>2 DEF PinImage, Deploy, NoSnapshot, NoVersion
        <3> QED
            BY <2>1, <2>2, <3>1, <3>2, <3>3
    <2> QED
        BY <2>3, <2>4
<1>2. CASE HealApp
    <2>1. /\ pc = "heal_app" /\ UNCHANGED <<disk, parked, base, env, snap>>
          /\ running'.app \in {running.app, env.app} /\ running'.infra = running.infra
        BY <1>2 DEF HealApp, PartlyUp, RestartedApp
    <2>2. Pending' = Pending
        BY <2>1 DEF Pending
    <2>3. \/ pc' = "heal_infra" /\ snap.stamp = st.attempting
          \/ pc' = "heal_save" /\ snap.stamp # st.attempting
          \/ pc' = "lib"
        BY <1>2 DEF HealApp
    <2> QED
        BY <1>0, <2>1, <2>2, <2>3 DEF Healing
<1>3. CASE HealInfra
    <2>1. /\ pc = "heal_infra" /\ UNCHANGED <<disk, parked, base, env>>
          /\ running'.app \in {running.app, env.app}
          /\ \/ pc' = "heal_save" /\ running'.infra = {env.tree} /\ snap' = NoSnapshot
             \/ pc' = "lib" /\ snap' = snap
        BY <1>3 DEF HealInfra, PartlyUp, UpInfra
    <2>2. Pending' = Pending
        BY <2>1 DEF Pending
    <2>3. snap.stamp > disk.current
        BY <1>0, <2>1 DEF Healing, Sound, RInv, Above, Pending
    <2> QED
        BY <1>0, <2>1, <2>2, <2>3 DEF NoSnapshot, NoVersion
<1>4. CASE HealSave
    <2>1. /\ disk'.current = disk.current /\ Pending' = {} /\ pc = "heal_save" /\ pc' = "lib"
          /\ UNCHANGED <<boxVars, base, outcome>>
        BY <1>4, HealWrites DEF HealSave, Sound, RInv, Pending
    <2> QED
        BY <1>0, <2>1 DEF Healing
<1> QED
    BY <1>1, <1>2, <1>3, <1>4

(* The swap: a snapshot before the tree, the pin over the snapshot, and the*)
(* new topology over both.                                                 *)
LEMMA ShapeSwap ==
    ASSUME Sound, SInv,
           \/ JournalSwap \/ LayDeployTree \/ PinTarget \/ UpPostgresWait \/ Migrate
           \/ RestartTarget \/ \E window \in Windows : Canary(window)
    PROVE  SInv'
<1> USE SoundFacts DEF SInv, Restorable, Stages, Goto, tickVars, history, boxVars,
            OnTrial, GoingBack, Begun
<1>1. CASE JournalSwap
    <2>1. /\ pc = "journal" /\ pc' = IF bundle THEN "tree" ELSE "pin"
          /\ UNCHANGED <<env, snap, running, base, bundle, target, parked>>
        BY <1>1 DEF JournalSwap
    <2>2. /\ disk'.current = disk.current /\ disk'.attempting = target /\ target # NoVersion
        BY <1>1, JournalWrites, VersionsAssumption DEF Sound, RInv, NoVersion
    <2>3. Pending \subseteq {target}
        BY <2>1 DEF Sound, OneTrial, Swapping
    <2>4. Pending' = {target}
        BY <2>1, <2>2, <2>3 DEF Pending
    <2>5. Restorable'
        BY <2>1, <2>2, <2>3, <2>4
    <2>6. pc' = "pin" => ~bundle
        BY <2>1, BOOLEAN = {TRUE, FALSE} DEF Sound, IInv, TypeOK
    <2> QED
        BY <2>1, <2>2, <2>4, <2>5, <2>6
<1>2. CASE LayDeployTree
    <2>1. /\ pc = "tree" /\ pc' \in {"pin", "undo_migrate"}
          /\ UNCHANGED <<disk, running, base, bundle, target, parked>>
          /\ env'.app = env.app
          /\ snap' = IF snap.stamp = target THEN snap ELSE [stamp |-> target, env |-> env]
        BY <1>2 DEF LayDeployTree, ApplyDeployTree, SnapshotDeploy, Deploy
    <2>2. Pending' = Pending /\ Pending = {target} /\ target > disk.current
        BY <2>1 DEF Pending
    <2>5. bundle /\ target \in Bundles
        BY <2>1
    <2>3. snap.stamp # target => env.tree = base /\ env.app = disk.current
        BY <2>1, <2>2, <2>5
    <2>4. snap'.stamp = target /\ snap'.env.app = disk.current /\ snap'.env.tree = base
        BY <2>1, <2>2, <2>3
    <2> QED
        BY <2>1, <2>2, <2>4, <2>5
<1>3. CASE PinTarget
    <2>1. /\ pc = "pin" /\ pc' \in {"postgres", "migrate"}
          /\ UNCHANGED <<disk, running, snap, base, bundle, target, parked>>
          /\ env'.app = target /\ env'.tree = env.tree
        BY <1>3 DEF PinTarget, PinImage, Deploy
    <2>2. Pending' = Pending /\ Pending = {target}
        BY <2>1 DEF Pending
    <2> QED
        BY <2>1, <2>2
<1>4. CASE UpPostgresWait
    <2>1. /\ pc = "postgres" /\ pc' \in {"migrate", "undo_migrate"}
          /\ UNCHANGED <<disk, env, snap, base, bundle, target, parked>>
          /\ running'.app = running.app /\ running'.infra \in {running.infra, running.infra \cup {env.tree}}
        BY <1>4 DEF UpPostgresWait, PartlyUp, UpPostgres
    <2>2. Pending' = Pending /\ Pending = {target} /\ target > disk.current
        BY <2>1 DEF Pending
    <2>3. running'.infra # {base} => snap.stamp > disk.current
        <3>1. CASE env.tree = base /\ running.infra = {base}
            BY <2>1, <3>1
        <3>2. CASE env.tree # base \/ running.infra # {base}
            BY <3>2
        <3> QED
            BY <3>1, <3>2
    <2> QED
        BY <2>1, <2>2, <2>3
<1>5. CASE Migrate
    <2>1. /\ pc = "migrate" /\ pc' \in {"restart", "undo_migrate"}
          /\ UNCHANGED <<disk, env, snap, running, base, bundle, target, parked>>
        BY <1>5 DEF Migrate
    <2>2. Pending' = Pending
        BY <2>1 DEF Pending
    <2> QED
        BY <2>1, <2>2
<1>6. CASE RestartTarget
    <2>1. /\ pc = "restart"
          /\ UNCHANGED <<disk, env, snap, base, bundle, target, parked>>
          /\ running'.app \in {running.app, env.app}
          /\ \/ pc' = "canary" /\ running'.infra = IF bundle THEN {env.tree} ELSE running.infra
             \/ pc' = "undo_restart"
          /\ running'.infra = running.infra
             \/ (bundle /\ running'.infra \in {{env.tree}, running.infra \cup {env.tree}})
        BY SMTT(30), <1>6 DEF RestartTarget, PartlyUp, UpInfra, RestartedApp
    <2>2. Pending' = Pending /\ Pending = {target} /\ target > disk.current
        BY <2>1 DEF Pending
    <2>3. bundle => snap.stamp > disk.current
        BY <2>1, <2>2
    <2> QED
        BY <2>1, <2>2, <2>3
<1>7. ASSUME NEW window \in Windows, Canary(window) PROVE SInv'
    <2>1. /\ pc = "canary"
          /\ UNCHANGED <<disk, env, snap, running, base, bundle, target, parked>>
          /\ \/ pc' = "save" /\ outcome' \in {"applied", "busy_retry"}
             \/ pc' = "rollback"
        BY <1>7 DEF Canary, Conclude
    <2>2. Pending' = Pending
        BY <2>1 DEF Pending
    <2> QED
        BY <2>1, <2>2
<1> QED
    BY <1>1, <1>2, <1>3, <1>4, <1>5, <1>6, <1>7

(* The ways back: the snapshot's whole shape for a bundle, the pin alone   *)
(* for a release that changes nothing else.                                *)
LEMMA ShapeBack ==
    ASSUME Sound, SInv, UndoFiles \/ UndoUp \/ RollbackFiles \/ RollbackUp
    PROVE  SInv'
<1> USE SoundFacts DEF SInv, Restorable, Stages, Goto, Conclude, tickVars, history, boxVars,
            OnTrial, GoingBack, Begun
<1>0. /\ pc \in GoingBack => curImg = disk.current
      /\ pc = "rollback_up" => env.app = disk.current
      /\ pc \in GoingBack => Pending = {target} /\ target > disk.current /\ target # NoVersion
      /\ pc \in GoingBack /\ bundle => snap.stamp = target /\ snap.stamp > disk.current
      /\ pc \in GoingBack /\ ~bundle => ~(snap.stamp > disk.current)
      /\ bundle \in BOOLEAN
    <2>1. /\ pc \in GoingBack => curImg = disk.current
          /\ pc = "rollback_up" => env.app = disk.current
          /\ bundle \in BOOLEAN
        BY DEF Sound, AInv, Sighted, Standing, Home, Swapping, IInv, TypeOK
    <2>2. pc \in GoingBack => Pending = {target} /\ target > disk.current /\ target # NoVersion
        BY VersionsAssumption DEF NoVersion
    <2>3. pc \in GoingBack /\ bundle => snap.stamp = target
        OBVIOUS
    <2>4. pc \in GoingBack /\ ~bundle => target \notin Bundles
        OBVIOUS
    <2> QED
        BY <2>1, <2>2, <2>3, <2>4
<1>1. CASE UndoFiles
    <2>1. /\ pc \in {"undo_migrate", "undo_restart"}
          /\ UNCHANGED <<disk, parked, snap, running, base, bundle, target>>
        BY <1>1 DEF UndoFiles, Rethrow
    <2>2. Pending' = Pending
        BY <2>1 DEF Pending
    <2>3. CASE bundle
        <3>1. env' = snap.env /\ pc' = "undo_up" /\ UNCHANGED outcome
            BY <1>0, <1>1, <2>1, <2>3 DEF UndoFiles, RestoreDeploySnapshot
        <3> QED
            BY <1>0, <2>1, <2>2, <2>3, <3>1
    <2>4. CASE ~bundle
        <3>1. env'.app = disk.current /\ env'.tree = env.tree /\ pc' = "op" /\ outcome' = "threw"
            BY <1>0, <1>1, <2>1, <2>4 DEF UndoFiles, Rethrow, PinImage, Deploy
        <3> QED
            BY <1>0, <2>1, <2>2, <2>4, <3>1
    <2> QED
        BY <2>3, <2>4
<1>2. CASE UndoUp
    <2>1. /\ pc = "undo_up" /\ pc' = "op" /\ outcome' = "threw"
          /\ UNCHANGED <<disk, parked, base, bundle, target>>
          /\ running'.app \in {running.app, env.app}
          /\ env'.app \in {env.app, curImg} /\ env'.tree = env.tree
          /\ \/ running'.infra = {env.tree} /\ snap' = NoSnapshot
             \/ snap' = snap
        BY <1>2 DEF UndoUp, Rethrow, PartlyUp, UpInfra, PinImage, Deploy
    <2>2. Pending' = Pending
        BY <2>1 DEF Pending
    <2>3. snap.stamp > disk.current /\ env.tree = base /\ env.app = disk.current
        BY <1>0, <2>1
    <2> QED
        BY <1>0, <2>1, <2>2, <2>3 DEF NoSnapshot, NoVersion
<1>3. CASE RollbackFiles
    <2>1. /\ pc = "rollback" /\ pc' = "rollback_up"
          /\ UNCHANGED <<disk, parked, snap, running, base, bundle, target, outcome>>
        BY <1>3 DEF RollbackFiles
    <2>2. Pending' = Pending
        BY <2>1 DEF Pending
    <2>3. Resolve(RollbackTo) = disk.current
        BY <1>0, <2>1, RollbackStays DEF Sound, Resolve
    <2>4. env'.app = disk.current /\ env'.tree = IF bundle THEN snap.env.tree ELSE env.tree
        BY <1>0, <1>3, <2>1, <2>3 DEF RollbackFiles, PinImage, RestoreDeploySnapshot, Deploy
    <2> QED
        BY <1>0, <2>1, <2>2, <2>4
<1>4. CASE RollbackUp
    <2>1. /\ pc = "rollback_up"
          /\ UNCHANGED <<disk, parked, env, base, bundle, target>>
          /\ running'.app \in {running.app, env.app}
          /\ \/ /\ pc' = "save" /\ outcome' = "rolled_back"
                /\ running'.infra = IF bundle THEN {env.tree} ELSE running.infra
                /\ snap' = IF bundle THEN NoSnapshot ELSE snap
             \/ /\ pc' = "op" /\ outcome' = "threw"
                /\ snap' = snap
                /\ ~bundle => running'.infra = running.infra
        BY <1>0, <1>4 DEF RollbackUp, Rethrow, PartlyUp, UpInfra, RestartedApp
    <2>2. Pending' = Pending
        BY <2>1 DEF Pending
    <2> QED
        BY <1>0, <2>1, <2>2 DEF NoSnapshot, NoVersion, JournaledThisTick
<1> QED
    BY <1>1, <1>2, <1>3, <1>4

(* The save makes the shape of an applied release the box's own; what comes*)
(* after it, a death or a stray `compose up` leaves the shape accounted    *)
(* for.                                                                    *)
LEMMA ShapeAfter ==
    ASSUME "op" \notin Faults, Sound, Sound', SInv,
           SaveTick \/ HonorRestartOp \/ RestartOpFails \/ SelfUpdate \/ Crash \/ ComposeUp
    PROVE  SInv'
<1> USE SoundFacts DEF SInv, Restorable, Stages, Goto, Return, ResetTick, tickVars, history, boxVars,
            OnTrial, GoingBack, Begun
<1>1. CASE SaveTick
    <2>1. /\ disk'.current = IF outcome = "applied" THEN target ELSE disk.current
          /\ disk'.attempting = IF JournaledThisTick THEN NoVersion ELSE disk.attempting
          /\ parked' = CASE outcome = "busy_retry" -> target
                         [] outcome # "busy_retry" /\ env.app = disk'.current -> NoVersion
                         [] OTHER -> parked
          /\ base' = IF outcome = "applied" THEN env.tree ELSE base
          /\ pc = "save" /\ pc' = "op" /\ UNCHANGED <<boxVars, tickVars>>
        BY <1>1, SaveWrites DEF SaveTick, Sound, RInv
    <2>2. /\ outcome \in {"applied", "busy_retry"} =>
                env.app = target /\ running.app = target /\ target # NoVersion
          /\ outcome = "rolled_back" => env.app = disk.current /\ running.app = disk.current
          /\ bundle \in BOOLEAN /\ disk'.current \in Nat
        <3>1. /\ outcome \in {"applied", "busy_retry"} => env.app = target /\ running.app = target
              /\ outcome = "rolled_back" => env.app = disk.current /\ running.app = disk.current
            BY <2>1 DEF Sound, RInv, Judged, AInv, Standing, Home
        <3>2. bundle \in BOOLEAN /\ disk'.current \in Nat
            BY <2>1 DEF Sound, IInv, TypeOK
        <3>3. outcome \in {"applied", "busy_retry"} => target # NoVersion
            BY <2>1 DEF JournaledThisTick, NoVersion
        <3> QED
            BY <3>1, <3>2, <3>3
    <2>3. CASE outcome = "applied"
        <3>1. Pending' = {} /\ disk'.current = target /\ base' = env.tree
            BY <2>1, <2>2, <2>3 DEF Pending, JournaledThisTick
        <3>2. running.infra = {env.tree}
            <4>1. CASE bundle
                BY <2>1, <2>3, <4>1
            <4>2. CASE ~bundle
                <5>1. target \notin Bundles /\ Pending = {target}
                    BY <2>1, <2>3, <4>2 DEF JournaledThisTick
                <5>2. ~(snap.stamp > disk.current)
                    BY <5>1
                <5> QED
                    BY <5>2
            <4> QED
                BY <2>2, <4>1, <4>2
        <3>3. ~(snap.stamp > target)
            <4>1. Pending = {target} /\ target > disk.current
                BY <2>1, <2>3 DEF JournaledThisTick
            <4>2. snap.stamp > disk.current => snap.stamp = target
                BY <4>1
            <4> QED
                BY <4>1, <4>2
        <3> QED
            BY <2>1, <2>2, <2>3, <3>1, <3>2, <3>3
    <2>4. CASE outcome = "busy_retry"
        <3>1. Pending' = {target} /\ Pending = {target} /\ disk'.current = disk.current /\ base' = base
            BY <2>1, <2>2, <2>4 DEF Pending, JournaledThisTick
        <3> QED
            BY <2>1, <2>2, <2>4, <3>1
    <2>5. CASE outcome = "rolled_back"
        <3>1. Pending' = {} /\ disk'.current = disk.current /\ base' = base
            BY <2>1, <2>2, <2>5 DEF Pending, JournaledThisTick
        <3> QED
            BY <2>1, <2>2, <2>5, <3>1
    <2>6. CASE ~JournaledThisTick
        <3>1. /\ disk'.current = disk.current /\ base' = base
              /\ UNCHANGED parked \/ (env.app = disk.current /\ parked' = NoVersion)
              /\ disk'.attempting = disk.attempting
              /\ outcome' # "applied"
            BY <2>1, <2>6 DEF JournaledThisTick
        <3>2. Pending' = Pending
            <4>1. CASE UNCHANGED parked
                BY <3>1, <4>1 DEF Pending
            <4>2. CASE env.app = disk.current /\ parked' = NoVersion
                <5>1. parked # NoVersion => disk.attempting = parked
                    <6> SUFFICES ASSUME parked # NoVersion PROVE disk.attempting = parked
                        OBVIOUS
                    <6>1. parked \in Pending /\ parked > disk.current
                        BY DEF Pending, Sound, RInv, Above
                    <6>2. disk.attempting # NoVersion
                        BY <4>2, <6>1 DEF Sound, AInv, Parking
                    <6> QED
                        BY <6>1, <6>2 DEF Sound, OneTrial, Pending
                <5> QED
                    BY <3>1, <4>2, <5>1 DEF Pending
            <4> QED
                BY <3>1, <4>1, <4>2
        <3> QED
            BY <2>1, <3>1, <3>2
    <2> QED
        BY <2>3, <2>4, <2>5, <2>6 DEF JournaledThisTick
<1>2. CASE HonorRestartOp
    <2>1. /\ disk' = disk /\ UNCHANGED <<env, snap, running, base, parked>>
          /\ pc' = "idle" \/ (pc' = "final" /\ pc = "op" /\ UNCHANGED outcome)
        BY <1>2 DEF HonorRestartOp, AfterOp, WasCompleted, Sound, RInv, Synced, Journaled
    <2>2. Pending' = Pending
        BY <2>1 DEF Pending
    <2> QED
        BY <2>1, <2>2
<1>3. CASE RestartOpFails
    BY <1>3 DEF RestartOpFails
<1>4. CASE SelfUpdate
    <2>1. /\ pc = "final" /\ pc' = "idle" /\ UNCHANGED <<disk, parked, running, base>>
          /\ env'.app = env.app /\ env'.tree = env.tree
          /\ snap' = snap \/ (outcome = "applied" /\ snap' = NoSnapshot)
        BY <1>4 DEF SelfUpdate, Deploy
    <2>2. Pending' = Pending
        BY <2>1 DEF Pending
    <2> QED
        BY <2>1, <2>2 DEF NoSnapshot, NoVersion
<1>5. CASE Crash
    <2>1. pc' = "idle" /\ UNCHANGED <<disk, parked, env, snap, running, base>>
        BY <1>5 DEF Crash
    <2>2. Pending' = Pending
        BY <2>1 DEF Pending
    <2> QED
        BY <2>1, <2>2
<1>6. CASE ComposeUp
    <2>1. /\ UNCHANGED <<disk, parked, env, snap, base, pc, target, bundle, outcome>>
          /\ running'.app = env.app /\ running'.infra \in {running.infra, {env.tree}}
        BY <1>6 DEF ComposeUp, RestartedApp, UpInfra
    <2>2. Pending' = Pending
        BY <2>1 DEF Pending
    <2>3. Restorable'
        BY <2>1, <2>2
    <2>4. Stages'
        BY <2>1, <2>2 DEF JournaledThisTick
    <2> QED
        BY <2>3, <2>4
<1> QED
    BY <1>1, <1>2, <1>3, <1>4, <1>5, <1>6

(* Every step keeps the third layer. *)
LEMMA SNext ==
    ASSUME "op" \notin Faults, Sound, Sound', SInv, [Next]_vars
    PROVE  SInv'
<1>1. CASE Next
    BY <1>1, ShapeBefore, ShapeHeal, ShapeSwap, ShapeBack, ShapeAfter DEF Next, TickStep
<1>2. CASE UNCHANGED vars
    BY <1>2 DEF vars, boxVars, tickVars, history, SInv, Restorable, Stages, Pending,
                JournaledThisTick
<1> QED
    BY <1>1, <1>2

(* All the layers together. *)
LEMMA Layers ==
    ASSUME "op" \notin Faults, Steady \/ (Decisive /\ "heal" \notin Faults)
    PROVE  Spec => [](Sound /\ NextOnly /\ SInv)
<1> DEFINE LInv == IInv /\ RInv /\ AInv /\ NextOnly
<1>1. Spec => [](IInv /\ RInv /\ AInv)
    BY Accounts
<1>2. Init => NextOnly
    BY DEF Init, Bootstrap, NextOnly, NextAimed, Pending, Swapping, OnTrial, GoingBack, NoVersion
<1>3. IInv /\ RInv /\ AInv /\ NextOnly /\ [Next]_vars => NextOnly'
    BY NextOnlyNext
<1>4. Spec => []LInv
    BY <1>1, <1>2, <1>3, PTL DEF Spec
<1>5. LInv => Sound
    BY TrialIsOne DEF Sound
<1>6. LInv' => Sound'
    BY <1>5, PTL
<1>7. Sound /\ Sound' /\ SInv /\ [Next]_vars => SInv'
    BY SNext
<1>8. LInv => NextOnly
    OBVIOUS
<1> HIDE DEF LInv
<1> QED
    BY <1>4, <1>5, <1>6, <1>7, <1>8, ShapeStart, PTL DEF Spec

(* Between ticks, with no swap pending, the box has the whole shape of the *)
(* last applied release, whatever failed or died on the way (main.ts, the  *)
(* resume block of runtime.ts, host.ts restoreDeploySnapshot).             *)
THEOREM ShapeIsRestored ==
    ASSUME "op" \notin Faults, Steady \/ (Decisive /\ "heal" \notin Faults)
    PROVE  Spec => []SettledShape
<1>1. Sound /\ SInv => SettledShape
    <2> SUFFICES ASSUME Sound, SInv, pc = "idle", mem.attempting = NoVersion, parked = NoVersion
                 PROVE  /\ env.app = mem.current /\ running.app = mem.current
                        /\ env.tree = base /\ running.infra = {base}
        BY DEF SettledShape, Settled
    <2>1. mem = disk
        BY DEF Sound, RInv, Synced
    <2>2. Pending = {}
        BY <2>1 DEF Pending
    <2> QED
        BY <2>1, <2>2 DEF SInv, Restorable
<1>2. Spec => [](Sound /\ NextOnly /\ SInv)
    BY Layers
<1> QED
    BY <1>1, <1>2, PTL

-----------------------------------------------------------------------------
(* The abstract promise, step by step. *)

(* The updater starts as a supervised box starts.                          *)
LEMMA PromiseStart == Init => Promise!Init
BY DEF Init, Bootstrap, Promise!Init, NoVersion

(* A step of the updater begins a trial, launches what is on trial or      *)
(* recorded, accepts what is up, withdraws what is not, or is not seen.    *)
LEMMA PromiseNext ==
    ASSUME Sound, SInv, [Next]_vars
    PROVE  [Promise!Next]_<<disk.current, running.app, Pending>>
<1> USE SoundFacts
<1> DEFINE Launches == running'.app \in Pending \cup {disk.current} /\ UNCHANGED <<disk, parked>>
           Unseen == UNCHANGED <<disk, parked, running>>
<1>0. {env.app, running.app} \subseteq Pending \cup {disk.current}
    BY DEF SInv, Restorable
<1>1. CASE Launches
    BY <1>1 DEF Promise!Next, Promise!Launch, Pending
<1>2. CASE Unseen
    BY <1>2 DEF Pending
<1>3. CASE HealSave
    <2>1. /\ disk'.current = disk.current /\ Pending' = {} /\ UNCHANGED running
          /\ running.app = disk.current
        BY <1>3, HealWrites DEF HealSave, Sound, RInv, AInv, Standing, Home, Pending, boxVars
    <2> QED
        BY <2>1 DEF Promise!Next, Promise!Withdraw, Pending
<1>4. CASE JournalSwap
    <2>1. /\ disk'.current = disk.current /\ disk'.attempting = target /\ UNCHANGED <<parked, running>>
          /\ target \in Versions /\ target > disk.current /\ pc = "journal"
        BY <1>4, JournalWrites DEF JournalSwap, Sound, RInv, boxVars
    <2>2. Pending \subseteq {target}
        BY <2>1 DEF Sound, OneTrial, Swapping
    <2>3. Pending' = Pending \cup {target}
        BY <2>1, <2>2, VersionsAssumption DEF Pending, NoVersion
    <2> QED
        BY <2>1, <2>3 DEF Promise!Next, Promise!Begin, Pending
<1>5. CASE SaveTick
    <2>1. /\ disk'.current = IF outcome = "applied" THEN target ELSE disk.current
          /\ disk'.attempting = IF JournaledThisTick THEN NoVersion ELSE disk.attempting
          /\ parked' = CASE outcome = "busy_retry" -> target
                         [] outcome # "busy_retry" /\ env.app = disk'.current -> NoVersion
                         [] OTHER -> parked
          /\ pc = "save" /\ UNCHANGED running
        BY <1>5, SaveWrites DEF SaveTick, Sound, RInv, boxVars
    <2>2. /\ outcome \in {"applied", "busy_retry"} => env.app = target /\ running.app = target
          /\ outcome = "rolled_back" => env.app = disk.current /\ running.app = disk.current
          /\ JournaledThisTick => Pending = {target} /\ target > disk.current /\ target # NoVersion
        BY <2>1 DEF Sound, RInv, Judged, AInv, Standing, Home, NoVersion
    <2>3. CASE outcome = "applied"
        <3>1. Pending' = {} /\ disk'.current = target
            BY <2>1, <2>2, <2>3 DEF Pending, JournaledThisTick
        <3> QED
            BY <2>1, <2>2, <2>3, <3>1 DEF Promise!Next, Promise!Accept, Pending, JournaledThisTick
    <2>4. CASE outcome = "busy_retry"
        <3>1. Pending' = Pending /\ disk'.current = disk.current
            BY <2>1, <2>2, <2>4 DEF Pending, JournaledThisTick
        <3> QED
            BY <2>1, <3>1 DEF Pending
    <2>5. CASE outcome = "rolled_back"
        <3>1. Pending' = {} /\ disk'.current = disk.current
            BY <2>1, <2>2, <2>5 DEF Pending, JournaledThisTick
        <3> QED
            BY <2>1, <2>2, <2>5, <3>1 DEF Promise!Next, Promise!Withdraw, Pending
    <2>6. CASE ~JournaledThisTick
        <3>1. /\ disk'.current = disk.current /\ disk'.attempting = disk.attempting
              /\ UNCHANGED parked \/ (env.app = disk.current /\ parked' = NoVersion)
            BY <2>1, <2>6 DEF JournaledThisTick
        <3>2. env.app = disk.current /\ parked # NoVersion => disk.attempting = parked
            <4>1. parked # NoVersion => parked \in Pending /\ parked > disk.current
                BY DEF Pending, Sound, RInv, Above
            <4>2. env.app = disk.current /\ parked # NoVersion => disk.attempting # NoVersion
                BY <4>1 DEF Sound, AInv, Parking
            <4> QED
                BY <4>1, <4>2 DEF Sound, OneTrial, Pending
        <3>3. Pending' = Pending
            BY <3>1, <3>2 DEF Pending
        <3> QED
            BY <2>1, <3>1, <3>3 DEF Pending
    <2> QED
        BY <2>3, <2>4, <2>5, <2>6 DEF JournaledThisTick
<1>6. CASE UNCHANGED vars
    BY <1>2, <1>6 DEF vars, boxVars, history
<1>7. CASE Next /\ UNCHANGED <<disk, parked>>
    <2>1. running'.app \in {running.app, env.app}
        <3>1. CASE \/ ListFails \/ \E feed \in Feeds : TickBegin(feed)
                   \/ HealFiles \/ ToLib \/ HeartbeatFails
                   \/ \E desired \in Desireds : Poll(desired)
                   \/ VerifyFailed \/ VerifyDeferred \/ Verified \/ PullByDigest \/ JournalSwap
                   \/ LayDeployTree \/ PinTarget \/ Migrate
            BY <3>1 DEF ListFails, TickBegin, HealFiles, ToLib, HeartbeatFails, Poll, VerifyFailed,
                    VerifyDeferred, Verified, PullByDigest, JournalSwap, LayDeployTree, PinTarget,
                    Migrate, boxVars
        <3>2. CASE \/ HealSave \/ UndoFiles \/ RollbackFiles \/ SaveTick
                   \/ HonorRestartOp \/ RestartOpFails \/ SelfUpdate \/ Crash
                   \/ \E window \in Windows : Canary(window)
            BY <3>2 DEF HealSave, UndoFiles, RollbackFiles, SaveTick, HonorRestartOp,
                    RestartOpFails, SelfUpdate, Canary, Crash, boxVars
        <3>3. CASE HealApp \/ HealInfra \/ UpPostgresWait \/ RestartTarget
            BY <3>3 DEF HealApp, HealInfra, UpPostgresWait, RestartTarget, PartlyUp, RestartedApp,
                        UpInfra, UpPostgres
        <3>4. CASE UndoUp \/ RollbackUp \/ ComposeUp
            BY <3>4 DEF UndoUp, RollbackUp, ComposeUp, PartlyUp, RestartedApp, UpInfra
        <3> QED
            BY <1>7, <3>1, <3>2, <3>3, <3>4 DEF Next, TickStep
    <2> QED
        BY <1>0, <1>1, <1>7, <2>1
<1> QED
    BY <1>3, <1>4, <1>5, <1>6, <1>7, OnlyWriters DEF Sound, RInv

(* The updater implements the supervised box: the app that is up is always *)
(* the recorded release or one on trial, a release is recorded only while  *)
(* it is up, and a trial ends otherwise only once the recorded release is  *)
(* back up (updater.ts, tick; runtime.ts, its adapters and resume block).  *)
THEOREM ImplementsPromise ==
    ASSUME "op" \notin Faults, Steady \/ (Decisive /\ "heal" \notin Faults)
    PROVE  Spec => Supervised
<1>1. Sound /\ SInv /\ [Next]_vars => [Promise!Next]_<<disk.current, running.app, Pending>>
    BY PromiseNext
<1>2. Spec => [](Sound /\ NextOnly /\ SInv)
    BY Layers
<1> QED
    BY <1>1, <1>2, PromiseStart, PTL DEF Spec, Supervised, Promise!Spec, Pending

-----------------------------------------------------------------------------
(* The schema, the latch and the strikes, where the list is whole.         *)

(* A migration goes to the next release only, and the version recorded     *)
(* never goes back under it: rolled back or not, the box runs on a schema  *)
(* at most one release newer than it (versions.ts, toLibState; runtime.ts, *)
(* the migrate adapter).  No fault is excluded.                            *)
THEOREM SchemaStaysClose ==
    ASSUME Steady
    PROVE  Spec => []SchemaOneStepAhead
<1> DEFINE CInv == IInv /\ Listed /\ NextAimed /\ SchemaOneStepAhead
<1>1. Init => CInv
    <2>1. Init => Listed /\ NextAimed
        BY DEF Init, Listed, NextAimed, Deciding, Healing, Swapping, OnTrial, GoingBack
    <2>2. Init => SchemaOneStepAhead
        <3>1. \A v \in Versions : ~(Installed < v /\ v < Installed)
            BY ONLY VersionsAssumption, InstalledAssumption
        <3>2. Init => disk.current = Installed /\ schema = Installed
            BY DEF Init, Bootstrap
        <3> QED
            BY ONLY <3>1, <3>2 DEF SchemaOneStepAhead
    <2> QED
        BY <2>1, <2>2, InitIInv
<1>2. CInv /\ [Next]_vars => CInv'
    <2> SUFFICES ASSUME CInv, [Next]_vars PROVE CInv'
        OBVIOUS
    <2>1. IInv' /\ NextAimed'
        BY NextIInv, NextAimedNext
    <2>2. Listed'
        <3>1. CASE UNCHANGED vars
            BY <3>1 DEF vars, tickVars, Listed
        <3> QED
            BY <3>1, ListedNext
    <2>3. SchemaOneStepAhead'
        <3>0. /\ disk.current \in Nat /\ disk'.current \in Nat /\ schema \in Nat
              /\ st.current = disk.current
            BY <2>1, VersionsAssumption DEF IInv, TypeOK, PersistedHere, Persisted, Agreed
        <3>1. CASE Migrate
            <4>1. IsNext(Versions, disk.current, target) /\ UNCHANGED disk
                BY <3>1 DEF Migrate, NextAimed, Swapping, OnTrial
            <4>2. schema' \in {schema, target}
                BY <3>1 DEF Migrate
            <4> QED
                BY <3>0, <4>1, <4>2, VersionsAssumption DEF SchemaOneStepAhead, IsNext
        <3>2. CASE SaveTick
            <4>1. disk'.current >= disk.current /\ schema' = schema
                BY <3>0, <3>2, SaveTickIInv DEF SaveTick, boxVars
            <4> QED
                BY <3>0, <4>1, VersionsAssumption DEF SchemaOneStepAhead
        <3>3. CASE Next /\ ~Migrate /\ ~SaveTick
            <4>1. disk'.current = disk.current
                BY <3>3, OnlySaveRecords
            <4>2. schema' = schema
                <5>1. CASE \/ ListFails \/ \E feed \in Feeds : TickBegin(feed)
                           \/ HealFiles \/ HealApp \/ HealInfra \/ HealSave \/ ToLib
                           \/ HeartbeatFails \/ \E desired \in Desireds : Poll(desired)
                           \/ VerifyFailed \/ VerifyDeferred \/ Verified \/ PullByDigest
                    BY <5>1 DEF ListFails, TickBegin, HealFiles, HealApp, HealInfra, HealSave,
                        ToLib, HeartbeatFails, Poll, VerifyFailed, VerifyDeferred, Verified,
                        PullByDigest, boxVars
                <5>2. CASE \/ JournalSwap \/ LayDeployTree \/ PinTarget \/ UpPostgresWait
                           \/ RestartTarget \/ \E window \in Windows : Canary(window)
                    BY <5>2 DEF JournalSwap, LayDeployTree, PinTarget, UpPostgresWait,
                        RestartTarget, Canary, boxVars
                <5>3. CASE \/ UndoFiles \/ UndoUp \/ RollbackFiles \/ RollbackUp
                           \/ HonorRestartOp \/ RestartOpFails \/ SelfUpdate
                           \/ Crash \/ ComposeUp
                    BY <5>3 DEF UndoFiles, UndoUp, RollbackFiles, RollbackUp, HonorRestartOp,
                        RestartOpFails, SelfUpdate, Crash, ComposeUp, boxVars
                <5> QED
                    BY <3>3, <5>1, <5>2, <5>3 DEF Next, TickStep
            <4> QED
                BY <4>1, <4>2 DEF SchemaOneStepAhead
        <3>4. CASE UNCHANGED vars
            BY <3>4 DEF vars, boxVars, SchemaOneStepAhead
        <3> QED
            BY <3>1, <3>2, <3>3, <3>4
    <2> QED
        BY <2>1, <2>2, <2>3
<1>3. CInv => SchemaOneStepAhead
    OBVIOUS
<1> HIDE DEF CInv
<1> QED
    BY <1>1, <1>2, <1>3, PTL DEF Spec

(* The release a tick applies was not latched when it was chosen.          *)
Chosen ==
    Steady /\ ( \/ pc \in Swapping
                \/ pc = "save" /\ outcome \in {"verify_failed", "applied", "busy_retry", "rolled_back"} )
        => disk.attempts[target] < MaxFailures

(* A tick on a whole list works on the counts of the state file. *)
LEMMA CountsKept ==
    ASSUME Steady, IInv, RInv, pc \in Deciding
    PROVE  ToLibAttempts(st.attempts, canon) = disk.attempts
<1>1. canon = Versions
    BY DEF RInv, Listed
<1>2. st \in Persisted /\ st.attempts \in [Versions -> Nat]
    BY DEF IInv, TypeOK, PersistedHere, Persisted
<1>3. disk.attempts = st.attempts
    BY <1>2 DEF RInv, Synced, Persisted
<1> QED
    BY <1>1, <1>2, <1>3 DEF ToLibAttempts

(* Every step keeps the target one that is not latched.                    *)
LEMMA ChosenNext ==
    ASSUME IInv, RInv, Chosen, [Next]_vars
    PROVE  Chosen'
<1> DEFINE About == \/ pc \in Swapping
                    \/ /\ pc = "save"
                       /\ outcome \in {"verify_failed", "applied", "busy_retry", "rolled_back"}
<1> SUFFICES ASSUME Steady, About' PROVE disk'.attempts[target'] < MaxFailures
    BY DEF Chosen
<1> USE DEF Swapping, OnTrial, GoingBack, Goto, Conclude, Return, ResetTick, tickVars
<1>1. CASE UNCHANGED vars
    BY <1>1 DEF vars, Chosen
<1>2. CASE \E desired \in Desireds : Poll(desired)
    <2>1. PICK desired \in Desireds : Poll(desired)
        BY <1>2
    <2>2. /\ UNCHANGED disk /\ pc = "poll"
          /\ target' \in canon /\ ~IsPoisoned(ToLibAttempts(st.attempts, canon), target')
        BY <2>1, PollPicks DEF IsNext
    <2>3. ToLibAttempts(st.attempts, canon) = disk.attempts
        BY <2>2, CountsKept DEF Deciding
    <2>4. disk.attempts \in [Versions -> Nat] /\ canon \subseteq Versions
        BY DEF IInv, TypeOK, PersistedHere, Persisted
    <2> QED
        BY <2>2, <2>3, <2>4, MaxFailuresAssumption DEF IsPoisoned
<1>3. CASE Next /\ ~(\E desired \in Desireds : Poll(desired))
    <2>1. UNCHANGED target /\ About /\ ~SaveTick /\ ~HealSave
        <3>1. CASE \/ ListFails \/ \E feed \in Feeds : TickBegin(feed)
                   \/ HealFiles \/ HealApp \/ HealInfra \/ HealSave \/ ToLib \/ HeartbeatFails
            BY <3>1 DEF ListFails, TickBegin, HealFiles, HealApp, HealInfra, HealSave, ToLib,
                        HeartbeatFails
        <3>2. CASE VerifyFailed \/ VerifyDeferred \/ Verified \/ PullByDigest \/ JournalSwap
            BY <3>2 DEF VerifyFailed, VerifyDeferred, Verified, PullByDigest, JournalSwap, SaveTick,
                        HealSave
        <3>3. CASE LayDeployTree \/ PinTarget \/ UpPostgresWait \/ Migrate \/ RestartTarget
            BY <3>3 DEF LayDeployTree, PinTarget, UpPostgresWait, Migrate, RestartTarget, SaveTick,
                        HealSave
        <3>4. CASE \/ UndoFiles \/ UndoUp \/ RollbackFiles \/ RollbackUp
                   \/ \E window \in Windows : Canary(window)
            BY <3>4 DEF UndoFiles, UndoUp, RollbackFiles, RollbackUp, Canary, Rethrow, SaveTick,
                        HealSave
        <3>5. CASE SaveTick \/ HonorRestartOp \/ RestartOpFails \/ SelfUpdate
            BY <3>5 DEF SaveTick, HonorRestartOp, RestartOpFails, SelfUpdate, AfterOp, WasCompleted, Throw
        <3>6. CASE Crash
            BY <3>6 DEF Crash
        <3>7. CASE ComposeUp
            BY <3>7 DEF ComposeUp, SaveTick, HealSave
        <3> QED
            BY <1>3, <3>1, <3>2, <3>3, <3>4, <3>5, <3>6, <3>7 DEF Next, TickStep
    <2>2. disk'.attempts = disk.attempts
        BY <1>3, <2>1, OnlyWriters, JournalWrites DEF RInv
    <2> QED
        BY <2>1, <2>2 DEF Chosen
<1> QED
    BY <1>1, <1>2, <1>3

(* Chosen is kept from tick to tick, with what it rests on. *)
LEMMA Choices ==
    ASSUME "op" \notin Faults
    PROVE  Spec => [](IInv /\ RInv /\ Chosen)
<1>1. Init => Chosen
    BY DEF Init, Chosen, Swapping, OnTrial, GoingBack
<1>2. IInv /\ RInv /\ Chosen /\ [Next]_vars => Chosen'
    BY ChosenNext
<1>3. Spec => []RInv
    BY InStep
<1> QED
    BY <1>1, <1>2, <1>3, Invariance, PTL DEF Spec

(* What a save does to the counts, on a whole list. *)
LEMMA SaveCounts ==
    ASSUME Steady, IInv, RInv, Chosen, SaveTick
    PROVE  /\ disk.attempts \in [Versions -> Nat] /\ disk'.attempts \in [Versions -> Nat]
           /\ \A v \in Versions :
                 disk'.attempts[v] =
                    IF v # target THEN disk.attempts[v]
                    ELSE IF outcome \in {"verify_failed", "rolled_back"} THEN disk.attempts[v] + 1
                    ELSE IF outcome = "applied" THEN 0
                    ELSE disk.attempts[v]
           /\ outcome = "applied" => disk.attempts[target] < MaxFailures
<1>1. pc = "save" /\ disk.attempts \in [Versions -> Nat]
    BY DEF SaveTick, IInv, TypeOK, PersistedHere, Persisted
<1>2. ToLibAttempts(st.attempts, canon) = disk.attempts
    BY <1>1, CountsKept DEF Deciding
<1>3. disk'.attempts = CASE outcome \in {"verify_failed", "rolled_back"} -> BumpFailure(disk.attempts, target)
                         [] outcome = "applied" -> ClearFailure(disk.attempts, target)
                         [] OTHER -> disk.attempts
    BY <1>2, SaveWrites DEF NextAttempts, RInv
<1>4. /\ BumpFailure(disk.attempts, target)
             = [w \in Versions |-> IF w = target THEN disk.attempts[w] + 1 ELSE disk.attempts[w]]
      /\ ClearFailure(disk.attempts, target)
             = [w \in Versions |-> IF w = target THEN 0 ELSE disk.attempts[w]]
    BY <1>1 DEF BumpFailure, ClearFailure
<1>5. outcome = "applied" => disk.attempts[target] < MaxFailures
    BY <1>1 DEF Chosen
<1> HIDE DEF BumpFailure, ClearFailure
<1>6. CASE outcome \in {"verify_failed", "rolled_back"}
    <2>1. disk'.attempts = [w \in Versions |-> IF w = target THEN disk.attempts[w] + 1 ELSE disk.attempts[w]]
        BY <1>3, <1>4, <1>6
    <2> QED
        BY <1>1, <1>6, <2>1
<1>7. CASE outcome = "applied"
    <2>1. disk'.attempts = [w \in Versions |-> IF w = target THEN 0 ELSE disk.attempts[w]]
        BY <1>3, <1>4, <1>7
    <2> QED
        BY <1>1, <1>5, <1>7, <2>1
<1>8. CASE outcome \notin {"verify_failed", "rolled_back", "applied"}
    BY <1>1, <1>3, <1>8
<1> QED
    BY <1>6, <1>7, <1>8

(* What a heal does to them. *)
LEMMA HealCounts ==
    ASSUME IInv, Synced, HealSave
    PROVE  /\ disk.attempts \in [Versions -> Nat] /\ disk'.attempts \in [Versions -> Nat]
           /\ \A v \in Versions :
                 disk'.attempts[v] = IF v = disk.attempting THEN disk.attempts[v] + 1
                                                            ELSE disk.attempts[v]
<1>1. disk.attempts \in [Versions -> Nat]
    BY DEF IInv, TypeOK, PersistedHere, Persisted
<1>2. disk'.attempts
          = [w \in Versions |-> IF w = disk.attempting THEN disk.attempts[w] + 1 ELSE disk.attempts[w]]
    BY <1>1, HealWrites DEF BumpFailure
<1> QED
    BY <1>1, <1>2

(* Once a release is latched it stays latched: a tick that clears a count  *)
(* has applied a release that was not (decisions.ts, isPoisoned; host.ts:  *)
(* "only a runbook clears it").                                            *)
THEOREM LatchHolds ==
    ASSUME "op" \notin Faults, Steady
    PROVE  Spec => LatchIsSticky
<1>1. IInv /\ RInv /\ Chosen /\ [Next]_vars =>
        [\A v \in Versions :
            disk.attempts[v] >= MaxFailures => disk'.attempts[v] >= MaxFailures]_vars
    <2> SUFFICES ASSUME IInv, RInv, Chosen, Next, NEW v \in Versions,
                        disk.attempts[v] >= MaxFailures
                 PROVE  disk'.attempts[v] >= MaxFailures
        OBVIOUS
    <2>0. Synced /\ disk.attempts[v] \in Nat /\ MaxFailures \in Nat
        BY MaxFailuresAssumption DEF RInv, IInv, TypeOK, PersistedHere, Persisted
    <2>1. CASE UNCHANGED disk
        BY <2>1
    <2>2. CASE HealSave
        BY <2>0, <2>2, HealCounts
    <2>3. CASE JournalSwap
        BY <2>0, <2>3, JournalWrites
    <2>4. CASE SaveTick
        <3>1. outcome = "applied" => v # target
            BY <2>0, <2>4, SaveCounts
        <3>2. disk'.attempts[v] \in {disk.attempts[v], disk.attempts[v] + 1}
            BY <2>4, <3>1, SaveCounts
        <3> QED
            BY <2>0, <3>2
    <2> QED
        BY <2>0, <2>1, <2>2, <2>3, <2>4, OnlyWriters
<1>2. Spec => [](IInv /\ RInv /\ Chosen)
    BY Choices
<1> QED
    BY <1>1, <1>2, PTL DEF Spec, LatchIsSticky

(* Every swap begun is applied, put off by a busy canary or counted: as    *)
(* long as heals do not fail, killing the updater does not spare a release *)
(* its strike (runtime.ts, the resume block).                              *)
LEMMA StrikesNext ==
    ASSUME "heal" \notin Faults, Steady, IInv, RInv, Chosen, StrikesCounted, [Next]_vars
    PROVE  StrikesCounted'
<1>0. /\ Synced /\ strikes \in [Versions -> 0 .. MaxStrikes] /\ MaxStrikes \in Nat
      /\ disk.attempts \in [Versions -> Nat]
    BY MaxStrikesAssumption DEF RInv, IInv, TypeOK, PersistedHere, Persisted
<1>1. CASE UNCHANGED <<disk, strikes>>
    BY <1>1 DEF StrikesCounted
<1>2. CASE HealSave
    <2>1. disk'.attempting = NoVersion /\ UNCHANGED strikes
        BY <1>0, <1>2, HealWrites DEF HealSave
    <2> SUFFICES ASSUME NEW v \in Versions
                 PROVE  strikes'[v] <= disk'.attempts[v] + (IF disk'.attempting = v THEN 1 ELSE 0)
        BY DEF StrikesCounted
    <2>2. /\ strikes[v] <= disk.attempts[v] + (IF disk.attempting = v THEN 1 ELSE 0)
          /\ strikes[v] \in Nat /\ disk.attempts[v] \in Nat /\ v # NoVersion
        BY <1>0, VersionsAssumption DEF StrikesCounted, NoVersion
    <2>3. disk'.attempts[v] = IF v = disk.attempting THEN disk.attempts[v] + 1 ELSE disk.attempts[v]
        BY <1>0, <1>2, HealCounts
    <2> QED
        BY <2>1, <2>2, <2>3
<1>3. CASE JournalSwap
    <2>1. /\ pc = "journal" /\ disk'.attempting = target /\ disk'.attempts = disk.attempts
          /\ strikes' = [strikes EXCEPT ![target] = IF @ < MaxStrikes THEN @ + 1 ELSE @]
          /\ disk.attempting = NoVersion
        BY <1>0, <1>3, JournalWrites DEF JournalSwap, RInv, Unburdened
    <2> SUFFICES ASSUME NEW v \in Versions
                 PROVE  strikes'[v] <= disk.attempts[v] + (IF target = v THEN 1 ELSE 0)
        BY <2>1 DEF StrikesCounted
    <2>2. strikes[v] <= disk.attempts[v]
        BY <1>0, <2>1, VersionsAssumption DEF StrikesCounted, NoVersion
    <2>3. strikes'[v] <= strikes[v] + (IF target = v THEN 1 ELSE 0) /\ strikes'[v] \in Nat
        BY <1>0, <2>1
    <2>4. strikes[v] \in Nat /\ disk.attempts[v] \in Nat
        BY <1>0
    <2> QED
        BY <2>2, <2>3, <2>4
<1>4. CASE SaveTick
    <2>1. /\ disk'.attempting = IF JournaledThisTick THEN NoVersion ELSE disk.attempting
          /\ JournaledThisTick => disk.attempting = target
          /\ strikes' = CASE outcome = "applied" -> [strikes EXCEPT ![target] = 0]
                          [] outcome = "busy_retry" /\ strikes[target] > 0 ->
                                [strikes EXCEPT ![target] = @ - 1]
                          [] OTHER -> strikes
        BY <1>0, <1>4, SaveWrites DEF SaveTick
    <2> SUFFICES ASSUME NEW v \in Versions
                 PROVE  strikes'[v] <= disk'.attempts[v] + (IF disk'.attempting = v THEN 1 ELSE 0)
        BY DEF StrikesCounted
    <2>2. /\ strikes[v] <= disk.attempts[v] + (IF disk.attempting = v THEN 1 ELSE 0)
          /\ strikes[v] \in Nat /\ disk.attempts[v] \in Nat /\ v # NoVersion
        BY <1>0, VersionsAssumption DEF StrikesCounted, NoVersion
    <2>3. disk'.attempts[v] =
                IF v # target THEN disk.attempts[v]
                ELSE IF outcome \in {"verify_failed", "rolled_back"} THEN disk.attempts[v] + 1
                ELSE IF outcome = "applied" THEN 0
                ELSE disk.attempts[v]
        BY <1>4, SaveCounts
    <2>4. CASE outcome = "applied"
        <3>1. strikes'[v] = IF v = target THEN 0 ELSE strikes[v]
            BY <1>0, <2>1, <2>4
        <3> QED
            BY <2>1, <2>2, <2>3, <2>4, <3>1 DEF JournaledThisTick
    <2>5. CASE outcome = "busy_retry"
        <3>1. strikes'[v] = IF v = target /\ strikes[v] > 0 THEN strikes[v] - 1 ELSE strikes[v]
            BY <1>0, <2>1, <2>5
        <3> QED
            BY <2>1, <2>2, <2>3, <2>5, <3>1 DEF JournaledThisTick
    <2>6. CASE outcome \notin {"applied", "busy_retry"}
        <3>1. strikes'[v] = strikes[v]
            BY <2>1, <2>6
        <3> QED
            BY <2>1, <2>2, <2>3, <2>6, <3>1 DEF JournaledThisTick
    <2> QED
        BY <2>4, <2>5, <2>6
<1>5. CASE UNCHANGED vars
    BY <1>1, <1>5 DEF vars, history
<1>6. CASE Next /\ ~HealSave /\ ~JournalSwap /\ ~SaveTick
    <2>1. UNCHANGED disk
        BY <1>0, <1>6, OnlyWriters
    <2>2. UNCHANGED strikes
        <3>1. CASE \/ ListFails \/ \E feed \in Feeds : TickBegin(feed)
                   \/ HealFiles \/ HealApp \/ HealInfra \/ ToLib
                   \/ HeartbeatFails \/ \E desired \in Desireds : Poll(desired)
                   \/ VerifyFailed \/ VerifyDeferred \/ Verified \/ PullByDigest
            BY <3>1 DEF ListFails, TickBegin, HealFiles, HealApp, HealInfra, ToLib, HeartbeatFails,
                Poll, VerifyFailed, VerifyDeferred, Verified, PullByDigest, history
        <3>2. CASE LayDeployTree \/ PinTarget \/ UpPostgresWait \/ Migrate \/ RestartTarget
            BY <3>2 DEF LayDeployTree, PinTarget, UpPostgresWait, Migrate, RestartTarget, history
        <3>3. CASE \/ UndoFiles \/ UndoUp \/ RollbackFiles \/ RollbackUp
                   \/ HonorRestartOp \/ RestartOpFails \/ SelfUpdate
                   \/ \E window \in Windows : Canary(window)
            BY <3>3 DEF UndoFiles, UndoUp, RollbackFiles, RollbackUp, HonorRestartOp,
                RestartOpFails, SelfUpdate, Canary, history
        <3>4. CASE Crash \/ ComposeUp
            BY <3>4 DEF Crash, ComposeUp, history
        <3> QED
            BY <1>6, <3>1, <3>2, <3>3, <3>4 DEF Next, TickStep
    <2> QED
        BY <1>1, <2>1, <2>2
<1> QED
    BY <1>2, <1>3, <1>4, <1>5, <1>6

(* Every strike is on record: a swap that fails, throws or kills the updater *)
(* is counted once its journal is gone (runtime.ts, the resume block).     *)
THEOREM StrikesAreCounted ==
    ASSUME "op" \notin Faults, "heal" \notin Faults, Steady
    PROVE  Spec => []StrikesCounted
<1>1. Init => StrikesCounted
    <2> SUFFICES ASSUME Init, NEW v \in Versions
                 PROVE  strikes[v] <= disk.attempts[v] + (IF disk.attempting = v THEN 1 ELSE 0)
        BY DEF StrikesCounted
    <2>1. disk.attempts = [w \in Versions |-> 0]
        BY DEF Init, Bootstrap
    <2>2. strikes = [w \in Versions |-> 0]
        BY DEF Init
    <2>3. disk.attempts[v] = 0 /\ strikes[v] = 0
        BY <2>1, <2>2
    <2> QED
        BY <2>3
<1>2. IInv /\ RInv /\ Chosen /\ StrikesCounted /\ [Next]_vars => StrikesCounted'
    BY StrikesNext
<1>3. Spec => [](IInv /\ RInv /\ Chosen)
    BY Choices
<1> QED
    BY <1>1, <1>2, <1>3, PTL DEF Spec
=============================================================================

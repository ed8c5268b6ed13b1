-------------------------- MODULE UpdaterDecisions --------------------------
(***************************************************************************)
(* The pure rules of the updater: apps/updater/src/decisions.ts (what to   *)
(* do with a poll) and apps/updater/src/versions.ts (the intrinsic semver  *)
(* order and the conversion between persisted and library state).          *)
(*                                                                         *)
(* A version is a positive natural number, its place in semver order, and  *)
(* doubles as the digest of its image.  The code renumbers the canonical   *)
(* list 1, 2, 3, ... on every tick; that renumbering is an order           *)
(* isomorphism undone before the state is saved, so the rules are stated   *)
(* on versions directly and "current + 1" reads "the next canonical one".  *)
(***************************************************************************)
EXTENDS Naturals

CONSTANTS
    Versions,       \* the releases that can ever be published
    MaxFailures     \* DEFAULT_POLICY.maxFailuresBeforeLatch

ASSUME VersionsAssumption == Versions \subseteq Nat \ {0}
ASSUME MaxFailuresAssumption == MaxFailures \in Nat \ {0}

NoVersion == 0      \* an absent version field (undefined / null)

(* A release list as the booth serves it. *)
Feed == [listed : SUBSET Versions, yanked : SUBSET Versions]

(* What the updater persists (versions.ts, PersistedState).  The deferral  *)
(* counts and the operator-op marks never feed a decision of the swap:     *)
(* they belong to the telemetry and to the operator ops.                   *)
Persisted ==
    [current : Versions, floor : Versions, attempts : [Versions -> Nat],
     kept : SUBSET Versions, attempting : Versions \cup {NoVersion}]

(* main.ts, the bootstrapped state of a box installed at version v. *)
Bootstrap(v) ==
    [current |-> v, floor |-> v, attempts |-> [w \in Versions |-> 0],
     kept |-> {v}, attempting |-> NoVersion]

-----------------------------------------------------------------------------
(* versions.ts: the steppable releases, yanked ones removed except the one *)
(* the box runs.                                                           *)
CanonicalOrder(feed, current) ==
    {v \in feed.listed : v \notin feed.yanked \/ v = current}

(* Slip: the newest release instead of the next one. *)
IsNext_Newest(canon, v, w) == w \in canon /\ w > v /\ \A u \in canon : u <= w

(* w is the release one place after v in a canonical list. *)
IsNext(canon, v, w) ==
    /\ w \in canon
    /\ w > v
    /\ \A u \in canon : u > v => w <= u

(* A null, unknown or yanked desired version holds at the current one. *)
DesiredOrdinal(canon, desired, current) ==
    IF desired \in canon THEN desired ELSE current

(* Slip: the list is cut at the wrong end. *)
NewestTwo_Oldest(S) == {v \in S : \A a, b \in S : a < v /\ b < v => a = b}

(* A set of versions cut down to its newest two. *)
NewestTwo(S) == {v \in S : \A a, b \in S : a > v /\ b > v => a = b}

-----------------------------------------------------------------------------
(* decisions.ts: what one poll asks for, as the singleton set of the step  *)
(* to take (a set, so that no CHOOSE hides the next release).              *)
Hold == [action |-> "hold", to |-> NoVersion]
Refuse == [action |-> "refuse", to |-> NoVersion]
Apply(v) == [action |-> "apply", to |-> v]

DecideStep(canon, current, desired, floor, signedDowngrade) ==
    IF desired = current THEN {Hold}
    ELSE IF desired > current THEN {Apply(w) : w \in {v \in canon : IsNext(canon, current, v)}}
    ELSE IF signedDowngrade /\ desired >= floor THEN {Apply(desired)}
    ELSE {Refuse}

(* Slips: the latch engages one failure late, or early. *)
IsPoisoned_Late(attempts, v) == attempts[v] > MaxFailures
IsPoisoned_Early(attempts, v) == attempts[v] + 1 >= MaxFailures

IsPoisoned(attempts, v) == attempts[v] >= MaxFailures

BumpFailure(attempts, v) == [attempts EXCEPT ![v] = @ + 1]

ClearFailure(attempts, v) == [attempts EXCEPT ![v] = 0]

(* One /canary sample: collabOk is unjudged when an older box has no such  *)
(* field; busy is our own request timeout.                                 *)
CanarySample ==
    [writeOk : BOOLEAN, collabOk : {"ok", "failed", "unjudged"}, busy : BOOLEAN]

(* Only quiet samples condemn, and none at all is "busy". *)
CanaryVerdict(samples) ==
    LET quiet == {s \in samples : ~s.busy}
    IN  IF quiet = {} THEN "busy"
        ELSE IF \E s \in quiet : ~s.writeOk THEN "write_broken"
        ELSE IF \E s \in quiet : s.collabOk = "failed" THEN "collab_broken"
        ELSE "healthy"

(* The newest kept image whose schema expectation (its own release, see    *)
(* toLibState) the migrated schema covers; NoVersion when there is none.   *)
RollbackTarget(kept, migratedSchema) ==
    LET compatible == {k \in kept : k <= migratedSchema}
    IN  IF compatible = {} THEN NoVersion
        ELSE CHOOSE k \in compatible : \A j \in compatible : j <= k

-----------------------------------------------------------------------------
(* versions.ts: the library works on what the canonical list resolves;     *)
(* counts and kept images of any other version do not survive the tick.    *)
ToLibAttempts(attempts, canon) ==
    [v \in Versions |-> IF v \in canon THEN attempts[v] ELSE 0]

ToLibKept(kept, canon) == kept \cap canon

(* The tick's result back as persisted state: the floor only rises, the    *)
(* newest two images are kept, and the swap journal is dropped.            *)
FromLibState(prev, current, attempts, kept) ==
    [current |-> current,
     floor |-> IF prev.floor < current THEN current ELSE prev.floor,
     attempts |-> attempts,
     kept |-> NewestTwo(kept \cup {current}),
     attempting |-> NoVersion]
=============================================================================

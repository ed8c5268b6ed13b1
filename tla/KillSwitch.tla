----------------------------- MODULE KillSwitch -----------------------------
(***************************************************************************)
(* The kill switch of the box: the pure client (apps/box/src/              *)
(* kill-switch-client.ts), the gate that every request passes              *)
(* (kill-switch.ts), its state file (index.ts) and its poll by the collab  *)
(* server (collab/server.ts), against the control plane, which is external.*)
(*                                                                         *)
(* A check is two steps, the call and its answer, and requests keep coming *)
(* in between: the gate marks the check as done when it is begun, so they  *)
(* are answered from the decision at hand.  Two clocks matter: the elapsed *)
(* time `real`, which bounds a call and drives the timers, and the box's   *)
(* wall clock, which the code reads and which an NTP step may move.        *)
(***************************************************************************)
EXTENDS Integers, FiniteSets

CONSTANTS
    RefreshMs,      \* how long a decision is served from the cache
    TimeoutMs,      \* how long a call to the control plane may take
    PollMs,         \* the collab server's poll of the gate
    GraceMs,        \* the fail-open window
    LeaseTtl,       \* how long a lease is valid (external)
    Checks,         \* calls that may be outstanding
    Steps,          \* by how much the wall clock may be stepped
    Faults,         \* what may go wrong (see FaultKinds)
    MaxGeneration,  \* bound on the flips of the switch
    MaxTime         \* bound on elapsed time

FaultKinds == {"unreachable", "replay", "foreign", "persist", "crash"}

ASSUME PeriodsAssumption ==
    {RefreshMs, TimeoutMs, PollMs, GraceMs, LeaseTtl} \subseteq Nat \ {0}
ASSUME StepsAssumption == Steps \subseteq Int
ASSUME KillFaultsAssumption == Faults \subseteq FaultKinds
ASSUME BoundsAssumption == MaxGeneration \in Nat \ {0} /\ MaxTime \in Nat

VARIABLES
    real,       \* elapsed time
    skew,       \* the wall clock's lead over it
    booth,      \* the control plane: generation, and since when
    ks,         \* KillSwitchGate.state
    decision,   \* KillSwitchGate.decision
    lastCheck,  \* KillSwitchGate.lastCheck
    check,      \* the calls under way
    file,       \* the persisted state
    polled,     \* when the collab server last polled
    trouble,    \* history: the last boot, failed call or false answer
    signed,     \* history: when this box's last lease of each generation expires
    offGen      \* history: the newest generation at which it accepted an off

vars == <<real, skew, booth, ks, decision, lastCheck, check, file, polled, trouble, signed, offGen>>

-----------------------------------------------------------------------------
Boxes == {"this", "another"}
NoBox == "nobody"

(* The switch is flipped once per generation (the client's header), so the *)
(* generation gives its position: on to start with, then off, then on.     *)
Live(generation) == generation % 2 = 1

Lease == [box : Boxes, generation : 1 .. MaxGeneration, expires : Nat]

KillClientState ==
    [stickyOff : BOOLEAN, generation : 0 .. MaxGeneration, graceDeadline : Nat,
     maxWallSeen : Nat, pinnedBoxId : Boxes \cup {NoBox}]

(* graceDeadline 0 is null: neither is ever ahead of the clock. *)
InitialKillState ==
    [stickyOff |-> FALSE, generation |-> 0, graceDeadline |-> 0, maxWallSeen |-> 0,
     pinnedBoxId |-> NoBox]

-----------------------------------------------------------------------------
(* Slip: the clock guard follows the wall clock back. *)
Seen_Raw(state, now) == [state EXCEPT !.maxWallSeen = now]

(* kill-switch-client.ts.  Advance the monotonic clock guard. *)
Seen(state, now) ==
    [state EXCEPT !.maxWallSeen = IF now > @ THEN now ELSE @]

(* No fresh live lease: sticky-off blocks, else fail open within the grace *)
(* window, measured on the guarded clock.                                  *)
GraceDecision(base) ==
    IF ~base.stickyOff /\ base.maxWallSeen < base.graceDeadline THEN "allow" ELSE "block"

(* Slips: no replay floor; a lease of the generation last seen is refused. *)
Bound_AnyAge(base, lease) == base.pinnedBoxId \in {NoBox, lease.box}
Bound_Newer(base, lease) ==
    base.pinnedBoxId \in {NoBox, lease.box} /\ lease.generation > base.generation

(* The lease is for this box, or for whichever box comes first, and is not *)
(* older than what was seen.                                               *)
Bound(base, lease) ==
    /\ base.pinnedBoxId \in {NoBox, lease.box}
    /\ lease.generation >= base.generation

(* Slip: the off is latched without its generation. *)
Latched_Unnumbered(base, lease) ==
    [base EXCEPT !.stickyOff = TRUE, !.pinnedBoxId = lease.box]

Latched(base, lease) ==
    [base EXCEPT !.stickyOff = TRUE, !.generation = lease.generation, !.pinnedBoxId = lease.box]

Renewed(base, lease) ==
    [base EXCEPT !.stickyOff = FALSE, !.generation = lease.generation,
                 !.graceDeadline = base.maxWallSeen + GraceMs, !.pinnedBoxId = lease.box]

(* Slip: a live lease counts for ever. *)
ApplyLease_Undated(state, lease, now) ==
    LET base == Seen(state, now)
    IN  CASE Bound(base, lease) /\ ~Live(lease.generation) ->
                [state |-> Latched(base, lease), decision |-> "block"]
          [] Bound(base, lease) /\ Live(lease.generation) ->
                [state |-> Renewed(base, lease), decision |-> "allow"]
          [] OTHER -> [state |-> base, decision |-> GraceDecision(base)]

(* Slip: a box that is told it is off runs out its grace window. *)
ApplyLease_Lenient(state, lease, now) ==
    LET base == Seen(state, now)
    IN  IF Bound(base, lease) /\ Live(lease.generation) /\ lease.expires > base.maxWallSeen
        THEN [state |-> Renewed(base, lease), decision |-> "allow"]
        ELSE [state |-> base, decision |-> GraceDecision(base)]

(* An off counts even when expired; a live lease only while it is valid. *)
ApplyLease(state, lease, now) ==
    LET base == Seen(state, now)
    IN  CASE Bound(base, lease) /\ ~Live(lease.generation) ->
                [state |-> Latched(base, lease), decision |-> "block"]
          [] Bound(base, lease) /\ Live(lease.generation) /\ lease.expires > base.maxWallSeen ->
                [state |-> Renewed(base, lease), decision |-> "allow"]
          [] OTHER -> [state |-> base, decision |-> GraceDecision(base)]

(* The booth cannot be reached, or the box boots. *)
ApplyUnreachable(state, now) ==
    [state |-> Seen(state, now), decision |-> GraceDecision(Seen(state, now))]

-----------------------------------------------------------------------------
Wall == real + skew

(* refresh(): the decision at hand is fresh enough. *)
Due == Wall - lastCheck >= RefreshMs

NeverChecked == 0 - RefreshMs

Idle == [phase |-> "idle"]
Asked_OnWall == [phase |-> "asked", started |-> Wall]    \* slip: the timeout on the wall clock
Asked == [phase |-> "asked", started |-> real]
Answered(c, lease) == [phase |-> "answered", started |-> check[c].started, lease |-> lease]

Calls ==
    {Idle} \cup [phase : {"asked"}, started : 0 .. MaxTime]
           \cup [phase : {"answered"}, started : 0 .. MaxTime, lease : Lease]

UnderWay(c) == check[c].phase # "idle"

Init ==
    /\ real = 0
    /\ skew = 0
    /\ booth = [generation |-> 1, since |-> 0]
    /\ ks = InitialKillState
    /\ decision = "block"
    /\ lastCheck = NeverChecked
    /\ check = [c \in Checks |-> Idle]
    /\ file = InitialKillState
    /\ polled = 0
    /\ trouble = 0
    /\ signed = [g \in 1 .. MaxGeneration |-> 0]
    /\ offGen = 0

(* The gate takes an evaluation and persists its state, best effort. *)
Take(evaluation) ==
    /\ ks' = evaluation.state
    /\ decision' = evaluation.decision
    /\ file' \in {evaluation.state} \cup (IF "persist" \in Faults THEN {file} ELSE {})

-----------------------------------------------------------------------------
(* External: an operator flips the switch. *)
BoothFlip ==
    /\ booth.generation < MaxGeneration
    /\ booth' = [generation |-> booth.generation + 1, since |-> real]
    /\ UNCHANGED <<real, skew, ks, decision, lastCheck, check, file, polled, trouble, signed, offGen>>

(* External: the control plane signs a lease for the box; the last one of  *)
(* an earlier generation may come again (those before it expire sooner),   *)
(* and one signed for another box may come here.                           *)
Replays ==
    {[box |-> "this", generation |-> g, expires |-> signed[g]] :
        g \in {h \in 1 .. booth.generation : signed[h] > 0}}

Misdelivered ==
    {[box |-> "another", generation |-> g, expires |-> real + LeaseTtl] : g \in 1 .. MaxGeneration}

BoothAnswers(c) ==
    /\ check[c].phase = "asked"
    /\ \/ /\ check' = [check EXCEPT ![c] =
                          Answered(c, [box |-> "this", generation |-> booth.generation,
                                       expires |-> real + LeaseTtl])]
          /\ signed' = [signed EXCEPT ![booth.generation] = real + LeaseTtl]
          /\ UNCHANGED trouble
       \/ /\ \E lease \in (IF "replay" \in Faults THEN Replays ELSE {})
                          \cup (IF "foreign" \in Faults THEN Misdelivered ELSE {}) :
                check' = [check EXCEPT ![c] = Answered(c, lease)]
          /\ trouble' = real
          /\ UNCHANGED signed
    /\ UNCHANGED <<real, skew, booth, ks, decision, lastCheck, file, polled, offGen>>

(* A request or a poll finds the decision stale: a call is begun, and the  *)
(* check is marked as done before it is.                                   *)
BeginCheck(c) ==
    /\ Due
    /\ ~UnderWay(c)
    /\ lastCheck' = Wall
    /\ check' = [check EXCEPT ![c] = Asked]
    /\ polled' \in {polled, real}
    /\ UNCHANGED <<real, skew, booth, ks, decision, file, trouble, signed, offGen>>

(* A poll that finds it fresh is answered from the cache, like a request. *)
PollCached ==
    /\ ~Due
    /\ polled' = real
    /\ UNCHANGED <<real, skew, booth, ks, decision, lastCheck, check, file, trouble, signed, offGen>>

LeaseArrives(c) ==
    /\ check[c].phase = "answered"
    /\ Take(ApplyLease(ks, check[c].lease, Wall))
    /\ check' = [check EXCEPT ![c] = Idle]
    /\ offGen' = IF ks'.stickyOff /\ ks'.generation > offGen THEN ks'.generation ELSE offGen
    /\ UNCHANGED <<real, skew, booth, lastCheck, polled, trouble, signed>>

(* boothValidate gives up: refused, or aborted at its timeout. *)
CheckFails(c) ==
    /\ UnderWay(c)
    /\ "unreachable" \in Faults
    /\ Take(ApplyUnreachable(ks, Wall))
    /\ check' = [check EXCEPT ![c] = Idle]
    /\ trouble' = real
    /\ UNCHANGED <<real, skew, booth, lastCheck, polled, signed, offGen>>

(* Timers are on time: no call outlives its timeout, no poll is skipped. *)
Elapse ==
    /\ real < MaxTime
    /\ \A c \in Checks : UnderWay(c) => real < check[c].started + TimeoutMs
    /\ real < polled + PollMs
    /\ real' = real + 1
    /\ UNCHANGED <<skew, booth, ks, decision, lastCheck, check, file, polled, trouble, signed, offGen>>

ClockStep(d) ==
    /\ Wall + d >= 0
    /\ skew = 0
    /\ skew' = d
    /\ UNCHANGED <<real, booth, ks, decision, lastCheck, check, file, polled, trouble, signed, offGen>>

(* The process dies and boots from the state file. *)
Reboot ==
    /\ "crash" \in Faults
    /\ Take(ApplyUnreachable(file, Wall))
    /\ lastCheck' = NeverChecked
    /\ check' = [c \in Checks |-> Idle]
    /\ polled' = real
    /\ trouble' = real
    /\ UNCHANGED <<real, skew, booth, signed, offGen>>

Next ==
    \/ BoothFlip \/ PollCached \/ Elapse \/ Reboot
    \/ \E d \in Steps : ClockStep(d)
    \/ \E c \in Checks :
          BoothAnswers(c) \/ BeginCheck(c) \/ LeaseArrives(c) \/ CheckFails(c)

Spec == Init /\ [][Next]_vars

-----------------------------------------------------------------------------
TypeOK ==
    /\ real \in 0 .. MaxTime
    /\ skew \in Steps \cup {0}
    /\ booth \in [generation : 1 .. MaxGeneration, since : 0 .. MaxTime]
    /\ ks \in KillClientState
    /\ file \in KillClientState
    /\ decision \in {"allow", "block"}
    /\ lastCheck \in Int
    /\ check \in [Checks -> Calls]
    /\ polled \in 0 .. MaxTime
    /\ trouble \in 0 .. MaxTime
    /\ signed \in [1 .. MaxGeneration -> Nat]
    /\ offGen \in 0 .. MaxGeneration

(* An off, once accepted, is lifted only by a live signal of a strictly    *)
(* newer generation, whatever is delayed, replayed, misdelivered or        *)
(* rebooted (kill-switch-client.ts, header).                               *)
OffLatches == decision = "allow" => ks.generation > offGen

(* The replay floor and the pinned identity survive every answer and every *)
(* reboot, and so does the guarded clock.                                  *)
NothingForgotten ==
    [][/\ ks'.generation >= ks.generation
       /\ ks'.maxWallSeen >= ks.maxWallSeen
       /\ ks.pinnedBoxId # NoBox => ks'.pinnedBoxId = ks.pinnedBoxId]_vars

(* The inductive form of the two: the latch says which way the switch stood*)
(* at the generation last accepted, the state file holds what the gate     *)
(* holds, and "allow" is only ever said on the strength of a live lease.   *)
Tidy ==
    /\ ks.stickyOff <=> ks.generation > 0 /\ ~Live(ks.generation)
    /\ ks.generation = 0 => ks.graceDeadline = 0

Floored ==
    /\ offGen <= ks.generation
    /\ offGen = 0 \/ ~Live(offGen)
    /\ ks.stickyOff => offGen = ks.generation

KInv ==
    /\ TypeOK
    /\ Wall >= 0
    /\ file = ks
    /\ Tidy
    /\ Floored
    /\ decision = "allow" => ks.generation > 0 /\ ~ks.stickyOff

(* A request now would be answered from the cache with "allow". *)
Serving == decision = "allow" /\ ~Due

(* How old the decision at hand may be: the cache, the poll that finds it  *)
(* stale and the call that replaces it.                                    *)
Staleness == RefreshMs + PollMs + TimeoutMs

(* The switch has stood as it does, and the box has been up and answered   *)
(* by the control plane itself, for longer than that.                      *)
Undisturbed == \A t \in {booth.since, trouble} : real > t + Staleness

(* A box that can reach the control plane stops serving soon after it is   *)
(* switched off ...                                                        *)
OffHonoured == Undisturbed /\ ~Live(booth.generation) => ~Serving

(* ... and serves again soon after it is switched on, or booted.           *)
LiveHonoured == Undisturbed /\ Live(booth.generation) => decision = "allow"

(* The dead man's switch: cut off from the control plane since the switch  *)
(* was thrown, the box serves no longer than its last lease and the grace  *)
(* window allow, in elapsed time.                                          *)
DeadMan ==
    ~Live(booth.generation) /\ Serving => real <= booth.since + LeaseTtl + GraceMs + Staleness
=============================================================================

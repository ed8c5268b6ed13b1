-------------------------- MODULE KillSwitchTimes --------------------------
(***************************************************************************)
(* The three bounds in time that the kill switch promises, proved for      *)
(* every period, generation and number of outstanding calls: the dead      *)
(* man's switch, and that a flip of the switch is honoured by a box that   *)
(* can reach the control plane.  Failing saves, reboots, refused and       *)
(* replayed answers are all allowed; each theorem names what it excludes.  *)
(*                                                                         *)
(* The argument is the same three times.  A decision at hand is no older   *)
(* than the cache's period, or a call is under way that was begun in time; *)
(* polls are a period apart, so the next call is begun in time as well;    *)
(* and no call outlives its timeout.                                       *)
(***************************************************************************)
EXTENDS KillSwitchProofs

Started(c) == check[c].started

(* A call that was answered becomes nothing else.                          *)
LEMMA CallAnswered ==
    ASSUME TypeOK, NEW c \in Checks, NEW lease \in Lease, check[c].phase = "asked",
           check' = [check EXCEPT ![c] = Answered(c, lease)]
    PROVE  /\ \A d \in Checks : d # c => check'[d] = check[d]
           /\ \A d \in Checks : UnderWay(d)' <=> UnderWay(d)
           /\ \A d \in Checks : Started(d)' = Started(d)
           /\ check'[c].phase = "answered"
           /\ check'[c].lease = lease
<1>1. check \in [Checks -> Calls]
  BY DEF TypeOK
<1>2. \A d \in Checks : check'[d] = IF d = c THEN Answered(c, lease) ELSE check[d]
  BY <1>1
<1>3. /\ Answered(c, lease).phase = "answered"
      /\ Answered(c, lease).started = check[c].started
      /\ Answered(c, lease).lease = lease
  BY DEF Answered
<1> HIDE DEF Answered
<1> QED  BY <1>2, <1>3 DEF UnderWay, Started

(* A call that ends leaves the others under way.                           *)
LEMMA CallEnds ==
    ASSUME TypeOK, NEW c \in Checks, check' = [check EXCEPT ![c] = Idle]
    PROVE  /\ \A d \in Checks : d # c => check'[d] = check[d]
           /\ check'[c].phase = "idle"
           /\ \A d \in Checks : UnderWay(d)' <=> d # c /\ UnderWay(d)
<1>1. check \in [Checks -> Calls]
  BY DEF TypeOK
<1>2. \A d \in Checks : check'[d] = IF d = c THEN Idle ELSE check[d]
  BY <1>1
<1> QED  BY <1>2 DEF UnderWay, Idle

(* A call that is begun is begun now.                                      *)
LEMMA CallBegins ==
    ASSUME TypeOK, NEW c \in Checks, BeginCheck(c)
    PROVE  /\ \A d \in Checks : d # c => check'[d] = check[d]
           /\ check'[c].phase = "asked"
           /\ Started(c)' = real
           /\ ~UnderWay(c)
           /\ lastCheck' = Wall
           /\ polled' \in {polled, real}
           /\ UNCHANGED <<real, skew, booth, ks, decision, file, trouble, signed>>
<1>1. check \in [Checks -> Calls]
  BY DEF TypeOK
<1>2. \A d \in Checks : check'[d] = IF d = c THEN Asked ELSE check[d]
  BY <1>1 DEF BeginCheck
<1> QED  BY <1>2 DEF BeginCheck, Asked, Started

(* A call under way was begun at some time, and brings a lease if any.     *)
LEMMA CallsTyped ==
    ASSUME TypeOK, NEW c \in Checks, UnderWay(c)
    PROVE  /\ Started(c) \in Nat
           /\ check[c].phase = "answered" => check[c].lease \in Lease
<1>1. check[c] \in Calls /\ check[c].phase # "idle"
  BY DEF TypeOK, UnderWay
<1>2. check[c].started \in 0 .. MaxTime
  BY <1>1 DEF Calls, Idle
<1> QED  BY <1>2, AnswersAreCalls, BoundsAssumption DEF Started

(* What is evaluated without a lease, on a guarded clock that is not ahead *)
(* of the wall clock: only the clock moves, up to the wall clock.          *)
LEMMA UnreachableDoes ==
    ASSUME Wall \in Nat, NEW state \in KillClientState, state.maxWallSeen <= Wall,
           Take(ApplyUnreachable(state, Wall))
    PROVE  /\ ks'.maxWallSeen = Wall
           /\ ks'.stickyOff = state.stickyOff
           /\ ks'.generation = state.generation
           /\ ks'.graceDeadline = state.graceDeadline
           /\ ks'.pinnedBoxId = state.pinnedBoxId
           /\ decision' = "allow" => ~ks'.stickyOff /\ Wall < ks'.graceDeadline
           /\ file' \in {ks', file}
<1> DEFINE base == Seen(state, Wall)
<1>1. /\ ks' = base /\ decision' = GraceDecision(base) /\ file' \in {ks', file}
  BY DEF Take, ApplyUnreachable
<1>2. /\ base.maxWallSeen = Wall
      /\ base.stickyOff = state.stickyOff
      /\ base.generation = state.generation
      /\ base.graceDeadline = state.graceDeadline
      /\ base.pinnedBoxId = state.pinnedBoxId
  BY DEF Seen, KillClientState
<1> HIDE DEF base
<1>3. decision' = "allow" => ~base.stickyOff /\ base.maxWallSeen < base.graceDeadline
  BY <1>1 DEF GraceDecision
<1> QED  BY <1>1, <1>2, <1>3

(* What is evaluated with one: it latches or renews when it is accepted,   *)
(* and else the clock alone moves.                                         *)
LEMMA LeaseDoes ==
    ASSUME Wall \in Nat, ks \in KillClientState, ks.maxWallSeen <= Wall,
           NEW lease \in Lease, Take(ApplyLease(ks, lease, Wall))
    PROVE  /\ ks'.maxWallSeen = Wall
           /\ file' \in {ks', file}
           /\ decision' = "allow" => ~ks'.stickyOff /\ Wall < ks'.graceDeadline
           /\ \/ /\ Bound(ks, lease) /\ ~Live(lease.generation)
                 /\ ks'.stickyOff = TRUE /\ ks'.generation = lease.generation
                 /\ ks'.pinnedBoxId = lease.box /\ ks'.graceDeadline = ks.graceDeadline
              \/ /\ Bound(ks, lease) /\ Live(lease.generation) /\ lease.expires > Wall
                 /\ decision' = "allow" /\ ks'.generation = lease.generation
                 /\ ks'.pinnedBoxId = lease.box /\ ks'.graceDeadline = Wall + GraceMs
              \/ /\ ~Bound(ks, lease) \/ (Live(lease.generation) /\ lease.expires <= Wall)
                 /\ ks'.stickyOff = ks.stickyOff /\ ks'.generation = ks.generation
                 /\ ks'.pinnedBoxId = ks.pinnedBoxId /\ ks'.graceDeadline = ks.graceDeadline
<1> DEFINE base == Seen(ks, Wall)
<1>1. /\ base.maxWallSeen = Wall
      /\ base.stickyOff = ks.stickyOff
      /\ base.generation = ks.generation
      /\ base.graceDeadline = ks.graceDeadline
      /\ base.pinnedBoxId = ks.pinnedBoxId
      /\ base \in KillClientState
  BY SeenGuards DEF Seen, KillClientState
<1>2. Bound(base, lease) <=> Bound(ks, lease)
  BY <1>1 DEF Bound
<1>3. \/ /\ Bound(base, lease) /\ ~Live(lease.generation)
         /\ ApplyLease(ks, lease, Wall) = [state |-> Latched(base, lease), decision |-> "block"]
      \/ /\ Bound(base, lease) /\ Live(lease.generation) /\ lease.expires > base.maxWallSeen
         /\ ApplyLease(ks, lease, Wall) = [state |-> Renewed(base, lease), decision |-> "allow"]
      \/ /\ ~Bound(base, lease) \/ (Live(lease.generation) /\ ~(lease.expires > base.maxWallSeen))
         /\ ApplyLease(ks, lease, Wall) = ApplyUnreachable(ks, Wall)
  BY DEF ApplyLease, ApplyUnreachable
<1> HIDE DEF base
<1>4. /\ Latched(base, lease) = [stickyOff |-> TRUE, generation |-> lease.generation,
                                 graceDeadline |-> base.graceDeadline,
                                 maxWallSeen |-> base.maxWallSeen, pinnedBoxId |-> lease.box]
      /\ Renewed(base, lease) = [stickyOff |-> FALSE, generation |-> lease.generation,
                                 graceDeadline |-> base.maxWallSeen + GraceMs,
                                 maxWallSeen |-> base.maxWallSeen, pinnedBoxId |-> lease.box]
  BY <1>1, AcceptedStates
<1>5. lease.expires \in Nat /\ GraceMs \in Nat \ {0}
  BY PeriodsAssumption DEF Lease
<1>6. CASE /\ Bound(base, lease) /\ ~Live(lease.generation)
           /\ ApplyLease(ks, lease, Wall) = [state |-> Latched(base, lease), decision |-> "block"]
  <2>1. ks' = Latched(base, lease) /\ decision' = "block" /\ file' \in {ks', file}
    BY <1>6 DEF Take
  <2>2. /\ ks'.stickyOff = TRUE /\ ks'.generation = lease.generation
        /\ ks'.pinnedBoxId = lease.box /\ ks'.graceDeadline = base.graceDeadline
        /\ ks'.maxWallSeen = base.maxWallSeen
    BY ONLY <1>4, <2>1
  <2> QED  BY ONLY <1>1, <1>2, <1>6, <2>1, <2>2
<1>7. CASE /\ Bound(base, lease) /\ Live(lease.generation) /\ lease.expires > base.maxWallSeen
           /\ ApplyLease(ks, lease, Wall) = [state |-> Renewed(base, lease), decision |-> "allow"]
  <2>1. ks' = Renewed(base, lease) /\ decision' = "allow" /\ file' \in {ks', file}
    BY <1>7 DEF Take
  <2>2. /\ ks'.stickyOff = FALSE /\ ks'.generation = lease.generation
        /\ ks'.pinnedBoxId = lease.box /\ ks'.graceDeadline = base.maxWallSeen + GraceMs
        /\ ks'.maxWallSeen = base.maxWallSeen
    BY ONLY <1>4, <2>1
  <2>3. Wall < Wall + GraceMs
    BY <1>5
  <2> QED  BY ONLY <1>1, <1>2, <1>7, <2>1, <2>2, <2>3
<1>8. CASE /\ ~Bound(base, lease) \/ (Live(lease.generation) /\ ~(lease.expires > base.maxWallSeen))
           /\ ApplyLease(ks, lease, Wall) = ApplyUnreachable(ks, Wall)
  <2>1. Take(ApplyUnreachable(ks, Wall))
    BY <1>8
  <2> QED  BY <1>1, <1>2, <1>5, <1>8, <2>1, UnreachableDoes
<1> QED  BY <1>3, <1>6, <1>7, <1>8

-----------------------------------------------------------------------------
(* Timers are on time, whatever goes wrong. *)
Timely ==
    /\ \A c \in Checks : UnderWay(c) => Started(c) <= real /\ real <= Started(c) + TimeoutMs
    /\ booth.since <= real /\ trouble <= real
    /\ polled <= real /\ real <= polled + PollMs

(* The numbers that the proofs compute with. *)
LEMMA TimesTyped ==
    ASSUME TypeOK, Wall >= 0
    PROVE  /\ real \in Nat /\ skew \in Int /\ Wall \in Nat /\ Wall = real + skew
           /\ booth.since \in Nat /\ booth.generation \in 1 .. MaxGeneration
           /\ trouble \in Nat /\ polled \in Nat /\ lastCheck \in Int
           /\ ks \in KillClientState /\ file \in KillClientState
           /\ ks.maxWallSeen \in Nat /\ ks.graceDeadline \in Nat /\ ks.generation \in Nat
           /\ file.maxWallSeen \in Nat /\ file.graceDeadline \in Nat /\ file.generation \in Nat
           /\ \A g \in 1 .. MaxGeneration : signed[g] \in Nat
           /\ {RefreshMs, TimeoutMs, PollMs, GraceMs, LeaseTtl} \subseteq Nat \ {0}
<1> USE PeriodsAssumption, StepsAssumption, BoundsAssumption
<1>1. /\ real \in Nat /\ skew \in Int /\ Wall \in Nat /\ Wall = real + skew
      /\ booth.since \in Nat /\ booth.generation \in 1 .. MaxGeneration
      /\ trouble \in Nat /\ polled \in Nat /\ lastCheck \in Int
  BY DEF TypeOK, Wall
<1>2. ks \in KillClientState /\ file \in KillClientState
  BY DEF TypeOK
<1>3. \A g \in 1 .. MaxGeneration : signed[g] \in Nat
  BY DEF TypeOK
<1> QED  BY <1>1, <1>2, <1>3 DEF KillClientState

(* No call or poll is overdue at the start.                                *)
LEMMA InitTimely == Init => Timely
<1> SUFFICES ASSUME Init PROVE Timely
  OBVIOUS
<1> QED  BY PeriodsAssumption DEF Init, Timely, UnderWay, Idle

(* Calls end by their timeout, and polls come a period apart.              *)
LEMMA NextTimely ==
    ASSUME TypeOK, Wall >= 0, Timely, [Next]_vars
    PROVE  Timely'
<1>0. /\ real \in Nat /\ booth.since \in Nat /\ trouble \in Nat /\ polled \in Nat
      /\ PollMs \in Nat \ {0} /\ TimeoutMs \in Nat \ {0}
      /\ \A c \in Checks : UnderWay(c) => Started(c) \in Nat
  BY TimesTyped, CallsTyped
<1>1. CASE BoothFlip \/ PollCached \/ UNCHANGED vars \/ \E d \in Steps : ClockStep(d)
  <2>1. /\ UNCHANGED <<real, check, trouble>>
        /\ booth'.since \in {booth.since, real} /\ polled' \in {polled, real}
    BY <1>1 DEF BoothFlip, PollCached, vars, ClockStep
  <2> QED  BY <1>0, <2>1 DEF Timely, UnderWay, Started
<1>2. CASE Elapse
  <2>1. /\ real' = real + 1 /\ UNCHANGED <<check, booth, trouble, polled>>
        /\ \A c \in Checks : UnderWay(c) => real < Started(c) + TimeoutMs
        /\ real < polled + PollMs
    BY <1>2 DEF Elapse, Started
  <2> QED  BY <1>0, <2>1 DEF Timely, UnderWay, Started
<1>3. CASE Reboot
  <2>1. /\ UNCHANGED <<real, booth>> /\ polled' = real /\ trouble' = real
        /\ \A c \in Checks : ~UnderWay(c)'
    BY <1>3 DEF Reboot, UnderWay, Idle
  <2> QED  BY <1>0, <2>1 DEF Timely
<1>4. ASSUME NEW c \in Checks, BoothAnswers(c)
      PROVE  Timely'
  <2>1. PICK lease \in Lease : check' = [check EXCEPT ![c] = Answered(c, lease)]
    BY <1>4, LeasesSigned DEF BoothAnswers
  <2>2. /\ \A d \in Checks : (UnderWay(d)' <=> UnderWay(d)) /\ Started(d)' = Started(d)
        /\ UNCHANGED <<real, booth, polled>> /\ trouble' \in {trouble, real}
    BY <1>4, <2>1, CallAnswered DEF BoothAnswers
  <2> QED  BY <1>0, <2>2 DEF Timely
<1>5. ASSUME NEW c \in Checks, BeginCheck(c)
      PROVE  Timely'
  <2>1. /\ real' = real /\ booth' = booth /\ trouble' = trouble
        /\ polled' \in {polled, real}
        /\ Started(c)' = real
        /\ \A d \in Checks : d # c => check'[d] = check[d]
    BY <1>5, CallBegins
  <2>2. ASSUME NEW d \in Checks, UnderWay(d)'
        PROVE  Started(d)' <= real' /\ real' <= Started(d)' + TimeoutMs
    <3>1. CASE d = c
      BY <1>0, <2>1, <3>1
    <3>2. CASE d # c
      BY <1>0, <2>1, <2>2, <3>2 DEF Timely, UnderWay, Started
    <3> QED  BY <3>1, <3>2
  <2>3. /\ booth'.since <= real' /\ trouble' <= real'
        /\ polled' <= real' /\ real' <= polled' + PollMs
    <3>1. CASE polled' = polled
      BY <2>1, <3>1 DEF Timely
    <3>2. CASE polled' = real
      BY <1>0, <2>1, <3>2 DEF Timely
    <3> QED  BY <2>1, <3>1, <3>2
  <2> QED  BY <2>2, <2>3 DEF Timely
<1>6. ASSUME NEW c \in Checks, LeaseArrives(c) \/ CheckFails(c)
      PROVE  Timely'
  <2>1. check' = [check EXCEPT ![c] = Idle]
    BY <1>6 DEF LeaseArrives, CheckFails
  <2>2. \A d \in Checks : UnderWay(d)' => UnderWay(d) /\ Started(d)' = Started(d)
    BY <2>1, CallEnds DEF Started
  <2>3. UNCHANGED <<real, booth, polled>> /\ trouble' \in {trouble, real}
    BY <1>6 DEF LeaseArrives, CheckFails
  <2> QED  BY <1>0, <2>2, <2>3 DEF Timely
<1> QED  BY <1>1, <1>2, <1>3, <1>4, <1>5, <1>6 DEF Next

-----------------------------------------------------------------------------
(* The wall clock has not been stepped back: nothing that was read off it  *)
(* is ahead of it, and the guarded clock stands at the last evaluation.    *)
Forward ==
    /\ skew \in Nat
    /\ ks.maxWallSeen <= Wall /\ file.maxWallSeen <= Wall
    /\ lastCheck <= Wall

(* What an evaluation does, for the three steps that evaluate. *)
LEMMA Evaluations ==
    ASSUME TypeOK, Wall >= 0, Forward
    PROVE  /\ Reboot \/ (\E c \in Checks : LeaseArrives(c) \/ CheckFails(c)) =>
                 ks'.maxWallSeen = Wall /\ file' \in {ks', file}
           /\ Reboot \/ (\E c \in Checks : CheckFails(c)) =>
                 \E st \in {ks, file} :
                    /\ ks'.stickyOff = st.stickyOff /\ ks'.generation = st.generation
                    /\ ks'.graceDeadline = st.graceDeadline /\ ks'.pinnedBoxId = st.pinnedBoxId
                    /\ decision' = "allow" => ~ks'.stickyOff /\ Wall < ks'.graceDeadline
           /\ \A c \in Checks : LeaseArrives(c) => check[c].lease \in Lease
<1>1. Wall \in Nat /\ ks \in KillClientState /\ file \in KillClientState
  BY TimesTyped
<1>2. ks.maxWallSeen <= Wall /\ file.maxWallSeen <= Wall
  BY DEF Forward
<1>3. ASSUME NEW c \in Checks, LeaseArrives(c)
      PROVE  /\ check[c].lease \in Lease
             /\ ks'.maxWallSeen = Wall /\ file' \in {ks', file}
  <2>1. UnderWay(c) /\ check[c].phase = "answered" /\ Take(ApplyLease(ks, check[c].lease, Wall))
    BY <1>3 DEF LeaseArrives, UnderWay
  <2>2. check[c].lease \in Lease
    BY <2>1, CallsTyped
  <2> QED  BY <1>1, <1>2, <2>1, <2>2, LeaseDoes
<1>4. ASSUME NEW c \in Checks, CheckFails(c)
      PROVE  /\ ks'.maxWallSeen = Wall /\ file' \in {ks', file}
             /\ ks'.stickyOff = ks.stickyOff /\ ks'.generation = ks.generation
             /\ ks'.graceDeadline = ks.graceDeadline /\ ks'.pinnedBoxId = ks.pinnedBoxId
             /\ decision' = "allow" => ~ks'.stickyOff /\ Wall < ks'.graceDeadline
  BY <1>1, <1>2, <1>4, UnreachableDoes DEF CheckFails
<1>5. ASSUME Reboot
      PROVE  /\ ks'.maxWallSeen = Wall /\ file' \in {ks', file}
             /\ ks'.stickyOff = file.stickyOff /\ ks'.generation = file.generation
             /\ ks'.graceDeadline = file.graceDeadline /\ ks'.pinnedBoxId = file.pinnedBoxId
             /\ decision' = "allow" => ~ks'.stickyOff /\ Wall < ks'.graceDeadline
  BY <1>1, <1>2, <1>5, UnreachableDoes DEF Reboot
<1>6. Reboot \/ (\E c \in Checks : LeaseArrives(c) \/ CheckFails(c)) =>
          ks'.maxWallSeen = Wall /\ file' \in {ks', file}
  BY <1>3, <1>4, <1>5
<1>7. Reboot \/ (\E c \in Checks : CheckFails(c)) =>
          \E st \in {ks, file} :
             /\ ks'.stickyOff = st.stickyOff /\ ks'.generation = st.generation
             /\ ks'.graceDeadline = st.graceDeadline /\ ks'.pinnedBoxId = st.pinnedBoxId
             /\ decision' = "allow" => ~ks'.stickyOff /\ Wall < ks'.graceDeadline
  BY ONLY <1>4, <1>5
<1> QED  BY ONLY <1>3, <1>6, <1>7

(* No step reads a decision, or a clock, of the future.                    *)
LEMMA NextForward ==
    ASSUME Steps \subseteq Nat, TypeOK, Wall >= 0, Forward, [Next]_vars
    PROVE  Forward'
<1>0. /\ real \in Nat /\ skew \in Nat /\ Wall \in Nat /\ Wall = real + skew
      /\ lastCheck \in Int /\ ks.maxWallSeen \in Nat /\ file.maxWallSeen \in Nat
      /\ RefreshMs \in Nat
  BY TimesTyped DEF Forward
<1>1. CASE \/ BoothFlip \/ PollCached \/ Elapse \/ UNCHANGED vars \/ \E d \in Steps : ClockStep(d)
           \/ \E c \in Checks : BoothAnswers(c)
  <2>1. UNCHANGED <<ks, file, lastCheck>>
    BY <1>1 DEF BoothFlip, PollCached, Elapse, vars, ClockStep, BoothAnswers
  <2>2. \/ UNCHANGED <<real, skew>>
        \/ real' = real + 1 /\ skew' = skew
        \/ real' = real /\ skew = 0 /\ skew' \in Nat
    BY <1>1 DEF BoothFlip, PollCached, Elapse, vars, ClockStep, BoothAnswers
  <2>3. skew' \in Nat /\ Wall' >= Wall /\ Wall' \in Nat
    BY <1>0, <2>2 DEF Wall
  <2> QED  BY <1>0, <2>1, <2>3 DEF Forward
<1>2. CASE \E c \in Checks : BeginCheck(c)
  BY <1>0, <1>2 DEF BeginCheck, Forward, Wall
<1>3. CASE Reboot \/ (\E c \in Checks : LeaseArrives(c) \/ CheckFails(c))
  <2>1. ks'.maxWallSeen = Wall /\ file' \in {ks', file}
    BY <1>3, Evaluations
  <2>2. Wall' = Wall /\ skew' = skew /\ lastCheck' \in {lastCheck, NeverChecked}
    BY <1>3 DEF Reboot, LeaseArrives, CheckFails, Wall
  <2>3. NeverChecked <= Wall
    BY <1>0 DEF NeverChecked
  <2> QED  BY <1>0, <2>1, <2>2, <2>3 DEF Forward
<1> QED  BY <1>1, <1>2, <1>3 DEF Next

-----------------------------------------------------------------------------
(* The dead man's switch.  Evaluated: the guarded clock, which stands at   *)
(* the last evaluation's time.                                             *)
Evaluated == ks.maxWallSeen

(* The decision at hand was evaluated when the check was last marked as    *)
(* done, or a call is under way that was begun in time after it.           *)
Attended ==
    /\ polled <= lastCheck + RefreshMs \/ polled <= Evaluated
    /\ \/ lastCheck <= Evaluated
       \/ \E c \in Checks : UnderWay(c) /\ Started(c) <= Evaluated + RefreshMs + PollMs

(* Every step leaves a decision, or a call under way, that is recent enough. *)
LEMMA NextAttended ==
    ASSUME Steps \subseteq Nat, TypeOK, Wall >= 0, Timely, Forward, Attended, [Next]_vars
    PROVE  Attended'
<1>0. /\ real \in Nat /\ skew \in Nat /\ Wall \in Nat /\ Wall = real + skew /\ polled \in Nat
      /\ lastCheck \in Int /\ ks.maxWallSeen \in Nat /\ file.maxWallSeen \in Nat
      /\ RefreshMs \in Nat /\ PollMs \in Nat
      /\ polled <= real /\ real <= polled + PollMs /\ lastCheck <= Wall
  BY TimesTyped DEF Forward, Timely
<1>1. CASE BoothFlip \/ Elapse \/ UNCHANGED vars \/ \E d \in Steps : ClockStep(d)
  <2>1. UNCHANGED <<ks, lastCheck, polled, check>>
    BY <1>1 DEF BoothFlip, Elapse, vars, ClockStep
  <2> QED  BY <2>1 DEF Attended, Evaluated, UnderWay, Started
<1>2. CASE PollCached
  <2>1. UNCHANGED <<ks, lastCheck, check>> /\ polled' = real /\ ~Due
    BY <1>2 DEF PollCached
  <2>2. polled' <= lastCheck + RefreshMs
    BY <1>0, <2>1 DEF Due
  <2> QED  BY <2>1, <2>2 DEF Attended, Evaluated, UnderWay, Started
<1>3. ASSUME NEW c \in Checks, BoothAnswers(c)
      PROVE  Attended'
  <2>1. PICK lease \in Lease : check' = [check EXCEPT ![c] = Answered(c, lease)]
    BY <1>3, LeasesSigned DEF BoothAnswers
  <2>2. /\ \A d \in Checks : (UnderWay(d)' <=> UnderWay(d)) /\ Started(d)' = Started(d)
        /\ UNCHANGED <<ks, lastCheck, polled>>
    BY <1>3, <2>1, CallAnswered DEF BoothAnswers
  <2> QED  BY <2>2 DEF Attended, Evaluated
<1>4. ASSUME NEW c \in Checks, BeginCheck(c)
      PROVE  Attended'
  <2>1. /\ \A d \in Checks : d # c => check'[d] = check[d]
        /\ check'[c].phase = "asked" /\ Started(c)' = real /\ ~UnderWay(c)
        /\ lastCheck' = Wall /\ polled' \in {polled, real} /\ ks' = ks
    BY <1>4, CallBegins
  <2>2. polled' <= lastCheck' + RefreshMs
    BY <1>0, <2>1
  <2>3. \E d \in Checks : UnderWay(d)' /\ Started(d)' <= Evaluated + RefreshMs + PollMs
    <3>1. CASE \E d \in Checks : UnderWay(d) /\ Started(d) <= Evaluated + RefreshMs + PollMs
      <4>1. PICK d \in Checks : UnderWay(d) /\ Started(d) <= Evaluated + RefreshMs + PollMs
        BY <3>1
      <4>2. check'[d] = check[d]
        BY <2>1, <4>1
      <4> QED  BY <4>1, <4>2 DEF UnderWay, Started
    <3>2. CASE lastCheck <= Evaluated
      <4>1. real <= Evaluated + RefreshMs + PollMs
        BY <1>0, <3>2 DEF Attended, Evaluated
      <4>2. UnderWay(c)'
        BY <2>1 DEF UnderWay
      <4> QED  BY <2>1, <4>1, <4>2
    <3> QED  BY <3>1, <3>2 DEF Attended
  <2> QED  BY <2>1, <2>2, <2>3 DEF Attended, Evaluated
<1>5. CASE Reboot \/ (\E c \in Checks : LeaseArrives(c) \/ CheckFails(c))
  <2>1. Evaluated' = Wall
    BY <1>5, Evaluations DEF Evaluated
  <2>2. lastCheck' \in {lastCheck, NeverChecked} /\ polled' \in {polled, real}
    BY <1>5 DEF Reboot, LeaseArrives, CheckFails
  <2>3. lastCheck' <= Wall /\ polled' <= Wall
    BY <1>0, <2>2 DEF NeverChecked
  <2> QED  BY <2>1, <2>3 DEF Attended
<1> QED  BY <1>1, <1>2, <1>3, <1>4, <1>5 DEF Next

(* No window and no live lease reaches further than one signed at t would. *)
Within(t, states, calls, dates) ==
    /\ \A st \in states : st.graceDeadline < t + LeaseTtl + GraceMs
    /\ \A c \in Checks :
          calls[c].phase = "answered" /\ Live(calls[c].lease.generation) =>
              calls[c].lease.expires <= t + LeaseTtl
    /\ \A g \in 1 .. MaxGeneration : Live(g) => dates[g] <= t + LeaseTtl

Bounded(t) == Within(t, {ks, file}, check, signed)

(* Nothing outlives what could be signed now, nor, once the switch is off, *)
(* what could be signed before; and "allow" was said inside the window.    *)
Windows ==
    /\ Bounded(real)
    /\ ~Live(booth.generation) => Bounded(booth.since)
    /\ decision = "allow" => Evaluated < ks.graceDeadline

(* The invariants of the dead man's switch hold at the start.              *)
LEMMA InitDead == Init => Forward /\ Attended /\ Windows
<1> SUFFICES ASSUME Init PROVE Forward /\ Attended /\ Windows
  OBVIOUS
<1>0. /\ {RefreshMs, TimeoutMs, PollMs, GraceMs, LeaseTtl} \subseteq Nat \ {0}
      /\ real = 0 /\ skew = 0 /\ booth = [generation |-> 1, since |-> 0] /\ polled = 0
      /\ ks = InitialKillState /\ file = InitialKillState /\ decision = "block"
      /\ lastCheck = 0 - RefreshMs /\ check = [c \in Checks |-> Idle]
      /\ signed = [g \in 1 .. MaxGeneration |-> 0]
      /\ ks.maxWallSeen = 0 /\ ks.graceDeadline = 0
      /\ file.maxWallSeen = 0 /\ file.graceDeadline = 0
  BY PeriodsAssumption DEF Init, InitialKillState, NeverChecked
<1>1. Forward
  BY <1>0 DEF Forward, Wall
<1>2. Attended
  BY <1>0 DEF Attended, Evaluated
<1>3. Bounded(real)
  BY <1>0 DEF Bounded, Within, Idle
<1>4. Live(booth.generation)
  BY <1>0 DEF Live
<1> QED  BY <1>0, <1>1, <1>2, <1>3, <1>4 DEF Windows

(* A bound holds of every later time too. *)
LEMMA BoundStays ==
    ASSUME TypeOK, Wall >= 0, NEW t \in Nat, NEW u \in Nat, t <= u, Bounded(t)
    PROVE  Bounded(u)
<1>1. /\ LeaseTtl \in Nat /\ GraceMs \in Nat
      /\ ks.graceDeadline \in Nat /\ file.graceDeadline \in Nat
      /\ \A g \in 1 .. MaxGeneration : signed[g] \in Nat
      /\ \A c \in Checks : check[c].phase = "answered" => check[c].lease.expires \in Nat
  BY TimesTyped, CallsTyped DEF UnderWay, Lease
<1> QED  BY <1>1 DEF Bounded, Within

(* What is signed or sent again keeps the bounds: only a genuine live lease*)
(* reaches further than those before, and it does not reach past `real`.   *)
LEMMA AnswerKeepsBound ==
    ASSUME "foreign" \notin Faults, TypeOK, Wall >= 0, NEW c \in Checks, BoothAnswers(c),
           NEW t \in Nat, Bounded(t), t <= real, Live(booth.generation) => t = real
    PROVE  Within(t, {ks', file'}, check', signed')
<1>0. /\ LeaseTtl \in Nat /\ real \in Nat /\ booth.generation \in 1 .. MaxGeneration
      /\ signed \in [1 .. MaxGeneration -> Nat]
  BY TimesTyped DEF TypeOK
<1>1. UNCHANGED <<ks, file>> /\ check[c].phase = "asked"
  BY DEF BoothAnswers
<1>2. CASE /\ check' = [check EXCEPT ![c] =
                            Answered(c, [box |-> "this", generation |-> booth.generation,
                                         expires |-> real + LeaseTtl])]
           /\ signed' = [signed EXCEPT ![booth.generation] = real + LeaseTtl]
  <2> DEFINE lease == [box |-> "this", generation |-> booth.generation,
                       expires |-> real + LeaseTtl]
  <2>1. lease \in Lease
    BY LeasesSigned
  <2>2. lease.generation = booth.generation /\ lease.expires = real + LeaseTtl
    OBVIOUS
  <2>3. check' = [check EXCEPT ![c] = Answered(c, lease)]
    BY <1>2
  <2> HIDE DEF lease
  <2>4. /\ \A d \in Checks : d # c => check'[d] = check[d]
        /\ check'[c].lease = lease
    BY <1>1, <2>1, <2>3, CallAnswered
  <2>5. \A d \in Checks :
            check'[d].phase = "answered" /\ Live(check'[d].lease.generation) =>
                check'[d].lease.expires <= t + LeaseTtl
    BY <1>0, <2>2, <2>4 DEF Bounded, Within
  <2>6. \A g \in 1 .. MaxGeneration : Live(g) => signed'[g] <= t + LeaseTtl
    BY <1>0, <1>2 DEF Bounded, Within
  <2> QED  BY <1>1, <2>5, <2>6 DEF Bounded, Within
<1>3. CASE \E lease \in Replays : check' = [check EXCEPT ![c] = Answered(c, lease)] /\ signed' = signed
  <2>1. PICK lease \in Replays :
            check' = [check EXCEPT ![c] = Answered(c, lease)] /\ signed' = signed
    BY <1>3
  <2>2. lease \in Lease
    BY <2>1, LeasesSigned
  <2>3. lease.generation \in 1 .. MaxGeneration /\ lease.expires = signed[lease.generation]
    BY <1>0, BoundsAssumption DEF Replays
  <2>4. /\ \A d \in Checks : d # c => check'[d] = check[d]
        /\ check'[c].lease = lease
    BY <1>1, <2>1, <2>2, CallAnswered
  <2>5. \A d \in Checks :
            check'[d].phase = "answered" /\ Live(check'[d].lease.generation) =>
                check'[d].lease.expires <= t + LeaseTtl
    BY <2>3, <2>4 DEF Bounded, Within
  <2> QED  BY <1>1, <2>1, <2>5 DEF Bounded, Within
<1> QED  BY <1>2, <1>3 DEF BoothAnswers

(* Nor does a window that is opened on the strength of a lease that still  *)
(* holds, or none at all.                                                  *)
LEMMA EvaluationKeepsBound ==
    ASSUME TypeOK, Wall >= 0, Forward, NEW t \in Nat, Bounded(t),
           Reboot \/ (\E c \in Checks : LeaseArrives(c) \/ CheckFails(c))
    PROVE  /\ Within(t, {ks', file'}, check', signed')
           /\ decision' = "allow" => Evaluated' < ks'.graceDeadline
<1>0. /\ LeaseTtl \in Nat /\ GraceMs \in Nat \ {0} /\ Wall \in Nat
      /\ ks \in KillClientState /\ ks.maxWallSeen <= Wall
  BY TimesTyped DEF Forward
<1>1. signed' = signed
  BY DEF Reboot, LeaseArrives, CheckFails
<1>2. \A c \in Checks : check'[c] = check[c] \/ check'[c].phase # "answered"
  <2>1. CASE Reboot
    BY <2>1 DEF Reboot, Idle
  <2>2. ASSUME NEW c \in Checks, LeaseArrives(c) \/ CheckFails(c)
        PROVE  \A d \in Checks : check'[d] = check[d] \/ check'[d].phase # "answered"
    <3>1. check' = [check EXCEPT ![c] = Idle]
      BY <2>2 DEF LeaseArrives, CheckFails
    <3> QED  BY <3>1, CallEnds
  <2> QED  BY <2>1, <2>2
<1>3. ks'.graceDeadline < t + LeaseTtl + GraceMs
  <2>1. CASE Reboot \/ \E c \in Checks : CheckFails(c)
    BY <2>1, Evaluations DEF Bounded, Within
  <2>2. ASSUME NEW c \in Checks, LeaseArrives(c)
        PROVE  ks'.graceDeadline < t + LeaseTtl + GraceMs
    <3> DEFINE lease == check[c].lease
    <3>1. lease \in Lease /\ Take(ApplyLease(ks, lease, Wall)) /\ check[c].phase = "answered"
      BY <2>2, Evaluations DEF LeaseArrives
    <3>2. Live(lease.generation) => lease.expires <= t + LeaseTtl
      BY <3>1 DEF Bounded, Within
    <3>3. lease.expires \in Nat
      BY <3>1 DEF Lease
    <3> HIDE DEF lease
    <3>4. \/ ks'.graceDeadline = ks.graceDeadline
          \/ /\ Live(lease.generation) /\ lease.expires > Wall
             /\ ks'.graceDeadline = Wall + GraceMs
      BY <1>0, <3>1, LeaseDoes
    <3> QED  BY <1>0, <3>2, <3>3, <3>4 DEF Bounded, Within
  <2> QED  BY <2>1, <2>2
<1>4. \A st \in {ks', file'} : st.graceDeadline < t + LeaseTtl + GraceMs
  BY <1>3, Evaluations DEF Bounded, Within
<1>5. decision' = "allow" => Evaluated' < ks'.graceDeadline
  <2>1. ks'.maxWallSeen = Wall
    BY Evaluations
  <2>2. CASE Reboot \/ \E c \in Checks : CheckFails(c)
    BY <2>1, <2>2, Evaluations DEF Evaluated
  <2>3. ASSUME NEW c \in Checks, LeaseArrives(c)
        PROVE  decision' = "allow" => Wall < ks'.graceDeadline
    <3>1. check[c].lease \in Lease /\ Take(ApplyLease(ks, check[c].lease, Wall))
      BY <2>3, Evaluations DEF LeaseArrives
    <3> QED  BY <1>0, <3>1, LeaseDoes
  <2> QED  BY <2>1, <2>2, <2>3 DEF Evaluated
<1> QED  BY <1>1, <1>2, <1>4, <1>5 DEF Bounded, Within

(* No step opens a window longer than what was signed allows.              *)
LEMMA NextWindows ==
    ASSUME "foreign" \notin Faults, TypeOK, Wall >= 0, Timely, Forward, Windows, Next,
           TypeOK', Wall' >= 0
    PROVE  Windows'
<1>0. /\ real \in Nat /\ booth.since \in Nat /\ booth.since <= real
      /\ real + 1 \in Nat /\ real <= real + 1
      /\ Bounded(real) /\ (~Live(booth.generation) => Bounded(booth.since))
      /\ decision = "allow" => Evaluated < ks.graceDeadline
  BY TimesTyped DEF Timely, Windows
<1>1. CASE BoothFlip
  <2>1. UNCHANGED <<real, ks, decision, check, file, signed>> /\ booth'.since = real
    BY <1>1 DEF BoothFlip
  <2> QED  BY <1>0, <2>1 DEF Windows, Bounded, Evaluated
<1>2. CASE PollCached \/ \E d \in Steps : ClockStep(d)
  BY <1>0, <1>2 DEF PollCached, ClockStep, Windows, Bounded, Evaluated
<1>3. CASE Elapse
  <2>1. Bounded(real + 1)
    BY <1>0, BoundStays
  <2>2. real' = real + 1 /\ UNCHANGED <<booth, ks, decision, check, file, signed>>
    BY <1>3 DEF Elapse
  <2> QED  BY <1>0, <2>1, <2>2 DEF Windows, Bounded, Evaluated
<1>4. ASSUME NEW c \in Checks, BeginCheck(c)
      PROVE  Windows'
  <2>1. /\ UNCHANGED <<real, booth, ks, decision, file, signed>>
        /\ \A d \in Checks : check'[d] = check[d] \/ check'[d].phase # "answered"
    BY <1>4, CallBegins
  <2>2. ASSUME NEW t \in Nat, Bounded(t)
        PROVE  Within(t, {ks', file'}, check', signed')
    BY <2>1, <2>2 DEF Bounded, Within
  <2> QED  BY <1>0, <2>1, <2>2 DEF Windows, Bounded, Evaluated
<1>5. ASSUME NEW c \in Checks, BoothAnswers(c)
      PROVE  Windows'
  <2>1. UNCHANGED <<real, booth, ks, decision>>
    BY <1>5 DEF BoothAnswers
  <2>2. Within(real, {ks', file'}, check', signed')
    BY <1>0, <1>5, AnswerKeepsBound
  <2>3. ~Live(booth.generation) => Within(booth.since, {ks', file'}, check', signed')
    BY <1>0, <1>5, AnswerKeepsBound
  <2> QED  BY <1>0, <2>1, <2>2, <2>3 DEF Windows, Bounded, Evaluated
<1>6. CASE Reboot \/ (\E c \in Checks : LeaseArrives(c) \/ CheckFails(c))
  <2>1. UNCHANGED <<real, booth>>
    BY <1>6 DEF Reboot, LeaseArrives, CheckFails
  <2>2. Within(real, {ks', file'}, check', signed')
    BY <1>0, <1>6, EvaluationKeepsBound
  <2>3. ~Live(booth.generation) => Within(booth.since, {ks', file'}, check', signed')
    BY <1>0, <1>6, EvaluationKeepsBound
  <2>4. decision' = "allow" => Evaluated' < ks'.graceDeadline
    BY <1>0, <1>6, EvaluationKeepsBound
  <2> QED  BY <2>1, <2>2, <2>3, <2>4 DEF Windows, Bounded
<1> QED  BY <1>1, <1>2, <1>3, <1>4, <1>5, <1>6 DEF Next

(* The dead man's switch: once the switch is off, a box serves no longer   *)
(* than its last lease, the grace window and the staleness of a decision   *)
(* allow, even if it is never told: whatever calls fail, whatever is sent  *)
(* again, whether or not its state can be saved, rebooted or not, and with *)
(* a wall clock that may be stepped forward.  (A clock that is stepped back*)
(* stretches the cache's period, and a lease signed for another box is     *)
(* taken by a box that has yet to learn its own name: both are excluded.)  *)
THEOREM DeadManHolds ==
    ASSUME Steps \subseteq Nat, "foreign" \notin Faults
    PROVE  Spec => []DeadMan
<1> DEFINE DInv == TypeOK /\ Wall >= 0 /\ Timely /\ Forward /\ Attended /\ Windows
<1>1. Init => DInv
  BY InitTypes, InitTimely, InitDead
<1>2. DInv /\ [Next]_vars => DInv'
  <2> SUFFICES ASSUME DInv, [Next]_vars PROVE DInv'
    OBVIOUS
  <2>1. TypeOK' /\ Wall' >= 0 /\ Timely' /\ Forward' /\ Attended'
    BY NextTypes, NextTimely, NextForward, NextAttended
  <2>2. CASE Next
    BY <2>1, <2>2, NextWindows
  <2>3. CASE UNCHANGED vars
    BY <2>1, <2>3 DEF vars, Windows, Bounded, Evaluated
  <2> QED  BY <2>1, <2>2, <2>3
<1>3. DInv => DeadMan
  <2> SUFFICES ASSUME DInv, ~Live(booth.generation), decision = "allow", ~Due
               PROVE  real <= booth.since + LeaseTtl + GraceMs + Staleness
    BY DEF DeadMan, Serving
  <2>0. /\ real \in Nat /\ skew \in Nat /\ Wall = real + skew /\ booth.since \in Nat
        /\ lastCheck \in Int /\ Evaluated \in Nat /\ ks.graceDeadline \in Nat
        /\ {RefreshMs, TimeoutMs, PollMs, GraceMs, LeaseTtl} \subseteq Nat
    BY TimesTyped DEF Forward, Evaluated
  <2>1. Evaluated < booth.since + LeaseTtl + GraceMs
    <3>1. Evaluated < ks.graceDeadline /\ ks.graceDeadline < booth.since + LeaseTtl + GraceMs
      BY DEF Windows, Bounded, Within
    <3> QED  BY <2>0, <3>1
  <2>2. CASE lastCheck <= Evaluated
    BY <2>0, <2>1, <2>2 DEF Due, Staleness
  <2>3. ASSUME NEW c \in Checks, UnderWay(c), Started(c) <= Evaluated + RefreshMs + PollMs
        PROVE  real <= booth.since + LeaseTtl + GraceMs + Staleness
    <3>1. real <= Started(c) + TimeoutMs /\ Started(c) \in Nat
      BY <2>3, CallsTyped DEF Timely
    <3> QED  BY <2>0, <2>1, <2>3, <3>1 DEF Staleness
  <2> QED  BY <2>2, <2>3 DEF Attended
<1> QED  BY <1>1, <1>2, <1>3, PTL DEF Spec

-----------------------------------------------------------------------------
(* A flip is honoured.  Here the wall clock is not stepped at all, so that *)
(* it can be compared with the times of the calls.                         *)

(* After the last flip and the last trouble; and soon after one of them.   *)
Since(t) == t > booth.since /\ t > trouble
Soon(t, by) == t <= booth.since + by \/ t <= trouble + by

(* What the control plane has signed is for this box and not of the future,*)
(* and the answer of an undisturbed call says how the switch stands.       *)
Genuine(lease) == lease.box = "this" /\ lease.generation <= booth.generation

Current(lease, t) == lease.generation = booth.generation /\ lease.expires >= t + LeaseTtl

Answers ==
    /\ \A st \in {ks, file} :
          st.generation <= booth.generation /\ st.pinnedBoxId \in {NoBox, "this"}
    /\ \A c \in Checks : check[c].phase = "answered" =>
          /\ Genuine(check[c].lease)
          /\ Since(Started(c)) => Current(check[c].lease, Started(c))
    /\ decision = "allow" => ~ks.stickyOff
    /\ \A g \in 1 .. MaxGeneration : signed[g] > 0 => g <= booth.generation

(* Polls follow checks, and checks follow flips and troubles.              *)
Polling == polled <= lastCheck + RefreshMs \/ polled <= trouble

(* The decision at hand predates the last flip or trouble and is not older *)
(* than the cache allows, or the call that will replace it is under way.   *)
Asking ==
    \/ ~Since(lastCheck)
    \/ \E c \in Checks :
          UnderWay(c) /\ Since(Started(c)) /\ Soon(Started(c), RefreshMs + PollMs)

(* The gate has heard that the switch is off. *)
Heard == ks.stickyOff /\ ks.generation = booth.generation

(* The invariants of both bounds hold at the start.                        *)
LEMMA InitHonour ==
    Init => Answers /\ Polling /\ Live(booth.generation) /\ Asking /\ \A c \in Checks : ~UnderWay(c)
<1> SUFFICES ASSUME Init
             PROVE  Answers /\ Polling /\ Live(booth.generation) /\ Asking
                    /\ \A c \in Checks : ~UnderWay(c)
  OBVIOUS
<1>0. /\ RefreshMs \in Nat
      /\ booth = [generation |-> 1, since |-> 0] /\ polled = 0 /\ trouble = 0
      /\ ks = InitialKillState /\ file = InitialKillState /\ decision = "block"
      /\ lastCheck = 0 - RefreshMs /\ check = [c \in Checks |-> Idle]
      /\ signed = [g \in 1 .. MaxGeneration |-> 0]
      /\ ks.generation = 0 /\ ks.pinnedBoxId = NoBox
      /\ file.generation = 0 /\ file.pinnedBoxId = NoBox
  BY PeriodsAssumption DEF Init, InitialKillState, NeverChecked
<1>1. Answers
  BY <1>0 DEF Answers, Idle
<1>2. Polling /\ Asking
  BY <1>0 DEF Polling, Asking, Since
<1>3. Live(booth.generation)
  BY <1>0 DEF Live
<1> QED  BY <1>0, <1>1, <1>2, <1>3 DEF UnderWay, Idle

(* Without steps the wall clock is the elapsed time. *)
LEMMA Unstepped ==
    ASSUME Steps \subseteq {0}, TypeOK, Wall >= 0, Forward, Timely
    PROVE  /\ skew = 0 /\ Wall = real /\ lastCheck <= real
           /\ real \in Nat /\ booth.since \in Nat /\ trouble \in Nat /\ polled \in Nat
           /\ lastCheck \in Int
           /\ \A c \in Checks : UnderWay(c) => Started(c) \in Nat
           /\ {RefreshMs, TimeoutMs, PollMs, GraceMs, LeaseTtl} \subseteq Nat \ {0}
<1>1. skew = 0
  BY DEF TypeOK
<1> QED  BY <1>1, TimesTyped, CallsTyped DEF Forward

(* A trouble now makes whatever was begun before it count no more. *)
LEMMA NextPolling ==
    ASSUME Steps \subseteq {0}, TypeOK, Wall >= 0, Forward, Timely, Polling, [Next]_vars
    PROVE  Polling'
<1>0. /\ Wall = real /\ real \in Nat /\ trouble \in Nat /\ polled \in Nat /\ lastCheck \in Int
      /\ RefreshMs \in Nat /\ polled <= real /\ trouble <= real
  BY Unstepped DEF Timely
<1>1. CASE BoothFlip \/ Elapse \/ UNCHANGED vars \/ \E d \in Steps : ClockStep(d)
  BY <1>1 DEF BoothFlip, Elapse, vars, ClockStep, Polling
<1>2. CASE PollCached
  BY <1>0, <1>2 DEF PollCached, Due, Polling
<1>3. CASE \E c \in Checks : BeginCheck(c)
  BY <1>0, <1>3 DEF BeginCheck, Polling
<1>4. CASE Reboot \/ \E c \in Checks : CheckFails(c)
  <2>1. trouble' = real /\ polled' \in {polled, real}
    BY <1>4 DEF Reboot, CheckFails
  <2> QED  BY <1>0, <2>1 DEF Polling
<1>5. CASE \E c \in Checks : LeaseArrives(c) \/ BoothAnswers(c)
  <2>1. trouble' \in {trouble, real} /\ UNCHANGED <<polled, lastCheck>>
    BY <1>5 DEF LeaseArrives, BoothAnswers
  <2> QED  BY <1>0, <2>1 DEF Polling
<1> QED  BY <1>1, <1>2, <1>3, <1>4, <1>5 DEF Next

(* The call that is begun next is begun in time. *)
LEMMA BegunInTime ==
    ASSUME Steps \subseteq {0}, TypeOK, Wall >= 0, Forward, Timely, Polling, Asking,
           NEW c \in Checks, BeginCheck(c)
    PROVE  Asking'
<1>0. /\ Wall = real /\ real \in Nat /\ trouble \in Nat /\ polled \in Nat /\ lastCheck \in Int
      /\ booth.since \in Nat /\ RefreshMs \in Nat /\ PollMs \in Nat
      /\ polled <= real /\ real <= polled + PollMs
  BY Unstepped DEF Timely
<1>1. /\ \A d \in Checks : d # c => check'[d] = check[d]
      /\ check'[c].phase = "asked" /\ Started(c)' = real /\ ~UnderWay(c)
      /\ lastCheck' = real /\ UNCHANGED <<booth, trouble>>
  BY <1>0, CallBegins
<1>2. CASE \E d \in Checks :
              UnderWay(d) /\ Since(Started(d)) /\ Soon(Started(d), RefreshMs + PollMs)
  <2>1. PICK d \in Checks :
            UnderWay(d) /\ Since(Started(d)) /\ Soon(Started(d), RefreshMs + PollMs)
    BY <1>2
  <2>2. check'[d] = check[d]
    BY <1>1, <2>1
  <2> QED  BY <1>1, <2>1, <2>2 DEF Asking, UnderWay, Started, Since, Soon
<1>3. CASE ~Since(lastCheck)
  <2>1. Soon(real, RefreshMs + PollMs)
    BY <1>0, <1>3 DEF Since, Soon, Polling
  <2>2. UnderWay(c)'
    BY <1>1 DEF UnderWay
  <2>3. Since(real) => Since(Started(c))' /\ Soon(Started(c), RefreshMs + PollMs)'
    BY <1>1, <2>1 DEF Since, Soon
  <2>4. ~Since(real) => ~Since(lastCheck)'
    BY <1>1 DEF Since
  <2> QED  BY <2>2, <2>3, <2>4 DEF Asking
<1> QED  BY <1>2, <1>3 DEF Asking

(* A step that flips, fails or misleads resets what was known; the others  *)
(* keep it.                                                                *)
LEMMA SinceNarrows ==
    ASSUME TypeOK, Wall >= 0, Timely, Next, NEW t \in Int
    PROVE  /\ booth'.since \in {booth.since, real} /\ trouble' \in {trouble, real}
           /\ booth'.generation >= booth.generation
           /\ t > booth'.since /\ t > trouble' => Since(t)
           /\ (t <= real /\ t > booth'.since /\ t > trouble') => UNCHANGED <<booth, trouble>>
<1>0. /\ real \in Nat /\ booth.since \in Nat /\ trouble \in Nat /\ booth.generation \in Nat
      /\ booth.since <= real /\ trouble <= real
  BY TimesTyped, BoundsAssumption DEF Timely
<1>1. \/ UNCHANGED <<booth, trouble>>
      \/ /\ booth'.since = real /\ booth'.generation = booth.generation + 1
         /\ trouble' = trouble
      \/ booth' = booth /\ trouble' = real
  BY DEF Next, BoothFlip, PollCached, Elapse, Reboot, ClockStep, BoothAnswers, BeginCheck,
         LeaseArrives, CheckFails
<1> QED  BY <1>0, <1>1 DEF Since

(* An answer that is on its way stays as truthful as it was.               *)
LEMMA AnswersStay ==
    ASSUME TypeOK, Wall >= 0, Timely, Answers, Next,
           \A c \in Checks : check'[c] = check[c] \/ check'[c].phase # "answered"
    PROVE  \A c \in Checks : check'[c].phase = "answered" =>
               /\ check'[c].lease.box = "this"
               /\ check'[c].lease.generation <= booth'.generation
               /\ (Started(c)' > booth'.since /\ Started(c)' > trouble') =>
                      /\ check'[c].lease.generation = booth'.generation
                      /\ check'[c].lease.expires >= Started(c)' + LeaseTtl
<1> SUFFICES ASSUME NEW c \in Checks, check'[c].phase = "answered"
             PROVE  /\ check'[c].lease.box = "this"
                    /\ check'[c].lease.generation <= booth'.generation
                    /\ (Started(c)' > booth'.since /\ Started(c)' > trouble') =>
                           /\ check'[c].lease.generation = booth'.generation
                           /\ check'[c].lease.expires >= Started(c)' + LeaseTtl
  OBVIOUS
<1>1. check'[c] = check[c] /\ UnderWay(c) /\ check[c].phase = "answered"
  BY DEF UnderWay
<1>2. /\ Started(c) \in Nat /\ Started(c) <= real /\ check[c].lease \in Lease
      /\ Started(c)' = Started(c)
  BY <1>1, CallsTyped DEF Timely, Started
<1>3. /\ booth'.generation >= booth.generation
      /\ Started(c) > booth'.since /\ Started(c) > trouble' =>
             Since(Started(c)) /\ UNCHANGED <<booth, trouble>>
  BY <1>2, SinceNarrows
<1>4. /\ check[c].lease.box = "this" /\ check[c].lease.generation <= booth.generation
      /\ Since(Started(c)) => /\ check[c].lease.generation = booth.generation
                              /\ check[c].lease.expires >= Started(c) + LeaseTtl
  BY <1>1 DEF Answers, Genuine, Current
<1>5. check[c].lease.generation \in Nat /\ booth.generation \in Nat
  BY <1>2, TimesTyped, BoundsAssumption DEF Lease
<1>6. check[c].lease.generation <= booth'.generation
  <2>1. booth'.generation \in {booth.generation, booth.generation + 1}
    BY DEF Next, BoothFlip, PollCached, Elapse, Reboot, ClockStep, BoothAnswers, BeginCheck,
           LeaseArrives, CheckFails
  <2> QED  BY <1>4, <1>5, <2>1
<1> QED  BY <1>1, <1>2, <1>3, <1>4, <1>6

(* What the control plane sends is genuine, and current unless it is a     *)
(* replay, which is a trouble.                                             *)
LEMMA GenuineAnswers ==
    ASSUME "foreign" \notin Faults, TypeOK, Wall >= 0, Timely, Answers,
           NEW c \in Checks, BoothAnswers(c)
    PROVE  \E lease \in Lease :
              /\ check' = [check EXCEPT ![c] = Answered(c, lease)]
              /\ lease.box = "this" /\ lease.generation <= booth.generation
              /\ \A g \in 1 .. MaxGeneration : signed'[g] > 0 => g <= booth.generation
              /\ \/ trouble' = real
                 \/ /\ trouble' = trouble /\ lease.generation = booth.generation
                    /\ lease.expires >= Started(c) + LeaseTtl
<1>0. /\ real \in Nat /\ LeaseTtl \in Nat /\ booth.generation \in 1 .. MaxGeneration
      /\ UnderWay(c) /\ Started(c) \in Nat /\ Started(c) <= real
      /\ signed \in [1 .. MaxGeneration -> Nat]
  <2>1. UnderWay(c)
    BY DEF BoothAnswers, UnderWay
  <2> QED  BY <2>1, TimesTyped, CallsTyped DEF Timely, TypeOK
<1>1. \A g \in 1 .. MaxGeneration : signed'[g] > 0 => g <= booth.generation
  <2>1. CASE signed' = signed
    BY <2>1 DEF Answers
  <2>2. CASE signed' = [signed EXCEPT ![booth.generation] = real + LeaseTtl]
    <3>1. \A g \in 1 .. MaxGeneration : g # booth.generation => signed'[g] = signed[g]
      BY <1>0, <2>2
    <3> QED  BY <1>0, <3>1 DEF Answers
  <2> QED  BY <2>1, <2>2 DEF BoothAnswers
<1>2. CASE /\ check' = [check EXCEPT ![c] =
                            Answered(c, [box |-> "this", generation |-> booth.generation,
                                         expires |-> real + LeaseTtl])]
           /\ trouble' = trouble
  <2> DEFINE lease == [box |-> "this", generation |-> booth.generation,
                       expires |-> real + LeaseTtl]
  <2>1. lease \in Lease
    BY LeasesSigned
  <2>2. check' = [check EXCEPT ![c] = Answered(c, lease)]
    BY <1>2
  <2>3. /\ lease.box = "this" /\ lease.generation = booth.generation
        /\ lease.expires = real + LeaseTtl
    OBVIOUS
  <2>4. lease.generation <= booth.generation /\ lease.expires >= Started(c) + LeaseTtl
    BY <1>0, <2>3
  <2> QED  BY <1>1, <1>2, <2>1, <2>2, <2>3, <2>4
<1>3. CASE /\ \E lease \in Replays : check' = [check EXCEPT ![c] = Answered(c, lease)]
           /\ trouble' = real
  <2>1. PICK lease \in Replays : check' = [check EXCEPT ![c] = Answered(c, lease)]
    BY <1>3
  <2>2. lease.box = "this" /\ lease.generation \in 1 .. booth.generation
    BY DEF Replays
  <2>3. lease \in Lease /\ lease.generation <= booth.generation
    BY <1>0, <2>2, LeasesSigned
  <2> QED  BY <1>1, <1>3, <2>1, <2>2, <2>3
<1> QED  BY <1>2, <1>3 DEF BoothAnswers

(* The gate's own part of the answers. *)
LEMMA EvaluationAnswers ==
    ASSUME TypeOK, Wall >= 0, Forward, Answers,
           Reboot \/ (\E c \in Checks : LeaseArrives(c) \/ CheckFails(c))
    PROVE  /\ \A st \in {ks', file'} :
                 st.generation <= booth.generation /\ st.pinnedBoxId \in {NoBox, "this"}
           /\ decision' = "allow" => ~ks'.stickyOff
<1>0. /\ Wall \in Nat /\ ks \in KillClientState /\ ks.maxWallSeen <= Wall
      /\ file' \in {ks', file}
  BY TimesTyped, Evaluations DEF Forward
<1>1. CASE Reboot \/ \E c \in Checks : CheckFails(c)
  BY <1>0, <1>1, Evaluations DEF Answers
<1>2. ASSUME NEW c \in Checks, LeaseArrives(c)
      PROVE  /\ ks'.generation <= booth.generation /\ ks'.pinnedBoxId \in {NoBox, "this"}
             /\ decision' = "allow" => ~ks'.stickyOff
  <2>1. /\ check[c].lease \in Lease /\ Take(ApplyLease(ks, check[c].lease, Wall))
        /\ check[c].phase = "answered"
    BY <1>2, Evaluations DEF LeaseArrives
  <2>2. check[c].lease.box = "this" /\ check[c].lease.generation <= booth.generation
    BY <2>1 DEF Answers, Genuine
  <2>3. ks.generation <= booth.generation /\ ks.pinnedBoxId \in {NoBox, "this"}
    BY DEF Answers
  <2> QED  BY <1>0, <2>1, <2>2, <2>3, LeaseDoes
<1> QED  BY <1>0, <1>1, <1>2 DEF Answers

(* Every answer is the box's own, and current where nothing went wrong.    *)
LEMMA NextAnswers ==
    ASSUME "foreign" \notin Faults, TypeOK, Wall >= 0, Timely, Forward, Answers, Next
    PROVE  Answers'
<1>0. /\ ks.generation \in Nat /\ file.generation \in Nat /\ booth.generation \in Nat
      /\ \A g \in 1 .. MaxGeneration : g \in Nat /\ signed[g] \in Nat
  BY TimesTyped, BoundsAssumption
<1>1. CASE \/ BoothFlip \/ PollCached \/ Elapse \/ \E d \in Steps : ClockStep(d)
           \/ \E c \in Checks : BeginCheck(c)
  <2>1. /\ UNCHANGED <<ks, file, decision, signed>>
        /\ booth'.generation \in {booth.generation, booth.generation + 1}
    BY <1>1 DEF BoothFlip, PollCached, Elapse, ClockStep, BeginCheck
  <2>2. \A c \in Checks : check'[c] = check[c] \/ check'[c].phase # "answered"
    <3>1. CASE \E c \in Checks : BeginCheck(c)
      BY <3>1, CallBegins
    <3> QED  BY <1>1, <3>1 DEF BoothFlip, PollCached, Elapse, ClockStep
  <2>3. \A c \in Checks : check'[c].phase = "answered" =>
               /\ check'[c].lease.box = "this"
               /\ check'[c].lease.generation <= booth'.generation
               /\ (Started(c)' > booth'.since /\ Started(c)' > trouble') =>
                      /\ check'[c].lease.generation = booth'.generation
                      /\ check'[c].lease.expires >= Started(c)' + LeaseTtl
    BY <2>2, AnswersStay
  <2>4. /\ \A st \in {ks', file'} :
              st.generation <= booth'.generation /\ st.pinnedBoxId \in {NoBox, "this"}
        /\ decision' = "allow" => ~ks'.stickyOff
        /\ \A g \in 1 .. MaxGeneration : signed'[g] > 0 => g <= booth'.generation
    BY <1>0, <2>1 DEF Answers
  <2> QED  BY <2>3, <2>4 DEF Answers, Genuine, Current, Since
<1>2. CASE Reboot \/ (\E c \in Checks : LeaseArrives(c) \/ CheckFails(c))
  <2>1. UNCHANGED <<booth, signed>>
    BY <1>2 DEF Reboot, LeaseArrives, CheckFails
  <2>2. \A c \in Checks : check'[c] = check[c] \/ check'[c].phase # "answered"
    <3>1. CASE Reboot
      BY <3>1 DEF Reboot, Idle
    <3>2. ASSUME NEW c \in Checks, LeaseArrives(c) \/ CheckFails(c)
          PROVE  \A d \in Checks : check'[d] = check[d] \/ check'[d].phase # "answered"
      <4>1. check' = [check EXCEPT ![c] = Idle]
        BY <3>2 DEF LeaseArrives, CheckFails
      <4> QED  BY <4>1, CallEnds
    <3> QED  BY <1>2, <3>1, <3>2
  <2>3. \A c \in Checks : check'[c].phase = "answered" =>
               /\ check'[c].lease.box = "this"
               /\ check'[c].lease.generation <= booth'.generation
               /\ (Started(c)' > booth'.since /\ Started(c)' > trouble') =>
                      /\ check'[c].lease.generation = booth'.generation
                      /\ check'[c].lease.expires >= Started(c)' + LeaseTtl
    BY <2>2, AnswersStay
  <2>4. /\ \A st \in {ks', file'} :
              st.generation <= booth'.generation /\ st.pinnedBoxId \in {NoBox, "this"}
        /\ decision' = "allow" => ~ks'.stickyOff
    BY <1>2, <2>1, EvaluationAnswers
  <2>5. \A g \in 1 .. MaxGeneration : signed'[g] > 0 => g <= booth'.generation
    BY <2>1 DEF Answers
  <2> QED  BY <2>3, <2>4, <2>5 DEF Answers, Genuine, Current, Since
<1>3. ASSUME NEW c \in Checks, BoothAnswers(c)
      PROVE  Answers'
  <2>1. UNCHANGED <<booth, ks, file, decision, real>> /\ check[c].phase = "asked"
    BY <1>3 DEF BoothAnswers
  <2>2. PICK lease \in Lease :
              /\ check' = [check EXCEPT ![c] = Answered(c, lease)]
              /\ lease.box = "this" /\ lease.generation <= booth.generation
              /\ \A g \in 1 .. MaxGeneration : signed'[g] > 0 => g <= booth.generation
              /\ \/ trouble' = real
                 \/ /\ trouble' = trouble /\ lease.generation = booth.generation
                    /\ lease.expires >= Started(c) + LeaseTtl
    BY <1>3, GenuineAnswers
  <2>3. /\ \A d \in Checks : d # c => check'[d] = check[d]
        /\ \A d \in Checks : (UnderWay(d)' <=> UnderWay(d)) /\ Started(d)' = Started(d)
        /\ check'[c].phase = "answered" /\ check'[c].lease = lease
    BY <2>1, <2>2, CallAnswered
  <2>4. \A d \in Checks : UnderWay(d)' => Started(d) \in Nat /\ Started(d) <= real
    BY <2>3, CallsTyped DEF Timely
  <2>5. ASSUME NEW d \in Checks, check'[d].phase = "answered"
        PROVE  /\ check'[d].lease.box = "this"
               /\ check'[d].lease.generation <= booth'.generation
               /\ (Started(d)' > booth'.since /\ Started(d)' > trouble') =>
                      /\ check'[d].lease.generation = booth'.generation
                      /\ check'[d].lease.expires >= Started(d)' + LeaseTtl
    <3>1. UnderWay(d)'
      BY <2>5 DEF UnderWay
    <3>2. /\ Started(d)' = Started(d) /\ Started(d) \in Nat /\ Started(d) <= real
          /\ real \in Nat /\ booth' = booth
      BY <2>1, <2>3, <2>4, <3>1, TimesTyped
    <3>3. CASE d = c
      <4>1. trouble' = real => ~(Started(d)' > trouble')
        BY <3>2
      <4> QED  BY <2>2, <2>3, <3>2, <3>3, <4>1
    <3>4. CASE d # c
      <4>1. check'[d] = check[d] /\ check[d].phase = "answered"
        BY <2>3, <2>5, <3>4
      <4>2. /\ check[d].lease.box = "this" /\ check[d].lease.generation <= booth.generation
            /\ Since(Started(d)) => /\ check[d].lease.generation = booth.generation
                                    /\ check[d].lease.expires >= Started(d) + LeaseTtl
        BY <4>1 DEF Answers, Genuine, Current
      <4>3. Started(d)' > booth'.since /\ Started(d)' > trouble' => Since(Started(d))
        BY <2>2, <3>2 DEF Since
      <4> QED  BY <3>2, <4>1, <4>2, <4>3
    <3> QED  BY <3>3, <3>4
  <2> QED  BY <2>1, <2>2, <2>5 DEF Answers, Genuine, Current, Since
<1> QED  BY <1>1, <1>2, <1>3 DEF Next

(* Whatever happens but the arrival of a lease, a gate that was asking is  *)
(* asking still, and one that was not either knows what it knew, of a      *)
(* switch that has not moved, or asks again.                               *)
LEMMA AskingStays ==
    ASSUME Steps \subseteq {0}, "foreign" \notin Faults, TypeOK, Wall >= 0, Timely, Forward,
           Answers, Polling, [Next]_vars, ~\E c \in Checks : LeaseArrives(c)
    PROVE  /\ Asking => Asking'
           /\ Asking' \/ UNCHANGED <<booth, ks, decision>>
<1>0. /\ Wall = real /\ lastCheck <= real /\ real \in Nat /\ lastCheck \in Int
      /\ RefreshMs \in Nat \ {0}
  BY Unstepped
<1>1. CASE BoothFlip
  <2>1. lastCheck' = lastCheck /\ booth'.since = real
    BY <1>1 DEF BoothFlip
  <2> QED  BY <1>0, <2>1 DEF Asking, Since
<1>2. CASE PollCached \/ Elapse \/ UNCHANGED vars \/ \E d \in Steps : ClockStep(d)
  <2>1. UNCHANGED <<booth, ks, decision, lastCheck, check, trouble>>
    BY <1>2 DEF PollCached, Elapse, vars, ClockStep
  <2> QED  BY <2>1 DEF Asking, Since, Soon, UnderWay, Started
<1>3. CASE Reboot \/ \E c \in Checks : CheckFails(c)
  <2>1. trouble' = real /\ lastCheck' \in {lastCheck, NeverChecked}
    BY <1>3 DEF Reboot, CheckFails
  <2>2. ~(lastCheck' > trouble')
    BY <1>0, <2>1 DEF NeverChecked
  <2> QED  BY <2>2 DEF Asking, Since
<1>4. ASSUME NEW c \in Checks, BeginCheck(c)
      PROVE  /\ Asking => Asking'
             /\ UNCHANGED <<booth, ks, decision>>
  BY <1>4, BegunInTime DEF BeginCheck
<1>5. ASSUME NEW c \in Checks, BoothAnswers(c)
      PROVE  /\ Asking => Asking'
             /\ Asking' \/ UNCHANGED <<booth, ks, decision>>
  <2>1. /\ UNCHANGED <<booth, ks, decision, lastCheck>> /\ trouble' \in {trouble, real}
        /\ check[c].phase = "asked"
    BY <1>5 DEF BoothAnswers
  <2>2. PICK lease \in Lease : check' = [check EXCEPT ![c] = Answered(c, lease)]
    BY <1>5, GenuineAnswers
  <2>3. \A d \in Checks : (UnderWay(d)' <=> UnderWay(d)) /\ Started(d)' = Started(d)
    BY <2>1, <2>2, CallAnswered
  <2>4. CASE trouble' = trouble
    BY <2>1, <2>3, <2>4 DEF Asking, Since, Soon
  <2>5. CASE trouble' = real
    BY <1>0, <2>1, <2>5 DEF Asking, Since
  <2> QED  BY <2>1, <2>4, <2>5
<1> QED  BY <1>1, <1>2, <1>3, <1>4, <1>5 DEF Next

(* The lease that arrives may be the one that the gate was asking for. *)
LEMMA AskingEnds ==
    ASSUME TypeOK, Asking, NEW c \in Checks, LeaseArrives(c)
    PROVE  Asking' \/ Since(Started(c))
<1>1. UNCHANGED <<booth, lastCheck, trouble>> /\ check' = [check EXCEPT ![c] = Idle]
  BY DEF LeaseArrives
<1>2. CASE ~Since(lastCheck)
  BY <1>1, <1>2 DEF Asking, Since
<1>3. ASSUME NEW d \in Checks, UnderWay(d), Since(Started(d)),
             Soon(Started(d), RefreshMs + PollMs)
      PROVE  Asking' \/ Since(Started(c))
  <2>1. CASE d = c
    BY <1>3, <2>1
  <2>2. CASE d # c
    <3>1. check'[d] = check[d]
      BY <1>1, <2>2, CallEnds
    <3> QED  BY <1>1, <1>3, <3>1 DEF Asking, Since, Soon, UnderWay, Started
  <2> QED  BY <2>1, <2>2
<1> QED  BY <1>2, <1>3 DEF Asking

(* What an undisturbed call brings is accepted. *)
LEMMA UndisturbedAnswers ==
    ASSUME Steps \subseteq {0}, TypeOK, Wall >= 0, Timely, Forward, Answers,
           NEW c \in Checks, LeaseArrives(c), Since(Started(c))
    PROVE  /\ ~Live(booth.generation) => Heard'
           /\ Live(booth.generation) /\ TimeoutMs < LeaseTtl => decision' = "allow"
<1> DEFINE lease == check[c].lease
<1>1. /\ lease \in Lease /\ Take(ApplyLease(ks, lease, Wall))
      /\ check[c].phase = "answered" /\ booth' = booth
  BY Evaluations DEF LeaseArrives
<1>2. /\ Wall = real /\ Wall \in Nat /\ ks \in KillClientState /\ ks.maxWallSeen <= Wall
      /\ real <= Started(c) + TimeoutMs /\ Started(c) \in Nat
      /\ TimeoutMs \in Nat /\ LeaseTtl \in Nat
  <2>1. UnderWay(c)
    BY <1>1 DEF UnderWay
  <2> QED  BY <2>1, Unstepped, TimesTyped DEF Forward, Timely
<1>3. /\ lease.box = "this" /\ lease.generation = booth.generation
      /\ lease.expires >= Started(c) + LeaseTtl /\ lease.expires \in Nat
  BY <1>1 DEF Answers, Genuine, Current, Lease
<1>4. ks.generation <= booth.generation /\ ks.pinnedBoxId \in {NoBox, "this"}
  BY DEF Answers
<1> HIDE DEF lease
<1>5. ks.generation \in Nat /\ booth.generation \in Nat
  BY TimesTyped, BoundsAssumption
<1>6. Bound(ks, lease)
  BY <1>3, <1>4, <1>5 DEF Bound
<1>7. ASSUME Live(booth.generation), TimeoutMs < LeaseTtl
      PROVE  decision' = "allow"
  <2>1. ~(lease.expires <= Wall)
    BY <1>2, <1>3, <1>7
  <2> QED  BY <1>1, <1>2, <1>3, <1>6, <1>7, <2>1, LeaseDoes
<1>8. ASSUME ~Live(booth.generation)
      PROVE  Heard'
  BY <1>1, <1>2, <1>3, <1>6, <1>8, LeaseDoes DEF Heard
<1> QED  BY <1>7, <1>8

(* A gate that has heard of the last flip, an off, is not talked out of it.*)
LEMMA HeardStays ==
    ASSUME TypeOK, Wall >= 0, Forward, Answers, ~Live(booth.generation), Heard,
           NEW c \in Checks, LeaseArrives(c)
    PROVE  Heard'
<1> DEFINE lease == check[c].lease
<1>1. /\ lease \in Lease /\ Take(ApplyLease(ks, lease, Wall))
      /\ check[c].phase = "answered" /\ booth' = booth
  BY Evaluations DEF LeaseArrives
<1>2. /\ Wall \in Nat /\ ks \in KillClientState /\ ks.maxWallSeen <= Wall
      /\ ks.generation \in Nat /\ booth.generation \in Nat
  BY TimesTyped, BoundsAssumption DEF Forward
<1>3. lease.generation <= booth.generation /\ lease.generation \in Nat
  BY <1>1 DEF Answers, Genuine, Lease
<1> HIDE DEF lease
<1>4. Bound(ks, lease) => lease.generation = booth.generation
  BY <1>2, <1>3 DEF Bound, Heard
<1> QED  BY <1>1, <1>2, <1>4, LeaseDoes DEF Heard

(* What both of the theorems below rest on. *)
Honest == TypeOK /\ Wall >= 0 /\ Timely /\ Forward /\ Answers /\ Polling

(* The invariants on which both bounds rest hold at the start.             *)
LEMMA InitHonest == Init => Honest
BY InitTypes, InitTimely, InitDead, InitHonour DEF Honest

(* And every step keeps them.                                              *)
LEMMA NextHonest ==
    ASSUME Steps \subseteq {0}, "foreign" \notin Faults, Honest, [Next]_vars
    PROVE  Honest'
<1>1. TypeOK' /\ Wall' >= 0 /\ Timely' /\ Forward' /\ Polling'
  BY NextTypes, NextTimely, NextForward, NextPolling DEF Honest
<1>2. Answers'
  <2>1. CASE Next
    BY <2>1, NextAnswers DEF Honest
  <2>2. CASE UNCHANGED vars
    BY <2>2 DEF vars, Honest, Answers, Genuine, Current, Since, Started
  <2> QED  BY <2>1, <2>2
<1> QED  BY <1>1, <1>2 DEF Honest

(* A box that can reach the control plane stops serving within a cache     *)
(* period, a poll and a call of the switch being turned off, of its own    *)
(* boot, of a call that failed and of an answer that was a replay, however *)
(* many calls are outstanding and whatever was or was not saved.           *)
THEOREM OffIsHonoured ==
    ASSUME Steps \subseteq {0}, "foreign" \notin Faults
    PROVE  Spec => []OffHonoured
<1> DEFINE OInv == Honest /\ (~Live(booth.generation) => Heard \/ Asking)
<1>1. Init => OInv
  BY InitHonest, InitHonour
<1>2. OInv /\ [Next]_vars => OInv'
  <2> SUFFICES ASSUME OInv, [Next]_vars PROVE OInv'
    OBVIOUS
  <2>1. Honest'
    BY NextHonest
  <2>2. CASE ~\E c \in Checks : LeaseArrives(c)
    <3>1. /\ Asking => Asking'
          /\ Asking' \/ UNCHANGED <<booth, ks, decision>>
      BY <2>2, AskingStays DEF Honest
    <3> QED  BY <2>1, <3>1 DEF Heard
  <2>3. ASSUME NEW c \in Checks, LeaseArrives(c)
        PROVE  OInv'
    <3>1. booth' = booth
      BY <2>3 DEF LeaseArrives
    <3>2. ASSUME ~Live(booth.generation), Heard
          PROVE  Heard'
      BY <2>3, <3>2, HeardStays DEF Honest
    <3>3. ASSUME ~Live(booth.generation), Asking
          PROVE  Heard' \/ Asking'
      BY <2>3, <3>3, AskingEnds, UndisturbedAnswers DEF Honest
    <3> QED  BY <2>1, <3>1, <3>2, <3>3
  <2> QED  BY <2>2, <2>3
<1>3. OInv => OffHonoured
  <2> SUFFICES ASSUME OInv, Undisturbed, ~Live(booth.generation), decision = "allow", ~Due
               PROVE  FALSE
    BY DEF OffHonoured, Serving
  <2>0. /\ Wall = real /\ real \in Nat /\ booth.since \in Nat /\ trouble \in Nat
        /\ lastCheck \in Int /\ {RefreshMs, TimeoutMs, PollMs} \subseteq Nat
        /\ \A c \in Checks : UnderWay(c) =>
              Started(c) \in Nat /\ real <= Started(c) + TimeoutMs
        /\ real > booth.since + RefreshMs + PollMs + TimeoutMs
        /\ real > trouble + RefreshMs + PollMs + TimeoutMs
    <3>1. /\ Wall = real /\ real \in Nat /\ booth.since \in Nat /\ trouble \in Nat
          /\ lastCheck \in Int /\ {RefreshMs, TimeoutMs, PollMs} \subseteq Nat
          /\ \A c \in Checks : UnderWay(c) =>
                Started(c) \in Nat /\ real <= Started(c) + TimeoutMs
      BY Unstepped DEF Honest, Timely
    <3> QED  BY <3>1 DEF Undisturbed, Staleness
  <2>1. Asking
    BY DEF Heard, Honest, Answers
  <2>2. CASE ~Since(lastCheck)
    BY <2>0, <2>2 DEF Since, Due
  <2>3. ASSUME NEW c \in Checks, UnderWay(c), Soon(Started(c), RefreshMs + PollMs)
        PROVE  FALSE
    BY <2>0, <2>3 DEF Soon
  <2> QED  BY <2>1, <2>2, <2>3 DEF Asking
<1> QED  BY <1>1, <1>2, <1>3, PTL DEF Spec

(* One call is under way at a time: its timeout is shorter than the period *)
(* of the cache (4 s against 5 s), or it is the only one.                  *)
OneAtATime == TimeoutMs < RefreshMs \/ \A c, d \in Checks : c = d

Latest == \A c \in Checks : UnderWay(c) => Started(c) = lastCheck

(* Where calls do not overlap, the last one begun is the last one heard.   *)
LEMMA NextLatest ==
    ASSUME Steps \subseteq {0}, OneAtATime, TypeOK, Wall >= 0, Timely, Forward, Latest,
           [Next]_vars
    PROVE  Latest'
<1>0. Wall = real /\ real \in Nat /\ lastCheck \in Int /\ {RefreshMs, TimeoutMs} \subseteq Nat
  BY Unstepped
<1>1. CASE BoothFlip \/ PollCached \/ Elapse \/ UNCHANGED vars \/ \E d \in Steps : ClockStep(d)
  BY <1>1 DEF BoothFlip, PollCached, Elapse, vars, ClockStep, Latest, UnderWay, Started
<1>2. CASE Reboot
  BY <1>2 DEF Reboot, Latest, UnderWay, Idle
<1>3. ASSUME NEW c \in Checks, BoothAnswers(c)
      PROVE  Latest'
  <2>1. PICK lease \in Lease : check' = [check EXCEPT ![c] = Answered(c, lease)]
    BY <1>3, LeasesSigned DEF BoothAnswers
  <2>2. /\ \A d \in Checks : (UnderWay(d)' <=> UnderWay(d)) /\ Started(d)' = Started(d)
        /\ lastCheck' = lastCheck
    BY <1>3, <2>1, CallAnswered DEF BoothAnswers
  <2> QED  BY <2>2 DEF Latest
<1>4. ASSUME NEW c \in Checks, BeginCheck(c)
      PROVE  Latest'
  <2>1. /\ \A d \in Checks : d # c => check'[d] = check[d]
        /\ Started(c)' = real /\ ~UnderWay(c) /\ lastCheck' = real
    BY <1>0, <1>4, CallBegins
  <2>2. ASSUME NEW d \in Checks, d # c, UnderWay(d)
        PROVE  FALSE
    <3>1. real <= lastCheck + TimeoutMs
      BY <2>2 DEF Timely, Latest
    <3>2. real - lastCheck >= RefreshMs
      BY <1>0, <1>4 DEF BeginCheck, Due
    <3>3. TimeoutMs < RefreshMs
      BY <2>2 DEF OneAtATime
    <3> QED  BY <1>0, <3>1, <3>2, <3>3
  <2>3. ASSUME NEW d \in Checks, UnderWay(d)'
        PROVE  d = c
    BY <2>1, <2>2, <2>3 DEF UnderWay
  <2> QED  BY <2>1, <2>3 DEF Latest
<1>5. ASSUME NEW c \in Checks, LeaseArrives(c) \/ CheckFails(c)
      PROVE  Latest'
  <2>1. check' = [check EXCEPT ![c] = Idle] /\ lastCheck' = lastCheck
    BY <1>5 DEF LeaseArrives, CheckFails
  <2>2. \A d \in Checks : UnderWay(d)' => UnderWay(d) /\ Started(d)' = Started(d)
    BY <2>1, CallEnds DEF Started
  <2> QED  BY <2>1, <2>2 DEF Latest
<1> QED  BY <1>1, <1>2, <1>3, <1>4, <1>5 DEF Next

(* And it serves again as soon after the switch is turned on, or the box   *)
(* has booted, provided that calls do not overtake each other and that a   *)
(* lease outlives the call that brings it.                                 *)
THEOREM LiveIsHonoured ==
    ASSUME Steps \subseteq {0}, "foreign" \notin Faults, OneAtATime, TimeoutMs < LeaseTtl
    PROVE  Spec => []LiveHonoured
<1> DEFINE LInv == Honest /\ Latest /\ (Live(booth.generation) => decision = "allow" \/ Asking)
<1>1. Init => LInv
  BY InitHonest, InitHonour DEF Latest
<1>2. LInv /\ [Next]_vars => LInv'
  <2> SUFFICES ASSUME LInv, [Next]_vars PROVE LInv'
    OBVIOUS
  <2>1. Honest' /\ Latest'
    BY NextHonest, NextLatest DEF Honest
  <2>2. CASE ~\E c \in Checks : LeaseArrives(c)
    <3>1. /\ Asking => Asking'
          /\ Asking' \/ UNCHANGED <<booth, ks, decision>>
      BY <2>2, AskingStays DEF Honest
    <3> QED  BY <2>1, <3>1
  <2>3. ASSUME NEW c \in Checks, LeaseArrives(c), Live(booth.generation)
        PROVE  decision' = "allow" \/ Asking'
    <3>1. CASE Since(lastCheck)
      <4>1. UnderWay(c)
        BY <2>3 DEF LeaseArrives, UnderWay
      <4>2. Since(Started(c))
        BY <3>1, <4>1 DEF Latest
      <4> QED  BY <2>3, <4>2, UndisturbedAnswers DEF Honest
    <3>2. CASE ~Since(lastCheck)
      BY <2>3, <3>2 DEF LeaseArrives, Asking, Since
    <3> QED  BY <3>1, <3>2
  <2>4. ASSUME NEW c \in Checks, LeaseArrives(c)
        PROVE  booth' = booth
    BY <2>4 DEF LeaseArrives
  <2> QED  BY <2>1, <2>2, <2>3, <2>4
<1>3. LInv => LiveHonoured
  <2> SUFFICES ASSUME LInv, Undisturbed, Live(booth.generation), Asking
               PROVE  FALSE
    BY DEF LiveHonoured
  <2>0. /\ real \in Nat /\ booth.since \in Nat /\ trouble \in Nat /\ polled \in Nat
        /\ lastCheck \in Int /\ {RefreshMs, TimeoutMs, PollMs} \subseteq Nat
        /\ real <= polled + PollMs
        /\ \A c \in Checks : UnderWay(c) =>
              Started(c) \in Nat /\ real <= Started(c) + TimeoutMs
        /\ real > booth.since + RefreshMs + PollMs + TimeoutMs
        /\ real > trouble + RefreshMs + PollMs + TimeoutMs
    <3>1. /\ real \in Nat /\ booth.since \in Nat /\ trouble \in Nat /\ polled \in Nat
          /\ lastCheck \in Int /\ {RefreshMs, TimeoutMs, PollMs} \subseteq Nat
          /\ real <= polled + PollMs
          /\ \A c \in Checks : UnderWay(c) =>
                Started(c) \in Nat /\ real <= Started(c) + TimeoutMs
      BY Unstepped DEF Honest, Timely
    <3> QED  BY <3>1 DEF Undisturbed, Staleness
  <2>1. CASE ~Since(lastCheck)
    <3>1. polled <= lastCheck + RefreshMs \/ polled <= trouble
      BY DEF Honest, Polling
    <3> QED  BY <2>0, <2>1, <3>1 DEF Since
  <2>2. ASSUME NEW c \in Checks, UnderWay(c), Soon(Started(c), RefreshMs + PollMs)
        PROVE  FALSE
    BY <2>0, <2>2 DEF Soon
  <2> QED  BY <2>1, <2>2 DEF Asking
<1> QED  BY <1>1, <1>2, <1>3, PTL DEF Spec
=============================================================================

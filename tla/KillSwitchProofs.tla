-------------------------- MODULE KillSwitchProofs --------------------------
(***************************************************************************)
(* What is proved of the kill switch for every period, clock step, number  *)
(* of outstanding calls and generation: the types, and, of a box whose     *)
(* state file can be written ("persist" is not among the faults), that an  *)
(* off that was accepted is lifted by a newer generation only, and that    *)
(* nothing is forgotten.                                                   *)
(***************************************************************************)
EXTENDS KillSwitch, TLAPS

(* The clock guard never goes back, and is all that it changes. *)
LEMMA SeenGuards ==
    ASSUME NEW state \in KillClientState, NEW now \in Nat
    PROVE  /\ Seen(state, now) \in KillClientState
           /\ Seen(state, now).maxWallSeen >= state.maxWallSeen
           /\ Seen(state, now).stickyOff = state.stickyOff
           /\ Seen(state, now).generation = state.generation
           /\ Seen(state, now).graceDeadline = state.graceDeadline
           /\ Seen(state, now).pinnedBoxId = state.pinnedBoxId
BY DEF Seen, KillClientState

(* What a lease that is accepted leaves: its generation and its box, the   *)
(* clock as it was seen, and the window, which only a live one opens again.*)
LEMMA AcceptedStates ==
    ASSUME NEW base \in KillClientState, NEW lease \in Lease
    PROVE  /\ Latched(base, lease) =
                  [stickyOff |-> TRUE, generation |-> lease.generation,
                   graceDeadline |-> base.graceDeadline, maxWallSeen |-> base.maxWallSeen,
                   pinnedBoxId |-> lease.box]
           /\ Renewed(base, lease) =
                  [stickyOff |-> FALSE, generation |-> lease.generation,
                   graceDeadline |-> base.maxWallSeen + GraceMs, maxWallSeen |-> base.maxWallSeen,
                   pinnedBoxId |-> lease.box]
           /\ Latched(base, lease) \in KillClientState
           /\ Renewed(base, lease) \in KillClientState
<1>1. /\ lease.box \in Boxes /\ lease.generation \in 0 .. MaxGeneration
      /\ base.graceDeadline \in Nat /\ base.maxWallSeen \in Nat
      /\ base.maxWallSeen + GraceMs \in Nat
  BY PeriodsAssumption, BoundsAssumption DEF Lease, KillClientState
<1>2. ASSUME NEW st, st = Latched(base, lease)
      PROVE  st = [stickyOff |-> TRUE, generation |-> lease.generation,
                   graceDeadline |-> base.graceDeadline, maxWallSeen |-> base.maxWallSeen,
                   pinnedBoxId |-> lease.box]
  BY <1>2 DEF Latched, KillClientState
<1>3. ASSUME NEW st, st = Renewed(base, lease)
      PROVE  st = [stickyOff |-> FALSE, generation |-> lease.generation,
                   graceDeadline |-> base.maxWallSeen + GraceMs,
                   maxWallSeen |-> base.maxWallSeen, pinnedBoxId |-> lease.box]
  BY <1>3 DEF Renewed, KillClientState
<1>4. /\ Latched(base, lease) =
            [stickyOff |-> TRUE, generation |-> lease.generation,
             graceDeadline |-> base.graceDeadline, maxWallSeen |-> base.maxWallSeen,
             pinnedBoxId |-> lease.box]
      /\ Renewed(base, lease) =
            [stickyOff |-> FALSE, generation |-> lease.generation,
             graceDeadline |-> base.maxWallSeen + GraceMs, maxWallSeen |-> base.maxWallSeen,
             pinnedBoxId |-> lease.box]
  BY ONLY <1>2, <1>3
<1>5. Latched(base, lease) \in KillClientState /\ Renewed(base, lease) \in KillClientState
  BY <1>1, <1>4 DEF KillClientState
<1> QED  BY ONLY <1>4, <1>5

(* No lease at all: the state only sees the time, and "allow" needs a      *)
(* latch that is open and a window that was opened.                        *)
LEMMA UnreachableEvaluation ==
    ASSUME NEW state \in KillClientState, NEW now \in Nat
    PROVE  LET ev == ApplyUnreachable(state, now)
           IN  /\ ev.state = Seen(state, now)
               /\ ev.decision \in {"allow", "block"}
               /\ ev.decision = "allow" => ~state.stickyOff /\ state.graceDeadline > 0
<1> DEFINE base == Seen(state, now)
<1>1. base \in KillClientState /\ base.stickyOff = state.stickyOff
         /\ base.graceDeadline = state.graceDeadline
  BY SeenGuards
<1>2. GraceDecision(base) \in {"allow", "block"}
  BY DEF GraceDecision
<1>3. GraceDecision(base) = "allow" => ~base.stickyOff /\ base.graceDeadline > 0
  <2> HIDE DEF base
  <2> QED  BY <1>1 DEF GraceDecision, KillClientState
<1> QED  BY <1>1, <1>2, <1>3 DEF ApplyUnreachable

(* A lease latches, renews, or leaves the state as it was but for the time.*)
LEMMA LeaseEvaluation ==
    ASSUME NEW state \in KillClientState, NEW lease \in Lease, NEW now \in Nat
    PROVE  LET ev == ApplyLease(state, lease, now)
               base == Seen(state, now)
           IN  \/ /\ Bound(base, lease) /\ ~Live(lease.generation)
                  /\ ev = [state |-> Latched(base, lease), decision |-> "block"]
               \/ /\ Bound(base, lease) /\ Live(lease.generation)
                  /\ ev = [state |-> Renewed(base, lease), decision |-> "allow"]
               \/ ev = ApplyUnreachable(state, now)
BY DEF ApplyLease, ApplyUnreachable

-----------------------------------------------------------------------------
(* A call that was asked may be answered; one that was answered has a lease.*)
LEMMA AnswersAreCalls ==
    ASSUME TypeOK, NEW c \in Checks, UnderWay(c)
    PROVE  /\ \A lease \in Lease : Answered(c, lease) \in Calls
           /\ check[c].phase = "answered" => check[c].lease \in Lease
<1>1. check[c] \in Calls /\ check[c].phase # "idle"
  BY DEF TypeOK, UnderWay
<1>2. \/ check[c] \in [phase : {"asked"}, started : 0 .. MaxTime]
      \/ check[c] \in [phase : {"answered"}, started : 0 .. MaxTime, lease : Lease]
  BY <1>1 DEF Calls, Idle
<1>3. check[c].started \in 0 .. MaxTime
  BY <1>2
<1>4. \A lease \in Lease : Answered(c, lease) \in Calls
  BY <1>3 DEF Answered, Calls
<1>5. check[c].phase = "answered" => check[c].lease \in Lease
  BY <1>2
<1> QED  BY <1>4, <1>5

(* Whatever the control plane sends, or sends again, is a lease. *)
LEMMA LeasesSigned ==
    ASSUME TypeOK
    PROVE  /\ [box |-> "this", generation |-> booth.generation, expires |-> real + LeaseTtl] \in Lease
           /\ Replays \subseteq Lease
           /\ Misdelivered \subseteq Lease
           /\ real + LeaseTtl \in Nat
<1>1. booth.generation \in 1 .. MaxGeneration /\ real + LeaseTtl \in Nat
  BY PeriodsAssumption, BoundsAssumption DEF TypeOK
<1>2. Replays \subseteq Lease
  BY <1>1, BoundsAssumption DEF Replays, Lease, Boxes, TypeOK
<1>3. Misdelivered \subseteq Lease
  BY <1>1 DEF Misdelivered, Lease, Boxes
<1> QED  BY <1>1, <1>2, <1>3 DEF Lease, Boxes

(* Whatever is evaluated, the outcome has its type, and so has the file.   *)
LEMMA TakeTypes ==
    ASSUME TypeOK, Wall >= 0, NEW state \in KillClientState,
           \/ Take(ApplyUnreachable(state, Wall))
           \/ \E lease \in Lease : Take(ApplyLease(state, lease, Wall))
    PROVE  ks' \in KillClientState /\ file' \in KillClientState /\ decision' \in {"allow", "block"}
<1>1. Wall \in Nat
  BY StepsAssumption, BoundsAssumption DEF TypeOK, Wall
<1>2. ASSUME NEW evaluation, evaluation.state \in KillClientState,
             evaluation.decision \in {"allow", "block"}, Take(evaluation)
      PROVE  /\ ks' \in KillClientState /\ file' \in KillClientState
             /\ decision' \in {"allow", "block"}
  BY <1>2 DEF Take, TypeOK
<1> DEFINE base == Seen(state, Wall)
<1>3. base \in KillClientState
  BY <1>1, SeenGuards
<1>4. /\ ApplyUnreachable(state, Wall).state = base
      /\ ApplyUnreachable(state, Wall).decision \in {"allow", "block"}
  BY <1>1, UnreachableEvaluation
<1> HIDE DEF base
<1>5. ASSUME NEW lease \in Lease
      PROVE  Latched(base, lease) \in KillClientState /\ Renewed(base, lease) \in KillClientState
  BY <1>3, AcceptedStates
<1>6. ASSUME NEW lease \in Lease
      PROVE  /\ ApplyLease(state, lease, Wall).state \in KillClientState
             /\ ApplyLease(state, lease, Wall).decision \in {"allow", "block"}
  <2>1. \/ ApplyLease(state, lease, Wall) = [state |-> Latched(base, lease), decision |-> "block"]
        \/ ApplyLease(state, lease, Wall) = [state |-> Renewed(base, lease), decision |-> "allow"]
        \/ ApplyLease(state, lease, Wall) = ApplyUnreachable(state, Wall)
    BY <1>1, LeaseEvaluation DEF base
  <2> QED  BY <1>3, <1>4, <1>5, <2>1
<1> QED  BY <1>2, <1>3, <1>4, <1>6

(* A box that has never heard the control plane is well typed.             *)
LEMMA InitTypes == Init => TypeOK /\ Wall >= 0
<1> SUFFICES ASSUME Init PROVE TypeOK /\ Wall >= 0
  OBVIOUS
<1> USE PeriodsAssumption, BoundsAssumption DEF Init
<1>1. ks \in KillClientState /\ file \in KillClientState
  BY DEF InitialKillState, KillClientState
<1>2. TypeOK
  BY <1>1 DEF TypeOK, NeverChecked, Calls
<1>3. Wall >= 0
  BY DEF Wall
<1> QED  BY <1>2, <1>3

(* Every step keeps the types, failing saves and all. *)
LEMMA NextTypes ==
    ASSUME TypeOK, Wall >= 0, [Next]_vars
    PROVE  TypeOK' /\ Wall' >= 0
<1> USE PeriodsAssumption, StepsAssumption, BoundsAssumption
<1>0. ks \in KillClientState /\ file \in KillClientState
  BY DEF TypeOK
<1>1. CASE BoothFlip
  <2>1. booth' \in [generation : 1 .. MaxGeneration, since : 0 .. MaxTime]
    <3>1. booth.generation \in 1 .. MaxGeneration /\ real \in 0 .. MaxTime
      BY DEF TypeOK
    <3>2. booth.generation + 1 \in 1 .. MaxGeneration
      BY <1>1, <3>1 DEF BoothFlip
    <3> QED  BY <1>1, <3>1, <3>2 DEF BoothFlip
  <2> QED  BY <1>1, <2>1 DEF BoothFlip, TypeOK, Wall
<1>2. CASE PollCached
  BY <1>2 DEF PollCached, TypeOK, Wall
<1>3. CASE Elapse
  <2>0. real \in 0 .. MaxTime /\ skew \in Steps \cup {0} /\ real < MaxTime
        /\ real' = real + 1 /\ UNCHANGED <<skew, booth, ks, file, decision, lastCheck, check,
                                           polled, trouble, signed, offGen>>
    BY ONLY TypeOK, <1>3, BoundsAssumption DEF Elapse, TypeOK
  <2>1. TypeOK'
    <3>1. real' \in 0 .. MaxTime
      BY <2>0, BoundsAssumption
    <3> QED  BY ONLY TypeOK, <2>0, <3>1 DEF TypeOK
  <2>2. Wall' >= 0
    BY <2>0, BoundsAssumption DEF Wall
  <2> QED  BY <2>1, <2>2
<1>4. CASE Reboot
  <2>1. ks' \in KillClientState /\ file' \in KillClientState /\ decision' \in {"allow", "block"}
    BY <1>0, <1>4, TakeTypes DEF Reboot
  <2> QED  BY <1>4, <2>1 DEF Reboot, TypeOK, Calls, NeverChecked, Wall
<1>5. ASSUME NEW d \in Steps, ClockStep(d)
      PROVE  TypeOK' /\ Wall' >= 0
  BY <1>5 DEF ClockStep, TypeOK, Wall
<1>6. ASSUME NEW c \in Checks, BoothAnswers(c)
      PROVE  TypeOK' /\ Wall' >= 0
  <2>0. UnderWay(c)
    BY <1>6 DEF BoothAnswers, UnderWay
  <2>1. PICK lease \in Lease : check' = [check EXCEPT ![c] = Answered(c, lease)]
    BY <1>6, LeasesSigned DEF BoothAnswers
  <2>2. signed' \in [1 .. MaxGeneration -> Nat]
    BY <1>6, LeasesSigned DEF BoothAnswers, TypeOK
  <2>3. check' \in [Checks -> Calls]
    BY <1>6, <2>0, <2>1, AnswersAreCalls DEF BoothAnswers, TypeOK
  <2> QED  BY <1>6, <2>2, <2>3 DEF BoothAnswers, TypeOK, Wall
<1>7. ASSUME NEW c \in Checks, BeginCheck(c)
      PROVE  TypeOK' /\ Wall' >= 0
  <2>0. /\ lastCheck' = Wall /\ check' = [check EXCEPT ![c] = Asked]
        /\ polled' \in {polled, real}
        /\ UNCHANGED <<real, skew, booth, ks, decision, file, trouble, signed, offGen>>
    BY <1>7 DEF BeginCheck
  <2>1. check' \in [Checks -> Calls] /\ polled' \in 0 .. MaxTime
    BY ONLY TypeOK, <2>0 DEF TypeOK, Calls, Asked
  <2>2. lastCheck' \in Int
    BY <2>0 DEF TypeOK, Wall
  <2>3. TypeOK'
    BY ONLY TypeOK, <2>0, <2>1, <2>2 DEF TypeOK
  <2> QED  BY <2>0, <2>3 DEF Wall
<1>8. ASSUME NEW c \in Checks, LeaseArrives(c)
      PROVE  TypeOK' /\ Wall' >= 0
  <2>1. check[c].lease \in Lease
    BY <1>8, AnswersAreCalls DEF LeaseArrives, UnderWay
  <2>2. ks' \in KillClientState /\ file' \in KillClientState /\ decision' \in {"allow", "block"}
    BY <1>0, <1>8, <2>1, TakeTypes DEF LeaseArrives
  <2>3. offGen' \in 0 .. MaxGeneration
    BY <1>8, <2>2 DEF LeaseArrives, TypeOK, KillClientState
  <2> QED  BY <1>8, <2>2, <2>3 DEF LeaseArrives, TypeOK, Calls, Wall
<1>9. ASSUME NEW c \in Checks, CheckFails(c)
      PROVE  TypeOK' /\ Wall' >= 0
  <2>1. ks' \in KillClientState /\ file' \in KillClientState /\ decision' \in {"allow", "block"}
    BY <1>0, <1>9, TakeTypes DEF CheckFails
  <2> QED  BY <1>9, <2>1 DEF CheckFails, TypeOK, Calls, Wall
<1>10. CASE UNCHANGED vars
  BY <1>10 DEF vars, TypeOK, Wall
<1> QED  BY <1>1, <1>2, <1>3, <1>4, <1>5, <1>6, <1>7, <1>8, <1>9, <1>10 DEF Next

(* Types: what the client keeps and what each call under way will bring    *)
(* are leases of the fleet, and the gate only ever allows or blocks,       *)
(* whatever may go wrong.                                                  *)
THEOREM GateTypes == Spec => []TypeOK
<1> DEFINE Typed == TypeOK /\ Wall >= 0
<1>1. Init => Typed
  BY InitTypes
<1>2. Typed /\ [Next]_vars => Typed'
  BY NextTypes
<1>3. Typed => TypeOK
  OBVIOUS
<1> QED  BY <1>1, <1>2, <1>3, PTL DEF Spec

-----------------------------------------------------------------------------
(* The latch, the file and the floor.                                      *)

(* The latch, the floor and the file agree on a box that starts fresh.     *)
LEMMA InitKInv == Init => KInv
<1> SUFFICES ASSUME Init PROVE KInv
  OBVIOUS
<1>1. Tidy /\ Floored
  BY DEF Init, Tidy, Floored, InitialKillState
<1> QED  BY <1>1, InitTypes DEF Init, KInv

(* An evaluation keeps the invariant's part of the gate and its file.      *)
LEMMA UnreachableKeeps ==
    ASSUME KInv, "persist" \notin Faults, Take(ApplyUnreachable(ks, Wall)), offGen' = offGen
    PROVE  /\ ks' \in KillClientState /\ file' = ks' /\ decision' \in {"allow", "block"}
           /\ Tidy' /\ Floored'
           /\ decision' = "allow" => ks'.generation > 0 /\ ~ks'.stickyOff
           /\ ks'.generation = ks.generation /\ ks'.pinnedBoxId = ks.pinnedBoxId
           /\ ks'.maxWallSeen >= ks.maxWallSeen
<1>1. ks \in KillClientState /\ Wall \in Nat
  BY StepsAssumption, BoundsAssumption DEF KInv, TypeOK, Wall
<1>2. /\ ks' = Seen(ks, Wall)
      /\ decision' \in {"allow", "block"}
      /\ decision' = "allow" => ~ks.stickyOff /\ ks.graceDeadline > 0
      /\ file' = ks'
  BY <1>1, UnreachableEvaluation DEF Take
<1>3. /\ ks' \in KillClientState
      /\ ks'.maxWallSeen >= ks.maxWallSeen
      /\ ks'.stickyOff = ks.stickyOff
      /\ ks'.generation = ks.generation
      /\ ks'.graceDeadline = ks.graceDeadline
      /\ ks'.pinnedBoxId = ks.pinnedBoxId
  BY <1>1, <1>2, SeenGuards
<1>4. Tidy' /\ Floored'
  BY <1>3 DEF KInv, Tidy, Floored
<1>5. decision' = "allow" => ks'.generation > 0 /\ ~ks'.stickyOff
  BY <1>1, <1>2, <1>3 DEF KInv, Tidy, KillClientState
<1> QED  BY <1>2, <1>3, <1>4, <1>5

(* A lease that is accepted leaves the gate in order and takes nothing back. *)
LEMMA LeaseKeeps ==
    ASSUME KInv, "persist" \notin Faults, NEW lease \in Lease,
           Take(ApplyLease(ks, lease, Wall)),
           offGen' = IF ks'.stickyOff /\ ks'.generation > offGen THEN ks'.generation ELSE offGen
    PROVE  /\ ks' \in KillClientState /\ file' = ks' /\ decision' \in {"allow", "block"}
           /\ Tidy' /\ Floored' /\ offGen' \in 0 .. MaxGeneration
           /\ decision' = "allow" => ks'.generation > 0 /\ ~ks'.stickyOff
           /\ ks'.generation >= ks.generation
           /\ ks.pinnedBoxId # NoBox => ks'.pinnedBoxId = ks.pinnedBoxId
           /\ ks'.maxWallSeen >= ks.maxWallSeen
<1>1. ks \in KillClientState /\ Wall \in Nat /\ offGen \in 0 .. MaxGeneration
  BY StepsAssumption, BoundsAssumption DEF KInv, TypeOK, Wall
<1> DEFINE base == Seen(ks, Wall)
<1>2. /\ base \in KillClientState
      /\ base.maxWallSeen >= ks.maxWallSeen
      /\ base.stickyOff = ks.stickyOff
      /\ base.generation = ks.generation
      /\ base.graceDeadline = ks.graceDeadline
      /\ base.pinnedBoxId = ks.pinnedBoxId
  BY <1>1, SeenGuards
<1> HIDE DEF base
<1>3. CASE /\ Bound(base, lease) /\ ~Live(lease.generation)
           /\ ApplyLease(ks, lease, Wall) = [state |-> Latched(base, lease), decision |-> "block"]
  <2>1. ks' = Latched(base, lease) /\ decision' = "block" /\ file' = ks'
    BY <1>3 DEF Take
  <2>2. /\ lease.generation \in 1 .. MaxGeneration /\ lease.generation >= ks.generation
        /\ lease.box \in Boxes
        /\ ks.pinnedBoxId # NoBox => lease.box = ks.pinnedBoxId
    BY <1>2, <1>3 DEF Bound, Lease
  <2>3. /\ ks' \in KillClientState
        /\ ks'.stickyOff = TRUE
        /\ ks'.generation = lease.generation
        /\ ks'.maxWallSeen = base.maxWallSeen
        /\ ks'.pinnedBoxId = lease.box
    <3>1. ks' = [stickyOff |-> TRUE, generation |-> lease.generation,
                 graceDeadline |-> base.graceDeadline, maxWallSeen |-> base.maxWallSeen,
                 pinnedBoxId |-> lease.box]
      BY <1>2, <2>1 DEF Latched, KillClientState
    <3>2. base.graceDeadline \in Nat /\ base.maxWallSeen \in Nat
      BY <1>2 DEF KillClientState
    <3> QED  BY <2>2, <3>1, <3>2 DEF KillClientState
  <2>4. Tidy'
    BY <1>3, <2>2, <2>3 DEF Tidy
  <2>5. Floored' /\ offGen' \in 0 .. MaxGeneration
    BY <1>1, <1>3, <2>2, <2>3 DEF KInv, Floored, KillClientState
  <2> QED  BY <1>1, <1>2, <2>1, <2>2, <2>3, <2>4, <2>5 DEF KillClientState
<1>4. CASE /\ Bound(base, lease) /\ Live(lease.generation)
           /\ ApplyLease(ks, lease, Wall) = [state |-> Renewed(base, lease), decision |-> "allow"]
  <2>1. ks' = Renewed(base, lease) /\ decision' = "allow" /\ file' = ks'
    BY <1>4 DEF Take
  <2>2. /\ lease.generation \in 1 .. MaxGeneration /\ lease.generation >= ks.generation
        /\ lease.box \in Boxes
        /\ ks.pinnedBoxId # NoBox => lease.box = ks.pinnedBoxId
    BY <1>2, <1>4 DEF Bound, Lease
  <2>3. /\ ks' \in KillClientState
        /\ ks'.stickyOff = FALSE
        /\ ks'.generation = lease.generation
        /\ ks'.maxWallSeen = base.maxWallSeen
        /\ ks'.pinnedBoxId = lease.box
    <3>1. ks' = [stickyOff |-> FALSE, generation |-> lease.generation,
                 graceDeadline |-> base.maxWallSeen + GraceMs, maxWallSeen |-> base.maxWallSeen,
                 pinnedBoxId |-> lease.box]
      BY <1>2, <2>1 DEF Renewed, KillClientState
    <3>2. base.graceDeadline \in Nat /\ base.maxWallSeen \in Nat
      BY <1>2 DEF KillClientState
    <3> QED  BY <2>2, <3>1, <3>2, PeriodsAssumption DEF KillClientState
  <2>4. Tidy'
    BY <1>4, <2>2, <2>3 DEF Tidy
  <2>5. Floored' /\ offGen' \in 0 .. MaxGeneration
    BY <1>1, <1>4, <2>2, <2>3 DEF KInv, Floored, KillClientState
  <2> QED  BY <1>1, <1>2, <2>1, <2>2, <2>3, <2>4, <2>5 DEF KillClientState
<1>5. CASE ApplyLease(ks, lease, Wall) = ApplyUnreachable(ks, Wall)
  <2>1. ks' = base
    BY <1>1, <1>5, UnreachableEvaluation DEF Take, base
  <2>2. offGen' = offGen
    BY <1>1, <1>2, <2>1 DEF KInv, Tidy, Floored, KillClientState
  <2> QED  BY <1>1, <1>5, <2>2, UnreachableKeeps DEF KillClientState
<1> QED  BY <1>1, <1>3, <1>4, <1>5, LeaseEvaluation DEF base

-----------------------------------------------------------------------------
(* What the steps that evaluate nothing leave alone. *)
Gate == <<ks, decision, file, offGen>>

(* What does not touch the gate or its file keeps the invariant.           *)
LEMMA GateStays ==
    ASSUME KInv, Gate' = Gate, TypeOK', Wall' >= 0
    PROVE  KInv'
BY DEF KInv, Gate, Tidy, Floored

(* Every step keeps the invariant of the gate.                             *)
LEMMA NextKInv ==
    ASSUME KInv, "persist" \notin Faults, [Next]_vars
    PROVE  KInv'
<1>1. TypeOK /\ Wall >= 0 /\ TypeOK' /\ Wall' >= 0
  BY NextTypes DEF KInv
<1>2. CASE \/ BoothFlip \/ PollCached \/ Elapse \/ UNCHANGED vars
           \/ \E d \in Steps : ClockStep(d)
           \/ \E c \in Checks : BoothAnswers(c) \/ BeginCheck(c)
  BY <1>1, <1>2, GateStays DEF Gate, BoothFlip, PollCached, Elapse, vars, ClockStep, BoothAnswers,
     BeginCheck
<1>3. CASE Reboot
  <2>1. Take(ApplyUnreachable(ks, Wall)) /\ offGen' = offGen
    BY <1>3 DEF Reboot, KInv
  <2> QED  BY <1>1, <2>1, UnreachableKeeps DEF KInv
<1>4. ASSUME NEW c \in Checks, LeaseArrives(c)
      PROVE  KInv'
  <2>1. check[c].lease \in Lease
    BY <1>1, <1>4, AnswersAreCalls DEF LeaseArrives, UnderWay
  <2>2. Take(ApplyLease(ks, check[c].lease, Wall))
    BY <1>4 DEF LeaseArrives
  <2>3. offGen' = IF ks'.stickyOff /\ ks'.generation > offGen THEN ks'.generation ELSE offGen
    BY <1>4 DEF LeaseArrives
  <2> QED  BY <1>1, <2>1, <2>2, <2>3, LeaseKeeps DEF KInv
<1>5. ASSUME NEW c \in Checks, CheckFails(c)
      PROVE  KInv'
  <2>1. Take(ApplyUnreachable(ks, Wall)) /\ offGen' = offGen
    BY <1>5 DEF CheckFails
  <2> QED  BY <1>1, <2>1, UnreachableKeeps DEF KInv
<1> QED  BY <1>2, <1>3, <1>4, <1>5 DEF Next

-----------------------------------------------------------------------------
(* The inductive invariant of the gate and of its state file. *)
THEOREM GateInvariance ==
    ASSUME "persist" \notin Faults
    PROVE  Spec => []KInv
<1>1. KInv /\ [Next]_vars => KInv'
  BY NextKInv
<1> QED  BY <1>1, InitKInv, PTL DEF Spec

(* An off that was accepted is lifted by a newer generation only, whatever *)
(* is replayed, misdelivered, delayed, rebooted or done to the clock.      *)
THEOREM OffIsSticky ==
    ASSUME "persist" \notin Faults
    PROVE  Spec => []OffLatches
<1>1. KInv => OffLatches
  BY DEF KInv, Tidy, Floored, OffLatches, TypeOK, KillClientState
<1> QED  BY <1>1, GateInvariance, PTL

(* The replay floor, the pinned identity and the guarded clock never go    *)
(* back, reboots included.                                                 *)
THEOREM NothingIsForgotten ==
    ASSUME "persist" \notin Faults
    PROVE  Spec => NothingForgotten
<1> DEFINE Kept == /\ ks'.generation >= ks.generation
                   /\ ks'.maxWallSeen >= ks.maxWallSeen
                   /\ ks.pinnedBoxId # NoBox => ks'.pinnedBoxId = ks.pinnedBoxId
<1>1. KInv /\ [Next]_vars => [Kept]_vars
  <2> SUFFICES ASSUME KInv, Next PROVE Kept
    OBVIOUS
  <2>1. ks \in KillClientState
    BY DEF KInv, TypeOK
  <2>2. CASE ks' = ks
    BY <2>1, <2>2 DEF KillClientState
  <2>3. CASE Reboot
    <3>1. Take(ApplyUnreachable(ks, Wall)) /\ offGen' = offGen
      BY <2>3 DEF Reboot, KInv
    <3> QED  BY <2>1, <3>1, UnreachableKeeps DEF KillClientState
  <2>4. ASSUME NEW c \in Checks, LeaseArrives(c)
        PROVE  Kept
    <3>1. check[c].lease \in Lease
      BY <2>4, AnswersAreCalls DEF LeaseArrives, KInv, UnderWay
    <3> QED  BY <2>4, <3>1, LeaseKeeps DEF LeaseArrives
  <2>5. ASSUME NEW c \in Checks, CheckFails(c)
        PROVE  Kept
    <3>1. Take(ApplyUnreachable(ks, Wall)) /\ offGen' = offGen
      BY <2>5 DEF CheckFails
    <3> QED  BY <2>1, <3>1, UnreachableKeeps DEF KillClientState
  <2> QED  BY <2>2, <2>3, <2>4, <2>5 DEF Next, BoothFlip, PollCached, Elapse, ClockStep,
                                          BoothAnswers, BeginCheck
<1> QED  BY <1>1, GateInvariance, PTL DEF Spec, NothingForgotten
=============================================================================

--------------------------- MODULE SupervisedBox ----------------------------
(***************************************************************************)
(* What the updater promises of the app it supervises, with no state file, *)
(* no docker and no crash in sight: the box is recorded at one release; a  *)
(* newer one may be put on trial; the app that is up is the recorded one or*)
(* one on trial; a release that is up may be accepted, which ends every    *)
(* trial; and a trial is withdrawn only once the recorded release is up.   *)
(***************************************************************************)
EXTENDS Naturals

CONSTANTS Releases, First

VARIABLES
    current,    \* the recorded release
    live,       \* the release that is up
    trial       \* the releases on trial

Init ==
    /\ current = First
    /\ live = First
    /\ trial = {}

Begin(v) ==
    /\ v > current
    /\ trial' = trial \cup {v}
    /\ UNCHANGED <<current, live>>

Launch ==
    /\ live' \in trial \cup {current}
    /\ UNCHANGED <<current, trial>>

Accept ==
    /\ live \in trial
    /\ current' = live
    /\ trial' = {}
    /\ UNCHANGED live

Withdraw ==
    /\ live = current
    /\ trial' = {}
    /\ UNCHANGED <<current, live>>

Next == (\E v \in Releases : Begin(v)) \/ Launch \/ Accept \/ Withdraw

Spec == Init /\ [][Next]_<<current, live, trial>>
=============================================================================

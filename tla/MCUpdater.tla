----------------------------- MODULE MCUpdater ------------------------------
(* Values of the updater's constants for TLC. *)
EXTENDS Updater

Quiet(write, collab) == [writeOk |-> write, collabOk |-> collab, busy |-> FALSE]
Busy == [writeOk |-> FALSE, collabOk |-> "unjudged", busy |-> TRUE]

(* An all-busy window, healthy ones with and without a busy sample or an   *)
(* unjudged collab half, and one broken in either half.                    *)
DecisiveWindows ==
    {{Busy, Quiet(TRUE, "ok")},
     {Quiet(TRUE, "unjudged")},
     {Quiet(TRUE, "ok"), Quiet(FALSE, "ok")},
     {Quiet(TRUE, "ok"), Quiet(TRUE, "failed")}}
AnyWindow == DecisiveWindows \cup {{Busy}}

(* Every list that omits or yanks at most one release. *)
AllListed == [listed |-> Versions, yanked |-> {}]
AnyFeed ==
    {AllListed} \cup {[listed |-> Versions \ {v}, yanked |-> {}] : v \in Versions}
                \cup {[listed |-> Versions, yanked |-> {v}] : v \in Versions}
SteadyFeed == {AllListed}

AnyDesired == Versions \cup {NoVersion}
=============================================================================

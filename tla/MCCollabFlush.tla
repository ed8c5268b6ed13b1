--------------------------- MODULE MCCollabFlush ---------------------------
(* The open document on small instances: who is in the room, what was there *)
(* when it opened, and how much goes wrong.                                 *)
EXTENDS CollabFlush, TLC

CONSTANTS a, b, o, x, y, e

MCPen == o :> Outside @@ x :> a @@ y :> b @@ e :> Outside

\* One person, other writers, an ingest and a flush one after the other.
Alone ==
    [people |-> {a}, unsaved |-> {}, known |-> TRUE, crossing |-> FALSE,
     overlaps |-> FALSE, fragile |-> {}, errors |-> 0, strikes |-> 1,
     outside |-> 2, revoked |-> 0]

\* Other writers often enough for a contribution to lose every attempt.
Battered ==
    [Alone EXCEPT !.outside = 3, !.strikes = 0]

\* Two people and no other writer, with failing calls and a revoked right.
Two ==
    [Alone EXCEPT !.people = {a, b}, !.fragile = {"rights", "write"},
                  !.errors = 1, !.outside = 0, !.revoked = 1]

\* Text of an earlier session, and a base that has to be read first.
Resumed ==
    [Two EXCEPT !.unsaved = {x}, !.known = FALSE, !.fragile = {"write"},
                !.revoked = 0]

\* Two people, and another writer between two contributions.
Pair ==
    [Alone EXCEPT !.people = {a, b}, !.outside = 1]

\* As the code interleaves them: two people, another writer, refused merges.
Crossing ==
    [Pair EXCEPT !.crossing = TRUE, !.overlaps = TRUE, !.strikes = 0]

\* The same with one person, who takes words out as well.
Striking ==
    [Crossing EXCEPT !.people = {a}, !.strikes = 1]

\* One person whose right may be revoked, text of an earlier session, a base
\* that has to be read first, and reads that fail.
Faulty ==
    [Crossing EXCEPT !.people = {a}, !.unsaved = {x}, !.fragile = {"read", "reread", "watch"},
                     !.errors = 1, !.revoked = 1, !.known = FALSE]

All == {Alone, Battered, Two, Resumed, Crossing, Striking, Faulty}
Unnoticed == {Pair}
=============================================================================

--------------------------- MODULE MCCollabRooms ---------------------------
(* The life of a document's room on small instances. *)
EXTENDS CollabRooms

CONSTANTS u, v, o, x, e

\* A box that dies, with other writers who only add.
Dying ==
    [people |-> {u}, strikes |-> 1, adds |-> 1, cuts |-> 0, crashes |-> 1, trashes |-> 0,
     narrows |-> 0, budgets |-> 0, offs |-> 0,
     overlaps |-> FALSE, spans |-> FALSE, fragile |-> {}, errors |-> 0]

\* One call that fails and a blob that may not merge, and a box that dies.
Failures ==
    [Dying EXCEPT !.strikes = 0, !.fragile = {"save", "flush", "quiet"},
                  !.errors = 1, !.overlaps = TRUE]

\* A box that lives, with other writers, a narrowed audience and too many rooms.
Living ==
    [Dying EXCEPT !.people = {u, v}, !.strikes = 0, !.cuts = 1, !.crashes = 0, !.narrows = 1,
                  !.budgets = 1]

\* The document is deleted under the people in it.
Trashed ==
    [Dying EXCEPT !.people = {u, v}, !.crashes = 0, !.trashes = 1]

\* A row that cannot be removed, and nobody who takes words out outside.
LeftOver ==
    [Dying EXCEPT !.crashes = 0, !.narrows = 1, !.fragile = {"remove"}, !.errors = 1]

\* A room that is evicted with somebody in it, on a box that dies, and whose last
\* flush may fail.
Crowded ==
    [Dying EXCEPT !.strikes = 0, !.budgets = 1, !.fragile = {"flush", "quiet"}, !.errors = 1]

\* A box that is switched off.
SwitchedOff ==
    [Dying EXCEPT !.crashes = 0, !.offs = 1]

All == {Dying, Failures, Living, Trashed, LeftOver, Crowded, SwitchedOff}
=============================================================================

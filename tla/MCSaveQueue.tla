---------------------------- MODULE MCSaveQueue ----------------------------
(* The save queue on small instances. *)
EXTENDS SaveQueue

CONSTANTS u, v

\* Two people whose saves run into each other.
Rivals ==
    [people |-> {u, v}, edits |-> 2, agents |-> 0, losses |-> 0, closes |-> 0, farewells |-> BOOLEAN,
     collab |-> FALSE, ahead |-> FALSE, heedless |-> FALSE]

\* Somebody else keeps writing, and a rebase keeps losing.
Battered == [Rivals EXCEPT !.people = {u}, !.edits = 2, !.agents = 3]

\* Lost messages and closed tabs, and nobody else.
Lossy == [Rivals EXCEPT !.people = {u}, !.edits = 3, !.losses = 2, !.closes = 2, !.ahead = TRUE]

\* The page joins a room, loses it, is refused.
Roomy == [Rivals EXCEPT !.people = {u}, !.edits = 3, !.collab = TRUE]

\* A person types on while a save loses to somebody else's.
Hasty == [Rivals EXCEPT !.people = {u}, !.agents = 2, !.ahead = TRUE]

\* A page dies on an unsaved draft, and the object may have moved on before it
\* is opened again.
Reopened ==
    [Rivals EXCEPT !.people = {u}, !.edits = 3, !.agents = 2, !.closes = 2, !.farewells = {FALSE}]

All == {Rivals, Battered, Reopened, Lossy, Roomy}

Waiting == {Hasty}
=============================================================================

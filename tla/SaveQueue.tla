----------------------------- MODULE SaveQueue -----------------------------
(***************************************************************************)
(* The save queue of an open page (apps/box/ui/src/lib/saveQueue.ts), with *)
(* the page that drives it (views/ObjectView.tsx), the draft it mirrors in *)
(* the browser (lib/draftMirror.ts), the session that takes the body over  *)
(* (lib/collab.ts) and the box's versioned patch at the other end          *)
(* (dashboard.ts, packages/mcp-tools/src/write-path.ts).                   *)
(*                                                                         *)
(* One object with a field a live room owns and a field it never does.  A  *)
(* message may be lost on the way out or on the way back.                  *)
(***************************************************************************)
EXTENDS Naturals, Sequences, FiniteSets, Functions

CONSTANTS
    Clients,             \* the browsers
    Nothing,             \* null
    MaxRebaseAttempts,   \* rebases after the first 409 (3 in the code)
    MaxWrites,           \* bound: the values anybody writes
    Settings             \* the settings considered, see Setting

\* What goes on, and how much of it.
Setting ==
    [people   : SUBSET Clients,  \* who has the page open
     edits    : 0..MaxWrites,  \* bound: values each of them types
     agents   : 0..MaxWrites,  \* bound: writes by somebody else
     losses   : Nat,      \* bound: messages lost
     closes   : Nat,      \* bound: tabs closed
     farewells : SUBSET BOOLEAN,  \* with their last event, or without
     collab   : BOOLEAN,  \* the page joins the object's room
     ahead    : BOOLEAN,  \* a person goes on while a save is under way
     heedless : BOOLEAN]  \* or while a recovered draft is still offered

ASSUME SaveQueueAssumption ==
    /\ MaxRebaseAttempts \in Nat /\ MaxWrites \in Nat
    /\ Settings \subseteq Setting

\* Somebody else is none of them.
ASSUME AgentAssumption == "agent" \notin Clients

VARIABLES
    setting,    \* one of Settings
    versions,   \* the object: its fields at each version so far
    room,       \* the object's live room: [open, peer, text, dirty]
    tab,        \* the page of each client
    queue,      \* its save queue
    wire,       \* the call of `save' under way, as a message
    loose,      \* requests that outlived the page that sent them
    mirror,     \* local storage: [fields, version], or Nothing
    count,      \* how much of the setting is used up
    own,        \* history: the values a client typed and has not given up
    basis       \* history: what the server was believed to hold, per field,
                \* when the unsent edit of it began

vars == <<setting, versions, room, tab, queue, wire, loose, mirror, count, own, basis>>

-----------------------------------------------------------------------------
(* Fields, and what a draft of some of them is.                            *)

Fields == {"body", "prop"}

RoomOwned == {"body"}

Values == ((Clients \cup {"agent"}) \X (1..MaxWrites)) \cup {<<"nobody", 0>>}

Snapshot == [Fields -> Values]

Draft == UNION {[S -> Values] : S \in SUBSET Fields}

\* `null' is none of the objects it stands in for.
ASSUME NothingAssumption ==
    Nothing \notin Draft \cup [fields : Draft, version : Nat]
                   \cup [kind : {"stale"}, version : Nat, fields : Snapshot]

NoFields == [f \in {} |-> f]

Single(f, v) == [g \in {f} |-> v]

\* `from' wins.
Merge(into, from) ==
    [f \in DOMAIN into \cup DOMAIN from |->
        IF f \in DOMAIN from THEN from[f] ELSE into[f]]

Without(fields, S) == Restrict(fields, DOMAIN fields \ S)

Version == Len(versions)

Current == versions[Version]

\* What a client's queue may send, and what it holds back for the room.
Held(t) == IF t.suspended THEN RoomOwned ELSE {}

Unsent(q) == IF q.inflight = Nothing THEN q.pending ELSE Merge(q.inflight, q.pending)

HasPending(q) == DOMAIN Unsent(q) # {}

Mirrored(q) == [fields |-> Unsent(q), version |-> q.version]

\* The page's room has been synced once and was not refused since.
RoomOwns(t) == t.synced /\ t.seat # "denied"

(* Slip: every 409 is rebased. *)
Verdict_Rebases(ours, base, theirs) ==
    IF \A f \in DOMAIN ours : theirs[f] = ours[f] THEN "landed" ELSE "rebase"

\* A 409 is weighed on the fields that were sent.
Verdict(ours, base, theirs) ==
    IF \A f \in DOMAIN ours : theirs[f] = ours[f] THEN "landed"
    ELSE IF \A f \in DOMAIN ours : theirs[f] \in {ours[f], base[f]} THEN "rebase"
    ELSE "conflict"

-----------------------------------------------------------------------------
(* Messages.                                                               *)

Silence == [kind |-> "none"]

Request(c, patch, version) ==
    [kind |-> "request", by |-> c, patch |-> patch, version |-> version]

Failed == [kind |-> "failed"]

\* The box's PATCH: the live-room guard, then the version guard, then one
\* more version.  A patch of nothing is acknowledged at the version there is.
Refusal(r) ==
    IF room.open /\ DOMAIN r.patch \cap RoomOwned # {} THEN [kind |-> "locked"]
    ELSE IF DOMAIN r.patch # {} /\ r.version # Version
    THEN [kind |-> "stale", version |-> Version, fields |-> Current]
    ELSE Nothing

Patched(r) ==
    IF DOMAIN r.patch = {} THEN versions ELSE Append(versions, Merge(Current, r.patch))

-----------------------------------------------------------------------------
(* The queue: what each of its functions makes of its state.               *)

\* createSaveQueue, on the object as it was read.
Created ==
    [version |-> Version, base |-> Current, pending |-> NoFields, inflight |-> Nothing,
     stage |-> "idle", attempt |-> 0, blocked |-> FALSE, timer |-> FALSE]

Changed(q, fields) ==
    [q EXCEPT !.pending = Merge(@, fields), !.blocked = FALSE, !.timer = TRUE]

(* Slip: what was held back waits for the next edit. *)
Resumed_NoTimer(q) == q

Resumed(q) == [q EXCEPT !.timer = @ \/ HasPending(q)]

(* Slip: a queue that stops still counts as pumping. *)
Stopped_Pumping(q) == [q EXCEPT !.blocked = TRUE]

Stopped(q) == [q EXCEPT !.blocked = TRUE, !.stage = "idle"]

(* Slip: the acknowledged fields are not applied to the base. *)
Acked_StaleBase(q, version) ==
    [q EXCEPT !.version = version, !.inflight = Nothing, !.stage = "idle"]

Acked(q, version) ==
    [q EXCEPT !.version = version,
              !.base = IF q.inflight = Nothing THEN @ ELSE Merge(@, q.inflight),
              !.inflight = Nothing,
              !.stage = "idle"]

RebasedOnto(q, version, fields) ==
    [q EXCEPT !.version = version, !.base = fields, !.blocked = FALSE]

\* The head of the pump's loop: what there is to send, less what is held.
\* A retry with nothing new goes out as it was.
Pumped(q, held) ==
    LET all  == Unsent(q)
        send == IF q.pending = NoFields THEN all ELSE Without(all, held)
    IN  IF q.blocked \/ (q.inflight = Nothing /\ q.pending = NoFields)
        THEN [q EXCEPT !.stage = "idle"]
        ELSE IF send = NoFields /\ q.pending # NoFields
        THEN [q EXCEPT !.stage = "idle", !.inflight = Nothing, !.pending = all]
        ELSE [q EXCEPT !.stage = "sent", !.attempt = 0, !.inflight = send,
                       !.pending = Restrict(all, DOMAIN all \ DOMAIN send)]

Sent(c, q) == IF q.stage = "sent" THEN Request(c, q.inflight, q.version) ELSE Silence

Pump(c, q) ==
    LET next == Pumped(q, Held(tab[c]))
    IN  /\ queue' = [queue EXCEPT ![c] = next]
        /\ wire' = [wire EXCEPT ![c] = Sent(c, next)]

Beginning(c, q, fields) ==
    [basis EXCEPT ![c] = [f \in Fields |->
        IF f \in DOMAIN fields \ DOMAIN Unsent(q) THEN q.base[f] ELSE @[f]]]

-----------------------------------------------------------------------------
(* The page.                                                               *)

\* Loaded: the screen shows the object, and a draft that was left in the
\* browser is put back at once if the object has not moved since, and else
\* offered.
Loaded(c) ==
    LET applies == mirror[c] # Nothing /\ mirror[c].version = Version
        offered == mirror[c] # Nothing /\ mirror[c].version # Version
        draft   == IF applies THEN mirror[c].fields ELSE NoFields
    IN  [tab   |-> [open |-> TRUE, synced |-> FALSE, suspended |-> setting.collab,
                    seat |-> IF setting.collab THEN "joining" ELSE "none",
                    screen |-> Merge(Current, draft),
                    recovery |-> IF offered THEN mirror[c].fields ELSE Nothing,
                    banner |-> Nothing, reverted |-> Nothing],
         queue |-> IF applies THEN Changed(Created, draft) ELSE Created]

Shut == [open |-> FALSE, synced |-> FALSE, suspended |-> FALSE, seat |-> "none",
         screen |-> Current, recovery |-> Nothing, banner |-> Nothing, reverted |-> Nothing]

Init ==
    /\ setting \in Settings
    /\ versions = << [f \in Fields |-> <<"nobody", 0>>] >>
    /\ room = [open |-> FALSE, peer |-> FALSE, text |-> <<"nobody", 0>>, dirty |-> FALSE]
    /\ mirror = [c \in Clients |-> Nothing]
    /\ tab = [c \in Clients |-> IF c \in setting.people THEN Loaded(c).tab ELSE Shut]
    /\ queue = [c \in Clients |-> Created]
    /\ wire = [c \in Clients |-> Silence]
    /\ loose = {}
    /\ count = [edits |-> [c \in Clients |-> 0], agents |-> 0, losses |-> 0, closes |-> 0]
    /\ own = [c \in Clients |-> NoFields]
    /\ basis = [c \in Clients |-> Current]

\* A person acts on a page that has come to rest, or does not wait for it.
MayAct(c) == tab[c].open /\ (setting.ahead \/ queue[c].stage = "idle")

MayType(c) ==
    /\ MayAct(c)
    /\ setting.heedless \/ tab[c].recovery = Nothing
    /\ count.edits[c] < setting.edits

Fresh(c) == <<c, count.edits[c] + 1>>

Typed(c, f) ==
    /\ own' = [own EXCEPT ![c] = Merge(@, Single(f, Fresh(c)))]
    /\ count' = [count EXCEPT !.edits[c] = @ + 1]

\* A field is edited on the save queue.  The queue mirrors before it sends.
Type(c, f) ==
    LET edit == Single(f, Fresh(c))
        next == Changed(queue[c], edit)
    IN  /\ MayType(c)
        /\ f \in RoomOwned => ~RoomOwns(tab[c])
        /\ Typed(c, f)
        /\ tab' = [tab EXCEPT ![c].screen[f] = Fresh(c), ![c].reverted = Nothing]
        /\ queue' = [queue EXCEPT ![c] = next]
        /\ mirror' = [mirror EXCEPT ![c] = Mirrored(next)]
        /\ basis' = Beginning(c, queue[c], edit)
        /\ UNCHANGED <<setting, versions, room, wire, loose>>

\* The debounce elapses, or the field is left: one pump at a time.
TimerFires(c) ==
    LET q == [queue[c] EXCEPT !.timer = FALSE]
    IN  /\ tab[c].open /\ queue[c].timer
        /\ IF q.stage = "idle" THEN Pump(c, q)
           ELSE queue' = [queue EXCEPT ![c] = q] /\ UNCHANGED wire
        /\ UNCHANGED <<setting, versions, room, tab, loose, mirror, count, own, basis>>

-----------------------------------------------------------------------------
(* The box.                                                                *)

Serve(c) ==
    LET r == wire[c]
    IN  /\ r.kind = "request"
        /\ IF Refusal(r) # Nothing
           THEN wire' = [wire EXCEPT ![c] = Refusal(r)] /\ UNCHANGED versions
           ELSE /\ versions' = Patched(r)
                /\ wire' = [wire EXCEPT ![c] = [kind |-> "done", version |-> Len(Patched(r))]]
        /\ UNCHANGED <<setting, room, tab, queue, loose, mirror, count, own, basis>>

\* A request of a page that is gone.
ServeLoose(r) ==
    /\ loose' = loose \ {r}
    /\ versions' = IF Refusal(r) = Nothing THEN Patched(r) ELSE versions
    /\ UNCHANGED <<setting, room, tab, queue, wire, mirror, count, own, basis>>

\* The request, or its answer, does not arrive.
Lose(c) ==
    /\ count.losses < setting.losses
    /\ wire[c].kind \notin {"none", "failed"}
    /\ wire' = [wire EXCEPT ![c] = Failed]
    /\ count' = [count EXCEPT !.losses = @ + 1]
    /\ UNCHANGED <<setting, versions, room, tab, queue, loose, mirror, own, basis>>

LoseLoose(r) ==
    /\ loose' = loose \ {r}
    /\ UNCHANGED <<setting, versions, room, tab, queue, wire, mirror, count, own, basis>>

\* Somebody else writes a field: an agent, or a page elsewhere.
AgentWrites(f) ==
    /\ count.agents < setting.agents
    /\ room.open => f \notin RoomOwned
    /\ versions' = Append(versions, Merge(Current, Single(f, <<"agent", count.agents + 1>>)))
    /\ count' = [count EXCEPT !.agents = @ + 1]
    /\ UNCHANGED <<setting, room, tab, queue, wire, loose, mirror, own, basis>>

-----------------------------------------------------------------------------
(* The answer, in attemptOnce.                                             *)

(* Slip: the mirror is cleared although more was typed. *)
Saved_Clears(c, version) ==
    /\ Pump(c, Acked(queue[c], version))
    /\ tab' = [tab EXCEPT ![c].banner = Nothing, ![c].reverted = Nothing]
    /\ mirror' = [mirror EXCEPT ![c] = Nothing]

\* "saved": the banner goes, and the mirror once nothing is left unsent.
Saved(c, version) ==
    LET q == Acked(queue[c], version)
    IN  /\ Pump(c, q)
        /\ tab' = [tab EXCEPT ![c].banner = Nothing, ![c].reverted = Nothing]
        /\ mirror' = [mirror EXCEPT ![c] = IF HasPending(q) THEN @ ELSE Nothing]

Conflicted(c, answer) ==
    /\ queue' = [queue EXCEPT ![c] = Stopped(@)]
    /\ wire' = [wire EXCEPT ![c] = Silence]
    /\ tab' = [tab EXCEPT ![c].banner = [version |-> answer.version, fields |-> answer.fields]]

\* The version has moved under fields nobody touched: adopt it and try again.
Rebase(c, answer) ==
    LET q == RebasedOnto(queue[c], answer.version, answer.fields)
    IN  /\ queue' = [queue EXCEPT ![c] = [q EXCEPT !.stage = "backoff", !.attempt = @ + 1]]
        /\ wire' = [wire EXCEPT ![c] = Silence]

\* Out of attempts: the banner and the rollback, and the edit kept for "keep
\* mine".
Exhaust(c, answer) ==
    LET q == queue[c]
    IN  /\ queue' = [queue EXCEPT ![c] = [Stopped(q) EXCEPT !.inflight = Nothing,
                                                            !.pending = NoFields]]
        /\ wire' = [wire EXCEPT ![c] = Silence]
        /\ tab' = [tab EXCEPT
              ![c].banner = [version |-> answer.version, fields |-> answer.fields],
              ![c].reverted = tab[c].screen,
              ![c].screen = Merge(@, Restrict(q.base, DOMAIN q.inflight))]
        /\ own' = [own EXCEPT ![c] = Without(@, DOMAIN q.inflight)]

Answered(c) ==
    LET answer == wire[c]
        ours   == IF queue[c].inflight = Nothing THEN NoFields ELSE queue[c].inflight
        weighs == IF answer.kind = "stale" THEN Verdict(ours, queue[c].base, answer.fields)
                  ELSE answer.kind
        spent  == queue[c].attempt >= MaxRebaseAttempts
    IN  /\ queue[c].stage = "sent"
        /\ \/ /\ weighs \in {"failed", "locked"}
              /\ queue' = [queue EXCEPT ![c] = Stopped(@)]
              /\ wire' = [wire EXCEPT ![c] = Silence]
              /\ UNCHANGED <<tab, mirror, own>>
           \/ weighs \in {"done", "landed"} /\ Saved(c, answer.version) /\ UNCHANGED own
           \/ weighs = "conflict" /\ Conflicted(c, answer) /\ UNCHANGED <<mirror, own>>
           \/ weighs = "rebase" /\ spent /\ Exhaust(c, answer) /\ UNCHANGED mirror
           \/ weighs = "rebase" /\ ~spent /\ Rebase(c, answer) /\ UNCHANGED <<tab, mirror, own>>
        /\ UNCHANGED <<setting, versions, room, loose, count, basis>>

\* What was typed meanwhile joins the retry.
BackoffEnds(c) ==
    LET q   == queue[c]
        all == Unsent(q)
        r   == [q EXCEPT !.stage = "sent", !.inflight = all, !.pending = NoFields]
    IN  /\ q.stage = "backoff"
        /\ IF q.inflight = Nothing /\ q.pending = NoFields
           THEN queue' = [queue EXCEPT ![c].stage = "idle"] /\ UNCHANGED wire
           ELSE /\ queue' = [queue EXCEPT ![c] = r]
                /\ wire' = [wire EXCEPT ![c] = Sent(c, r)]
        /\ UNCHANGED <<setting, versions, room, tab, loose, mirror, count, own, basis>>

-----------------------------------------------------------------------------
(* The person's decisions.                                                 *)

\* Ours again, on top of the version that beat us.
KeepMine(c) ==
    LET t     == tab[c]
        mine  == IF t.reverted = Nothing THEN t.screen ELSE t.reverted
        body  == IF RoomOwns(t) THEN {} ELSE RoomOwned
        props == {f \in Fields \ RoomOwned : mine[f] # t.banner.fields[f]}
        draft == Restrict(mine, body \cup props)
        q     == RebasedOnto(queue[c], t.banner.version, t.banner.fields)
        next  == IF draft = NoFields THEN q ELSE Changed(q, draft)
        sends == [next EXCEPT !.timer = FALSE]
    IN  /\ MayAct(c) /\ t.banner # Nothing
        /\ IF next.stage = "idle" THEN Pump(c, sends)
           ELSE queue' = [queue EXCEPT ![c] = sends] /\ UNCHANGED wire
        /\ mirror' = [mirror EXCEPT ![c] = IF draft = NoFields THEN @ ELSE Mirrored(next)]
        /\ tab' = [tab EXCEPT ![c].screen = mine, ![c].banner = Nothing,
                              ![c].reverted = Nothing]
        /\ basis' = [basis EXCEPT ![c] = t.banner.fields]
        /\ own' = [own EXCEPT ![c] =
              Merge(@, Restrict(draft, {f \in DOMAIN draft : draft[f][1] = c}))]
        /\ UNCHANGED <<setting, versions, room, loose, count>>

TakeTheirs(c) ==
    LET t == tab[c]
        q == queue[c]
    IN  /\ MayAct(c) /\ t.banner # Nothing
        /\ queue' = [queue EXCEPT ![c] =
              RebasedOnto([q EXCEPT !.pending = NoFields, !.inflight = Nothing,
                                    !.timer = FALSE],
                          t.banner.version, t.banner.fields)]
        /\ mirror' = [mirror EXCEPT ![c] = Nothing]
        /\ tab' = [tab EXCEPT ![c].screen = t.banner.fields, ![c].banner = Nothing,
                              ![c].reverted = Nothing]
        /\ basis' = [basis EXCEPT ![c] = t.banner.fields]
        /\ own' = [own EXCEPT ![c] = NoFields]
        /\ UNCHANGED <<setting, versions, room, wire, loose, count>>

\* The draft that was offered goes back on the screen, and to the queue or,
\* for what the room owns, into the room.
RestoreDraft(c) ==
    LET t     == tab[c]
        toRoom == RoomOwns(t) /\ t.seat = "live" /\ "body" \in DOMAIN t.recovery
        rest  == IF RoomOwns(t) THEN Without(t.recovery, RoomOwned) ELSE t.recovery
        next  == IF rest = NoFields THEN queue[c] ELSE Changed(queue[c], rest)
    IN  /\ MayAct(c) /\ t.recovery # Nothing
        /\ RoomOwns(t) => t.seat = "live"
        /\ tab' = [tab EXCEPT ![c].screen = Merge(@, t.recovery), ![c].recovery = Nothing]
        /\ queue' = [queue EXCEPT ![c] = next]
        /\ mirror' = [mirror EXCEPT ![c] = IF rest = NoFields THEN @ ELSE Mirrored(next)]
        /\ room' = IF toRoom THEN [room EXCEPT !.text = t.recovery["body"], !.dirty = TRUE]
                   ELSE room
        /\ basis' = Beginning(c, queue[c], rest)
        /\ UNCHANGED <<setting, versions, wire, loose, count, own>>

DiscardDraft(c) ==
    /\ MayAct(c) /\ tab[c].recovery # Nothing
    /\ mirror' = [mirror EXCEPT ![c] = Nothing]
    /\ own' = [own EXCEPT ![c] = Without(@, DOMAIN tab[c].recovery)]
    /\ tab' = [tab EXCEPT ![c].recovery = Nothing]
    /\ UNCHANGED <<setting, versions, room, queue, wire, loose, count, basis>>

-----------------------------------------------------------------------------
(* The room the page joins.                                                *)

Seated(c) == tab[c].open /\ tab[c].seat = "live"

Opened == IF room.open THEN room
          ELSE [open |-> TRUE, peer |-> FALSE, text |-> Current["body"], dirty |-> FALSE]

\* handleSynced: the body the queue held goes into the room, and out of the
\* mirror; then the queue holds nothing back.
Synced(c) ==
    LET q     == queue[c]
        mine  == Unsent(q)
        takes == "body" \in DOMAIN mine
        strip == [q EXCEPT !.pending = Without(@, RoomOwned),
                           !.inflight = IF @ = Nothing THEN @ ELSE Without(@, RoomOwned)]
        text  == IF takes THEN mine["body"] ELSE Opened.text
    IN  /\ tab[c].open /\ tab[c].seat = "joining"
        /\ room' = [Opened EXCEPT !.text = text, !.dirty = @ \/ takes]
        /\ queue' = [queue EXCEPT ![c] = Resumed(IF takes THEN strip ELSE q)]
        /\ mirror' = [mirror EXCEPT ![c] =
              IF ~takes THEN @ ELSE IF HasPending(strip) THEN Mirrored(strip) ELSE Nothing]
        /\ tab' = [d \in Clients |->
              IF d = c THEN [tab[c] EXCEPT !.seat = "live", !.synced = TRUE,
                                           !.suspended = FALSE, !.screen["body"] = text]
              ELSE IF Seated(d) THEN [tab[d] EXCEPT !.screen["body"] = text]
              ELSE tab[d]]
        /\ UNCHANGED <<setting, versions, wire, loose, count, own, basis>>

\* The socket drops; the session goes on trying.
Dropped(c) ==
    /\ Seated(c)
    /\ tab' = [tab EXCEPT ![c].seat = "joining", ![c].suspended = TRUE]
    /\ UNCHANGED <<setting, versions, room, queue, wire, loose, mirror, count, own, basis>>

\* The room refuses the page: the body is the queue's again, with what the
\* room's document held if it was ever synced.
Denied(c) ==
    LET t     == tab[c]
        draft == Restrict(t.screen, IF t.synced THEN RoomOwned ELSE {})
        q     == Resumed(queue[c])
        next  == IF t.synced THEN Changed(q, draft) ELSE q
    IN  /\ t.open /\ t.seat \in {"joining", "live"}
        /\ tab' = [tab EXCEPT ![c].seat = "denied", ![c].suspended = FALSE]
        /\ queue' = [queue EXCEPT ![c] = next]
        /\ mirror' = [mirror EXCEPT ![c] = IF t.synced THEN Mirrored(next) ELSE @]
        /\ basis' = Beginning(c, q, draft)
        /\ UNCHANGED <<setting, versions, room, wire, loose, count, own>>

TypeInRoom(c) ==
    /\ MayType(c) /\ Seated(c)
    /\ Typed(c, "body")
    /\ room' = [room EXCEPT !.text = Fresh(c), !.dirty = TRUE]
    /\ tab' = [d \in Clients |->
          IF Seated(d) THEN [tab[d] EXCEPT !.screen["body"] = Fresh(c)] ELSE tab[d]]
    /\ UNCHANGED <<setting, versions, queue, wire, loose, mirror, basis>>

RoomFlushes ==
    /\ room.dirty
    /\ versions' = Append(versions, Merge(Current, Single("body", room.text)))
    /\ room' = [room EXCEPT !.dirty = FALSE]
    /\ UNCHANGED <<setting, tab, queue, wire, loose, mirror, count, own, basis>>

PeerComes ==
    /\ setting.collab /\ ~room.peer
    /\ room' = [Opened EXCEPT !.peer = TRUE]
    /\ UNCHANGED <<setting, versions, tab, queue, wire, loose, mirror, count, own, basis>>

PeerGoes ==
    /\ room.peer
    /\ room' = [room EXCEPT !.peer = FALSE]
    /\ UNCHANGED <<setting, versions, tab, queue, wire, loose, mirror, count, own, basis>>

\* The last one has left and the last flush is done.
RoomCloses ==
    /\ room.open /\ ~room.peer /\ ~room.dirty
    /\ \A c \in Clients : ~Seated(c)
    /\ room' = [room EXCEPT !.open = FALSE]
    /\ UNCHANGED <<setting, versions, tab, queue, wire, loose, mirror, count, own, basis>>

-----------------------------------------------------------------------------
(* The tab is closed, with or without its last event, and opened again.    *)

Close(c, tidy) ==
    LET q     == queue[c]
        parts == Without(Unsent(q), Held(tab[c]))
        last  == IF tidy /\ parts # NoFields THEN {Request(c, parts, q.version)} ELSE {}
    IN  /\ MayAct(c) /\ count.closes < setting.closes
        /\ setting.heedless \/ tab[c].recovery = Nothing
        /\ loose' = loose \cup last
              \cup (IF wire[c].kind = "request" THEN {wire[c]} ELSE {})
        /\ mirror' = [mirror EXCEPT ![c] = IF tidy /\ HasPending(q) THEN Mirrored(q) ELSE @]
        /\ tab' = [tab EXCEPT ![c] = Shut]
        /\ queue' = [queue EXCEPT ![c] = Created]
        /\ wire' = [wire EXCEPT ![c] = Silence]
        /\ count' = [count EXCEPT !.closes = @ + 1]
        /\ UNCHANGED <<setting, versions, room, own, basis>>

Load(c) ==
    /\ c \in setting.people /\ ~tab[c].open
    /\ tab' = [tab EXCEPT ![c] = Loaded(c).tab]
    /\ queue' = [queue EXCEPT ![c] = Loaded(c).queue]
    /\ basis' = [basis EXCEPT ![c] = Current]
    /\ UNCHANGED <<setting, versions, room, wire, loose, mirror, count, own>>

-----------------------------------------------------------------------------

Page(c) == TimerFires(c) \/ Answered(c) \/ BackoffEnds(c)

Person(c) ==
    \/ \E f \in Fields : Type(c, f)
    \/ TypeInRoom(c)
    \/ KeepMine(c) \/ TakeTheirs(c) \/ RestoreDraft(c) \/ DiscardDraft(c)
    \/ \E tidy \in setting.farewells : Close(c, tidy)
    \/ Load(c)

Session(c) == Synced(c) \/ Dropped(c) \/ Denied(c)

Next ==
    \/ \E c \in Clients : Page(c) \/ Person(c) \/ Session(c) \/ Serve(c) \/ Lose(c)
    \/ \E r \in loose : ServeLoose(r) \/ LoseLoose(r)
    \/ \E f \in Fields : AgentWrites(f)
    \/ RoomFlushes \/ PeerComes \/ PeerGoes \/ RoomCloses

Spec == Init /\ [][Next]_vars

\* Timers elapse, the box answers and the page hears it: the browser's event
\* loop and the calls' own deadlines.
Fairness ==
    \A c \in Clients :
        /\ WF_vars(TimerFires(c)) /\ WF_vars(Answered(c)) /\ WF_vars(BackoffEnds(c))
        /\ WF_vars(Serve(c))

FairSpec == Spec /\ Fairness

-----------------------------------------------------------------------------
(* What the save queue promises.                                           *)

Queues ==
    [version : Nat, base : Snapshot, pending : Draft, inflight : Draft \cup {Nothing},
     stage : {"idle", "sent", "backoff"}, attempt : 0..MaxRebaseAttempts,
     blocked : BOOLEAN, timer : BOOLEAN]

\* Types, and what holds of the fields together: a call of `save' is under way
\* exactly while the pump waits for one, a page that is shut does nothing, a
\* queue never knows a version that is still to come.
TypeOK ==
    /\ setting \in Settings
    /\ versions \in Seq(Snapshot) /\ Version > 0
    /\ room \in [open : BOOLEAN, peer : BOOLEAN, text : Values, dirty : BOOLEAN]
    /\ room.peer \/ room.dirty => room.open
    /\ queue \in [Clients -> Queues]
    /\ \A c \in Clients :
        /\ (queue[c].stage = "sent") = (wire[c] # Silence)
        /\ queue[c].stage = "sent" /\ wire[c].kind = "request" => wire[c].by = c
        /\ queue[c].version <= Version
        /\ mirror[c] # Nothing => mirror[c].fields \in Draft /\ mirror[c].version <= Version
        /\ tab[c].screen \in Snapshot
        /\ tab[c].suspended = (tab[c].open /\ tab[c].seat = "joining")
        /\ ~tab[c].open => tab[c] = [Shut EXCEPT !.screen = tab[c].screen]
                         /\ queue[c].stage = "idle" /\ ~HasPending(queue[c])

\* What the queue takes for the server's fields are the object's fields at the
\* version it sends as its base: the comparison that tells a rebase from a
\* conflict (saveQueue.ts:229) would else compare with nothing that ever was.
BaseIsTheVersion ==
    \A c \in Clients : tab[c].open => queue[c].base = versions[queue[c].version]

Quiet(c) ==
    /\ tab[c].open /\ ~HasPending(queue[c])
    /\ tab[c].banner = Nothing /\ tab[c].recovery = Nothing

WasSaved(f, value) == \E i \in 1..Version : versions[i][f] = value

InRoom(f, value) == f = "body" /\ room.dirty /\ room.text = value

\* What a person typed and did not give up has been saved, or is in the room,
\* or is still in the browser: never on the screen only (saveQueue.ts:30,
\* "never a card the user believes is saved but isn't").  A page that asks
\* nothing has nothing left, and no draft of it will be offered later.
EditsKept ==
    \A c \in Clients :
        /\ \A f \in DOMAIN own[c] :
            \/ WasSaved(f, own[c][f]) \/ InRoom(f, own[c][f])
            \/ /\ mirror[c] # Nothing /\ f \in DOMAIN mirror[c].fields
               /\ mirror[c].fields[f] = own[c][f]
        /\ Quiet(c) => mirror[c] = Nothing

Outstanding == loose \cup {wire[c] : c \in {d \in Clients : wire[d].kind = "request"}}

Clobbers(r) ==
    \E f \in DOMAIN r.patch :
        /\ Current[f] \notin {r.patch[f], basis[r.by][f]}
        /\ Current[f][1] # r.by

\* A patch that is committed replaces, in the fields it carries, what its
\* sender had been told of when the edit began, or the sender's own: somebody
\* else's change of a field that was edited stops the queue (saveQueue.ts:25,
\* "never auto-merge, never clobber").
NeverClobbers ==
    [][\A r \in Outstanding :
         versions' # versions /\ r \notin Outstanding' => ~Clobbers(r)]_vars

Sendable(c) == DOMAIN Unsent(queue[c]) \ Held(tab[c])

\* What may be sent is sent and answered, or the queue stops and says so, or
\* the page is closed, or the room takes the field.
Settles ==
    \A c \in Clients :
        (tab[c].open /\ ~queue[c].blocked /\ Sendable(c) # {})
            ~> (~tab[c].open \/ queue[c].blocked \/ Sendable(c) = {})
=============================================================================

---------------------------- MODULE CollabRooms ----------------------------
(***************************************************************************)
(* The room of one document, from its opening to its closing: joins that   *)
(* seed it, resume it or rebase it, the row that keeps its unwritten text, *)
(* teardown and purge, and a death of the box anywhere between             *)
(* (apps/box/src/collab: docStore.ts, and what wire.ts and server.ts make  *)
(* of it).                                                                 *)
(*                                                                         *)
(* A text is the set of the words in it, and a word is put in once.  What  *)
(* happens inside a flush is in CollabFlush; here it lands, or throws, or  *)
(* returns without having written.  A row write is one transaction behind  *)
(* the room's other row writes.                                            *)
(***************************************************************************)
EXTENDS Integers, Sequences, FiniteSets

CONSTANTS
    People,       \* who may open the document
    Words,        \* everything anybody may write
    Initial,      \* the object's words at the start
    NoRoom,       \* not in `rooms'
    NoRow,        \* no collab_docs row
    MaxLines,     \* bound: rooms seeded from markdown
    MaxHooks,     \* bound: disconnect hooks to run when somebody joins
    Settings      \* the settings considered, see Setting

\* What goes on besides typing, and how much of it.
Setting ==
    [people   : SUBSET People,  \* who comes and goes
     strikes  : Nat,      \* bound: words taken out in the room
     adds     : Nat,      \* bound: words put in from outside
     cuts     : Nat,      \* bound: words taken out from outside
     crashes  : Nat,      \* bound: deaths of the box
     trashes  : Nat,      \* bound: the object is deleted
     narrows  : Nat,      \* bound: its audience is narrowed
     budgets  : Nat,      \* bound: its room is one too many, with people in it
     offs     : Nat,      \* bound: the box is switched off
     overlaps : BOOLEAN,  \* a blob may not merge, or its base not be read
     spans    : BOOLEAN,  \* a join's one read may span the end of a teardown
     fragile  : SUBSET {"save", "remove", "flush", "quiet"},
                          \* the calls that may fail; "quiet" is a last
                          \* flush that returns without having written
     errors   : Nat]      \* bound: how many calls fail

ASSUME RoomsAssumption ==
    /\ IsFiniteSet(People) /\ Initial \subseteq Words
    /\ MaxLines \in Nat /\ MaxHooks \in Nat
    /\ Settings \subseteq Setting
    \* a box is not switched off while a room with people in it is evicted
    /\ \A s \in Settings : s.budgets = 0 \/ s.offs = 0

VARIABLES
    object,     \* the row of `objects': [version, body, deleted]
    images,     \* before_image: the body each change of the text replaced
    row,        \* the row of `collab_docs', or NoRow
    room,       \* the LiveRoom, or NoRoom
    due,        \* its persist timer runs
    landed,     \* version a flush has committed and not yet marked, or 0
    drain,      \* the teardown: "none", "mark", "flush", "keep", "drop",
                \* "remove" or "unwritten"
    crowd,      \* history: "in" while a room with people in it is torn down,
                \* else "out"
    join,       \* the join at the head of the object's queue
    online,     \* the lineage of the document each person edits, or 0
    leaving,    \* closed connections whose disconnect hook is still to run
    clock,      \* the wall clock, in milliseconds
    lines,      \* history: documents seeded so far, and the epoch each was given
    used,       \* history: words ever put in
    handed,     \* history: edits handed up as unmergeable or unwritten
    setting     \* the setting, its bounds counted down

stored == <<object, images>>
vars == <<stored, row, room, due, landed, drain, crowd, join, online, leaving,
          clock, lines, used, handed, setting>>

Max2(m, n) == IF m > n THEN m ELSE n

\* applyMarkdownDiff: the change from one text to another, applied to a third
Merge(text, from, to) == (text \ (from \ to)) \union (to \ from)

\* baseBody: the oldest image at or after a version, or else the text as it is
BodyAt(v) ==
    LET later == {i \in DOMAIN images : i >= v}
    IN  IF later = {} THEN object.body
        ELSE images[CHOOSE i \in later : \A j \in later : i <= j]

\* A text reconciled to a version, brought up to the object as it is now.
UpToDate(text, base) == Merge(text, BodyAt(base), object.body)

\* rowOf: always a whole snapshot
RowOf(r) == [blob |-> r.doc, epoch |-> r.epoch, line |-> r.line, base |-> r.base]

\* The version the room's text is reconciled to.
Reached == IF landed # 0 THEN landed ELSE room.base

NotJoining == [pc |-> "none", who |-> {}, version |-> 0, body |-> {},
               row |-> NoRow]

Init ==
    /\ setting \in Settings
    /\ object = [version |-> 1, body |-> Initial, deleted |-> FALSE]
    /\ images = << >>
    /\ row = NoRow /\ room = NoRoom
    /\ due = FALSE /\ landed = 0 /\ drain = "none" /\ crowd = "out"
    /\ join = NotJoining
    /\ online = [u \in People |-> 0]
    /\ leaving = 0
    /\ clock = 1
    /\ lines = << >>
    /\ used = Initial
    /\ handed = {}

Spend(what) ==
    /\ setting[what] > 0
    /\ setting' = [setting EXCEPT ![what] = @ - 1]

\* One database call fails.
Failing(call) == call \in setting.fragile /\ Spend("errors")

\* write: a row write fails without harm to the room
Save(r) ==
    \/ row' = RowOf(r) /\ UNCHANGED setting
    \/ Failing("save") /\ UNCHANGED row

Present == {u \in People : online[u] # 0}

-----------------------------------------------------------------------------
(* Edits, in the room and from outside it.                                  *)

Edit(text) ==
    /\ room' = [room EXCEPT !.doc = text]
    /\ due' = (drain = "none")
    /\ UNCHANGED <<stored, row, landed, drain, crowd, join, online, leaving,
                   clock, lines, handed>>

Type(u, w) ==
    /\ online[u] # 0 /\ room # NoRoom
    /\ w \notin used
    /\ used' = used \union {w}
    /\ Edit(room.doc \union {w})
    /\ UNCHANGED setting

Strike(u, w) ==
    /\ online[u] # 0 /\ room # NoRoom
    /\ w \in room.doc
    /\ Spend("strikes")
    /\ Edit(room.doc \ {w})
    /\ UNCHANGED used

\* A new body is a new version, and keeps the body it replaces.
Commit(text) ==
    /\ object' = [object EXCEPT !.version = @ + 1, !.body = text]
    /\ images' = [v \in DOMAIN images \union {object.version} |->
                    IF v = object.version THEN object.body ELSE images[v]]

FromOutside ==
    /\ ~object.deleted
    /\ UNCHANGED <<row, room, due, landed, drain, crowd, join, online, leaving,
                   clock, lines, handed>>

OutsideAdds(w) ==
    /\ FromOutside
    /\ w \notin used /\ Spend("adds")
    /\ used' = used \union {w}
    /\ Commit(object.body \union {w})

OutsideCuts(w) ==
    /\ FromOutside
    /\ w \in object.body /\ Spend("cuts")
    /\ Commit(object.body \ {w})
    /\ UNCHANGED used

-----------------------------------------------------------------------------
(* The life of an open room.                                                *)

\* The debounce or the burst timer of the row.
Persist ==
    /\ due /\ drain = "none"
    /\ due' = FALSE
    /\ Save(room)
    /\ UNCHANGED <<stored, room, landed, drain, crowd, join, online, leaving,
                   clock, lines, used, handed>>

(* Slip: the version of a commit is one too many. *)
Land_OffByOne ==
    LET text == UpToDate(room.doc, Reached)
    IN  /\ ~object.deleted /\ text # object.body
        /\ Commit(text)
        /\ landed' = object.version + 2
        /\ room' = [room EXCEPT !.doc = text]

\* A flush that writes: over the newest version, merged with it.
Land ==
    LET text == UpToDate(room.doc, Reached)
    IN  /\ ~object.deleted /\ text # object.body
        /\ Commit(text)
        /\ landed' = object.version + 1
        /\ room' = [room EXCEPT !.doc = text]

Flush ==
    /\ room # NoRoom /\ landed = 0 /\ drain \in {"none", "mark"}
    /\ Land
    /\ UNCHANGED <<row, due, drain, crowd, join, online, leaving, clock, lines,
                   used, handed, setting>>

\* The row as a version reached makes it: the base never goes back.
Marked(version) ==
    LET r == [room EXCEPT !.base = Max2(@, version)]
    IN  room' = r /\ Save(r)

(* Slip: a room that drains is not marked. *)
MarkFlushed_OnlyIdle ==
    /\ landed # 0 /\ drain = "none"
    /\ landed' = 0 /\ due' = FALSE
    /\ Marked(landed)
    /\ UNCHANGED <<stored, drain, crowd, join, online, leaving, clock, lines,
                   used, handed>>

MarkFlushed ==
    /\ landed # 0 /\ drain \in {"none", "mark", "flush"}
    /\ landed' = 0 /\ due' = FALSE
    /\ Marked(landed)
    /\ UNCHANGED <<stored, drain, crowd, join, online, leaving, clock, lines,
                   used, handed>>

\* The watcher merges what was written outside into the room.
Ingest ==
    /\ room # NoRoom /\ drain = "none" /\ landed = 0
    /\ ~object.deleted /\ object.version > room.base
    /\ LET r == [room EXCEPT !.doc = UpToDate(@, room.base), !.base = object.version]
       IN  room' = r /\ Save(r)
    /\ due' = FALSE
    /\ UNCHANGED <<stored, landed, drain, crowd, join, online, leaving, clock,
                   lines, used, handed>>

-----------------------------------------------------------------------------
(* Joining.  The joins of one object wait for each other.                    *)

Joining(next) ==
    /\ join' = next
    /\ UNCHANGED <<stored, due, landed, drain, crowd, leaving, clock, used>>

JoinBegin(u) ==
    /\ join.pc = "none" /\ u \in setting.people /\ online[u] = 0
    /\ Len(lines) < MaxLines
    /\ leaving <= MaxHooks
    /\ Joining([NotJoining EXCEPT !.pc = "gate", !.who = {u}])
    /\ UNCHANGED <<row, room, online, lines, handed, setting>>

\* load: the object and its row in one read, once no teardown runs
JoinLoads ==
    /\ join.pc = "gate" /\ drain = "none"
    /\ Joining(IF object.deleted THEN NotJoining
               ELSE [join EXCEPT !.pc = "loaded", !.version = object.version,
                                 !.body = object.body, !.row = row])
    /\ UNCHANGED <<row, room, online, lines, handed, setting>>

\* A teardown began during the read: wait it out and read again.
JoinWaits ==
    /\ join.pc = "loaded" /\ room # NoRoom /\ drain # "none"
    /\ Joining([join EXCEPT !.pc = "gate"])
    /\ UNCHANGED <<row, room, online, lines, handed, setting>>

(* Slip: a join attaches to whatever room there is. *)
Attach_Draining ==
    /\ join.pc = "loaded" /\ room # NoRoom
    /\ room' = [room EXCEPT !.conns = @ + 1]
    /\ online' = [u \in People |-> IF u \in join.who THEN room.line ELSE online[u]]
    /\ Joining(NotJoining)
    /\ UNCHANGED <<row, lines, handed, setting>>

(* Slip: a second connection is not counted. *)
Attach_Uncounted ==
    /\ join.pc = "loaded" /\ room # NoRoom /\ drain = "none"
    /\ online' = [u \in People |-> IF u \in join.who THEN room.line ELSE online[u]]
    /\ Joining(NotJoining)
    /\ UNCHANGED <<room, row, lines, handed, setting>>

\* The room is there: attach.
Attach ==
    /\ join.pc = "loaded" /\ room # NoRoom /\ drain = "none"
    /\ room' = [room EXCEPT !.conns = @ + 1]
    /\ online' = [u \in People |-> IF u \in join.who THEN room.line ELSE online[u]]
    /\ Joining(NotJoining)
    /\ UNCHANGED <<row, lines, handed, setting>>

\* The new room takes the key, and its row is written before anybody types.
Open(text, base, epoch, line) ==
    LET r == [doc |-> text, base |-> base, epoch |-> epoch, line |-> line, conns |-> 1]
    IN  room' = r /\ Save(r)

\* planSeed: no row, or one from a version that was taken back, or one that
\* is reconciled to the object as it was read, or an older one
Plan ==
    IF join.row = NoRow THEN "seed"
    ELSE IF join.row.base = join.version THEN "resume"
    ELSE IF join.row.base > join.version THEN "reseed"
    ELSE "rebase"

(* Slip: the epoch counts on from the row, and from one without a row. *)
Fresh_Counter(text) ==
    LET epoch == IF join.row = NoRow THEN 1 ELSE join.row.epoch + 1
    IN  /\ lines' = Append(lines, epoch)
        /\ Open(text, join.version, epoch, Len(lines) + 1)

\* nextEpoch, of a document that shares no history with an earlier one
Fresh(text) ==
    LET epoch == IF join.row = NoRow THEN clock ELSE Max2(join.row.epoch + 1, clock)
    IN  /\ lines' = Append(lines, epoch)
        /\ Open(text, join.version, epoch, Len(lines) + 1)

\* The hooks of closed connections have run before anybody is back, and two
\* documents are never seeded in one millisecond.
Seeding ==
    /\ join.pc = "loaded" /\ room = NoRoom
    /\ leaving = 0
    /\ join' = [join EXCEPT !.pc = "opened"]
    /\ clock' = clock + 1
    /\ UNCHANGED <<stored, due, landed, drain, crowd, online, leaving, used>>

Seed ==
    /\ Seeding /\ Plan \in {"seed", "reseed"}
    /\ Fresh(join.body)
    /\ UNCHANGED handed

Resume ==
    /\ Seeding /\ Plan = "resume"
    /\ Open(join.row.blob, join.row.base, join.row.epoch, join.row.line)
    /\ UNCHANGED <<lines, handed>>

(* Slip: the blob is taken for the object's newest text. *)
Rebase_BlobWins ==
    /\ Seeding /\ Plan = "rebase"
    /\ Fresh(Merge(join.body, join.body, join.row.blob))
    /\ UNCHANGED handed

\* The blob's unwritten change goes on top of the object as it was read.
Rebase ==
    /\ Seeding /\ Plan = "rebase"
    /\ Fresh(Merge(join.body, BodyAt(join.row.base), join.row.blob))
    /\ UNCHANGED handed

\* It cannot be merged: the object's text wins, and the blob is handed up.
RebaseUnmerged ==
    /\ Seeding /\ Plan = "rebase"
    /\ setting.overlaps /\ BodyAt(join.row.base) # join.row.blob
    /\ Fresh(join.body)
    /\ LET merged == Merge(join.body, BodyAt(join.row.base), join.row.blob)
       IN  handed' = handed \union (merged \ join.body) \union (join.body \ merged)

\* joinOnce returns, and the connection is bound to the room that is there.
Enter ==
    /\ join.pc = "opened"
    /\ online' = [u \in People |->
                    IF u \in join.who /\ room # NoRoom THEN room.line ELSE online[u]]
    /\ Joining(NotJoining)
    /\ UNCHANGED <<row, room, lines, handed, setting>>

-----------------------------------------------------------------------------
(* Leaving, and the end of the room.                                         *)

Leave(u) ==
    /\ online[u] # 0
    /\ online' = [online EXCEPT ![u] = 0]
    /\ leaving' = leaving + 1
    /\ UNCHANGED <<stored, row, room, due, landed, drain, crowd, join, clock,
                   lines, used, handed, setting>>

(* Slip: a connection that closes is still counted. *)
Disconnected_Counted ==
    /\ leaving > 0
    /\ leaving' = leaving - 1
    /\ UNCHANGED <<stored, row, room, due, landed, drain, crowd, join, online,
                   clock, lines, used, handed, setting>>

\* onDisconnect: the room of that name, whichever it is, has one fewer
Disconnected ==
    /\ leaving > 0
    /\ leaving' = leaving - 1
    /\ room' = IF room = NoRoom THEN NoRoom
               ELSE [room EXCEPT !.conns = Max2(0, @ - 1)]
    /\ UNCHANGED <<stored, row, due, landed, drain, crowd, join, online, clock,
                   lines, used, handed, setting>>

\* teardown, up to its first await: the room is draining, its timers are off
Drain ==
    /\ room # NoRoom /\ drain = "none"
    /\ drain' = "mark"
    /\ due' = FALSE
    /\ UNCHANGED <<images, row, room, landed, join, clock, lines, used, handed>>

\* Idle for long enough, or one room too many: a room nobody is in.
Sweep ==
    /\ room # NoRoom /\ room.conns = 0
    /\ Drain
    /\ UNCHANGED <<object, crowd, online, leaving, setting>>

\* evictOne: one room too many, and every one has people in it.  They are not
\* told before the room is dropped: they go on editing while it drains.
Evict ==
    /\ room # NoRoom /\ room.conns > 0
    /\ Spend("budgets")
    /\ Drain
    /\ crowd' = "in"
    /\ UNCHANGED <<object, online, leaving>>

EverybodyOut ==
    /\ online' = [u \in People |-> 0]
    /\ leaving' = leaving + Cardinality(Present)

\* evict: a narrowed audience closes every connection and tears the room down,
\* or waits for the teardown that runs
Narrow ==
    /\ Present # {} /\ ~object.deleted
    /\ Spend("narrows")
    /\ object' = [object EXCEPT !.version = @ + 1]
    /\ EverybodyOut
    /\ \/ Drain
       \/ /\ drain # "none"
          /\ UNCHANGED <<images, row, room, due, landed, drain, join, clock,
                         lines, used, handed>>
    /\ UNCHANGED crowd

Draining == UNCHANGED <<due, join, clock, lines, used>>

\* The row is written before the last flush, so that a death is legible.
MarkDraining ==
    /\ drain = "mark"
    /\ drain' = "flush"
    /\ Save(room)
    /\ UNCHANGED <<stored, room, landed, crowd, online, leaving, handed>>
    /\ Draining

\* It lands, has nothing to write, throws, or returns without having written,
\* which the store is not told.
LastFlush ==
    /\ drain = "flush" /\ landed = 0
    /\ \/ Land /\ drain' = "remove" /\ UNCHANGED <<handed, setting>>
       \/ /\ object.deleted \/ UpToDate(room.doc, Reached) = object.body
          /\ drain' = "remove"
          /\ UNCHANGED <<stored, room, landed, handed, setting>>
       \/ /\ Failing("flush") /\ drain' = "keep"
          /\ UNCHANGED <<stored, room, landed, handed>>
       \/ /\ Failing("quiet") /\ drain' = "unwritten"
          /\ LET text == UpToDate(room.doc, Reached)
             IN  handed' = handed \union (text \ object.body)
                                  \union (object.body \ text)
          /\ UNCHANGED <<stored, room, landed>>
    /\ UNCHANGED <<row, crowd, online, leaving>> /\ Draining

\* It threw: the blob is the only copy of what the object does not have.
Keep ==
    /\ drain = "keep"
    /\ drain' = "drop"
    /\ Save(room)
    /\ UNCHANGED <<stored, room, landed, crowd, online, leaving, handed>>
    /\ Draining

\* dropRoom: out of the map, and every connection that is left is closed
DropRoom ==
    /\ room' = NoRoom /\ drain' = "none" /\ crowd' = "out" /\ landed' = 0
    /\ EverybodyOut

\* The last transaction of a teardown: a join that has read is back by then,
\* and one that has opened the room is bound to it.
Settling == join.pc # "opened" /\ (setting.spans \/ join.pc # "loaded")

RemoveRow ==
    \/ row' = NoRow /\ UNCHANGED setting
    \/ Failing("remove") /\ UNCHANGED row

\* The last flush returned: what the row held is taken to be in the object.
Remove ==
    /\ drain \in {"remove", "unwritten"} /\ Settling
    /\ RemoveRow /\ DropRoom
    /\ UNCHANGED <<stored, handed>> /\ Draining

Drop ==
    /\ drain = "drop" /\ Settling
    /\ DropRoom
    /\ UNCHANGED <<stored, row, handed, setting>> /\ Draining

\* purge, for whatever reason but a narrowed audience: nothing is flushed
Purge ==
    /\ row' \in {NoRow} \union (IF "remove" \in setting.fragile THEN {row} ELSE {})
    /\ DropRoom
    /\ due' = FALSE

\* delete, and the purge it announces when somebody has the document open
Trash ==
    /\ Spend("trashes") /\ ~object.deleted
    /\ object' = [object EXCEPT !.version = @ + 1, !.deleted = TRUE]
    /\ \/ Present = {}
          /\ UNCHANGED <<row, room, due, landed, drain, crowd, online, leaving>>
       \/ Present # {} /\ Purge
    /\ UNCHANGED <<images, join, clock, lines, used, handed>>

\* evictEverything: the box is switched off, and every room with people in it is
\* purged, the object staying as it was written last
BoxOff ==
    /\ Present # {} /\ Settling
    /\ Spend("offs")
    /\ Purge
    /\ UNCHANGED <<stored, join, clock, lines, used, handed>>

\* The box dies: what is in Postgres is what is left.
Crash ==
    /\ Spend("crashes")
    /\ room' = NoRoom /\ due' = FALSE /\ landed' = 0 /\ drain' = "none"
    /\ crowd' = "out"
    /\ join' = NotJoining
    /\ online' = [u \in People |-> 0] /\ leaving' = 0
    /\ UNCHANGED <<stored, row, clock, lines, used, handed>>

JoinStep == JoinLoads \/ JoinWaits \/ Attach \/ Seed \/ Resume \/ Rebase
                \/ RebaseUnmerged \/ Enter
DrainStep == MarkDraining \/ LastFlush \/ Keep \/ Remove \/ Drop

Next ==
    \/ \E u \in People :
          \/ \E w \in Words : Type(u, w) \/ Strike(u, w)
          \/ JoinBegin(u) \/ Leave(u)
    \/ \E w \in Words : OutsideAdds(w) \/ OutsideCuts(w)
    \/ Persist \/ Flush \/ MarkFlushed \/ Ingest
    \/ JoinStep \/ Disconnected
    \/ Sweep \/ Evict \/ Narrow \/ DrainStep \/ Trash \/ BoxOff \/ Crash

Spec == Init /\ [][Next]_vars
FairSpec == Spec /\ WF_vars(JoinStep) /\ WF_vars(DrainStep) /\ WF_vars(MarkFlushed)
                 /\ WF_vars(Disconnected) /\ WF_vars(Sweep)

-----------------------------------------------------------------------------
Version == Nat
Lines == 0 .. MaxLines
Blobs == [blob : SUBSET Words, epoch : Nat, line : Lines, base : Version]
LiveRooms == [doc : SUBSET Words, base : Version, epoch : Nat, line : Lines,
              conns : Nat]

ASSUME NoRoomAssumption == NoRoom \notin LiveRooms
ASSUME NoRowAssumption == NoRow \notin Blobs

\* Types, and no text is reconciled to a version that is yet to come.
TypeOK ==
    /\ object \in [version : Version, body : SUBSET Words, deleted : BOOLEAN]
    /\ \A i \in DOMAIN images : i \in Version /\ images[i] \subseteq Words
    /\ row \in Blobs \union {NoRow}
    /\ room \in LiveRooms \union {NoRoom}
    /\ row # NoRow => row.base <= object.version
    /\ room # NoRoom => Reached <= object.version
    /\ due \in BOOLEAN /\ landed \in Version
    /\ drain \in {"none", "mark", "flush", "keep", "drop", "remove", "unwritten"}
    /\ crowd \in {"out", "in"}
    /\ join.pc \in {"none", "gate", "loaded", "opened"}
    /\ online \in [People -> Lines] /\ leaving \in Nat
    /\ used \subseteq Words /\ handed \subseteq Words

\* Whoever edits the document edits the room that is flushed: a join that
\* races a teardown is never left with a document nobody writes
\* (docStore.ts:710, "orphaning the connection").  Only a room that is evicted
\* with people in it drains under them.
InTheRoom ==
    \A u \in Present :
        room # NoRoom /\ online[u] = room.line /\ (drain = "none" \/ crowd = "in")

\* A document that was seeded anew has an epoch no other one ever had, so a
\* client never merges its copy of one into another (docStore.ts:427).
OneEpochEach ==
    /\ \A i, j \in DOMAIN lines : lines[i] = lines[j] => i = j
    /\ room # NoRoom => room.line \in DOMAIN lines /\ room.epoch = lines[room.line]

\* A room that counts nobody has nobody in it, and nobody about to enter it: the
\* sweep takes only such a room for empty.
Counted ==
    room # NoRoom =>
        room.conns >= Cardinality(Present) + (IF join.pc = "opened" THEN 1 ELSE 0)

\* Every join is answered.
Answered == join.pc # "none" ~> join.pc = "none"

\* A document nobody is in is written and its room closed.
Closes == (room # NoRoom /\ Present = {}) ~> (room = NoRoom \/ Present # {})

-----------------------------------------------------------------------------
(* What whoever opens the document sees, now and after a death.              *)

Saved == IF row = NoRow THEN object.body ELSE UpToDate(row.blob, row.base)

Text ==
    IF object.deleted THEN {}
    ELSE IF room = NoRoom THEN Saved
    ELSE UpToDate(room.doc, Reached)

\* What a death of the box would change and what its being switched off would,
\* while there is one to come, and what is lost with a room that is evicted
\* with people in it: what they change after its last write.
Differ(text, other) == (text \ other) \union (other \ text)
Deadly == setting.crashes > 0 \/ (crowd = "in" /\ drain = "drop")
Unflushed == setting.offs > 0 \/ (crowd = "in" /\ drain \in {"remove", "unwritten"})

Volatile ==
    IF object.deleted THEN {}
    ELSE (IF Deadly THEN Differ(Text, Saved) ELSE {}) \union
         (IF Unflushed THEN Differ(Text, object.body) ELSE {})

\* Of a document that was deleted there is nothing left to say.
Handed == IF object.deleted THEN {} ELSE handed
Written == IF object.deleted THEN Words ELSE used
Takes == IF object.deleted THEN 0 ELSE setting.strikes + setting.cuts

Shared == INSTANCE SharedText WITH
    text <- Text, volatile <- Volatile, handed <- Handed, written <- Written, takes <- Takes

\* Opening, resuming, rebasing, flushing and closing rooms change nothing anybody
\* sees, but for what an eviction, a switched-off box or a death cuts off: the
\* room implements one shared text, into which only people and writers outside
\* put words and from which only they take them.
OneText == Shared!TextSpec
=============================================================================

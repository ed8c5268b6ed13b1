---------------------------- MODULE CollabFlush ----------------------------
(***************************************************************************)
(* One open document of the live editor: the room's shared text, the       *)
(* contributions waiting in it, the flush that writes them into the        *)
(* object, the watcher that merges other writers' changes into the room,   *)
(* and the last flush before the room is dropped (apps/box/src/collab:     *)
(* flush.ts, bridge.ts, and the part of docStore.ts they meet at).         *)
(*                                                                         *)
(* A text is the set of the words in it.  A word is put in once and taken  *)
(* out at most once, so a lost, a returned and a misattributed word are    *)
(* told apart.  JavaScript runs one callback at a time: an action is the   *)
(* code between two awaits, and what a query reads or writes in Postgres   *)
(* is an action of its own wherever the code acts on the answer later.     *)
(***************************************************************************)
EXTENDS Integers, Sequences, FiniteSets

CONSTANTS
    Users,        \* the people who may be in the room
    Joiner,       \* who joined last, the fallback author
    Words,        \* everything anybody may write
    Initial,      \* the object's words when the room opens
    Pen,          \* bound: the one writer who may put a word in
    None,         \* no person
    Outside,      \* whoever writes the object without the room
    Unread,       \* the flush has not read the stored text yet
    MaxAttempts,  \* FLUSH_MAX_ATTEMPTS: lost compare-and-swaps of a run
    MaxReruns,    \* flushes one call makes for the requests behind it
    Settings      \* the settings considered, see Setting

\* Who is there, what an earlier session left, and how much goes wrong.
Setting ==
    [people   : SUBSET Users,     \* who may write when the room opens
     unsaved  : SUBSET Words,     \* resumed from the blob, not in the object
     known    : BOOLEAN,          \* the first flush read the text it began with
     crossing : BOOLEAN,          \* an ingest and a flush may overlap
     overlaps : BOOLEAN,          \* a three-way merge may be refused
     fragile  : SUBSET {"read", "rights", "write", "reread", "watch"},
                                  \* the database calls that may fail
     errors   : Nat,              \* bound: how many do
     strikes  : Nat,              \* bound: words the people take out
     outside  : Nat,              \* bound: what happens to the row from outside
     revoked  : Nat]              \* bound: people who lose the right to write

ASSUME RoomAssumption ==
    /\ Joiner \in Users /\ Initial \subseteq Words
    /\ \A w \in Words : Pen[w] \in Users \union {Outside}
    /\ None \notin Users /\ Outside \notin Users /\ None # Outside
    /\ \A text \in SUBSET Words : text # Unread
    /\ MaxAttempts \in Nat \ {0} /\ MaxReruns \in Nat
    /\ Settings \subseteq Setting

VARIABLES
    object,     \* the row: [version, body, deleted]
    images,     \* before_image: the body each change of the text replaced
    rights,     \* who may write now, as the database has it
    doc,        \* the room's shared text
    base,       \* docStore baseVersion: the version the room is reconciled to
    room,       \* the flush's room: [runs, open, baseMd, armed, again]
    flush,      \* the running flush call
    watcher,    \* the watcher's ingest
    news,       \* version of the newest outside event it has not seen, or 0
    phase,      \* "open", "closing", "flushing" (its last flush) or "gone"
    evicted,    \* people whose connection was refused and dropped
    author,     \* history: who put a word in
    striker,    \* history: who took it out again
    reverted,   \* history: words a refusal took out of the room or put back
    ending,     \* history: how the newest flush cycle ended
    setting     \* the setting, its bounds counted down

stored == <<object, images, news>>
history == <<author, striker, reverted>>
vars == <<stored, rights, doc, base, room, flush, watcher, phase, evicted,
          history, ending, setting>>

People == Users \union {Outside, None}

\* applyMarkdownDiff: the change from one text to another, applied to a third
Merge(text, from, to) == (text \ (from \ to)) \union (to \ from)

\* It may be refused when the change and the text's own edits overlap.
MayOverlap(text, from, to) ==
    setting.overlaps /\ from # to /\ text # from /\ text # to

\* closeRun: the open contribution ends with the text as it is
Closed(runs, open, text) ==
    IF open = None THEN runs
    ELSE Append(runs, [actor |-> open, md |-> text, carry |-> FALSE])

(* Slips: what nobody here typed has no author, or is not written. *)
Taken_NoAuthor(runs, open, baseMd, text) ==
    LET pending == Closed(runs, open, text)
    IN  IF pending = <<>> /\ text # baseMd
        THEN <<[actor |-> None, md |-> text, carry |-> TRUE]>>
        ELSE pending

Taken_TypedOnly(runs, open, baseMd, text) == Closed(runs, open, text)

\* takeRuns: what is pending, or else the text nobody here typed
Taken(runs, open, baseMd, text) ==
    LET pending == Closed(runs, open, text)
    IN  IF pending = <<>> /\ text # baseMd
        THEN <<[actor |-> Joiner, md |-> text, carry |-> TRUE]>>
        ELSE pending

\* The runs from the first one that changes the stored text: zero churn.
Changing(runs, prev) ==
    LET changes == {i \in DOMAIN runs : runs[i].md # prev}
    IN  IF changes = {} THEN <<>>
        ELSE SubSeq(runs, CHOOSE i \in changes : \A j \in changes : i <= j,
                    Len(runs))

(* Slip: the snapshots are written again as they were. *)
Rebased_Blind(runs, from, to) == runs

\* rebaseSnapshot, over every pending run
Rebased(runs, from, to) ==
    [i \in DOMAIN runs |-> [runs[i] EXCEPT !.md = Merge(@, from, to)]]

AnyOverlap(runs, from, to) ==
    \E i \in DOMAIN runs : MayOverlap(runs[i].md, from, to)

Idle == [pc |-> "idle", last |-> FALSE, rerun |-> 0, runs |-> <<>>,
         prev |-> {}, at |-> 0, attempt |-> 0, wrote |-> FALSE,
         got |-> [kind |-> "none"]]

Resting == [pc |-> "idle", base |-> 0, version |-> 0, body |-> {},
            from |-> {}]

(* attach: the room is resumed with its unsaved words and flushed at once,  *)
(* or it has been, and nothing was written in between.                      *)
Init ==
    /\ setting \in Settings
    /\ object = [version |-> 1, body |-> Initial, deleted |-> FALSE]
    /\ images = << >>
    /\ news = 0
    /\ rights = setting.people
    /\ doc = Initial \union setting.unsaved
    /\ base = 1
    /\ room = [runs |-> <<>>, open |-> None, baseMd |-> IF setting.known THEN Initial ELSE Unread,
               armed |-> TRUE, again |-> "no"]
    /\ flush = Idle
    /\ watcher = Resting
    /\ phase = "open"
    /\ evicted = {}
    /\ author = [w \in Words |-> IF w \in Initial THEN Outside
                                 ELSE IF w \in setting.unsaved THEN Joiner ELSE None]
    /\ striker = [w \in Words |-> None]
    /\ reverted = {}
    /\ ending = "none"

-----------------------------------------------------------------------------
(* The people in the room and the writers outside it.                       *)

\* Between a cycle and the next one of a call no other callback runs.
Awaiting == flush.pc # "after"

MayType(u) ==
    /\ Awaiting
    /\ u \in setting.people \ evicted
    /\ phase = "open"

(* Slip: whoever types last is taken to have typed it all. *)
Contribution_Last(u) == room' = [room EXCEPT !.open = u, !.armed = TRUE]

\* observe: a contribution ends where another person's begins, and any edit
\* arms the idle and the burst timer.
Contribution(u) ==
    room' = [room EXCEPT
        !.runs = IF room.open = u THEN @ ELSE Closed(@, room.open, doc),
        !.open = u,
        !.armed = TRUE]

Type(u, w) ==
    /\ MayType(u) /\ author[w] = None /\ Pen[w] = u
    /\ doc' = doc \union {w}
    /\ author' = [author EXCEPT ![w] = u]
    /\ Contribution(u)
    /\ UNCHANGED <<stored, rights, base, flush, watcher, phase, evicted,
                   striker, reverted, ending, setting>>

Strike(u, w) ==
    /\ MayType(u) /\ w \in doc /\ setting.strikes > 0
    /\ setting' = [setting EXCEPT !.strikes = @ - 1]
    /\ doc' = doc \ {w}
    /\ striker' = [striker EXCEPT ![w] = IF @ = None THEN u ELSE @]
    /\ Contribution(u)
    /\ UNCHANGED <<stored, rights, base, flush, watcher, phase, evicted,
                   author, reverted, ending>>

\* The row a write commits: a change of the text keeps the body it replaced.
Commit(text) ==
    /\ object' = [object EXCEPT !.version = @ + 1, !.body = text]
    /\ images' = [v \in DOMAIN images \union {object.version} |->
                    IF v = object.version THEN object.body ELSE images[v]]

FromOutside ==
    /\ Awaiting
    /\ setting.outside > 0 /\ ~object.deleted
    /\ setting' = [setting EXCEPT !.outside = @ - 1]
    /\ UNCHANGED <<rights, doc, base, room, flush, watcher, phase, evicted,
                   reverted, ending>>

OutsideAdds(w) ==
    /\ FromOutside
    /\ author[w] = None /\ Pen[w] = Outside
    /\ Commit(object.body \union {w})
    /\ news' = object'.version
    /\ author' = [author EXCEPT ![w] = Outside]
    /\ UNCHANGED striker

OutsideStrikes(w) ==
    /\ FromOutside
    /\ w \in object.body
    /\ Commit(object.body \ {w})
    /\ news' = object'.version
    /\ striker' = [striker EXCEPT ![w] = Outside]
    /\ UNCHANGED author

\* A props, link or visibility edit: a new version of the same text.
OutsideEditsProps ==
    /\ FromOutside
    /\ object' = [object EXCEPT !.version = @ + 1]
    /\ news' = object'.version
    /\ UNCHANGED <<images, author, striker>>

Trash ==
    /\ FromOutside
    /\ object' = [object EXCEPT !.version = @ + 1, !.deleted = TRUE]
    /\ UNCHANGED <<images, news, author, striker>>

Revoke(u) ==
    /\ Awaiting
    /\ setting.revoked > 0 /\ u \in rights
    /\ setting' = [setting EXCEPT !.revoked = @ - 1]
    /\ rights' = rights \ {u}
    /\ UNCHANGED <<stored, doc, base, room, flush, watcher, phase, evicted,
                   history, ending>>

\* One database call fails.
Failing(call) ==
    /\ call \in setting.fragile /\ setting.errors > 0
    /\ setting' = [setting EXCEPT !.errors = @ - 1]

-----------------------------------------------------------------------------
(* The flush.  `flush.runs' is what is left of the cycle, the first of them *)
(* the contribution being written; `prev' the text it is written over.      *)

Emptied(r) == [r EXCEPT !.runs = <<>>, !.open = None]

TakeUp(call, r, prev, at) ==
    LET runs == Changing(Taken(r.runs, r.open, prev, doc), prev)
    IN  /\ room' = [Emptied(r) EXCEPT !.baseMd = prev]
        /\ flush' = [call EXCEPT !.pc = IF runs = <<>> THEN "after" ELSE "check",
                                 !.runs = runs, !.prev = prev, !.at = at]
        /\ ending' = IF runs = <<>> THEN "clean" ELSE "running"

\* flushOnce, up to its first await
StartCycle(call, r) ==
    IF r.baseMd = Unread
    THEN flush' = [call EXCEPT !.pc = "read"] /\ room' = r /\ ending' = "running"
    ELSE TakeUp(call, r, r.baseMd, base)

\* flush: one call at a time; a request behind it is remembered by its reason
Request(last) ==
    /\ setting.crossing \/ watcher.pc = "idle"
    /\ IF flush.pc = "idle"
       THEN StartCycle([Idle EXCEPT !.last = last], [room EXCEPT !.armed = FALSE])
       ELSE /\ room' = [room EXCEPT !.again = IF last THEN "last"
                                              ELSE IF @ = "no" THEN "yes" ELSE @,
                                    !.armed = FALSE]
            /\ UNCHANGED <<flush, ending>>

\* A cycle ended early: nothing is scheduled and the base stays what it was.
GiveUp(how, r) ==
    /\ room' = r /\ ending' = how
    /\ flush' = [flush EXCEPT !.pc = "after"]
    /\ UNCHANGED base

(* Slips: the room is not marked flushed; what was put back has no timer. *)
EndCycle_Unmarked(how, f, r) ==
    /\ room' = [r EXCEPT !.baseMd = f.prev,
                         !.armed = @ \/ (r.runs # <<>> /\ ~f.last)]
    /\ flush' = [f EXCEPT !.pc = "after"]
    /\ ending' = how
    /\ UNCHANGED base

EndCycle_Unarmed(how, f, r) ==
    /\ room' = [r EXCEPT !.baseMd = f.prev]
    /\ base' = IF f.wrote /\ ~f.last /\ f.at > base THEN f.at ELSE base
    /\ flush' = [f EXCEPT !.pc = "after"]
    /\ ending' = how

\* The end of flushOnce: keep the base, mark the room flushed if it goes on.
EndCycle(how, f, r) ==
    /\ room' = [r EXCEPT !.baseMd = f.prev,
                         !.armed = @ \/ (r.runs # <<>> /\ ~f.last)]
    /\ base' = IF f.wrote /\ ~f.last /\ f.at > base THEN f.at ELSE base
    /\ flush' = [f EXCEPT !.pc = "after"]
    /\ ending' = how

UnlessFlushing == UNCHANGED <<rights, watcher, phase, author>>
Steady == UNCHANGED <<evicted, striker, reverted>>

Fire ==
    /\ Awaiting /\ room.armed /\ phase # "gone"
    /\ phase = "flushing" => flush.pc # "idle"
    /\ Request(FALSE)
    /\ UNCHANGED <<stored, doc, base, setting>> /\ UnlessFlushing /\ Steady

\* readObject for a room whose stored text is not known yet
ReadBase ==
    /\ flush.pc = "read"
    /\ \/ /\ Failing("read") /\ GiveUp("unread", room)
       \/ /\ object.deleted /\ GiveUp("conflict", room)
          /\ UNCHANGED setting
       \/ /\ ~object.deleted
          /\ flush' = [flush EXCEPT !.pc = "based", !.got = object]
          /\ UNCHANGED <<base, room, ending, setting>>
    /\ UNCHANGED <<stored, doc>> /\ UnlessFlushing /\ Steady

Based ==
    /\ flush.pc = "based"
    /\ TakeUp(flush, room, flush.got.body, flush.got.version)
    /\ UNCHANGED <<stored, doc, base, setting>> /\ UnlessFlushing /\ Steady

\* refuse: the room goes back to the last text written, its author goes out
Refuse ==
    /\ doc' = flush.prev
    /\ evicted' = evicted \union {Head(flush.runs).actor}
    /\ reverted' = reverted \union (doc \ flush.prev) \union (flush.prev \ doc)
    /\ striker' = [w \in Words |->
            IF w \in (flush.prev \ doc) \cap object.body /\ striker[w] \in Users
            THEN None ELSE striker[w]]
    /\ EndCycle("refused", flush, Emptied(room))

\* canWrite: the rights as the database has them now; unreadable is a no
CheckRights ==
    /\ flush.pc = "check"
    /\ LET run == Head(flush.runs)
       IN  \/ /\ run.actor \in rights
              /\ flush' = [flush EXCEPT !.pc = "write", !.attempt = 0]
              /\ UNCHANGED <<doc, base, room, ending, setting>> /\ Steady
           \/ /\ \/ run.actor \notin rights /\ UNCHANGED setting
                 \/ Failing("rights")
              /\ \/ ~run.carry /\ Refuse
                 \/ /\ run.carry /\ EndCycle("refused", flush, Emptied(room))
                    /\ UNCHANGED doc /\ Steady
    /\ UNCHANGED stored /\ UnlessFlushing

PutBack(f) == [room EXCEPT !.runs = f.runs \o @]

\* editFields: FOR UPDATE, the version compared, the body replaced
WriteRun ==
    /\ flush.pc = "write"
    /\ LET run == Head(flush.runs)
           wins == ~object.deleted /\ object.version = flush.at
       IN  \/ /\ wins /\ Commit(run.md)
              /\ flush' = [flush EXCEPT !.pc = "written",
                                        !.got = [version |-> object.version + 1]]
              /\ UNCHANGED <<doc, base, room, ending, setting>> /\ Steady
           \/ /\ ~object.deleted /\ object.version # flush.at
              /\ flush' = [flush EXCEPT !.pc = "reread"]
              /\ UNCHANGED <<object, images, doc, base, room, ending, setting>>
              /\ Steady
           \/ /\ object.deleted /\ Refuse
              /\ UNCHANGED <<object, images, setting>>
           \/ /\ Failing("write")
              /\ UNCHANGED <<object, images>>
              /\ EndCycle("transient", flush, PutBack(flush))
              /\ UNCHANGED doc /\ Steady
    /\ UNCHANGED news /\ UnlessFlushing

Written ==
    /\ flush.pc = "written"
    /\ LET md == Head(flush.runs).md
           f == [flush EXCEPT !.runs = Changing(Tail(@), md), !.prev = md,
                              !.at = flush.got.version, !.wrote = TRUE]
       IN  \/ /\ f.runs # <<>> /\ flush' = [f EXCEPT !.pc = "check"]
              /\ UNCHANGED <<base, room, ending>>
           \/ f.runs = <<>> /\ EndCycle("clean", f, room)
    /\ UNCHANGED <<stored, doc, setting>> /\ UnlessFlushing /\ Steady

\* A lost compare-and-swap reads the object again.
Reread ==
    /\ flush.pc = "reread"
    /\ \/ /\ \/ object.deleted /\ UNCHANGED setting
             \/ Failing("reread")
          /\ GiveUp("conflict", Emptied(room))
       \/ /\ ~object.deleted
          /\ flush' = [flush EXCEPT !.pc = "rebase", !.got = object]
          /\ UNCHANGED <<base, room, ending, setting>>
    /\ UNCHANGED <<stored, doc>> /\ UnlessFlushing /\ Steady

\* What landed goes into the room and under every contribution not written.
Rebase ==
    /\ flush.pc = "rebase"
    /\ LET now == flush.got.body
           again == [flush EXCEPT !.at = flush.got.version, !.prev = now,
                                  !.runs = Rebased(@, flush.prev, now),
                                  !.attempt = @ + 1]
           retry == \/ /\ again.attempt < MaxAttempts
                       /\ flush' = [again EXCEPT !.pc = "write"]
                       /\ UNCHANGED <<base, room, ending>>
                    \/ /\ again.attempt = MaxAttempts
                       /\ EndCycle("exhausted", again, PutBack(again))
       IN  \/ now = flush.prev /\ retry /\ UNCHANGED doc
           \/ /\ MayOverlap(doc, flush.prev, now)
              /\ GiveUp("conflict", Emptied(room)) /\ UNCHANGED doc
           \/ /\ now # flush.prev
              /\ doc' = Merge(doc, flush.prev, now)
              /\ \/ retry
                 \/ /\ AnyOverlap(flush.runs, flush.prev, now)
                    /\ GiveUp("conflict", Emptied(room))
    /\ UNCHANGED <<stored, setting>> /\ UnlessFlushing /\ Steady

\* The request that came during the call is run, a bounded number of times.
NextCycle ==
    /\ flush.pc = "after"
    /\ LET r == [room EXCEPT !.again = "no"]
       IN  \/ /\ room.again # "no" /\ flush.rerun < MaxReruns
              /\ StartCycle([Idle EXCEPT !.last = room.again = "last",
                                         !.rerun = flush.rerun + 1], r)
           \/ /\ room.again = "no" \/ flush.rerun = MaxReruns
              /\ flush' = Idle /\ room' = r
              /\ ending' = IF room.again = "last" THEN "skipped" ELSE ending
    /\ UNCHANGED <<stored, doc, base, setting>> /\ UnlessFlushing /\ Steady

-----------------------------------------------------------------------------
(* The watcher: what others wrote goes into the live room.                  *)

WatcherOnly == UNCHANGED <<object, images, rights, phase, evicted, history, ending>>

\* cycle: the cursor moves past the batch whatever becomes of it
Poll ==
    /\ Awaiting
    /\ watcher.pc = "idle" /\ news # 0
    /\ setting.crossing \/ flush.pc = "idle"
    /\ news' = 0
    /\ watcher' = IF phase = "open" /\ news > base
                  THEN [Resting EXCEPT !.pc = "load", !.base = base]
                  ELSE watcher
    /\ UNCHANGED <<doc, base, room, flush, setting>> /\ WatcherOnly

\* ingest: the object as a member of the room sees it
Load ==
    /\ Awaiting /\ watcher.pc = "load"
    /\ \/ /\ Failing("watch") /\ watcher' = Resting
       \/ /\ watcher' = IF object.deleted \/ object.version <= watcher.base
                        THEN Resting
                        ELSE [watcher EXCEPT !.pc = "base",
                                             !.version = object.version,
                                             !.body = object.body]
          /\ UNCHANGED setting
    /\ UNCHANGED <<news, doc, base, room, flush>> /\ WatcherOnly

\* baseBody: the body as of the version the room was reconciled to
BaseBody ==
    /\ Awaiting /\ watcher.pc = "base"
    /\ LET later == {v \in DOMAIN images : v >= watcher.base}
       IN  \/ /\ Failing("watch") /\ watcher' = Resting /\ UNCHANGED base
           \/ /\ later = {}
              /\ watcher' = Resting
              /\ base' = IF phase # "gone" /\ watcher.version > base
                         THEN watcher.version ELSE base
              /\ UNCHANGED setting
           \/ /\ later # {}
              /\ watcher' = [watcher EXCEPT !.pc = "merge",
                    !.from = images[CHOOSE v \in later : \A o \in later : v <= o]]
              /\ UNCHANGED <<base, setting>>
    /\ UNCHANGED <<news, doc, room, flush>> /\ WatcherOnly

\* One transaction into the text, and the base moves with it unless it passed.
MergeIn ==
    /\ Awaiting /\ watcher.pc = "merge"
    /\ \/ /\ MayOverlap(doc, watcher.from, watcher.body)
          /\ watcher' = Resting /\ UNCHANGED <<doc, base>>
       \/ /\ doc' = Merge(doc, watcher.from, watcher.body)
          /\ \/ /\ phase # "gone" /\ base < watcher.version
                /\ base' = watcher.version
                /\ watcher' = [watcher EXCEPT !.pc = "note"]
             \/ /\ phase = "gone" \/ base >= watcher.version
                /\ watcher' = Resting /\ UNCHANGED base
    /\ UNCHANGED <<news, room, flush, setting>> /\ WatcherOnly

\* noteExternalWrite, once the row is compacted: the flush's idea of the
\* stored text, and every contribution waiting, move to what was merged.
NoteExternalWrite ==
    /\ Awaiting /\ watcher.pc = "note"
    /\ watcher' = Resting
    /\ IF room.baseMd = Unread \/ phase = "gone"
       THEN UNCHANGED room
       ELSE \/ room' = [room EXCEPT !.baseMd = watcher.body,
                                    !.runs = Rebased(@, room.baseMd, watcher.body)]
            \/ /\ AnyOverlap(room.runs, room.baseMd, watcher.body)
               /\ room' = [Emptied(room) EXCEPT !.baseMd = watcher.body]
    /\ UNCHANGED <<news, doc, base, flush, setting>> /\ WatcherOnly

-----------------------------------------------------------------------------
(* The end of the room: idle, over the setting, narrowed or shut down.       *)

\* teardown: the room is draining and its row is marked so first
Close ==
    /\ Awaiting /\ phase = "open" /\ ~object.deleted
    /\ phase' = "closing"
    /\ UNCHANGED <<stored, rights, doc, base, room, flush, watcher, evicted,
                   history, ending, setting>>

LastFlush ==
    /\ Awaiting /\ phase = "closing"
    /\ phase' = "flushing"
    /\ Request(TRUE)
    /\ UNCHANGED <<stored, rights, doc, base, watcher, evicted, history, setting>>

\* The call returned: the row is deleted and the text destroyed.
Drop ==
    /\ phase = "flushing" /\ flush.pc = "idle"
    /\ phase' = "gone"
    /\ UNCHANGED <<stored, rights, doc, base, room, flush, watcher, evicted,
                   history, ending, setting>>

\* purge of a trashed object: no flush
Purge ==
    /\ Awaiting /\ object.deleted /\ phase # "gone"
    /\ phase' = "gone"
    /\ UNCHANGED <<stored, rights, doc, base, room, flush, watcher, evicted,
                   history, ending, setting>>

FlushStep == ReadBase \/ Based \/ CheckRights \/ WriteRun \/ Written \/ Reread
                \/ Rebase \/ NextCycle
WatcherStep == Poll \/ Load \/ BaseBody \/ MergeIn \/ NoteExternalWrite

Next ==
    \/ \E u \in Users, w \in Words : Type(u, w) \/ Strike(u, w)
    \/ \E w \in Words : OutsideAdds(w) \/ OutsideStrikes(w)
    \/ OutsideEditsProps \/ Trash
    \/ \E u \in Users : Revoke(u)
    \/ Fire \/ FlushStep \/ WatcherStep
    \/ Close \/ LastFlush \/ Drop \/ Purge

Spec == Init /\ [][Next]_vars
FairSpec == Spec /\ WF_vars(Fire) /\ WF_vars(FlushStep) /\ WF_vars(WatcherStep)
                 /\ WF_vars(LastFlush) /\ WF_vars(Drop)

-----------------------------------------------------------------------------
Runs == Seq([actor : Users, md : SUBSET Words, carry : BOOLEAN])

TypeOK ==
    /\ object \in [version : Nat, body : SUBSET Words, deleted : BOOLEAN]
    /\ rights \subseteq Users /\ evicted \subseteq Users
    /\ doc \subseteq Words /\ base \in Nat /\ news \in Nat
    /\ room.runs \in Runs /\ room.open \in Users \union {None}
    /\ room.baseMd = Unread \/ room.baseMd \subseteq Words
    /\ flush.runs \in Runs /\ flush.prev \subseteq Words /\ flush.at \in Nat
    /\ phase \in {"open", "closing", "flushing", "gone"}
    /\ author \in [Words -> People] /\ striker \in [Words -> People]

\* The flush, the watcher and the writers outside meet one at a time, and the
\* base could be read.
Orderly == ~setting.crossing

\* What was written without the room is an acknowledged write: no flush takes
\* a word of it out again, and none puts back a word it took out (flush.ts:49,
\* "CAS failure is never a blind retry").
NothingTakenBack ==
    Orderly => \A w \in Words :
        /\ author[w] = Outside /\ striker[w] = None => w \in object.body
        /\ striker[w] = Outside => w \notin object.body

\* A word somebody in the room took out stays out of the room: neither the
\* watcher nor a rebase types it in again (flush.ts:64, the echo loop).
StaysStruck ==
    Orderly => \A w \in Words :
        phase # "gone" /\ striker[w] \in Users /\ w \notin reverted => w \notin doc

\* A word typed in the room is in the room or in the object, unless somebody
\* took it out or it was refused; and a room is dropped with words that are in
\* neither only after a last flush that failed.
NothingLost ==
    \A w \in Words :
        \/ author[w] \notin Users \/ striker[w] # None \/ w \in reverted
        \/ object.deleted \/ w \in object.body
        \/ phase # "gone" /\ w \in doc
        \/ phase = "gone" /\ ending # "clean"

\* Every version the room writes holds only new words of the person it is
\* written as, or of an earlier session (flush.ts:21, one write, one actor).
OwnWordsOnly ==
    [][Orderly /\ flush.pc = "write" /\ flush' # flush /\ object' # object =>
        LET run == Head(flush.runs)
        IN  run.carry \/ \A w \in object'.body \ object.body :
                            author[w] = run.actor \/ w \in setting.unsaved]_vars

\* What is typed here reaches the object, or leaves the room.
Lands ==
    \A w \in Words :
        (Orderly /\ w \in doc \ setting.unsaved /\ author[w] \in Users) ~>
            (w \in object.body \/ w \notin doc \/ phase = "gone" \/ object.deleted)
=============================================================================

# A verification project for maslow

TLA+ modules, TLC configurations and TLAPS proofs about the box of this
repository: a self-hosted "brain" (PostgreSQL, an app server, a proxy and an
updater) that updates itself, can be switched off from a control plane, and
serves people and agents who edit the same documents.

Paths below are relative to the repository (`apps/...`), listed in
`PROJECT.json` with a `src/` prefix. `PROJECT.json` maps every definition to
the lines it models.

## 1. Inventory

| Component | State it keeps | Operations | Hard behaviour | What makes it correct |
|---|---|---|---|---|
| Updater (`apps/updater/src`: `main`, `runtime`, `updater`, `decisions`, `versions`, `host`) | state file (current, floor, attempts, kept images, swap journal, op marks), deploy `.env` and tree, stamped snapshot, docker's containers | one tick: list, heal, heartbeat, verify, pull, migrate, restart, canary, roll back, save, operator ops, self-update | dies or fails between any two host calls; the release list changes between ticks; a busy canary leaves the new image live; memory and state file diverge when a tick throws | only a release proven by a canary is recorded; a rollback target always exists and never goes below the floor; the box settles on one whole shape; failures are counted and latch; no swap stays half done; the updater converges on its own image |
| Verification and feeds (`verify`, `bundle`, `booth-client`, `github-releases-client`, `release-gate`) | none | signature and manifest checks, list and heartbeat fetch | outages look like refusals | a deferral is never a failure |
| Operator ops (`runtime.ts` 56-114) | honoured generations, pinned box id | restart the app, prune images | replays, a counter that regresses, a death between bounce and save | at most one bounce per generation, none on adoption |
| Kill switch (`apps/box/src/kill-switch*.ts`, `booth-telephone.ts`, wiring in `index.ts`) | latch, replay floor, guarded clock, grace deadline, pinned identity; cached decision; state file | check (call, answer), serve, poll, boot | overlapping checks, replayed or foreign leases, clock steps, unreachable control plane, failed saves | an off latches; nothing guarded goes back; the switch is followed within a bound; a dead man's switch |
| Collab rooms (`collab/docStore`, `flush`, `bridge`, `rooms`, `animate`, `caret`) | live documents, the version each is reconciled to, contributions waiting, connections, the row that keeps unwritten text | join, seed, resume, rebase, edit, flush by compare-and-swap, ingest an outside write, tear down, purge, evict | joins racing teardowns, typing during a flush, conflicts rebased under the user's cursor, echoes of own writes, a death between any two row writes, memory budget | nothing typed is lost; an outside write is neither lost nor undone; a struck word stays struck; versions name their authors; one document is one text whatever rooms come and go |
| Save queue and drafts (`box/ui/src/lib/saveQueue`, `draftMirror`, `collab`, `views/ObjectView`) | unsent fields, fields in flight, the version and fields believed to be the server's, a draft in local storage, the banner | edit, debounce, save, rebase, conflict, keep mine or theirs, recover a draft, join or leave a room, close the tab | lost answers, a rival's save, typing during a save, a tab that dies, the room taking the body over mid-save | nothing typed is on the screen only; nobody's change is overwritten unseen; a save settles |
| Collab server (`collab/server`, `auth`, `authz`, `presence`, `wire`) | sockets, re-authorisation timers, awareness | upgrade, authenticate, evict | a grant revoked while a socket is open | nobody keeps a room they may not see |
| Collab text (`collab/mdDiff`, `serialize`) | none | diff, serialise, parse | round trips | text in = text out |
| Shutdown (`shutdown.ts`) | stage | drain, flush, close, exit | a stage that times out goes on in the background; a second signal | flush before close, and it ends |
| Write path (`packages/mcp-tools/src/write-path.ts`) | rows, idempotency records | every mutation of the brain | concurrent writers, retried calls | no lost update; a retry applies once |
| File system (`fs-store`, `pg-fs`) | versions, locks, high-water marks | write, move, evict, lock | concurrent version numbers | versions are unique and monotonic |
| Schema executor (`packages/schema/src/executor.ts`) | ledger, schema | apply migrations under an advisory lock, backfill | two executors, a death between backfill and ledger | each migration takes effect once, in order |
| Box process, HTTP surfaces, OAuth, dashboard, saved views | sessions, tokens | requests | token rotation | not surveyed in depth yet |
| Reading and retrieval, connectors, egress guard, UI, CLI | caches | reads, third-party calls | I/O | out of scope |
| Disk guard, backup health, backup scheduler | cached probe; repository of backups | admit a write, take a backup | stale reading | out of scope for now |

How they interact: the updater drives docker and the deploy directory, and
talks to the box only through `/canary`; the box's gate sits in front of every
HTTP surface and is polled by the collab server; the collab flush writes through
the write path, whose notifications come back through the bridge; the page's save
queue patches the object through the same path and hands its body to the room
once it has joined; the migrations
that the updater runs are the schema executor's; the shutdown ladder is what a
restart by the updater triggers in the box.

`PROJECT.json` lists the hazards of this code at their lines, those that no
property covers yet included.

## 2. The modules

    UpdaterDecisions ── Updater ──┬── MCUpdater
                          │       └── UpdaterProofs ── UpdaterShape
                    SupervisedBox (abstract, instantiated by Updater)

    KillSwitch ──┬── MCKillSwitch
                 └── KillSwitchProofs ── KillSwitchTimes

    CollabFlush ──┬── MCCollabFlush
                  └── CollabFlushTypes ── CollabFlushProofs

    SharedText (abstract, instantiated by CollabRooms)
        CollabRooms ──┬── MCCollabRooms
                      └── CollabRoomsProofs

    SaveQueue ──┬── MCSaveQueue
                └── SaveQueueProofs

### UpdaterDecisions

The pure rules: `DecideStep`, `IsPoisoned`, `CanaryVerdict`, `RollbackTarget`
(`decisions.ts`), the canonical list, and the conversion between the persisted
state and the library's (`versions.ts`). A version is its place in semver order
and stands for its image digest. The code numbers the canonical list 1, 2, 3
on every tick and undoes that before saving; the model works on the versions
themselves and "current + 1" becomes `IsNext`. What the renumbering loses, the
counts and kept images of versions that the list does not hold, the model loses
too (`ToLibAttempts`, `ToLibKept`).

### Updater

One action per awaited host call, the program counter `pc` naming the call the
tick is at. Three copies of the state are told apart because the code tells
them apart: `disk` (the file), `mem` (`main.ts`'s variable) and `st` (what
`runTick` holds). `Return` hands `st` to `mem`; `Throw` leaves `mem` as it was.

| Code | Action |
|---|---|
| `runTick`, list and journal found | `ListFails`, `TickBegin` |
| resume block | `HealFiles`, `HealApp`, `HealInfra`, `HealSave` |
| vanished-current heal, `toLibState` | `ToLib` |
| heartbeat and `decideStep` | `HeartbeatFails`, `Poll` |
| `verify`, `pullByDigest` adapters | `VerifyFailed`, `VerifyDeferred`, `Verified`, `PullByDigest` |
| `migrate` adapter | `JournalSwap`, `LayDeployTree`, `PinTarget`, `UpPostgresWait`, `Migrate` |
| `restart` adapter | `RestartTarget` |
| the two adapters' `catch` | `UndoFiles`, `UndoUp` |
| canary and its verdict | `Canary` |
| `rollbackApp` adapter | `RollbackFiles`, `RollbackUp` |
| end-of-tick save | `SaveTick` |
| operator op | `HonorRestartOp`, `RestartOpFails` |
| self-update and self-pin reconcile | `SelfUpdate` |
| the process dies | `Crash` |
| an unrelated `compose up` | `ComposeUp` |

Runs of file operations with no `await` between them are one action, except that
the journal is saved in a step of its own. A crash inside such a run of
synchronous file operations, a torn snapshot for instance, is not modelled. A
deploy shape is named by the release that shipped it. A failed compose command
leaves any part of its work done (`PartlyUp`). The `Faults` constant says which
calls may fail in a run. The history variables `certified`, `base`, `parked` and
`strikes` are written and never read by the actions.

`main.ts` keeps looping with what a thrown tick returns. `honorRestartOp` is told
that the app was restarted in this tick only where the tick reached its end, so a
forced restart may run, and fail, also after a heal has restarted the app and the
tick has then thrown or returned early (`WasCompleted`, `RestartedThisTick`).

### SupervisedBox

The promise, in five lines of state change: a newer release may be put on trial;
what is up is the recorded release or one on trial; a release that is up may be
accepted; a trial is withdrawn only once the recorded release is up again.
`Updater!Supervised` states that the updater implements it, with the journaled
and the parked release (one that a busy canary left live) as those on trial.

### KillSwitch

`ApplyLease`, `ApplyUnreachable` and their helpers are `kill-switch-client.ts`;
`BeginCheck`, `LeaseArrives`, `CheckFails` are the two halves of `refresh`, so
that requests (served from `decision`) and a second check may come in between;
`Reboot` is the constructor on the state file; `PollCached` and the poll inside
`BeginCheck` are the collab server's. The control plane, its leases, replays and
the wall clock's steps are external. Two clocks are kept: elapsed time, which
bounds calls and timers, and the wall clock, which the code reads. A lease whose
signature or shape is bad is treated by the code like an unusable one, so it
needs no action of its own. `applyControl` is exported by the client and called
by nothing; it is not modelled.

### CollabFlush

One open room, at the grain of its awaits: JavaScript runs one callback at a
time, so an action is the code between two awaits, and a query is an action of
its own where the code acts on its answer later. A text is the set of the words
in it; a word is put in once and taken out once, by a known person, so a lost, a
returned and a misattributed word are told apart. `Merge` is the three-way merge
of `mdDiff`; that it may be refused when two edits overlap is a choice
(`MayOverlap`).

| Code | Action |
|---|---|
| `observe` on an edit | `Type`, `Strike` (through `Contribution`) |
| the idle and the burst timer, `flush` | `Fire` (through `Request`) |
| first base read | `ReadBase`, `Based` |
| `canWrite`, `refuse` | `CheckRights`, `Refuse` |
| `editFields`, its three outcomes and its exception | `WriteRun` |
| the loop over the contributions | `Written` |
| the lost compare-and-swap | `Reread`, `Rebase` |
| the end of `flushOnce`, its early returns | `EndCycle`, `GiveUp` |
| the re-run of a request that came meanwhile | `NextCycle` |
| `bridge.ts`: cursor, load, base body, merge, `noteExternalWrite` | `Poll`, `Load`, `BaseBody`, `MergeIn`, `NoteExternalWrite` |
| teardown around its last flush, purge | `Close`, `LastFlush`, `Drop`, `Purge` |
| other writers of the object (external) | `OutsideAdds`, `OutsideStrikes`, `OutsideEditsProps`, `Trash`, `Revoke` |

### CollabRooms and SharedText

The life of a room, from the other end: what happens inside a flush is one step
here, and joins, the row of `collab_docs`, teardowns, purges, connections and
deaths of the box are at the grain of their awaits.

| Code | Action |
|---|---|
| `joinOnce`: the gate, the read, the wait for a teardown | `JoinBegin`, `JoinLoads`, `JoinWaits` |
| attach to a live room | `Attach`, and `Enter` for the join that opened it |
| `planSeed`: seed, reseed, resume, rebase, unmerged | `Seed`, `Resume`, `Rebase`, `RebaseUnmerged` |
| the persist timers | `Persist` |
| a flush, `markFlushed`, an ingest | `Flush`, `MarkFlushed`, `Ingest` |
| `wire.ts`: disconnect hook | `Leave`, `Disconnected` |
| `sweep`, and `evictOne` of an empty room | `Sweep` |
| `evictOne` when every room has people in it | `Evict` |
| `evict` for a narrowed audience | `Narrow` |
| `teardown` | `Drain`, then `MarkDraining`, `LastFlush`, `Remove`, `Keep`, `Drop` |
| `purge` of a deleted object, and when the box is switched off | `Trash`, `BoxOff` (through `Purge`) |
| the process dies | `Crash` |

`SharedText` is the promise to whoever looks at the document: one text which only
edits change. A word is put in once (`written`) and taken out as often as the
people and the other writers may (`takes`), so that no step of a room can pass for
an edit. `OneText` states that the rooms implement it: the text is the
room's brought up to the object, or what the row and the object yield together
when there is no room; opening, resuming, rebasing, flushing and closing change
none of it. A death may undo the edits that no row holds yet, the switching off of
the box those that are not in the object yet; so may, while it ends, the eviction of
a room with people in it (`Volatile`). Text that cannot be merged or written is
counted as handed up.

The model has the one room, so "every room has people in it" is a choice: `Evict`
may come whenever somebody is counted. The history variable `crowd` remembers that
the room that drains was evicted with people in it; the actions never read it.

### SaveQueue

The page's queue, the page that drives it, its draft in local storage, the box's
versioned patch and the room that takes the body over. A client's call is a
message that is served, answered, lost on the way out or on the way back; a
request may outlive the page that sent it (`loose`). Two fields suffice: one
the room owns, one it never does. `own` and `basis` are histories: what a person
typed and has not given up, and what the server was believed to hold when the
unsent edit of a field began.

| Code | Action |
|---|---|
| `changed` and the mirror | `Type` |
| debounce, blur, `pump` | `TimerFires` |
| `attemptOnce`, the answer | `Answered` (`Saved`, `Conflicted`, `Rebase`, `Exhaust`), `BackoffEnds` |
| the banner's buttons | `KeepMine`, `TakeTheirs` |
| the recovered draft | `Load`, `RestoreDraft`, `DiscardDraft` |
| `handleSynced`, a dropped socket, a refusal | `Synced`, `Dropped`, `Denied` |
| `pagehide`, keep-alive request | `Close` |
| the dashboard's PATCH with its room and version guards | `Serve`, `ServeLoose` |
| typing in the room, its flush and end (external to this module) | `TypeInRoom`, `RoomFlushes`, `PeerComes`, `PeerGoes`, `RoomCloses` |

## 3. What is checked

All bounds are constants of the configurations. Every property of a passing run
has a mutant in `PROJECT.json`: a plausible slip in a mapped definition that TLC
must catch. The mutants are the definitions marked "Slip" in the modules.

| Run | States | Question |
|---|---|---|
| `Updater_safe` | 1.1 M | every fault at once, any list: is only the proven recorded, and is a rollback safe? |
| `Updater_decisive` | 0.3 M | any list, every fault but a failing heal or operator op, decisive canaries: is the vanished-current heal truthful, and an unrecorded image always accounted for? |
| `Updater_steady` | 18 k | steady list of four releases, busy canaries, failing heals: whole shape, schema, refinement of `SupervisedBox`, and is every journal resolved? |
| `Updater_progress` | 3 k | steady list, heals that work, crashes: do strikes count and latch for good, and does the box get where it is told, its updater included? |
| `KillSwitch_latch` | 4.2 M | two overlapping checks, replays, foreign leases, clock steps, reboots: does an off latch? |
| `KillSwitch_reach` | 9.5 M | outages, reboots, failed saves: is the switch followed in bounded time once the control plane answers? |
| `KillSwitch_deadman` | 1.0 M | outages, replays, reboots: does a cut-off box that was switched off stop? |
| `CollabFlush_room` | 0.3 M | one room, seven settings: is anything typed, struck or written outside lost, undone or misattributed, and does what is typed land? |
| `CollabFlush_pair` | violated | two people and one outside writer: the open disagreement 1 of section 4 |
| `CollabRooms_oneText` | 1.1 M | rooms that come and go, with deaths, failures, a narrowed audience, a deletion, rooms evicted with people in them and a box switched off: is it one text but for what those cut off, is everybody in the room that is flushed, are joins answered? |
| `SaveQueue_saves` | 0.3 M | rivals, a battering writer, lost messages, dead tabs, a room: is an edit ever only on the screen, is anybody overwritten unseen, does a save settle? |
| `SaveQueue_hasty` | violated | somebody types on while a save is being rebased: disagreement 2 of section 4 |

Bounds and why they are enough:

- Three releases, with any list that omits or yanks at most one of them, are what
  it takes for "the next release" to change under a swap; four with bundles at 2
  and 4 and app-only updates at 3 let a snapshot meet another release's attempt.
- `MaxFailures` is 3 in the code. The runs use 1 or 2: 2 is the least for which
  "count", "latch" and "one more try" differ.
- `MaxStrikes` caps only a history counter; it is one above the latch where a
  property reads it and 0 elsewhere.
- Canary windows cover each verdict, with mixed busy and quiet samples.
- In `KillSwitch`, times are small numbers (the code's are 5 s, 4 s, 5 s and a
  grace of hours). `MaxTime` lies beyond the deadline each property states, and
  `GraceMs` is long where a slip that lets the grace window run must show. Two
  calls are the least that overlap, three generations are on, off and on again.
- `CollabFlush` keeps the code's own three attempts and two re-runs. Two people
  are the least who divide a text into contributions, three outside writes
  exhaust the attempts. The settings of `MCCollabFlush` divide the question:
  each combines the people, the session's leftovers and the failures that meet,
  because all at once is out of TLC's reach.
- `CollabRooms` opens at most two documents (`MaxLines`): the second is what a
  resume, a rebase or a reused epoch needs. At most one death or one failing call
  falls on top of one outside write of each kind; a room is evicted with people in it
  once, or the box switched off once, which already leaves the other document to
  come back on what it left.
- `SaveQueue` rebases once where the code rebases three times: one rebase, then
  the exhausted one, are the two cases there are. Three values are the least for
  an edit before, during and after a save.
- Deadlock is checked in the updater's and the kill switch's runs; the kill switch
  never stops, because the cached poll or the refresh is always possible, also
  at `MaxTime`. The other runs say `CHECK_DEADLOCK FALSE`: a document everybody
  has left, with the bounds used up, is simply at rest.

Fairness of the updater. `main.ts` loops for ever and an awaited call returns, so `TickStep` is
weakly fair. Calls that are made again tick after tick are strongly fair in
their successful branch: an outage ends, and a process that is restarted does
not die at the very same call for ever. `HealFairness` asks this of the list and
of the steps of the heal; `StepFairness` of the steps up to the journal, of a
canary that decides, of the save, of the operator op at the end of a tick that
was not skipped, and of the hand-over. No fairness is asked of the booth, of a
crash, of an operator, or of any step of the swap itself: bundles, migrations and
restarts may fail, and the updater may die in them, for ever. That is why
`ReachesDesired` allows for a latched release. `UpdaterConverges` has a
premise of its own, that the box idles again and again: one that never does
reconciles nothing.

Fairness of the rest is weak, of what the event loop and the calls' own deadlines
bring about: in `CollabFlush` a timer that is armed fires, a query returns, the
watcher polls, and a teardown that has begun goes on; in `CollabRooms` a join and
a teardown go on, a committed flush is marked, the disconnect hooks run, and the
sweep visits an empty room; in `SaveQueue` a timer elapses, the box answers, and
the page hears it. None is asked of a person, of another writer, of the first step
of a teardown in `CollabFlush`, or of a failure.

What restricts the passing runs:

- `SwapAccounted`, `SettledShape`, `TruthfulSynthesis`, `SchemaOneStepAhead`,
  `StrikesCounted` and `LatchIsSticky` hold only under the restrictions on
  `Faults`, `Feeds` and `Windows` stated in their runs.
- `NothingTakenBack`, `StaysStruck`, `OwnWordsOnly` and `Lands` are checked while a
  flush and an ingest come one after the other (`Orderly`); `NothingLost` also
  while they overlap, in a setting whose writes do not fail (disagreement 27).
- `MCCollabFlush` has no setting in which two people type while somebody writes
  outside, apart from the violated one and those in which only `NothingLost` is
  asked; and no outside write comes before the room's stored text was first read.
- `CollabRooms_oneText`: a teardown does not end between a join's read and its
  use of it (`spans`); the hooks of closed connections have run before the
  document is opened anew (`MaxHooks`, `Seeding`); two documents are not seeded
  in one millisecond; a blob whose removal failed meets no outside deletion, no
  evicted crowd and no switched-off box. A teardown's end and a switching-off wait for a
  join that has opened the room to be bound to it (`Settling`, disagreement 31); no
  setting has both a switching-off and an eviction with people in the room
  (`RoomsAssumption`); and the flush's timers
  do not fire between a last flush and the end of its teardown.
- `SaveQueue_saves`: except where nobody else writes (`Lossy`), a person waits for
  a save to end before typing or deciding (`ahead`); where others write, no
  message is lost; a tab that dies on a draft others have overtaken dies without
  its last event; and nobody writes the object from outside while the page is in
  a room.

The next section says what happens without them.

## 4. Disagreements between the code and what it says

Two are runs that TLC finds violated; `PROJECT.json` quotes the lines.

1. `CollabFlush_pair`: the conflict path of a flush rebases the contributions of
   its own cycle and the live text, but not those that were closed meanwhile and
   wait in the room; the next cycle writes such a snapshot over the rebased base
   and takes an acknowledged outside word out again (`flush.ts` 899, against 49-57
   and 1077, where the watcher does rebase them).
2. `SaveQueue_hasty`: a 409 is weighed on the fields in flight; what was typed
   during the call joins the retry unweighed, on the new version, and overwrites
   somebody else's change of that field (`saveQueue.ts` 439, against 25-26).

The others show when the constants of a passing run are changed as said, or when the
exception that a property makes for them is struck out of it.

Updater and kill switch:

3. `TruthfulSynthesis`, with `Windows <- AnyWindow`: the vanished-current heal
   trusts an app pin that a busy canary left at the new release (`runtime.ts`
   215-217, 231).
4. `LatchIsSticky`, with `Feeds <- AnyFeed`: a release missing from one list is
   un-latched (`host.ts` 80, `versions.ts` 228-231 and 270-274).
5. `StrikesCounted`, with `"op"` in `Faults`: a failing operator restart makes a
   thrown tick forget its journal (`runtime.ts` 548-550, 559). That includes a tick
   that healed, saved, and then threw: the restart is tried once more because 559 passes
   `false`. The memory `main.ts` is left with may be older than the file in its
   counts and its journal, never in the recorded version or the floor, so that the
   next save takes none of them back (`CurrentNeverFalls`, theorem `NeverFalls`).
6. `DeadMan`, with `Steps <- SteppedBack`: a wall clock stepped back freezes the
   cached decision (`kill-switch.ts` 53; `kill-switch-client.ts` 20-23).
7. `SettledShape`, with `Bundles = {2, 3}`, `AnyFeed`, `AnyWindow` and no fault:
   after a busy canary of v2 and its yank, v3's snapshot captures v2's shape, and
   a rollback of v3 restores that (`runtime.ts` 464, 517-518). The same
   happens with decisive canaries when the heal of one release fails and the
   next list leads to another.
8. `SchemaOneStepAhead`, with `AnyFeed` and no fault: the release after a yanked one
   that has migrated leaves the schema two releases ahead of the rollback target
   (`versions.ts` 237-240).
9. `StrikesCounted`, with failing heals and crashes and no bundle: a retained
   journal is overwritten by the next swap and its failure is not counted
   (`runtime.ts` 150-151, 574).
10. The self-pin (no property states it): a crash between the save of an applied
    bundle and the pin leaves both the updater's pin and its container on the old
    image, and the reconcile compares the two and finds nothing to do
    (`runtime.ts` 581-618, 631-634).

Flush and bridge, in `CollabFlush`:

11. With `known` FALSE and outside writes: a write between the seeding of a resumed
    room and its first base read is taken for the base, and reverted by the
    carried-over text (`flush.ts` 733-751).
12. With `crossing` TRUE, `StaysStruck`: an ingest whose base lags a commit of the
    room's own merges that commit in again, struck words included.
13. A failing rights query is a no: a member's contribution is reverted and the
    member evicted for a database error (`flush.ts` 789, against the comment at
    192-194).
14. A last flush that queues behind both re-runs is dropped, as is any request
    during the last re-run (`flush.ts` 970-983); the store deletes the row all the
    same (`docStore.ts` 941-942). `NothingLost` allows for it through `ending`.
15. A room that only viewers joined, resumed with unwritten text: the last flush
    refuses the carry-over, returns, and the row is deleted with the text
    (`flush.ts` 791-808; `docStore.ts` 940-947). A refused carry-over also drops
    the contributions that came since (805-806); their words have no author then, and
    join the next person's version: `OwnWordsOnly` fails in `Two` with
    `unsaved` text and a right that is revoked or cannot be read.
16. A failed base read schedules nothing (743-745), and a rebase that is refused
    leaves the old base in place; both wait for the next edit.

Rooms, in `CollabRooms`:

17. With `spans` TRUE: a whole teardown inside a join's read seeds the room from
    the row of before (`docStore.ts` 734-749, against 721).
18. With cuts and a row that leads or outlives its session (`crashes` above 0, or
    `"remove"` in `fragile`), a resumed or rebased text brings back words that were
    taken out later; this is why `Dying` and `LeftOver` have no cuts. With no cut at
    all, so does the row of a teardown whose marking and whose removal both fail
    (`"save"` and `"remove"` in `fragile`, `errors` 2): its blob is the one of the last
    timer (`docStore.ts` 899-947). `OneText` fails in each of them.
19. `store.leave` finds the room by its name, after an awaited broadcast
    (`wire.ts` 637): with `MaxHooks` above 0 and `leaving = 0` dropped from
    `Seeding`, `Counted` fails, a replacement room being one connection short.
20. The epoch is the wall clock's once the row is gone (`docStore.ts` 437): a
    clock stepped back may repeat one.
21. Text that no longer merges is returned as `unmerged`, which nothing reads
    (`wire.ts` 531).

Save queue, in `SaveQueue`:

22. A save whose answer never came is told from the fields in flight alone
    ("landed"), and the version is adopted without the other fields of the winner
    (`saveQueue.ts` 398-403), over which the next edit then writes:
    `BaseIsTheVersion` and `NeverClobbers` fail with `losses` and `closes` above 0 while
    others write, and with no loss at all when the last event of a closed tab
    arrives after the page is open again (`farewells` TRUE in `Reopened`).
23. A retry, and a rebase that coalesces, send fields the queue should hold back
    for the room (against the header, 34-36).
24. When the rebases are exhausted, what was typed meanwhile is dropped from the
    queue, and "keep mine" knows only the fields that were in flight.
25. With `heedless` TRUE: the mirror write of the next edit replaces a recovered
    draft that is still offered (`draftMirror.ts` 2-3).
26. The room's hand-over leaves an empty `inflight`, which the pump then sends as a
    patch of nothing (`saveQueue.ts` 554). "Take theirs" during a save leaves the
    call under way, which commits "mine" afterwards.

Flush and bridge again, met while proving:

27. With `crossing` TRUE and failing writes (`"write"` in `fragile`): an ingest
    whose commit a flush overtakes moves the base to the newer text; a contribution
    put back after a failed write is then rebased from that base onto the watcher's
    older text, and loses a word that was committed: `NothingLost` fails (`flush.ts`
    1056-1100). Hence the theorem under `Orderly`.
28. After a rebase whose cycle runs out of attempts, or fails to write or to read
    again, the store's base stays behind the text that was rebased. The watcher then
    merges the outside word in once more, after the person has struck it, or the
    carried-over text undoes an outside strike: `StaysStruck` and `NothingTakenBack`
    fail with one person, even one at a time, once outside writes reach `MaxAttempts`
    (1 suffices) or calls fail; the settings of the run stay below (`flush.ts`
    899-983). Hence what `Sole` asks of outside writers and failures.

Rooms again, where a room ends under the people in it:

29. The budget evicts a room that people are connected to once every room has some
    (`docStore.ts` 1023-1038, from 772 and 1064), against the comment at 783-785 that
    a seeded room with connections is skipped. They are not told before the room is
    dropped, and go on editing while it drains. `InTheRoom` makes an exception for it:
    without `\/ crowd = "in"` it fails in six states (`JoinBegin`, `JoinLoads`, `Seed`,
    `Evict`, `Enter`). What they change after the last flush is lost when it returns,
    and what they change after the row was kept when it throws: without the parts of
    `Unflushed` and `Deadly` that name `crowd`, `OneText` fails, in ten states
    (..., `Evict`, `MarkDraining`, `LastFlush`, `Type`, `Remove`) and in twelve
    (..., `LastFlush`, `Keep`, `Type`, `Drop`).
30. When the box is switched off, every open room is dropped without a flush and its
    row deleted (`docStore.ts` 988-1019, from `server.ts` 342-394 and 586), although
    the object stays: what was typed since the last flush is lost. The comment at
    970-987 says that a reason that keeps the object must flush, and counts only a
    deletion as one that does not. Without `setting.offs > 0` in `Unflushed`,
    `OneText` fails in seven states (..., `Enter`, `Strike`, `BoxOff`).
31. A room that is torn down after a join has opened or found it and before its
    document is bound leaves the joiner a document of nobody's: `onLoadDocument` then
    returns none, and what is typed there is not written (`wire.ts` 535-539). Only an
    eviction with people in the room, or a purge, can do it. `Settling` excludes it
    for the join that opens the room; the one that attaches does so in one step.
32. With `budgets` or `offs` above 0 and `"remove"` in `fragile`, a row that outlives
    its room brings back what was struck after it was last written: `OneText` fails
    (`docStore.ts` 943-947 and 1012-1019), which is disagreement 18 by other ways.

## 5. What is proved

The assumptions are the constants' types, named `...Assumption` in the modules, and
the hypotheses stated with the theorems. What each hypothesis is for was tried with
TLC on a small instance without it; the violations are named below.

For every set of releases, lists, canary windows and faults (`UpdaterProofs`):

- `Invariance`: `IInv` is an invariant. It is `TypeOK`, the two safety
  properties, and what they need to be inductive: the three copies of the state
  agree on the recorded version, except that the loop's memory lags behind once a
  release is applied (`Agreed`); past the library state the current version is
  in the list (`Resolved`); the target is above it (`Aimed`); and a release on
  trial is the pinned one, and the running one when the canary asks (`Tried`).
  Without `Tried` a step of `Canary` certifies nothing about the target; without
  `Agreed` a tick that throws could save an older version.
- `TypeCorrect`, `OnlyCertified`, `RollbackIsSafe`, `NeverFalls` follow. The last
  one is an action property: the saves write what `Agreed` says they write. It holds
  with every fault: also when a forced restart fails after a heal, its save and a throw,
  which leaves the loop's memory older than the file, but of the same recorded
  version (`Agreed`).
- The lemmas on `NewestTwo` and `RollbackTarget` say that cutting the kept images
  to two keeps the newest and that the rollback finds it.
- The steps are taken in groups: those that write only the tick's locals and the
  box (`OnlyLocals`, `LocalsIInv`), the canary (`CanaryIInv`), the quiet ones
  (`QuietIInv`), and the ones that record (`RecordingIInv`, `SaveTickIInv`).

The swap itself (`UpdaterShape`), under three hypotheses which the runs share: no
forced restart fails (`"op" \notin Faults`; a failed one throws away a tick whose
state is saved already, disagreement 5), and where said `Steady` (every list holds every
release and yanks none) or `Decisive` (no canary window is all busy):

| Theorem | Property | Hypotheses |
|---|---|---|
| `InStep` | (`RInv`) | `op` |
| `NothingUnknown` | `SwapAccounted` | `op` |
| `SynthesisIsTruthful` | `TruthfulSynthesis` | `op`, `Steady` or `Decisive` |
| `ShapeIsRestored` | `SettledShape` | `op`, `Steady`, or `Decisive` with heals that work |
| `ImplementsPromise` | `Supervised` | the same |
| `SchemaStaysClose` | `SchemaOneStepAhead` | `Steady` |
| `LatchHolds` | `LatchIsSticky` | `op`, `Steady` |
| `StrikesAreCounted` | `StrikesCounted` | `op`, `Steady`, heals that work |

- `RInv` is the common ground. The tick's state is the state file but for the
  journal it has written, and between ticks so is the loop's memory (`Synced`):
  without it a save could erase a journal. Under `Steady` the canonical list is
  whole while the tick decides (`Listed`); where heals work no swap begins with a
  journal pending (`Unburdened`); under `Decisive` nothing is parked (`Decided`);
  what a canary has not condemned is pinned and up until it is saved (`Judged`).
- `AInv` adds where the pin and the running image may be: recorded, journaled or
  parked, call by call, and what a rollback leads back to (`Home`). `NextAimed` and `NextOnly` say that only the next release is ever
  on trial, so that the journaled and the parked one are the same (`OneTrial`); this is
  where a list that changes, or a busy canary together with one, breaks the rest.
- `SInv` says of which release the stamped snapshot is the shape while something
  is on trial (`Restorable`) and how far a swap or its undoing has come (`Stages`).
  From it a heal or a rollback ends in one whole shape, and from `SInv` and `AInv`
  every step of the updater is a step of `SupervisedBox`, or none.
- Violated without: all but `TruthfulSynthesis` and `SchemaOneStepAhead` by a failing
  forced restart; `StrikesCounted` by a failing heal; `SchemaOneStepAhead` and
  `LatchIsSticky` by a list that changes; `TruthfulSynthesis`, `SettledShape` and
  `Supervised` by one together with busy canaries, and the last two also by one
  together with failing heals.

For every period, bound, clock step and set of faults (`KillSwitchProofs`):

- `GateTypes`: type correctness, with no hypothesis.
- `GateInvariance`, where saves do not fail (`"persist" \notin Faults`): `KInv`, the
  inductive form: the latch says which way the
  switch stood at the generation last accepted, the state file equals the gate's
  state, and "allow" is only ever said on the strength of a live lease. The
  state file's part is what a reboot needs, hence the assumption.
- `OffIsSticky` and `NothingIsForgotten` follow.

The bounds on time (`KillSwitchTimes`), with failing saves, lost calls, replays,
reboots and any number of overlapping checks:

- `DeadManHolds`, where the wall clock is not stepped back (disagreement 6) and no
  lease of another box reaches one that has not learnt its own name. The argument:
  no call outlives its time-out and polls are a period apart (`Timely`); nothing that is
  compared with the clock lies in its future (`Forward`); the decision is younger than a
  cache period and a poll, or a call is under way that began in time (`Attended`);
  and no deadline, in memory, in the file or in an answer still under way, exceeds
  what was signed before the switch turned (`Windows`).
- `OffIsHonoured`, with the clock not stepped at all: after the last flip,
  reboot, failed call or replay every answer carries the current generation
  (`Answers`), and one arrives within a cache period, a poll and a call (`Asking`).
- `LiveIsHonoured`, where moreover a lease outlives the call that brings it
  (`TimeoutMs < LeaseTtl`), and calls do not overlap (`OneAtATime`): the code's
  time-out of 4 s is below its cache period of 5 s. With a time-out of three periods
  and a grace window of one, an answer signed before the switch was turned on and
  heard after a newer one closes the gate for too long. Off needs neither.
- Violated without: `DeadMan` and both bounds by foreign leases, `OffHonoured` by a
  clock stepped back, `LiveHonoured` by one stepped either way. That `OffHonoured`
  holds with a clock stepped forward is model-checked only.

For every set of people, words and writers, and every setting (`CollabFlushTypes`,
`CollabFlushProofs`):

- `TypesHold`: type correctness, by what each of a flush's awaits leaves in the call's
  and the room's records; the lemmas on `Closed`, `Taken`, `Changing`, `PutBack`
  and `Rebased` say what becomes of a word in the contributions.
- `NothingIsLost`: `NothingLost` while a flush and an ingest come one after the
  other (`Orderly`; without it, disagreement 27). The proof follows one
  word that nobody takes out. It is in the live text unless it waits in an
  ingest (`InDoc`); of the contributions closed so far, once one holds it all later
  ones do (`Sorted`); if the base the next diff starts from has it, so has every
  contribution (`Backed`); if the live text has it and no contribution is open,
  the last closed one has it (`Latest`); and when the room is dropped after a last flush
  that succeeded, the object has it (`Saved`). `Sorted` and `Backed` are what makes the
  order of the writes harmless: without them the last contribution could put an
  older snapshot over the word. `Turns` says which of flush, watcher and
  teardown may run.
- `OthersAreKept`, `StruckStaysOut`, `WrittenAsTheirOwn`: `NothingTakenBack`,
  `StaysStruck` and `OwnWordsOnly`, in two regimes.
  - `Sole`: one person and writers outside the room, an ingest and a flush one
    after the other, a base that was read, no merge refused, fewer outside writes than a
    contribution has attempts, and no failing write or read after a lost
    compare-and-swap (other calls may fail, the right may be revoked, the
    object trashed). The invariant (`SoleInv`) says where each word is in four texts:
    what the room was last reconciled to (`Stem`), what it falls back to if the flush
    gives up (`Fallback`), what is about to be written (`Draft`) and what was read and
    is not merged yet (`Heard`). A new outside word is nowhere in the room until it is
    merged, and a word of the person's is stored exactly if the `Stem` has
    it (`Sure`, `Exact`); so a rebase changes only what others changed. That needs one
    contribution at a time (`Single`), bases that are the bodies of the versions
    they are named after (`Reconciled`), and attempts that do not run out (`Enough`).
  - `Undisturbed`: any number of people and no outside writer, with every call failing
    at will, rights revoked, refusals, merges refused, resumed text and a base still
    to be read. The object always has what the room was last reconciled to
    (`OnlyWriter`); so a compare-and-swap that only the room's own last flush can
    lose rebases onto the same text, and a refusal takes words back to
    exactly the object (`Apart`). For the authors (`Credited`), where no text is left by
    an earlier session: the first of a sequence of contributions that has a word is by
    who put it in (`Begun`, `Own`), the open contribution or the last closed one
    covers the text (`Even`), and before the last flush no compare-and-swap is
    lost (`OnTime`), so that what is put back is in order.
- Violated without, each tried with TLC on a small instance: a failing write or
  re-read, or `MaxAttempts` outside writes together with a strike (disagreement
  28); `known` FALSE with an outside write (11); an ingest during
  a flush; a refused merge; two people with an outside writer (1); two people with text of an earlier session, for
  `OwnWordsOnly` (15).
- `RoomAssumption` adds to the types that `Unread` is no text and that the marks for
  nobody and for the outside writer are no people.

For every finite set of people, every set of words and every setting of deaths,
failures and outside writers (`CollabRoomsProofs`):

- `RoomsInvariant`: `RInv` is an invariant, in three layers, each inductive over
  the ones before. `Types` has the types, that no row, room, join or commit
  names a version the object has not reached, and which parts of the state stand
  for a room that is there; without it a flush that is marked after its room was
  dropped could not be ruled out. `Epochs` says that the room, the row and a join
  that has read the row all carry the epoch their document was seeded with, and
  that the clock has passed every epoch: so `nextEpoch`'s maximum is always the
  clock. `Counts` strengthens `Counted` by the disconnect hooks still to run and
  by what holds while a join has opened a room and not entered it: without the
  hooks a step of `Disconnected` could take a live person's place, without the
  join a sweep could. A room drains with people in it only if it was evicted so.
- `TypeCorrect`, `EverybodyInTheRoom`, `EpochsAreUnique`, `EverybodyCounted` follow,
  with any number of evictions under people, or of switchings-off. `EverybodyInTheRoom`
  says that nobody edits anything but the room that is there, and that it is not
  draining, unless the budget evicts it (disagreement 29).
  The lemma `KeptEpochs` is the argument for the second: every step but the
  opening of a room keeps the lineage of what is there (`Kept`).
- `RoomsAreOneText`: `OneText`, the refinement of `SharedText`, in every setting that
  is `Whole`: no teardown ends between a join's read and its use of it, row writes may
  fail once at most (or only calls other than the row's save fail, however often),
  nobody outside takes words out and no room with people in it is evicted while the
  box may die or a row's removal may fail, and a box whose removals may fail is not
  switched off. The room, the row, a flush under way and a join each hold a text that
  was reconciled to a version of the object, and `BodyOfCommit` says that a new version
  leaves the body of every older one what it was. The invariant (`OInv`) says
  of each such text that what it has added to the body it was reconciled to, the
  object has not (`Apart`), that a join's read still stands when it opens
  a room on it (`Reads`), and that while calls may fail the row holds what is seen
  (`Synced`); in the settings without cuts, that the versions a flush, the room
  and the row were reconciled to lose nothing on the way to the object (`Grows`),
  and in those without deaths, that a row left behind adds nothing unseen (`Lives`).
  Each step is then one step of `SharedText`, or none: the lemmas named
  `...Hidden` are of the steps nobody sees, those named `...Seen` of the edits, the
  deletion, the death and the switched-off box. `EndDies` is the one argument for
  every way in which a room ends with edits in it: they were volatile.
- Violated without: `OneText` outside `Whole` (disagreements 17, 18 and 32), but for
  deaths together with an eviction under people, where it is model-checked
  (`Crowded`); `Counted` with the hooks of an older room (disagreement 19).
- `NoRowAssumption` and `NoRoomAssumption` say only that the marks for "no row" and
  "no room" are neither.

For every set of clients, every number of rebases and every setting
(`SaveQueueProofs`):

- `TypesHold`: type correctness, losses, closed tabs and rooms included. Its inductive
  form (`Types`) adds the types of the messages, banners and drafts, that none of
  them names a version still to come, and that a page in the room has a room.
- `EditsAreKept`: `EditsKept` for a `Patient` person, who waits for a save to end and
  decides on a draft that is offered, on pages that join no room; any messages may be
  lost, tabs closed with or without their last event, and objects written by others.
  The inductive invariant (`Keeps`, per client) follows each unsaved value: it is in
  the mirror, and, with the page open and no draft offered, in the queue and on the
  screen as well. The queue's part is needed because the mirror is cleared
  when the queue has nothing left, the screen's because "keep mine" reads it; and
  an answer that says "saved" must speak of values the object has had, which is what
  is said of the messages under way. Patience gives `pending` empty while a call
  is under way, so that nothing joins a retry.
- `BaseHolds`, `NothingClobbered`: `BaseIsTheVersion` and `NeverClobbers` for a
  `Patient` person where no message is lost and a tab that closes sends nothing
  (`Undisturbed`), with any number of rivals, writes by others, rebases, conflicts,
  drafts recovered by a reopened page and choices at the banner. By `Keeps` alone an
  answer that says "saved" leaves open what the object's other fields are, and a
  409 that finds the server's fields equal to those sent cannot be told from the
  answer to a retry. The invariant `AllKnow` adds, per client: what was typed and is
  unsent or offered is the client's own (`Authored`) and, where it was saved before,
  by a version the page was told of (`Told`, `SavedBy`); something of what is sent was
  never saved (`Live`); and an answer under way carries the fields of the version it
  names (`Answering`). Of the object it says that each version has a value that no
  earlier one had (`Novel`) and that nothing is saved before it is typed (`Past`).
  `BaseIsTheVersion` is then `OnBase`; and a patch is only committed at its base
  version, where the fields it carries are those its edits began on.
- Violated without: `EditsKept` by a person who goes on typing while a save is
  under way and others write (disagreement 24), by a draft still offered
  (disagreement 25), and by a room joined by a second page or before a tab is closed;
  `NeverClobbers` by a person who goes on typing (disagreement 2), and with
  `BaseIsTheVersion` by a lost answer, or a last event that arrives, once the
  page is closed and opened again and others write (disagreement 22).
- `NothingAssumption` says only that `Nothing` is no draft, no mirror and no refusal of
  the server, `AgentAssumption` that the other writer is none of the clients.

Only model-checked: `NothingTakenBack`, `StaysStruck` and `OwnWordsOnly` where outside
writers exhaust the attempts and nothing is struck (`Battered`), and `OwnWordsOnly`
with two people and resumed text where no right is lost (`Resumed`);
`OneText` where a room with people in it is evicted on a box that may die (`Crowded`);
`BaseIsTheVersion` and `NeverClobbers`
where nobody else writes but messages are lost and tabs send a last event
(`Lossy`), or the page joins a room (`Roomy`); and
liveness, which is out of the prover's reach, like everything that needs `ENABLED` or
induction over data.

## 6. Not modelled

- Updater: deferral counts and image pruning (telemetry and disk space only); the
  operator ops' generations; the semver comparison itself, whose ties between
  pre-releases the hazards list names; torn multi-file operations inside one
  synchronous run.
- Kill switch: a state file lost or corrupt.
- Rooms: the animation of agent writes and carets, and the suspension of a flush
  while one plays; titles as a field of their own; transactions without an
  author; restoring a trashed object; visibility of a row to one member and not
  to another; `drainAll` on shutdown; lost answers between the box and Postgres.
  `CollabFlush` ends its room by a teardown or a deletion that nobody types under; the
  budget's evictions and the switched-off box are in `CollabRooms`.
- Save queue: the wipe of every draft on logout, on a 401 or for another account
  (`draftMirror.ts` 12-17, 190-220), which loses unsaved edits by intent: `EditsKept` is about
  one account that stays signed in. The offline buffer of the room's document and its reconciliation;
  the flush on a change of route; the visibility field; the room guard and the
  version guard of the PATCH are one step, which in the code they are not; an
  agent's write of the body while a room is open goes through the room.
- Hazards known and not in `PROJECT.json`, for want of a module: the at-most-once
  bounce of an operator restart, the shutdown ladder's background stages, two
  schema executors, the disk guard's stale probe.
- The components of section 1 that have no module yet. Parsing, serialisation,
  rendering, retrieval and third-party calls are left to tests.

## 7. Plan

In this order:

1. `WritePath`: row locks, compare-and-swap and idempotency records; abstract
   specification: an atomic register with at-most-once calls. It is what the
   flush in `CollabFlush` and the patch in `SaveQueue` call.
2. `OperatorOps`: first-use pin, adoption and at-most-once bounce, with crashes.
3. `Shutdown`: stages with time-outs over the rooms' flush.
4. `SchemaExecutor`: advisory lock, ledger and backfills with two executors and
   crashes; it refines `Migrate` of `Updater`.
5. `Semver`: comparison and canonical order as recursive functions against a
   reference order, in a module for TLC only.
6. Proofs: `BaseIsTheVersion` and `NeverClobbers` of `SaveQueue` where nobody else writes;
   the authors of `CollabFlush` in a room resumed with unwritten text.

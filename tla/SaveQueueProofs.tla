--------------------------- MODULE SaveQueueProofs ---------------------------
(***************************************************************************)
(* Theorems on the save queue: types for every setting; and, for a person  *)
(* who waits for a save to end and a page that joins no room, that nothing *)
(* typed is on the screen only and, while no message is lost either, that  *)
(* a queue's base is the object's and nobody's change is clobbered.        *)
(***************************************************************************)
EXTENDS SaveQueue, TLAPS

-----------------------------------------------------------------------------
(* Drafts.                                                                 *)

(* A draft is a function of some of the fields to values.                  *)
LEMMA IsDraft ==
    ASSUME NEW d
    PROVE  d \in Draft <=> /\ DOMAIN d \subseteq Fields /\ d = [f \in DOMAIN d |-> d[f]]
                           /\ \A f \in DOMAIN d : d[f] \in Values
<1>1. ASSUME d \in Draft
      PROVE  /\ DOMAIN d \subseteq Fields /\ d = [f \in DOMAIN d |-> d[f]]
             /\ \A f \in DOMAIN d : d[f] \in Values
  <2>1. PICK S \in SUBSET Fields : d \in [S -> Values]
    BY <1>1 DEF Draft
  <2> QED  BY <2>1
<1>2. ASSUME DOMAIN d \subseteq Fields, d = [f \in DOMAIN d |-> d[f]],
             \A f \in DOMAIN d : d[f] \in Values
      PROVE  d \in Draft
  <2>1. d \in [DOMAIN d -> Values]
    BY <1>2
  <2> QED  BY <1>2, <2>1 DEF Draft
<1> QED  BY <1>1, <1>2

(* The empty one.                                                          *)
LEMMA EmptyDraft ==
    /\ NoFields \in Draft /\ DOMAIN NoFields = {}
    /\ \A d \in Draft : DOMAIN d = {} <=> d = NoFields
<1>1. NoFields \in Draft /\ DOMAIN NoFields = {}
  BY IsDraft DEF NoFields
<1>2. ASSUME NEW d \in Draft, DOMAIN d = {}
      PROVE  d = NoFields
  BY <1>2, IsDraft DEF NoFields
<1> QED  BY <1>1, <1>2

(* The whole ones.                                                         *)
LEMMA WholeDraft ==
    \A s \in Snapshot : s \in Draft /\ DOMAIN s = Fields /\ \A f \in Fields : s[f] \in Values
BY IsDraft DEF Snapshot

(* Drafts that are put together.                                           *)
LEMMA MergedDraft ==
    ASSUME NEW a \in Draft, NEW b \in Draft
    PROVE  LET m == Merge(a, b)
           IN  /\ m \in Draft /\ DOMAIN m = DOMAIN a \cup DOMAIN b
               /\ \A f \in DOMAIN b : m[f] = b[f]
               /\ \A f \in DOMAIN a \ DOMAIN b : m[f] = a[f]
               /\ a \in Snapshot => m \in Snapshot
<1> DEFINE m == Merge(a, b)
<1>1. /\ DOMAIN a \subseteq Fields /\ \A f \in DOMAIN a : a[f] \in Values
      /\ DOMAIN b \subseteq Fields /\ \A f \in DOMAIN b : b[f] \in Values
  BY IsDraft
<1>2. /\ DOMAIN m = DOMAIN a \cup DOMAIN b /\ m = [f \in DOMAIN m |-> m[f]]
      /\ \A f \in DOMAIN b : m[f] = b[f]
      /\ \A f \in DOMAIN a \ DOMAIN b : m[f] = a[f]
  BY DEF Merge
<1>3. \A f \in DOMAIN m : m[f] \in Values
  BY <1>1, <1>2
<1>4. m \in Draft
  BY <1>1, <1>2, <1>3, IsDraft
<1>5. a \in Snapshot => m \in Snapshot
  BY <1>1, <1>2, <1>3, WholeDraft DEF Snapshot
<1> QED  BY <1>2, <1>4, <1>5

(* Drafts that are cut down.                                               *)
LEMMA CutDraft ==
    ASSUME NEW a \in Draft, NEW S, S \subseteq DOMAIN a
    PROVE  LET r == Restrict(a, S)
           IN  r \in Draft /\ DOMAIN r = S /\ \A f \in S : r[f] = a[f]
<1> DEFINE r == Restrict(a, S)
<1>1. DOMAIN r = S /\ r = [f \in DOMAIN r |-> r[f]] /\ \A f \in S : r[f] = a[f]
  BY DEF Restrict
<1>2. DOMAIN a \subseteq Fields /\ \A f \in DOMAIN a : a[f] \in Values
  BY IsDraft
<1> QED  BY <1>1, <1>2, IsDraft

(* And what is left without some fields.                                   *)
LEMMA LessDraft ==
    ASSUME NEW a \in Draft, NEW S
    PROVE  LET r == Without(a, S)
           IN  r \in Draft /\ DOMAIN r = DOMAIN a \ S /\ \A f \in DOMAIN a \ S : r[f] = a[f]
BY CutDraft DEF Without

(* What is left is part of the whole, and the two parts make up the whole. *)
LEMMA PartDraft ==
    ASSUME NEW a \in Draft, NEW s \in Draft, DOMAIN s \subseteq DOMAIN a,
           \A f \in DOMAIN s : s[f] = a[f]
    PROVE  LET r == Restrict(a, DOMAIN a \ DOMAIN s)
           IN  r \in Draft /\ Merge(s, r) = a
<1> DEFINE r == Restrict(a, DOMAIN a \ DOMAIN s)
           m == Merge(s, r)
<1>1. r \in Draft /\ DOMAIN r = DOMAIN a \ DOMAIN s /\ \A f \in DOMAIN r : r[f] = a[f]
  BY CutDraft
<1> HIDE DEF r
<1>2. /\ m \in Draft /\ DOMAIN m = DOMAIN s \cup DOMAIN r
      /\ \A f \in DOMAIN r : m[f] = r[f]
      /\ \A f \in DOMAIN s \ DOMAIN r : m[f] = s[f]
  BY <1>1, MergedDraft
<1>3. m = [f \in DOMAIN m |-> m[f]] /\ a = [f \in DOMAIN a |-> a[f]]
  BY <1>2, IsDraft
<1> HIDE DEF m
<1>4. DOMAIN m = DOMAIN a /\ \A f \in DOMAIN a : m[f] = a[f]
  BY <1>1, <1>2
<1>5. m = a
  BY <1>3, <1>4
<1> QED  BY <1>1, <1>5 DEF r, m

(* One field.                                                              *)
LEMMA OneDraft ==
    ASSUME NEW f \in Fields, NEW v \in Values
    PROVE  Single(f, v) \in Draft /\ DOMAIN Single(f, v) = {f} /\ Single(f, v)[f] = v
<1> DEFINE s == Single(f, v)
<1>1. DOMAIN s = {f} /\ s = [g \in DOMAIN s |-> s[g]] /\ s[f] = v
  BY DEF Single
<1> QED  BY <1>1, IsDraft

-----------------------------------------------------------------------------
(* Types.                                                                  *)

Notices == [version : Nat, fields : Snapshot]

Tabs ==
    [open : BOOLEAN, synced : BOOLEAN, suspended : BOOLEAN,
     seat : {"none", "joining", "live", "denied"}, screen : Snapshot,
     recovery : Draft \cup {Nothing}, banner : Notices \cup {Nothing},
     reverted : Snapshot \cup {Nothing}]

Requests == [kind : {"request"}, by : Clients, patch : Draft, version : Nat]

Stale == [kind : {"stale"}, version : Nat, fields : Snapshot]

Done == [kind : {"done"}, version : Nat]

Messages == {Silence, Failed, [kind |-> "locked"]} \cup Requests \cup Stale \cup Done

Mirrors == [fields : Draft, version : Nat] \cup {Nothing}

Counts ==
    [edits : [Clients -> 0..MaxWrites], agents : 0..MaxWrites, losses : Nat, closes : Nat]

Rooms == [open : BOOLEAN, peer : BOOLEAN, text : Values, dirty : BOOLEAN]

\* The parts of one client, with the object at version n and the room open or
\* not (r).
Fits(c, t, q, w, m, n, r) ==
    /\ (q.stage = "sent") = (w # Silence)
    /\ w.kind = "request" => w.by = c
    /\ w.kind \in {"stale", "done"} => w.version <= n
    /\ q.version <= n
    /\ m # Nothing => m.version <= n
    /\ t.banner # Nothing => t.banner.version <= n
    /\ t.suspended = (t.open /\ t.seat = "joining")
    /\ t.open /\ t.seat = "live" => r
    /\ ~t.open =>
          /\ ~t.synced /\ t.seat = "none" /\ q.stage = "idle" /\ Unsent(q) = NoFields
          /\ t.recovery = Nothing /\ t.banner = Nothing /\ t.reverted = Nothing

OnePage(c, t, q, w, m, n, r) ==
    t \in Tabs /\ q \in Queues /\ w \in Messages /\ m \in Mirrors /\ Fits(c, t, q, w, m, n, r)

Shared ==
    /\ setting \in Settings
    /\ versions \in Seq(Snapshot) /\ Version \in Nat /\ Version > 0
    /\ room \in Rooms /\ (room.peer \/ room.dirty => room.open)
    /\ loose \subseteq Requests
    /\ count \in Counts
    /\ own \in [Clients -> Draft] /\ basis \in [Clients -> Snapshot]

Pages ==
    /\ tab \in [Clients -> Tabs] /\ queue \in [Clients -> Queues]
    /\ wire \in [Clients -> Messages] /\ mirror \in [Clients -> Mirrors]
    /\ \A c \in Clients : Fits(c, tab[c], queue[c], wire[c], mirror[c], Version, room.open)

Types == Shared /\ Pages

(* The inductive invariant says what the type invariant says.              *)
LEMMA TypesGiveTypeOK == Types => TypeOK
<1> SUFFICES ASSUME Types PROVE TypeOK
  OBVIOUS
<1>1. /\ setting \in Settings /\ versions \in Seq(Snapshot) /\ Version > 0 /\ room \in Rooms
      /\ (room.peer \/ room.dirty => room.open) /\ queue \in [Clients -> Queues]
  BY DEF Types, Shared, Pages
<1>2. ASSUME NEW c \in Clients
      PROVE  /\ (queue[c].stage = "sent") = (wire[c] # Silence)
             /\ queue[c].stage = "sent" /\ wire[c].kind = "request" => wire[c].by = c
             /\ queue[c].version <= Version
             /\ mirror[c] # Nothing => mirror[c].fields \in Draft /\ mirror[c].version <= Version
             /\ tab[c].screen \in Snapshot
             /\ tab[c].suspended = (tab[c].open /\ tab[c].seat = "joining")
             /\ ~tab[c].open => tab[c] = [Shut EXCEPT !.screen = tab[c].screen]
                              /\ queue[c].stage = "idle" /\ ~HasPending(queue[c])
  <2>1. /\ tab[c] \in Tabs /\ mirror[c] \in Mirrors
        /\ Fits(c, tab[c], queue[c], wire[c], mirror[c], Version, room.open)
    BY DEF Types, Pages
  <2>2. ASSUME ~tab[c].open
        PROVE  tab[c] = [Shut EXCEPT !.screen = tab[c].screen]
    <3> DEFINE shut(s) == [open |-> FALSE, synced |-> FALSE, suspended |-> FALSE, seat |-> "none",
                           screen |-> s, recovery |-> Nothing, banner |-> Nothing,
                           reverted |-> Nothing]
    <3>1. ASSUME NEW s, NEW old, NEW new, new = [shut(old) EXCEPT !.screen = s]
          PROVE  new = shut(s)
      BY <3>1
    <3>2. ASSUME NEW t \in Tabs, ~t.open, ~t.synced, ~t.suspended, t.seat = "none",
                 t.recovery = Nothing, t.banner = Nothing, t.reverted = Nothing
          PROVE  t = shut(t.screen)
      BY <3>2 DEF Tabs
    <3>3. Shut = shut(Current)
      BY DEF Shut
    <3> HIDE DEF shut
    <3>4. tab[c] = shut(tab[c].screen)
      BY <2>1, <2>2, <3>2 DEF Fits
    <3> QED  BY <3>1, <3>3, <3>4
  <2>3. ~tab[c].open => ~HasPending(queue[c])
    BY <2>1, EmptyDraft DEF Fits, HasPending
  <2>4. mirror[c] # Nothing => mirror[c].fields \in Draft
    BY <2>1 DEF Mirrors
  <2>5. tab[c].screen \in Snapshot
    BY <2>1 DEF Tabs
  <2> QED  BY <2>1, <2>2, <2>3, <2>4, <2>5 DEF Fits
<1> QED  BY <1>1, <1>2 DEF TypeOK, Rooms

(* A page fits an object that goes on, and a room that opens.              *)
LEMMA FitsLater ==
    ASSUME NEW c, NEW t, NEW q \in Queues, NEW w \in Messages, NEW m \in Mirrors,
           NEW n \in Nat, NEW r \in BOOLEAN, OnePage(c, t, q, w, m, n, r),
           NEW o \in Nat, NEW s \in BOOLEAN, n <= o, r => s
    PROVE  OnePage(c, t, q, w, m, o, s)
<1>1. q.version \in Nat
  BY DEF Queues
<1>2. w.kind \in {"stale", "done"} => w.version \in Nat
  BY DEF Messages, Silence, Failed, Requests, Stale, Done
<1>3. m # Nothing => m.version \in Nat
  BY DEF Mirrors
<1>4. t.banner # Nothing => t.banner.version \in Nat
  BY DEF OnePage, Tabs, Notices
<1>5. Fits(c, t, q, w, m, n, r)
  BY DEF OnePage
<1>6. /\ w.kind \in {"stale", "done"} => w.version <= o
      /\ q.version <= o /\ (m # Nothing => m.version <= o)
      /\ t.banner # Nothing => t.banner.version <= o
  BY <1>1, <1>2, <1>3, <1>4, <1>5 DEF Fits
<1>7. Fits(c, t, q, w, m, o, s)
  BY <1>5, <1>6 DEF Fits
<1> QED  BY <1>7 DEF OnePage

-----------------------------------------------------------------------------
(* What the functions of the queue return.                                 *)

(* What is unsent is what is in flight, and what was typed since over it.  *)
LEMMA TheUnsent ==
    ASSUME NEW q \in Queues
    PROVE  /\ q.pending \in Draft /\ Unsent(q) \in Draft
           /\ q.inflight = Nothing => Unsent(q) = q.pending
           /\ q.inflight # Nothing =>
                /\ q.inflight \in Draft
                /\ DOMAIN Unsent(q) = DOMAIN q.inflight \cup DOMAIN q.pending
                /\ \A f \in DOMAIN q.inflight \ DOMAIN q.pending : Unsent(q)[f] = q.inflight[f]
           /\ DOMAIN q.pending \subseteq DOMAIN Unsent(q)
           /\ \A f \in DOMAIN q.pending : Unsent(q)[f] = q.pending[f]
<1>1. q.pending \in Draft /\ (q.inflight # Nothing => q.inflight \in Draft)
  BY DEF Queues
<1>2. CASE q.inflight = Nothing
  BY <1>1, <1>2 DEF Unsent
<1>3. CASE q.inflight # Nothing
  <2> DEFINE a == q.inflight
             b == q.pending
             u == Unsent(q)
  <2>1. u = Merge(a, b) /\ a \in Draft /\ b \in Draft
    BY <1>1, <1>3 DEF Unsent
  <2> HIDE DEF a, b, u
  <2>2. /\ u \in Draft /\ DOMAIN u = DOMAIN a \cup DOMAIN b
        /\ \A f \in DOMAIN a \ DOMAIN b : u[f] = a[f]
        /\ \A f \in DOMAIN b : u[f] = b[f]
    BY ONLY <2>1, MergedDraft
  <2>3. /\ Unsent(q) \in Draft /\ DOMAIN Unsent(q) = DOMAIN q.inflight \cup DOMAIN q.pending
        /\ \A f \in DOMAIN q.inflight \ DOMAIN q.pending : Unsent(q)[f] = q.inflight[f]
        /\ \A f \in DOMAIN q.pending : Unsent(q)[f] = q.pending[f]
    BY ONLY <2>2 DEF a, b, u
  <2> QED  BY <1>1, <1>3, <2>3
<1> QED  BY <1>2, <1>3

(* An edit is unsent, and what was unsent of other fields still is.        *)
LEMMA ChangedQueue ==
    ASSUME NEW q \in Queues, NEW d \in Draft
    PROVE  LET x == Changed(q, d)
           IN  /\ x \in Queues /\ x.pending = Merge(q.pending, d)
               /\ x.version = q.version /\ x.base = q.base /\ x.inflight = q.inflight
               /\ x.stage = q.stage /\ x.attempt = q.attempt
               /\ DOMAIN Unsent(x) = DOMAIN Unsent(q) \cup DOMAIN d
               /\ \A f \in DOMAIN d : Unsent(x)[f] = d[f]
               /\ \A f \in DOMAIN Unsent(q) \ DOMAIN d : Unsent(x)[f] = Unsent(q)[f]
<1> DEFINE x == Changed(q, d)
<1>1. q.pending \in Draft /\ (q.inflight # Nothing => q.inflight \in Draft)
  BY DEF Queues
<1>2. /\ Merge(q.pending, d) \in Draft
      /\ DOMAIN Merge(q.pending, d) = DOMAIN q.pending \cup DOMAIN d
      /\ \A f \in DOMAIN d : Merge(q.pending, d)[f] = d[f]
      /\ \A f \in DOMAIN q.pending \ DOMAIN d : Merge(q.pending, d)[f] = q.pending[f]
  BY <1>1, MergedDraft
<1>3. /\ x \in Queues /\ x.pending = Merge(q.pending, d)
      /\ x.version = q.version /\ x.base = q.base /\ x.inflight = q.inflight
      /\ x.stage = q.stage /\ x.attempt = q.attempt
  BY <1>2 DEF Changed, Queues
<1> HIDE DEF x
<1>4. /\ DOMAIN Unsent(x) = DOMAIN Unsent(q) \cup DOMAIN d
      /\ \A f \in DOMAIN d : Unsent(x)[f] = d[f]
      /\ \A f \in DOMAIN Unsent(q) \ DOMAIN d : Unsent(x)[f] = Unsent(q)[f]
  <2>1. CASE q.inflight = Nothing
    <3>1. Unsent(x) = Merge(q.pending, d) /\ Unsent(q) = q.pending
      BY <1>3, <2>1, TheUnsent
    <3> QED  BY <1>2, <3>1
  <2>2. CASE q.inflight # Nothing
    <3>1. /\ DOMAIN Unsent(x) = DOMAIN q.inflight \cup DOMAIN x.pending
          /\ \A f \in DOMAIN q.inflight \ DOMAIN x.pending : Unsent(x)[f] = q.inflight[f]
          /\ \A f \in DOMAIN x.pending : Unsent(x)[f] = x.pending[f]
      BY <1>3, <2>2, TheUnsent
    <3>2. /\ DOMAIN Unsent(q) = DOMAIN q.inflight \cup DOMAIN q.pending
          /\ \A f \in DOMAIN q.inflight \ DOMAIN q.pending : Unsent(q)[f] = q.inflight[f]
          /\ \A f \in DOMAIN q.pending : Unsent(q)[f] = q.pending[f]
      BY <2>2, TheUnsent
    <3> QED  BY <1>2, <1>3, <3>1, <3>2
  <2> QED  BY <2>1, <2>2
<1> QED  BY <1>3, <1>4 DEF x

(* The rest of them leave the drafts alone.                                *)
LEMMA OtherSteps ==
    ASSUME NEW q \in Queues, NEW v \in Nat, NEW s \in Snapshot
    PROVE  /\ LET x == Stopped(q)
              IN  /\ x \in Queues /\ Unsent(x) = Unsent(q) /\ x.stage = "idle"
                  /\ x.inflight = q.inflight /\ x.pending = q.pending
                  /\ x.version = q.version /\ x.base = q.base
           /\ LET x == RebasedOnto(q, v, s)
              IN  /\ x \in Queues /\ Unsent(x) = Unsent(q) /\ x.stage = q.stage
                  /\ x.inflight = q.inflight /\ x.pending = q.pending
                  /\ x.version = v /\ x.base = s /\ x.attempt = q.attempt
           /\ LET x == [q EXCEPT !.timer = FALSE]
              IN  /\ x \in Queues /\ Unsent(x) = Unsent(q) /\ x.stage = q.stage
                  /\ x.inflight = q.inflight /\ x.pending = q.pending
                  /\ x.version = q.version /\ x.base = q.base
           /\ LET x == Resumed(q)
              IN  /\ x \in Queues /\ Unsent(x) = Unsent(q) /\ x.stage = q.stage
                  /\ x.inflight = q.inflight /\ x.pending = q.pending
                  /\ x.version = q.version /\ x.base = q.base
<1>1. LET x == Stopped(q)
      IN  /\ x \in Queues /\ Unsent(x) = Unsent(q) /\ x.stage = "idle"
          /\ x.inflight = q.inflight /\ x.pending = q.pending
          /\ x.version = q.version /\ x.base = q.base
  BY DEF Stopped, Queues, Unsent
<1>2. LET x == RebasedOnto(q, v, s)
      IN  /\ x \in Queues /\ Unsent(x) = Unsent(q) /\ x.stage = q.stage
          /\ x.inflight = q.inflight /\ x.pending = q.pending
          /\ x.version = v /\ x.base = s /\ x.attempt = q.attempt
  BY DEF RebasedOnto, Queues, Unsent
<1>3. ASSUME NEW b \in BOOLEAN
      PROVE  LET x == [q EXCEPT !.timer = b]
             IN  /\ x \in Queues /\ Unsent(x) = Unsent(q) /\ x.stage = q.stage
                 /\ x.inflight = q.inflight /\ x.pending = q.pending
                 /\ x.version = q.version /\ x.base = q.base
  BY DEF Queues, Unsent
<1>4. (q.timer \/ HasPending(q)) \in BOOLEAN
  BY DEF Queues, HasPending
<1>5. Resumed(q) = [q EXCEPT !.timer = (q.timer \/ HasPending(q))]
  BY DEF Resumed, Queues
<1> QED  BY <1>1, <1>2, <1>3, <1>4, <1>5

(* A rebased queue has what it had, on the base it was given.              *)
LEMMA RebasedQueue ==
    ASSUME NEW q \in Queues, NEW v \in Nat, NEW s \in Snapshot
    PROVE  /\ RebasedOnto(q, v, s) \in Queues
           /\ RebasedOnto(q, v, s).version = v
           /\ RebasedOnto(q, v, s).stage = q.stage
<1> QED  BY DEF RebasedOnto, Queues

(* What was acknowledged is part of the base, and no longer unsent.        *)
LEMMA AckedQueue ==
    ASSUME NEW q \in Queues, NEW v \in Nat
    PROVE  LET x == Acked(q, v)
           IN  /\ x \in Queues /\ x.stage = "idle" /\ x.version = v
               /\ x.inflight = Nothing /\ x.pending = q.pending /\ Unsent(x) = q.pending
               /\ q.inflight = Nothing => x.base = q.base
               /\ q.inflight # Nothing => x.base = Merge(q.base, q.inflight)
<1> DEFINE x    == Acked(q, v)
           base == IF q.inflight = Nothing THEN q.base ELSE Merge(q.base, q.inflight)
<1>1. base \in Snapshot
  <2>1. q.base \in Snapshot /\ (q.inflight # Nothing => q.inflight \in Draft)
    BY DEF Queues
  <2> QED  BY <2>1, WholeDraft, MergedDraft
<1> HIDE DEF base
<1>2. x = [q EXCEPT !.version = v, !.base = base, !.inflight = Nothing, !.stage = "idle"]
  BY DEF Acked, base, Queues
<1>3. x \in Queues /\ x.stage = "idle" /\ x.version = v /\ x.inflight = Nothing
      /\ x.pending = q.pending /\ x.base = base
  BY <1>1, <1>2 DEF Queues
<1> HIDE DEF x
<1>4. Unsent(x) = q.pending
  BY <1>3 DEF Unsent
<1> QED  BY <1>3, <1>4 DEF x, base

(* The head of the pump's loop sends or comes to rest, and loses nothing.  *)
LEMMA PumpedQueue ==
    ASSUME NEW q \in Queues, NEW held
    PROVE  LET x == Pumped(q, held)
           IN  /\ x \in Queues /\ x.version = q.version /\ x.base = q.base
               /\ x.stage \in {"idle", "sent"}
               /\ x.stage = "sent" => x.inflight \in Draft
               /\ Nothing \notin Draft => Unsent(x) = Unsent(q)
<1> DEFINE x    == Pumped(q, held)
           all  == Unsent(q)
           send == IF q.pending = NoFields THEN all ELSE Without(all, held)
           rest == Restrict(all, DOMAIN all \ DOMAIN send)
<1>1. all \in Draft
  BY TheUnsent
<1>2. send \in Draft /\ DOMAIN send \subseteq DOMAIN all
      /\ \A f \in DOMAIN send : send[f] = all[f]
  <2>1. CASE q.pending = NoFields
    BY <1>1, <2>1
  <2>2. CASE q.pending # NoFields
    <3>1. send = Without(all, held)
      BY <2>2
    <3>2. ASSUME NEW a \in Draft, NEW s, s = Without(a, held)
          PROVE  s \in Draft /\ DOMAIN s \subseteq DOMAIN a /\ \A f \in DOMAIN s : s[f] = a[f]
      <4> HIDE DEF all, send, rest, x
      <4>1. /\ Without(a, held) \in Draft /\ DOMAIN Without(a, held) = DOMAIN a \ held
            /\ \A f \in DOMAIN a \ held : Without(a, held)[f] = a[f]
        BY LessDraft
      <4> QED  BY <3>2, <4>1
    <3> HIDE DEF all, send
    <3> QED  BY <1>1, <3>1, <3>2
  <2> QED  BY <2>1, <2>2
<1>3. rest \in Draft /\ Merge(send, rest) = all
  <2> HIDE DEF all, send
  <2> QED  BY <1>1, <1>2, PartDraft
<1>5. x = IF q.blocked \/ (q.inflight = Nothing /\ q.pending = NoFields)
          THEN [q EXCEPT !.stage = "idle"]
          ELSE IF send = NoFields /\ q.pending # NoFields
          THEN [q EXCEPT !.stage = "idle", !.inflight = Nothing, !.pending = all]
          ELSE [q EXCEPT !.stage = "sent", !.attempt = 0, !.inflight = send, !.pending = rest]
  BY DEF Pumped
<1> HIDE DEF x, all, send, rest
<1>6. CASE q.blocked \/ (q.inflight = Nothing /\ q.pending = NoFields)
  <2>1. x = [q EXCEPT !.stage = "idle"]
    BY <1>5, <1>6
  <2>2. /\ x \in Queues /\ x.version = q.version /\ x.base = q.base /\ x.stage = "idle"
        /\ x.inflight = q.inflight /\ x.pending = q.pending
    BY <2>1 DEF Queues
  <2>3. Unsent(x) = Unsent(q)
    BY <2>2 DEF Unsent
  <2> QED  BY <2>2, <2>3 DEF x
<1>7. CASE /\ ~(q.blocked \/ (q.inflight = Nothing /\ q.pending = NoFields))
           /\ send = NoFields /\ q.pending # NoFields
  <2>1. x = [q EXCEPT !.stage = "idle", !.inflight = Nothing, !.pending = all]
    BY <1>5, <1>7
  <2>2. /\ x \in Queues /\ x.version = q.version /\ x.base = q.base /\ x.stage = "idle"
        /\ x.inflight = Nothing /\ x.pending = all
    BY <1>1, <2>1 DEF Queues
  <2>3. Unsent(x) = all
    BY <2>2 DEF Unsent
  <2> QED  BY <2>2, <2>3 DEF x, all
<1>8. CASE /\ ~(q.blocked \/ (q.inflight = Nothing /\ q.pending = NoFields))
           /\ ~(send = NoFields /\ q.pending # NoFields)
  <2>1. x = [q EXCEPT !.stage = "sent", !.attempt = 0, !.inflight = send, !.pending = rest]
    BY <1>5, <1>8
  <2>2. 0 \in 0 .. MaxRebaseAttempts
    BY SaveQueueAssumption
  <2>3. /\ x \in Queues /\ x.version = q.version /\ x.base = q.base /\ x.stage = "sent"
        /\ x.inflight = send /\ x.pending = rest
    BY <1>2, <1>3, <2>1, <2>2 DEF Queues
  <2>4. Nothing \notin Draft => Unsent(x) = all
    BY <1>2, <1>3, <2>3 DEF Unsent
  <2> QED  BY <1>2, <2>3, <2>4 DEF x, all
<1> QED  BY <1>6, <1>7, <1>8

-----------------------------------------------------------------------------
(* Every step keeps the types.                                             *)

(* The object as it is.                                                    *)
LEMMA CurrentIs ==
    ASSUME versions \in Seq(Snapshot), Version > 0
    PROVE  Version \in Nat /\ Current \in Snapshot /\ \A i \in 1..Version : versions[i] \in Snapshot
BY DEF Version, Current

(* The object with one more version.                                       *)
LEMMA OneMore ==
    ASSUME NEW s \in Snapshot, versions \in Seq(Snapshot), NEW x, x = Append(versions, s)
    PROVE  /\ x \in Seq(Snapshot) /\ Len(x) = Version + 1 /\ Len(x) \in Nat
           /\ x[Len(x)] = s /\ \A i \in 1..Version : x[i] = versions[i]
BY DEF Version

(* A queue on the object as it was read.                                   *)
LEMMA CreatedQueue ==
    ASSUME versions \in Seq(Snapshot), Version > 0
    PROVE  /\ Created \in Queues /\ Created.stage = "idle" /\ Created.version = Version
           /\ Created.base = Current /\ Created.inflight = Nothing
           /\ Created.pending = NoFields /\ Unsent(Created) = NoFields
<1>1. 0 \in 0 .. MaxRebaseAttempts
  BY SaveQueueAssumption
<1>2. /\ Created \in Queues /\ Created.stage = "idle" /\ Created.version = Version
      /\ Created.base = Current /\ Created.inflight = Nothing /\ Created.pending = NoFields
  BY <1>1, CurrentIs, EmptyDraft DEF Created, Queues
<1> QED  BY <1>2 DEF Unsent

(* A page that was just loaded.                                            *)
LEMMA LoadedPage ==
    ASSUME setting \in Settings, versions \in Seq(Snapshot), Version > 0,
           NEW c, mirror[c] \in Mirrors, mirror[c] # Nothing => mirror[c].version <= Version,
           NEW r
    PROVE  OnePage(c, Loaded(c).tab, Loaded(c).queue, Silence, mirror[c], Version, r)
<1> DEFINE applies == mirror[c] # Nothing /\ mirror[c].version = Version
           offered == mirror[c] # Nothing /\ mirror[c].version # Version
           draft   == IF applies THEN mirror[c].fields ELSE NoFields
           offer   == IF offered THEN mirror[c].fields ELSE Nothing
           t       == Loaded(c).tab
           q       == Loaded(c).queue
<1>1. draft \in Draft /\ offer \in Draft \cup {Nothing}
  BY EmptyDraft DEF Mirrors
<1>2. Merge(Current, draft) \in Snapshot
  <2> HIDE DEF draft
  <2> QED  BY <1>1, CurrentIs, WholeDraft, MergedDraft
<1>3. setting.collab \in BOOLEAN
  BY SaveQueueAssumption DEF Setting
<1>4. t = [open |-> TRUE, synced |-> FALSE, suspended |-> setting.collab,
           seat |-> IF setting.collab THEN "joining" ELSE "none", screen |-> Merge(Current, draft),
           recovery |-> offer, banner |-> Nothing, reverted |-> Nothing]
  BY DEF Loaded
<1>5. q = IF applies THEN Changed(Created, draft) ELSE Created
  BY DEF Loaded
<1> HIDE DEF t, q, draft, offer
<1>6. t \in Tabs /\ t.open /\ t.banner = Nothing /\ t.suspended = (t.seat = "joining")
      /\ t.seat # "live"
  BY <1>1, <1>2, <1>3, <1>4 DEF Tabs
<1>7. q \in Queues /\ q.version = Version /\ q.stage = "idle"
  BY <1>1, <1>5, CreatedQueue, ChangedQueue
<1>8. Version <= Version
  BY CurrentIs
<1>9. Silence \in Messages /\ Silence.kind = "none"
  BY DEF Messages, Silence
<1> HIDE DEF applies, offered
<1>10. Fits(c, t, q, Silence, mirror[c], Version, r)
  BY <1>6, <1>7, <1>8, <1>9 DEF Fits
<1> QED  BY <1>6, <1>7, <1>9, <1>10 DEF OnePage, t, q

(* The first state.                                                        *)
LEMMA TypesInit == Init => Types
<1> SUFFICES ASSUME Init PROVE Types
  OBVIOUS
<1> DEFINE s == [f \in Fields |-> <<"nobody", 0>>]
<1>1. <<"nobody", 0>> \in Values /\ s \in Snapshot
  BY DEF Values, Snapshot
<1>2. versions \in Seq(Snapshot) /\ Version = 1
  BY <1>1 DEF Init, Version
<1>3. Current \in Snapshot /\ Version > 0 /\ Version \in Nat
  BY <1>2, CurrentIs
<1>4. setting \in Settings
  BY DEF Init
<1>5. room \in Rooms /\ (room.peer \/ room.dirty => room.open) /\ room.open = FALSE
  BY <1>1 DEF Init, Rooms
<1>6. count \in Counts
  BY SaveQueueAssumption DEF Init, Counts
<1>7. own \in [Clients -> Draft] /\ basis \in [Clients -> Snapshot]
  BY <1>3, EmptyDraft DEF Init
<1>8. Shared
  BY <1>2, <1>3, <1>4, <1>5, <1>6, <1>7 DEF Shared, Init
<1>9. ASSUME NEW c \in Clients
      PROVE  OnePage(c, tab[c], queue[c], wire[c], mirror[c], Version, room.open)
  <2>1. mirror[c] = Nothing /\ wire[c] = Silence /\ queue[c] = Created
    BY DEF Init
  <2>2. CASE c \in setting.people
    <3>1. mirror[c] \in Mirrors /\ (mirror[c] # Nothing => mirror[c].version <= Version)
      BY <2>1 DEF Mirrors
    <3>2. OnePage(c, Loaded(c).tab, Loaded(c).queue, Silence, mirror[c], Version, room.open)
      BY <1>2, <1>3, <1>4, <3>1, LoadedPage
    <3>3. tab[c] = Loaded(c).tab
      BY <2>2 DEF Init
    <3>4. Loaded(c).queue = Created
      BY <2>1 DEF Loaded
    <3> QED  BY <2>1, <3>2, <3>3, <3>4
  <2>3. CASE c \notin setting.people
    <3>1. tab[c] = Shut
      BY <2>3 DEF Init
    <3>2. Shut \in Tabs /\ ~Shut.open /\ ~Shut.synced /\ Shut.suspended = FALSE
          /\ Shut.seat = "none"
          /\ Shut.recovery = Nothing /\ Shut.banner = Nothing /\ Shut.reverted = Nothing
      BY <1>3 DEF Shut, Tabs
    <3>3. Silence \in Messages /\ Silence.kind = "none" /\ Nothing \in Mirrors
      BY DEF Messages, Silence, Mirrors
    <3>4. Version <= Version
      BY <1>3
    <3>5. /\ Created \in Queues /\ Created.stage = "idle" /\ Created.version = Version
          /\ Unsent(Created) = NoFields
      BY <1>2, <1>3, CreatedQueue
    <3>6. Fits(c, Shut, Created, Silence, Nothing, Version, room.open)
      BY ONLY <3>2, <3>3, <3>4, <3>5 DEF Fits
    <3> QED  BY <2>1, <3>1, <3>2, <3>3, <3>5, <3>6 DEF OnePage
  <2> QED  BY <2>2, <2>3
<1>10. /\ tab \in [Clients -> Tabs] /\ queue \in [Clients -> Queues]
       /\ wire \in [Clients -> Messages] /\ mirror \in [Clients -> Mirrors]
  BY <1>9 DEF OnePage, Init
<1> QED  BY <1>8, <1>9, <1>10 DEF Types, Pages, OnePage

(* The pages after a step that changed one of them, or none.               *)
LEMMA OthersKept ==
    ASSUME Types, Shared', Version <= Version', room.open => room'.open,
           NEW c \in Clients, NEW t, NEW q, NEW w, NEW m,
           OnePage(c, t, q, w, m, Version', room'.open),
           tab' = [tab EXCEPT ![c] = t], queue' = [queue EXCEPT ![c] = q],
           wire' = [wire EXCEPT ![c] = w], mirror' = [mirror EXCEPT ![c] = m]
    PROVE  Types'
<1>1. /\ tab' \in [Clients -> Tabs] /\ queue' \in [Clients -> Queues]
      /\ wire' \in [Clients -> Messages] /\ mirror' \in [Clients -> Mirrors]
  BY DEF Types, Pages, OnePage
<1>2. ASSUME NEW d \in Clients
      PROVE  Fits(d, tab'[d], queue'[d], wire'[d], mirror'[d], Version', room'.open)
  <2>1. CASE d = c
    BY <2>1 DEF Types, Pages, OnePage
  <2>2. CASE d # c
    <3>1. /\ tab'[d] = tab[d] /\ queue'[d] = queue[d] /\ wire'[d] = wire[d]
          /\ mirror'[d] = mirror[d]
      BY <2>2 DEF Types, Pages
    <3>2. /\ queue[d] \in Queues /\ wire[d] \in Messages /\ mirror[d] \in Mirrors
          /\ OnePage(d, tab[d], queue[d], wire[d], mirror[d], Version, room.open)
      BY DEF Types, Pages, OnePage
    <3>3. /\ Version \in Nat /\ Version' \in Nat /\ room.open \in BOOLEAN
          /\ room'.open \in BOOLEAN
      BY DEF Types, Shared, Rooms
    <3>4. OnePage(d, tab[d], queue[d], wire[d], mirror[d], Version', room'.open)
      BY <3>2, <3>3, FitsLater
    <3> QED  BY <3>1, <3>4 DEF OnePage
  <2> QED  BY <2>1, <2>2
<1> QED  BY <1>1, <1>2 DEF Types, Pages

(* What one of the pages is.                                               *)
LEMMA ThePage ==
    ASSUME Types, NEW c \in Clients
    PROVE  /\ tab[c] \in Tabs /\ queue[c] \in Queues /\ wire[c] \in Messages
           /\ mirror[c] \in Mirrors
           /\ Fits(c, tab[c], queue[c], wire[c], mirror[c], Version, room.open)
           /\ OnePage(c, tab[c], queue[c], wire[c], mirror[c], Version, room.open)
           /\ tab = [tab EXCEPT ![c] = tab[c]] /\ queue = [queue EXCEPT ![c] = queue[c]]
           /\ wire = [wire EXCEPT ![c] = wire[c]] /\ mirror = [mirror EXCEPT ![c] = mirror[c]]
           /\ own[c] \in Draft /\ basis[c] \in Snapshot
           /\ Version \in Nat /\ Version <= Version /\ Current \in Snapshot
           /\ room.open \in BOOLEAN
<1>1. /\ tab \in [Clients -> Tabs] /\ queue \in [Clients -> Queues]
      /\ wire \in [Clients -> Messages] /\ mirror \in [Clients -> Mirrors]
      /\ Fits(c, tab[c], queue[c], wire[c], mirror[c], Version, room.open)
  BY DEF Types, Pages
<1>2. /\ own[c] \in Draft /\ basis[c] \in Snapshot /\ room.open \in BOOLEAN
      /\ versions \in Seq(Snapshot) /\ Version > 0
  BY DEF Types, Shared, Rooms
<1>3. Version \in Nat /\ Version <= Version /\ Current \in Snapshot
  BY <1>2, CurrentIs
<1> QED  BY <1>1, <1>2, <1>3 DEF OnePage

(* A step that leaves the object, the room and the loose requests alone.   *)
LEMMA SharedStays ==
    ASSUME Types, UNCHANGED <<setting, versions, room, loose>>, count' \in Counts,
           own' \in [Clients -> Draft], basis' \in [Clients -> Snapshot]
    PROVE  /\ Shared' /\ Version' = Version /\ Version <= Version'
           /\ room'.open = room.open /\ (room.open => room'.open)
<1>1. Version' = Version
  BY DEF Version
<1>2. Version \in Nat /\ Version <= Version'
  BY <1>1 DEF Types, Shared
<1>3. Shared'
  BY <1>1 DEF Types, Shared
<1> QED  BY <1>1, <1>2, <1>3

(* The same of one that types nothing either.                              *)
LEMMA CountsStay ==
    ASSUME Types, UNCHANGED <<setting, versions, room, loose, count>>,
           own' \in [Clients -> Draft], basis' \in [Clients -> Snapshot]
    PROVE  /\ Shared' /\ Version' = Version /\ Version <= Version'
           /\ room'.open = room.open /\ (room.open => room'.open)
<1>1. count' \in Counts
  BY DEF Types, Shared
<1> QED  BY <1>1, SharedStays

(* A value nobody typed before, and the account of it.                     *)
LEMMA FreshValue ==
    ASSUME Types, NEW c \in Clients, NEW f \in Fields, count.edits[c] < setting.edits, Typed(c, f)
    PROVE  Fresh(c) \in Values /\ count' \in Counts /\ own' \in [Clients -> Draft]
<1>1. setting.edits \in 0 .. MaxWrites /\ MaxWrites \in Nat
  BY SaveQueueAssumption DEF Types, Shared, Setting
<1>2. count \in Counts /\ count.edits[c] \in 0 .. MaxWrites
  BY DEF Types, Shared, Counts
<1>3. count.edits[c] + 1 \in 1 .. MaxWrites /\ count.edits[c] + 1 \in 0 .. MaxWrites
  BY <1>1, <1>2
<1>4. Fresh(c) \in Values
  BY <1>3 DEF Fresh, Values
<1>5. count' \in Counts
  BY <1>2, <1>3 DEF Typed, Counts
<1>6. Merge(own[c], Single(f, Fresh(c))) \in Draft
  BY <1>4, OneDraft, MergedDraft DEF Types, Shared
<1>7. own' \in [Clients -> Draft]
  BY <1>6 DEF Typed, Types, Shared
<1> QED  BY <1>4, <1>5, <1>7

(* The fields an edit of them begins on.                                   *)
LEMMA BeginningTypes ==
    ASSUME Types, NEW c \in Clients, NEW q \in Queues, NEW d
    PROVE  Beginning(c, q, d) \in [Clients -> Snapshot]
<1> DEFINE s == [f \in Fields |->
                   IF f \in DOMAIN d \ DOMAIN Unsent(q) THEN q.base[f] ELSE basis[c][f]]
<1>1. q.base \in Snapshot /\ basis \in [Clients -> Snapshot] /\ basis[c] \in Snapshot
  BY DEF Queues, Types, Shared
<1>2. s \in Snapshot
  BY <1>1 DEF Snapshot
<1>3. Beginning(c, q, d) = [basis EXCEPT ![c] = s]
  BY <1>1 DEF Beginning
<1> HIDE DEF s
<1> QED  BY <1>1, <1>2, <1>3

(* What a queue sends is a message of the page's own.                      *)
LEMMA SentMessage ==
    ASSUME NEW c \in Clients, NEW q \in Queues, q.stage = "sent" => q.inflight \in Draft
    PROVE  /\ Sent(c, q) \in Messages /\ (q.stage = "sent") = (Sent(c, q) # Silence)
           /\ Sent(c, q).kind \in {"none", "request"}
           /\ Sent(c, q).kind = "request" => Sent(c, q).by = c
<1>1. CASE q.stage = "sent"
  <2>1. Sent(c, q) = Request(c, q.inflight, q.version) /\ q.version \in Nat
    BY <1>1 DEF Sent, Queues
  <2>2. Sent(c, q) \in Requests /\ Sent(c, q).kind = "request" /\ Sent(c, q).by = c
    BY <1>1, <2>1 DEF Requests, Request
  <2>3. Sent(c, q) # Silence
    BY <2>2 DEF Silence
  <2> QED  BY <1>1, <2>2, <2>3 DEF Messages
<1>2. CASE q.stage # "sent"
  BY <1>2 DEF Sent, Messages, Silence
<1> QED  BY <1>1, <1>2

(* A page that pumps.                                                      *)
LEMMA PumpedPage ==
    ASSUME Types, NEW c \in Clients, NEW q \in Queues, q.version <= Version', Version' \in Nat,
           NEW t \in Tabs, t.open, t.suspended = (t.seat = "joining"),
           t.seat = "live" => room'.open, t.banner # Nothing => t.banner.version <= Version',
           NEW m \in Mirrors, m # Nothing => m.version <= Version', Pump(c, q)
    PROVE  \E x, w : /\ OnePage(c, t, x, w, m, Version', room'.open)
                     /\ queue' = [queue EXCEPT ![c] = x] /\ wire' = [wire EXCEPT ![c] = w]
<1> DEFINE x == Pumped(q, Held(tab[c]))
           w == Sent(c, x)
<1>1. x \in Queues /\ x.version = q.version /\ (x.stage = "sent" => x.inflight \in Draft)
  BY PumpedQueue
<1>2. queue' = [queue EXCEPT ![c] = x] /\ wire' = [wire EXCEPT ![c] = w]
  BY DEF Pump
<1> HIDE DEF x
<1>3. /\ w \in Messages /\ (x.stage = "sent") = (w # Silence) /\ w.kind \in {"none", "request"}
      /\ w.kind = "request" => w.by = c
  BY <1>1, SentMessage
<1> HIDE DEF w
<1>4. Fits(c, t, x, w, m, Version', room'.open)
  BY <1>1, <1>3 DEF Fits
<1>5. OnePage(c, t, x, w, m, Version', room'.open)
  BY <1>1, <1>3, <1>4 DEF OnePage
<1> QED  BY <1>2, <1>5

(* An edit.                                                                *)
LEMMA TypeTypes ==
    ASSUME Types, NEW c \in Clients, NEW f \in Fields, Type(c, f)
    PROVE  Types'
<1> DEFINE edit == Single(f, Fresh(c))
           q == Changed(queue[c], edit)
           m == Mirrored(q)
           t == [tab[c] EXCEPT !.screen = [@ EXCEPT ![f] = Fresh(c)], !.reverted = Nothing]
<1>0. /\ tab[c].open /\ count.edits[c] < setting.edits /\ Typed(c, f)
      /\ UNCHANGED <<setting, versions, room, wire, loose>>
      /\ basis' = Beginning(c, queue[c], edit)
      /\ queue' = [queue EXCEPT ![c] = q] /\ mirror' = [mirror EXCEPT ![c] = m]
      /\ tab' = [tab EXCEPT ![c].screen[f] = Fresh(c), ![c].reverted = Nothing]
  BY DEF Type, MayType, MayAct
<1>1. Fresh(c) \in Values /\ count' \in Counts /\ own' \in [Clients -> Draft]
  BY <1>0, FreshValue
<1>2. edit \in Draft
  BY <1>1, OneDraft
<1>3. /\ tab[c] \in Tabs /\ queue[c] \in Queues /\ wire[c] \in Messages
      /\ Fits(c, tab[c], queue[c], wire[c], mirror[c], Version, room.open)
      /\ wire = [wire EXCEPT ![c] = wire[c]] /\ tab \in [Clients -> Tabs]
  BY ThePage DEF Types, Pages
<1>4. basis' \in [Clients -> Snapshot]
  BY <1>0, <1>3, BeginningTypes
<1>5. Shared' /\ Version' = Version /\ Version <= Version' /\ room'.open = room.open
      /\ (room.open => room'.open)
  BY <1>0, <1>1, <1>4, SharedStays
<1>6. q \in Queues /\ q.version = queue[c].version /\ q.stage = queue[c].stage
      /\ Unsent(q) \in Draft
  BY <1>2, <1>3, ChangedQueue, TheUnsent
<1>7. tab' = [tab EXCEPT ![c] = t]
  BY <1>0, <1>3
<1>8. t \in Tabs /\ t.open /\ t.seat = tab[c].seat /\ t.suspended = tab[c].suspended
      /\ t.banner = tab[c].banner
  <2>1. [tab[c].screen EXCEPT ![f] = Fresh(c)] \in Snapshot
    BY <1>1, <1>3 DEF Tabs, Snapshot
  <2> QED  BY <1>0, <1>3, <2>1 DEF Tabs
<1> HIDE DEF t, q
<1>9. m \in Mirrors /\ m.version = q.version
  BY <1>6 DEF Mirrored, Mirrors, Queues
<1> HIDE DEF m
<1>10. Fits(c, t, q, wire[c], m, Version, room.open)
  BY <1>0, <1>3, <1>6, <1>8, <1>9 DEF Fits
<1>11. OnePage(c, t, q, wire[c], m, Version', room'.open)
  BY <1>3, <1>5, <1>6, <1>8, <1>9, <1>10 DEF OnePage
<1>12. wire' = [wire EXCEPT ![c] = wire[c]]
  BY <1>0, <1>3
<1> QED  BY <1>0, <1>5, <1>7, <1>11, <1>12, OthersKept

(* The timer.                                                              *)
LEMMA TimerFiresTypes ==
    ASSUME Types, NEW c \in Clients, TimerFires(c)
    PROVE  Types'
<1> DEFINE q == [queue[c] EXCEPT !.timer = FALSE]
<1>0. /\ tab[c].open /\ UNCHANGED <<setting, versions, room, tab, loose, mirror, count, own, basis>>
      /\ q.stage = "idle" => Pump(c, q)
      /\ q.stage # "idle" => queue' = [queue EXCEPT ![c] = q] /\ UNCHANGED wire
  BY DEF TimerFires
<1>1. /\ tab[c] \in Tabs /\ queue[c] \in Queues /\ wire[c] \in Messages /\ mirror[c] \in Mirrors
      /\ Fits(c, tab[c], queue[c], wire[c], mirror[c], Version, room.open)
      /\ wire = [wire EXCEPT ![c] = wire[c]] /\ tab = [tab EXCEPT ![c] = tab[c]]
      /\ mirror = [mirror EXCEPT ![c] = mirror[c]] /\ Version \in Nat
  BY ThePage
<1>2. Shared' /\ Version' = Version /\ Version <= Version' /\ room'.open = room.open
      /\ (room.open => room'.open)
  BY <1>0, CountsStay DEF Types, Shared
<1>3. q \in Queues /\ q.version = queue[c].version /\ q.stage = queue[c].stage
      /\ Unsent(q) = Unsent(queue[c])
  BY <1>1 DEF Queues, Unsent
<1> HIDE DEF q
<1>4. \E x, w : /\ OnePage(c, tab[c], x, w, mirror[c], Version', room'.open)
                /\ queue' = [queue EXCEPT ![c] = x] /\ wire' = [wire EXCEPT ![c] = w]
  <2>1. CASE q.stage = "idle"
    <3>1. /\ q.version <= Version' /\ Version' \in Nat /\ tab[c].open
          /\ tab[c].suspended = (tab[c].seat = "joining")
          /\ tab[c].seat = "live" => room'.open
          /\ tab[c].banner # Nothing => tab[c].banner.version <= Version'
          /\ mirror[c] # Nothing => mirror[c].version <= Version'
      BY <1>0, <1>1, <1>2, <1>3 DEF Fits
    <3> QED  BY <1>0, <1>1, <1>3, <2>1, <3>1, PumpedPage
  <2>2. CASE q.stage # "idle"
    <3>1. OnePage(c, tab[c], q, wire[c], mirror[c], Version', room'.open)
      BY <1>0, <1>1, <1>2, <1>3 DEF Fits, OnePage
    <3> QED  BY <1>0, <1>1, <2>2, <3>1
  <2> QED  BY <2>1, <2>2
<1>5. tab' = [tab EXCEPT ![c] = tab[c]] /\ mirror' = [mirror EXCEPT ![c] = mirror[c]]
  BY <1>0, <1>1
<1>6. PICK x, w : /\ OnePage(c, tab[c], x, w, mirror[c], Version', room'.open)
                  /\ queue' = [queue EXCEPT ![c] = x] /\ wire' = [wire EXCEPT ![c] = w]
  BY <1>4
<1> QED  BY <1>2, <1>5, <1>6, OthersKept

(* The box's answer.                                                       *)
LEMMA PatchedTypes ==
    ASSUME Types, NEW r \in Requests
    PROVE  /\ Patched(r) \in Seq(Snapshot) /\ Len(Patched(r)) \in Nat
           /\ Version <= Len(Patched(r)) /\ Len(Patched(r)) > 0
           /\ Refusal(r) # Nothing =>
                /\ Refusal(r) \in Messages /\ Refusal(r).kind \in {"locked", "stale"}
                /\ Refusal(r).kind = "stale" => Refusal(r).version = Version
<1>1. versions \in Seq(Snapshot) /\ Version > 0 /\ Version \in Nat /\ Current \in Snapshot
  BY CurrentIs DEF Types, Shared
<1>2. r.patch \in Draft
  BY DEF Requests
<1>3. Merge(Current, r.patch) \in Snapshot
  BY <1>1, <1>2, WholeDraft, MergedDraft
<1>4. /\ Patched(r) \in Seq(Snapshot) /\ Len(Patched(r)) \in Nat
      /\ Version <= Len(Patched(r)) /\ Len(Patched(r)) > 0
  <2>1. CASE DOMAIN r.patch = {}
    BY <1>1, <2>1 DEF Patched, Version
  <2>2. CASE DOMAIN r.patch # {}
    <3>1. Patched(r) = Append(versions, Merge(Current, r.patch))
      BY <2>2 DEF Patched
    <3>2. /\ Patched(r) \in Seq(Snapshot) /\ Len(Patched(r)) = Version + 1
          /\ Len(Patched(r)) \in Nat
      BY <1>1, <1>3, <3>1, OneMore
    <3> QED  BY <1>1, <3>2
  <2> QED  BY <2>1, <2>2
<1>5. ASSUME Refusal(r) # Nothing
      PROVE  /\ Refusal(r) \in Messages /\ Refusal(r).kind \in {"locked", "stale"}
             /\ Refusal(r).kind = "stale" => Refusal(r).version = Version
  <2>1. \/ Refusal(r) = [kind |-> "locked"]
        \/ Refusal(r) = [kind |-> "stale", version |-> Version, fields |-> Current]
    BY <1>5 DEF Refusal
  <2>2. [kind |-> "stale", version |-> Version, fields |-> Current] \in Stale
    BY <1>1 DEF Stale
  <2> QED  BY <2>1, <2>2 DEF Messages
<1> QED  BY <1>4, <1>5

(* The box serves a request.                                               *)
LEMMA ServeTypes ==
    ASSUME Types, NEW c \in Clients, Serve(c)
    PROVE  Types'
<1> DEFINE r == wire[c]
           w == IF Refusal(r) # Nothing THEN Refusal(r)
                ELSE [kind |-> "done", version |-> Len(Patched(r))]
<1>0. /\ r.kind = "request" /\ UNCHANGED <<setting, room, tab, queue, loose, mirror, count, own, basis>>
      /\ wire' = [wire EXCEPT ![c] = w]
      /\ versions' = IF Refusal(r) # Nothing THEN versions ELSE Patched(r)
  BY DEF Serve
<1>1. /\ tab[c] \in Tabs /\ queue[c] \in Queues /\ wire[c] \in Messages /\ mirror[c] \in Mirrors
      /\ OnePage(c, tab[c], queue[c], wire[c], mirror[c], Version, room.open)
      /\ queue = [queue EXCEPT ![c] = queue[c]] /\ tab = [tab EXCEPT ![c] = tab[c]]
      /\ mirror = [mirror EXCEPT ![c] = mirror[c]] /\ Version \in Nat /\ Version <= Version
      /\ room.open \in BOOLEAN
  BY ThePage
<1>2. r \in Requests
  BY <1>0, <1>1 DEF Messages, Silence, Failed, Stale, Done
<1>3. versions \in Seq(Snapshot) /\ Version > 0
  BY DEF Types, Shared
<1>4. versions' \in Seq(Snapshot) /\ Version' \in Nat /\ Version <= Version' /\ Version' > 0
  BY <1>0, <1>1, <1>2, <1>3, PatchedTypes DEF Version
<1>5. Shared'
  BY <1>0, <1>4 DEF Types, Shared
<1>6. /\ w \in Messages /\ w # Silence /\ w.kind \in {"locked", "stale", "done"}
      /\ w.kind \in {"stale", "done"} => w.version <= Version'
  <2>1. CASE Refusal(r) # Nothing
    <3>1. w = Refusal(r) /\ Version' = Version
      BY <1>0, <2>1 DEF Version
    <3>2. /\ w \in Messages /\ w.kind \in {"locked", "stale"}
          /\ w.kind = "stale" => w.version = Version
      BY <1>2, <2>1, <3>1, PatchedTypes
    <3>3. Silence.kind = "none"
      BY DEF Silence
    <3> HIDE DEF w, r
    <3> QED  BY <1>1, <3>1, <3>2, <3>3
  <2>2. CASE Refusal(r) = Nothing
    <3>1. w = [kind |-> "done", version |-> Version'] /\ Version' \in Nat /\ Version' <= Version'
      BY <1>0, <1>4, <2>2 DEF Version
    <3> HIDE DEF w
    <3>2. w \in Done /\ w.kind = "done" /\ w.version = Version'
      BY <3>1 DEF Done
    <3> QED  BY <3>1, <3>2 DEF Messages, Silence
  <2> QED  BY <2>1, <2>2
<1> HIDE DEF w
<1>7. OnePage(c, tab[c], queue[c], wire[c], mirror[c], Version', room.open)
  BY <1>1, <1>4, FitsLater
<1>8. OnePage(c, tab[c], queue[c], w, mirror[c], Version', room'.open)
  <2>1. r # Silence
    BY <1>0 DEF Silence
  <2>2. room'.open = room.open
    BY <1>0
  <2>3. queue[c].stage = "sent"
    BY <1>7, <2>1 DEF OnePage, Fits
  <2>4. Fits(c, tab[c], queue[c], w, mirror[c], Version', room'.open)
    BY <1>6, <1>7, <2>2, <2>3 DEF OnePage, Fits
  <2> QED  BY <1>6, <1>7, <2>4 DEF OnePage
<1> HIDE DEF r
<1>9. /\ tab' = [tab EXCEPT ![c] = tab[c]] /\ queue' = [queue EXCEPT ![c] = queue[c]]
      /\ mirror' = [mirror EXCEPT ![c] = mirror[c]] /\ (room.open => room'.open)
      /\ wire' = [wire EXCEPT ![c] = w] /\ Version <= Version'
  BY <1>0, <1>1, <1>4
<1> QED  BY <1>5, <1>8, <1>9, OthersKept

(* The pages after a step of the object or of the room only.               *)
LEMMA PagesKept ==
    ASSUME Types, Shared', Version <= Version', UNCHANGED <<tab, queue, wire, mirror>>,
           room.open => room'.open
    PROVE  Types'
<1>1. ASSUME NEW d \in Clients
      PROVE  Fits(d, tab'[d], queue'[d], wire'[d], mirror'[d], Version', room'.open)
  <2>1. /\ OnePage(d, tab[d], queue[d], wire[d], mirror[d], Version, room.open)
        /\ queue[d] \in Queues /\ wire[d] \in Messages /\ mirror[d] \in Mirrors
        /\ Version \in Nat /\ room.open \in BOOLEAN
    BY ThePage
  <2>2. Version' \in Nat /\ room'.open \in BOOLEAN
    BY DEF Shared, Rooms
  <2>3. OnePage(d, tab[d], queue[d], wire[d], mirror[d], Version', room'.open)
    BY <2>1, <2>2, FitsLater
  <2> QED  BY <2>3 DEF OnePage
<1> QED  BY <1>1 DEF Types, Pages

(* The object goes on to a further version.                                *)
LEMMA ObjectGrows ==
    ASSUME Types, NEW s \in Snapshot, versions' = Append(versions, s)
    PROVE  versions' \in Seq(Snapshot) /\ Version' = Version + 1 /\ Version' \in Nat
           /\ Version <= Version' /\ Version' > 0
<1>1. versions \in Seq(Snapshot) /\ Version \in Nat
  BY DEF Types, Shared
<1>2. versions' \in Seq(Snapshot) /\ Len(versions') = Version + 1
  BY <1>1, OneMore
<1> QED  BY <1>1, <1>2 DEF Version

(* The steps of the box and of the network that no page takes part in.     *)
LEMMA ElsewhereTypes ==
    ASSUME Types,
           \/ \E r \in loose : ServeLoose(r) \/ LoseLoose(r)
           \/ \E f \in Fields : AgentWrites(f)
           \/ RoomFlushes \/ PeerComes \/ PeerGoes
    PROVE  Types'
<1>0. /\ versions \in Seq(Snapshot) /\ Version > 0 /\ Version \in Nat /\ Current \in Snapshot
      /\ room \in Rooms /\ loose \subseteq Requests /\ count \in Counts /\ Version <= Version
  BY CurrentIs DEF Types, Shared
<1>1. ASSUME NEW r \in loose, ServeLoose(r) PROVE Types'
  <2>1. versions' \in Seq(Snapshot) /\ Version' \in Nat /\ Version <= Version' /\ Version' > 0
    BY <1>0, <1>1, PatchedTypes DEF ServeLoose, Version
  <2>2. Shared'
    BY <1>1, <2>1 DEF ServeLoose, Types, Shared
  <2> QED  BY <1>1, <2>1, <2>2, PagesKept DEF ServeLoose
<1>2. ASSUME NEW r \in loose, LoseLoose(r) PROVE Types'
  <2>1. Version' = Version
    BY <1>2 DEF LoseLoose, Version
  <2>2. Shared'
    BY <1>2, <2>1 DEF LoseLoose, Types, Shared
  <2> QED  BY <1>0, <1>2, <2>1, <2>2, PagesKept DEF LoseLoose
<1>3. ASSUME NEW f \in Fields, AgentWrites(f) PROVE Types'
  <2> DEFINE v == <<"agent", count.agents + 1>>
  <2>1. setting.agents \in 0 .. MaxWrites /\ MaxWrites \in Nat
    BY SaveQueueAssumption DEF Types, Shared, Setting
  <2>2. count.agents \in 0 .. MaxWrites /\ count.agents < setting.agents
    BY <1>0, <1>3 DEF Counts, AgentWrites
  <2>3. count.agents + 1 \in 1 .. MaxWrites /\ count.agents + 1 \in 0 .. MaxWrites
    BY <2>1, <2>2
  <2>4. v \in Values
    BY <2>3 DEF Values
  <2>5. Merge(Current, Single(f, v)) \in Snapshot
    <3> HIDE DEF v
    <3> QED  BY <1>0, <2>4, OneDraft, WholeDraft, MergedDraft
  <2>6. versions' = Append(versions, Merge(Current, Single(f, v)))
    BY <1>3 DEF AgentWrites
  <2>7. versions' \in Seq(Snapshot) /\ Version' \in Nat /\ Version <= Version' /\ Version' > 0
    BY <2>5, <2>6, ObjectGrows
  <2>8. count' \in Counts
    BY <1>0, <1>3, <2>3 DEF AgentWrites, Counts
  <2>9. Shared'
    BY <1>3, <2>7, <2>8 DEF AgentWrites, Types, Shared
  <2> QED  BY <1>3, <2>7, <2>9, PagesKept DEF AgentWrites
<1>4. ASSUME RoomFlushes PROVE Types'
  <2>1. room.text \in Values /\ "body" \in Fields
    BY <1>0 DEF Rooms, Fields
  <2>2. Merge(Current, Single("body", room.text)) \in Snapshot
    BY <1>0, <2>1, OneDraft, WholeDraft, MergedDraft
  <2>3. versions' \in Seq(Snapshot) /\ Version' \in Nat /\ Version <= Version' /\ Version' > 0
    BY <1>4, <2>2, ObjectGrows DEF RoomFlushes
  <2>4. room' \in Rooms /\ room'.open = room.open /\ (room'.peer \/ room'.dirty => room'.open)
    BY <1>0, <1>4 DEF RoomFlushes, Rooms, Types, Shared
  <2>5. Shared'
    BY <1>4, <2>3, <2>4 DEF RoomFlushes, Types, Shared
  <2> QED  BY <1>4, <2>3, <2>4, <2>5, PagesKept DEF RoomFlushes
<1>5. ASSUME PeerComes PROVE Types'
  <2>1. Opened \in Rooms /\ Opened.open = TRUE
    BY <1>0, WholeDraft DEF Opened, Rooms, Fields
  <2>2. room' \in Rooms /\ room'.open = TRUE /\ Version' = Version
    BY <1>5, <2>1 DEF PeerComes, Rooms, Version
  <2>3. Shared'
    BY <1>5, <2>2 DEF PeerComes, Types, Shared
  <2> QED  BY <1>0, <1>5, <2>2, <2>3, PagesKept DEF PeerComes
<1>6. ASSUME PeerGoes PROVE Types'
  <2>1. /\ room' \in Rooms /\ room'.open = room.open /\ (room'.peer \/ room'.dirty => room'.open)
        /\ Version' = Version
    BY <1>0, <1>6 DEF PeerGoes, Rooms, Types, Shared, Version
  <2>2. Shared'
    BY <1>6, <2>1 DEF PeerGoes, Types, Shared
  <2> QED  BY <1>0, <1>6, <2>1, <2>2, PagesKept DEF PeerGoes
<1> QED  BY <1>1, <1>2, <1>3, <1>4, <1>5, <1>6

(* A message is lost.                                                      *)
LEMMA LoseTypes ==
    ASSUME Types, NEW c \in Clients, Lose(c)
    PROVE  Types'
<1>0. /\ wire[c].kind \notin {"none", "failed"} /\ wire' = [wire EXCEPT ![c] = Failed]
      /\ count' = [count EXCEPT !.losses = @ + 1]
      /\ UNCHANGED <<setting, versions, room, tab, queue, loose, mirror, own, basis>>
  BY DEF Lose
<1>1. /\ OnePage(c, tab[c], queue[c], wire[c], mirror[c], Version, room.open)
      /\ queue = [queue EXCEPT ![c] = queue[c]] /\ tab = [tab EXCEPT ![c] = tab[c]]
      /\ mirror = [mirror EXCEPT ![c] = mirror[c]]
  BY ThePage
<1>2. count' \in Counts
  <2>1. count \in Counts
    BY DEF Types, Shared
  <2> QED  BY <1>0, <2>1 DEF Counts
<1>3. Shared' /\ Version' = Version /\ Version <= Version' /\ room'.open = room.open
      /\ (room.open => room'.open)
  BY <1>0, <1>2, SharedStays DEF Types, Shared
<1>4. wire[c] # Silence /\ Failed # Silence /\ Failed.kind = "failed" /\ Failed \in Messages
  BY <1>0 DEF Silence, Failed, Messages
<1>5. OnePage(c, tab[c], queue[c], Failed, mirror[c], Version', room'.open)
  BY <1>1, <1>3, <1>4 DEF OnePage, Fits
<1>6. /\ queue' = [queue EXCEPT ![c] = queue[c]] /\ tab' = [tab EXCEPT ![c] = tab[c]]
      /\ mirror' = [mirror EXCEPT ![c] = mirror[c]] /\ wire' = [wire EXCEPT ![c] = Failed]
  BY <1>0, <1>1
<1> QED  BY <1>3, <1>5, <1>6, OthersKept

(* The rebases there may be.                                               *)
LEMMA NextAttempt ==
    ASSUME NEW q \in Queues, ~(q.attempt >= MaxRebaseAttempts)
    PROVE  q.attempt + 1 \in 0 .. MaxRebaseAttempts
BY SaveQueueAssumption DEF Queues

(* What a message holds.                                                   *)
LEMMA TheMessage ==
    ASSUME NEW w \in Messages
    PROVE  /\ w.kind \in {"none", "failed", "locked", "request", "stale", "done"}
           /\ w.kind = "request" => w \in Requests
           /\ w.kind = "stale" => w.version \in Nat /\ w.fields \in Snapshot
           /\ w.kind = "done" => w.version \in Nat
           /\ w.kind = "none" => w = Silence
BY DEF Messages, Silence, Failed, Requests, Stale, Done

(* The page hears the answer.                                              *)
LEMMA AnsweredTypes ==
    ASSUME Types, NEW c \in Clients, Answered(c)
    PROVE  Types'
<1> DEFINE w     == wire[c]
           ours  == IF queue[c].inflight = Nothing THEN NoFields ELSE queue[c].inflight
           weighs == IF w.kind = "stale" THEN Verdict(ours, queue[c].base, w.fields) ELSE w.kind
           spent == queue[c].attempt >= MaxRebaseAttempts
           notice == [version |-> w.version, fields |-> w.fields]
<1>0. /\ queue[c].stage = "sent" /\ UNCHANGED <<setting, versions, room, loose, count, basis>>
      /\ \/ /\ weighs \in {"failed", "locked"}
            /\ queue' = [queue EXCEPT ![c] = Stopped(@)]
            /\ wire' = [wire EXCEPT ![c] = Silence]
            /\ UNCHANGED <<tab, mirror, own>>
         \/ weighs \in {"done", "landed"} /\ Saved(c, w.version) /\ UNCHANGED own
         \/ weighs = "conflict" /\ Conflicted(c, w) /\ UNCHANGED <<mirror, own>>
         \/ weighs = "rebase" /\ spent /\ Exhaust(c, w) /\ UNCHANGED mirror
         \/ weighs = "rebase" /\ ~spent /\ Rebase(c, w) /\ UNCHANGED <<tab, mirror, own>>
  BY DEF Answered
<1>1. /\ tab[c] \in Tabs /\ queue[c] \in Queues /\ w \in Messages /\ mirror[c] \in Mirrors
      /\ Fits(c, tab[c], queue[c], w, mirror[c], Version, room.open)
      /\ tab = [tab EXCEPT ![c] = tab[c]] /\ mirror = [mirror EXCEPT ![c] = mirror[c]]
      /\ own[c] \in Draft /\ Version \in Nat
      /\ queue \in [Clients -> Queues] /\ tab \in [Clients -> Tabs] /\ wire \in [Clients -> Messages]
      /\ mirror \in [Clients -> Mirrors]
  BY ThePage DEF Types, Pages
<1>2. own \in [Clients -> Draft] /\ basis' \in [Clients -> Snapshot]
  BY <1>0 DEF Types, Shared
<1>3. own' \in [Clients -> Draft] =>
         Shared' /\ Version' = Version /\ Version <= Version' /\ room'.open = room.open
  BY <1>0, <1>2, CountsStay
<1>4. tab[c].open
  BY <1>0, <1>1 DEF Fits
<1>5. /\ weighs \in {"done", "landed"} => w.kind \in {"stale", "done"} /\ w.version \in Nat
                                       /\ w.version <= Version
      /\ weighs \in {"conflict", "rebase"} => w.kind = "stale" /\ w.version \in Nat
                                       /\ w.fields \in Snapshot /\ w.version <= Version
  <2>1. w.kind \in {"stale", "done"} => w.version <= Version
    BY <1>1 DEF Fits
  <2>2. w.kind # "stale" => weighs = w.kind
    OBVIOUS
  <2> HIDE DEF w, weighs
  <2> QED  BY <1>1, <2>1, <2>2, TheMessage
<1>6. Silence \in Messages /\ Silence.kind = "none"
  BY DEF Messages, Silence
<1> HIDE DEF weighs, ours, spent
<1>7. ASSUME queue' = [queue EXCEPT ![c] = Stopped(@)], wire' = [wire EXCEPT ![c] = Silence],
             UNCHANGED <<tab, mirror, own>>
      PROVE  Types'
  <2>1. queue' = [queue EXCEPT ![c] = Stopped(queue[c])]
    BY <1>7
  <2>2. /\ Stopped(queue[c]) \in Queues /\ Stopped(queue[c]).stage = "idle"
        /\ Stopped(queue[c]).version = queue[c].version
    BY <1>1, OtherSteps, CurrentIs DEF Types, Shared
  <2>3. Shared' /\ Version' = Version /\ Version <= Version' /\ room'.open = room.open
    BY <1>2, <1>3, <1>7
  <2>4. Fits(c, tab[c], Stopped(queue[c]), Silence, mirror[c], Version, room.open)
    BY <1>1, <1>4, <1>6, <2>2 DEF Fits
  <2>5. OnePage(c, tab[c], Stopped(queue[c]), Silence, mirror[c], Version', room'.open)
    BY <1>1, <1>6, <2>2, <2>3, <2>4 DEF OnePage
  <2>6. tab' = [tab EXCEPT ![c] = tab[c]] /\ mirror' = [mirror EXCEPT ![c] = mirror[c]]
    BY <1>1, <1>7
  <2>7. (room.open => room'.open) /\ wire' = [wire EXCEPT ![c] = Silence]
    BY <1>7, <2>3
  <2> QED  BY <2>1, <2>3, <2>5, <2>6, <2>7, OthersKept
<1>8. ASSUME weighs \in {"done", "landed"}, Saved(c, w.version), UNCHANGED own
      PROVE  Types'
  <2> DEFINE q == Acked(queue[c], w.version)
             t == [tab[c] EXCEPT !.banner = Nothing, !.reverted = Nothing]
             m == IF HasPending(q) THEN mirror[c] ELSE Nothing
  <2>1. /\ Pump(c, q) /\ tab' = [tab EXCEPT ![c] = t] /\ mirror' = [mirror EXCEPT ![c] = m]
    BY <1>1, <1>8 DEF Saved
  <2>2. q \in Queues /\ q.version = w.version
    BY <1>1, <1>5, <1>8, AckedQueue
  <2>3. t \in Tabs /\ t.open /\ t.banner = Nothing /\ t.seat = tab[c].seat
        /\ t.suspended = tab[c].suspended
    BY <1>1, <1>4 DEF Tabs
  <2>4. m \in Mirrors /\ (m # Nothing => m.version <= Version)
    BY <1>1 DEF Mirrors, Fits
  <2> HIDE DEF q, t, m
  <2>5. Shared' /\ Version' = Version /\ Version <= Version' /\ room'.open = room.open
    BY <1>2, <1>3, <1>8
  <2>6. /\ q.version <= Version' /\ Version' \in Nat /\ t.suspended = (t.seat = "joining")
        /\ t.seat = "live" => room'.open
        /\ m # Nothing => m.version <= Version'
        /\ room.open => room'.open
    BY <1>1, <1>4, <1>5, <1>8, <2>2, <2>3, <2>4, <2>5 DEF Fits
  <2>7. PICK x, v : /\ OnePage(c, t, x, v, m, Version', room'.open)
                    /\ queue' = [queue EXCEPT ![c] = x] /\ wire' = [wire EXCEPT ![c] = v]
    BY <2>1, <2>2, <2>3, <2>4, <2>6, PumpedPage
  <2> QED  BY <2>1, <2>5, <2>6, <2>7, OthersKept
<1>9. ASSUME weighs = "conflict", Conflicted(c, w), UNCHANGED <<mirror, own>>
      PROVE  Types'
  <2> DEFINE q == Stopped(queue[c])
             t == [tab[c] EXCEPT !.banner = notice]
  <2>1. /\ queue' = [queue EXCEPT ![c] = q] /\ wire' = [wire EXCEPT ![c] = Silence]
        /\ tab' = [tab EXCEPT ![c] = t]
    BY <1>1, <1>9 DEF Conflicted
  <2>2. q \in Queues /\ q.stage = "idle" /\ q.version = queue[c].version
    BY <1>1, OtherSteps, CurrentIs DEF Types, Shared
  <2>3. notice \in Notices /\ notice.version <= Version
    BY <1>5, <1>9 DEF Notices
  <2> HIDE DEF notice, q, w
  <2>4. t \in Tabs /\ t.open /\ t.banner = notice /\ t.seat = tab[c].seat
        /\ t.suspended = tab[c].suspended
    BY <1>1, <1>4, <2>3 DEF Tabs
  <2> HIDE DEF t
  <2>5. Fits(c, t, q, Silence, mirror[c], Version, room.open)
    BY <1>1, <1>4, <1>6, <2>2, <2>3, <2>4 DEF Fits
  <2>6. Shared' /\ Version' = Version /\ Version <= Version' /\ room'.open = room.open
    BY <1>2, <1>3, <1>9
  <2>7. OnePage(c, t, q, Silence, mirror[c], Version', room'.open)
    BY <1>1, <1>6, <2>2, <2>4, <2>5, <2>6 DEF OnePage
  <2>8. mirror' = [mirror EXCEPT ![c] = mirror[c]] /\ (room.open => room'.open)
    BY <1>1, <1>9, <2>6
  <2> QED  BY <2>1, <2>6, <2>7, <2>8, OthersKept
<1>10. ASSUME weighs = "rebase", Exhaust(c, w), UNCHANGED mirror
       PROVE  Types'
  <2> DEFINE q == [Stopped(queue[c]) EXCEPT !.inflight = Nothing, !.pending = NoFields]
             back == Merge(tab[c].screen, Restrict(queue[c].base, DOMAIN queue[c].inflight))
             t == [tab[c] EXCEPT !.banner = notice, !.reverted = tab[c].screen, !.screen = back]
  <2>1. /\ queue' = [queue EXCEPT ![c] = q] /\ wire' = [wire EXCEPT ![c] = Silence]
        /\ tab' = [tab EXCEPT ![c] = t]
        /\ own' = [own EXCEPT ![c] = Without(@, DOMAIN queue[c].inflight)]
    BY <1>1, <1>10 DEF Exhaust
  <2>2. q \in Queues /\ q.stage = "idle" /\ q.version = queue[c].version
    BY <1>1, EmptyDraft DEF Stopped, Queues
  <2>3. notice \in Notices /\ notice.version <= Version
    BY <1>5, <1>10 DEF Notices
  <2>4. queue[c].inflight \in Draft
    <3>1. weighs = Verdict(ours, queue[c].base, w.fields)
      BY <1>5, <1>10 DEF weighs
    <3>2. DOMAIN ours # {}
      BY <1>10, <3>1 DEF Verdict
    <3> QED  BY <1>1, <3>2, EmptyDraft DEF ours, Queues
  <2>5. back \in Snapshot
    <3>1. /\ tab[c].screen \in Snapshot /\ queue[c].base \in Draft
          /\ DOMAIN queue[c].inflight \subseteq DOMAIN queue[c].base
      BY <1>1, <2>4, WholeDraft, IsDraft DEF Tabs, Queues
    <3>2. Restrict(queue[c].base, DOMAIN queue[c].inflight) \in Draft
      BY <3>1, CutDraft
    <3> QED  BY <3>1, <3>2, WholeDraft, MergedDraft
  <2> HIDE DEF notice, q, w, back
  <2>6. t \in Tabs /\ t.open /\ t.banner = notice /\ t.seat = tab[c].seat
        /\ t.suspended = tab[c].suspended
    BY <1>1, <1>4, <2>3, <2>5 DEF Tabs
  <2> HIDE DEF t
  <2>7. Fits(c, t, q, Silence, mirror[c], Version, room.open)
    BY <1>1, <1>4, <1>6, <2>2, <2>3, <2>6 DEF Fits
  <2>8. own' \in [Clients -> Draft]
    BY <1>1, <1>2, <2>1, LessDraft
  <2>9. Shared' /\ Version' = Version /\ Version <= Version' /\ room'.open = room.open
    BY <1>3, <2>8
  <2>10. OnePage(c, t, q, Silence, mirror[c], Version', room'.open)
    BY <1>1, <1>6, <2>2, <2>6, <2>7, <2>9 DEF OnePage
  <2>11. mirror' = [mirror EXCEPT ![c] = mirror[c]] /\ (room.open => room'.open)
    BY <1>1, <1>10, <2>9
  <2> QED  BY <2>1, <2>9, <2>10, <2>11, OthersKept
<1>11. ASSUME weighs = "rebase", ~spent, Rebase(c, w), UNCHANGED <<tab, mirror, own>>
       PROVE  Types'
  <2> DEFINE q == [RebasedOnto(queue[c], w.version, w.fields)
                     EXCEPT !.stage = "backoff", !.attempt = @ + 1]
  <2>1. queue' = [queue EXCEPT ![c] = q] /\ wire' = [wire EXCEPT ![c] = Silence]
    BY <1>1, <1>11 DEF Rebase
  <2>2. q \in Queues /\ q.stage = "backoff" /\ q.version = w.version
    <3>1. queue[c].attempt + 1 \in 0 .. MaxRebaseAttempts
      BY <1>1, <1>11, NextAttempt DEF spent
    <3> HIDE DEF w
    <3>2. /\ RebasedOnto(queue[c], w.version, w.fields) \in Queues
          /\ RebasedOnto(queue[c], w.version, w.fields).attempt = queue[c].attempt
          /\ RebasedOnto(queue[c], w.version, w.fields).version = w.version
      <4>1. queue[c] \in Queues /\ w.version \in Nat /\ w.fields \in Snapshot
        BY <1>1, <1>5, <1>11
      <4> QED  BY ONLY <4>1, OtherSteps
    <3> QED  BY <3>1, <3>2 DEF Queues
  <2> HIDE DEF q
  <2>3. Fits(c, tab[c], q, Silence, mirror[c], Version, room.open)
    BY <1>1, <1>4, <1>5, <1>6, <1>11, <2>2 DEF Fits
  <2>4. Shared' /\ Version' = Version /\ Version <= Version' /\ room'.open = room.open
    BY <1>2, <1>3, <1>11
  <2>5. OnePage(c, tab[c], q, Silence, mirror[c], Version', room'.open)
    BY <1>1, <1>6, <2>2, <2>3, <2>4 DEF OnePage
  <2>6. /\ mirror' = [mirror EXCEPT ![c] = mirror[c]] /\ (room.open => room'.open)
        /\ tab' = [tab EXCEPT ![c] = tab[c]]
    BY <1>1, <1>11, <2>4
  <2> QED  BY <2>1, <2>4, <2>5, <2>6, OthersKept
<1> QED  BY <1>0, <1>7, <1>8, <1>9, <1>10, <1>11

(* The wait before a retry ends.                                           *)
LEMMA BackoffEndsTypes ==
    ASSUME Types, NEW c \in Clients, BackoffEnds(c)
    PROVE  Types'
<1> DEFINE q   == queue[c]
           all == Unsent(q)
           r   == [q EXCEPT !.stage = "sent", !.inflight = all, !.pending = NoFields]
           s   == [q EXCEPT !.stage = "idle"]
<1>0. /\ q.stage = "backoff" /\ UNCHANGED <<setting, versions, room, tab, loose, mirror, count, own, basis>>
      /\ \/ queue' = [queue EXCEPT ![c] = s] /\ wire' = wire
         \/ queue' = [queue EXCEPT ![c] = r] /\ wire' = [wire EXCEPT ![c] = Sent(c, r)]
  BY DEF BackoffEnds
<1>1. /\ tab[c] \in Tabs /\ q \in Queues /\ wire[c] \in Messages /\ mirror[c] \in Mirrors
      /\ Fits(c, tab[c], q, wire[c], mirror[c], Version, room.open)
      /\ tab = [tab EXCEPT ![c] = tab[c]] /\ mirror = [mirror EXCEPT ![c] = mirror[c]]
      /\ wire = [wire EXCEPT ![c] = wire[c]]
  BY ThePage
<1>2. Shared' /\ Version' = Version /\ Version <= Version' /\ room'.open = room.open
      /\ (room.open => room'.open)
  BY <1>0, CountsStay DEF Types, Shared
<1>3. all \in Draft
  BY <1>1, TheUnsent
<1>4. tab[c].open
  BY <1>0, <1>1 DEF Fits
<1> HIDE DEF all, q
<1>5. r \in Queues /\ r.version = q.version /\ r.stage = "sent" /\ r.inflight = all
  BY <1>1, <1>3, EmptyDraft DEF Queues
<1>6. s \in Queues /\ s.version = q.version /\ s.stage = "idle"
  BY <1>1 DEF Queues
<1> HIDE DEF r, s
<1>7. /\ tab' = [tab EXCEPT ![c] = tab[c]] /\ mirror' = [mirror EXCEPT ![c] = mirror[c]]
  BY <1>0, <1>1
<1>8. ASSUME queue' = [queue EXCEPT ![c] = s], wire' = wire
      PROVE  Types'
  <2>1. Fits(c, tab[c], s, wire[c], mirror[c], Version, room.open)
    BY <1>0, <1>1, <1>4, <1>6 DEF Fits
  <2>2. OnePage(c, tab[c], s, wire[c], mirror[c], Version', room'.open)
    BY <1>1, <1>2, <1>6, <2>1 DEF OnePage
  <2>3. wire' = [wire EXCEPT ![c] = wire[c]]
    BY <1>1, <1>8
  <2> QED  BY <1>2, <1>7, <1>8, <2>2, <2>3, OthersKept
<1>9. ASSUME queue' = [queue EXCEPT ![c] = r], wire' = [wire EXCEPT ![c] = Sent(c, r)]
      PROVE  Types'
  <2> DEFINE w == Sent(c, r)
  <2>1. /\ w \in Messages /\ (r.stage = "sent") = (w # Silence) /\ w.kind \in {"none", "request"}
        /\ w.kind = "request" => w.by = c
    BY <1>3, <1>5, SentMessage
  <2>2. wire' = [wire EXCEPT ![c] = w]
    BY <1>9
  <2> HIDE DEF w
  <2>3. Fits(c, tab[c], r, w, mirror[c], Version, room.open)
    BY <1>1, <1>4, <1>5, <2>1 DEF Fits
  <2>4. OnePage(c, tab[c], r, w, mirror[c], Version', room'.open)
    BY <1>1, <1>2, <1>5, <2>1, <2>3 DEF OnePage
  <2> QED  BY <1>2, <1>7, <1>9, <2>2, <2>4, OthersKept
<1> QED  BY <1>0, <1>8, <1>9

(* "Keep mine".                                                            *)
LEMMA KeepMineTypes ==
    ASSUME Types, NEW c \in Clients, KeepMine(c)
    PROVE  Types'
<1> DEFINE s     == tab[c]
           mine  == IF s.reverted = Nothing THEN s.screen ELSE s.reverted
           body  == IF RoomOwns(s) THEN {} ELSE RoomOwned
           props == {f \in Fields \ RoomOwned : mine[f] # s.banner.fields[f]}
           draft == Restrict(mine, body \cup props)
           q     == RebasedOnto(queue[c], s.banner.version, s.banner.fields)
           next  == IF draft = NoFields THEN q ELSE Changed(q, draft)
           sends == [next EXCEPT !.timer = FALSE]
           t     == [s EXCEPT !.screen = mine, !.banner = Nothing, !.reverted = Nothing]
           m     == IF draft = NoFields THEN mirror[c] ELSE Mirrored(next)
           given == Restrict(draft, {f \in DOMAIN draft : draft[f][1] = c})
<1>1. /\ tab[c] \in Tabs /\ queue[c] \in Queues /\ wire[c] \in Messages /\ mirror[c] \in Mirrors
      /\ Fits(c, tab[c], queue[c], wire[c], mirror[c], Version, room.open)
      /\ tab \in [Clients -> Tabs] /\ mirror \in [Clients -> Mirrors]
      /\ wire = [wire EXCEPT ![c] = wire[c]] /\ own[c] \in Draft
      /\ own \in [Clients -> Draft] /\ basis \in [Clients -> Snapshot]
      /\ Version \in Nat
  BY ThePage DEF Types, Pages, Shared
<1>2. /\ s.open /\ s.banner # Nothing
      /\ next.stage = "idle" => Pump(c, sends)
      /\ next.stage # "idle" => queue' = [queue EXCEPT ![c] = sends] /\ wire' = wire
      /\ mirror' = [mirror EXCEPT ![c] = m]
      /\ tab' = [tab EXCEPT ![c] = t]
      /\ basis' = [basis EXCEPT ![c] = s.banner.fields]
      /\ own' = [own EXCEPT ![c] = Merge(@, given)]
      /\ UNCHANGED <<setting, versions, room, loose, count>>
  BY <1>1 DEF KeepMine, MayAct
<1>3. /\ mine \in Snapshot /\ s.banner \in Notices /\ s.banner.version \in Nat
      /\ s.banner.fields \in Snapshot /\ s.banner.version <= Version
  BY <1>1, <1>2 DEF Tabs, Notices, Fits
<1>4. draft \in Draft
  <2>1. body \cup props \subseteq DOMAIN mine /\ mine \in Draft
    BY <1>3, WholeDraft DEF RoomOwned, Fields
  <2> HIDE DEF mine, body, props
  <2> QED  BY <2>1, CutDraft
<1>5. q \in Queues /\ q.version = s.banner.version /\ q.stage = queue[c].stage
  <2> HIDE DEF s
  <2>1. queue[c] \in Queues /\ s.banner.version \in Nat /\ s.banner.fields \in Snapshot
    BY <1>1, <1>3
  <2> QED  BY ONLY <2>1, RebasedQueue DEF q
<1> HIDE DEF draft, q
<1>6. next \in Queues /\ next.version = q.version /\ next.stage = q.stage
  <2>1. CASE draft = NoFields
    BY <1>5, <2>1
  <2>2. CASE draft # NoFields
    BY <1>4, <1>5, <2>2, ChangedQueue
  <2> QED  BY <2>1, <2>2
<1>7. m \in Mirrors /\ (m # Nothing => m.version <= Version)
  <2>1. CASE draft = NoFields
    BY <1>1, <2>1 DEF Fits
  <2>2. CASE draft # NoFields
    <3> HIDE DEF next
    <3>1. m = Mirrored(next) /\ Unsent(next) \in Draft /\ next.version \in Nat
      BY <1>6, <2>2, TheUnsent DEF Queues
    <3> QED  BY <1>3, <1>5, <1>6, <3>1 DEF Mirrored, Mirrors
  <2> QED  BY <2>1, <2>2
<1> HIDE DEF next, m
<1>8. sends \in Queues /\ sends.version = next.version /\ sends.stage = next.stage
  BY <1>6 DEF Queues
<1>9. t \in Tabs /\ t.open /\ t.banner = Nothing /\ t.seat = s.seat /\ t.suspended = s.suspended
  BY <1>1, <1>2, <1>3 DEF Tabs
<1>10. own' \in [Clients -> Draft]
  <2>1. {f \in DOMAIN draft : draft[f][1] = c} \subseteq DOMAIN draft
    OBVIOUS
  <2>2. given \in Draft
    BY <1>4, <2>1, CutDraft
  <2> HIDE DEF given
  <2>3. Merge(own[c], given) \in Draft
    BY <1>1, <2>2, MergedDraft
  <2> QED  BY <1>1, <1>2, <2>3
<1>11. basis' \in [Clients -> Snapshot]
  BY <1>1, <1>2, <1>3
<1>12. Shared' /\ Version' = Version /\ Version <= Version' /\ room'.open = room.open
       /\ (room.open => room'.open)
  BY <1>2, <1>10, <1>11, CountsStay
<1> HIDE DEF sends, t, s
<1>13. /\ sends.version <= Version' /\ Version' \in Nat /\ t.suspended = (t.seat = "joining")
       /\ t.seat = "live" => room'.open
       /\ t.banner # Nothing => t.banner.version <= Version'
       /\ m # Nothing => m.version <= Version'
       /\ t.suspended = (t.open /\ t.seat = "joining")
  BY <1>1, <1>2, <1>3, <1>5, <1>6, <1>7, <1>8, <1>9, <1>12 DEF Fits, s
<1>14. CASE next.stage = "idle"
  <2>1. PICK x, v : /\ OnePage(c, t, x, v, m, Version', room'.open)
                    /\ queue' = [queue EXCEPT ![c] = x] /\ wire' = [wire EXCEPT ![c] = v]
    BY <1>2, <1>7, <1>8, <1>9, <1>13, <1>14, PumpedPage
  <2> QED  BY <1>2, <1>12, <2>1, OthersKept
<1>15. CASE next.stage # "idle"
  <2>1. queue' = [queue EXCEPT ![c] = sends] /\ wire' = [wire EXCEPT ![c] = wire[c]]
    BY <1>1, <1>2, <1>15
  <2>2. Fits(c, t, sends, wire[c], m, Version', room'.open)
    BY <1>1, <1>5, <1>6, <1>8, <1>9, <1>12, <1>13 DEF Fits
  <2>3. OnePage(c, t, sends, wire[c], m, Version', room'.open)
    BY <1>1, <1>7, <1>8, <1>9, <2>2 DEF OnePage
  <2>4. mirror' = [mirror EXCEPT ![c] = m] /\ tab' = [tab EXCEPT ![c] = t]
    BY <1>2
  <2> QED  BY <1>12, <2>1, <2>3, <2>4, OthersKept
<1> QED  BY <1>14, <1>15

(* "Take theirs".                                                          *)
LEMMA TakeTheirsTypes ==
    ASSUME Types, NEW c \in Clients, TakeTheirs(c)
    PROVE  Types'
<1> DEFINE s == tab[c]
           p == [queue[c] EXCEPT !.pending = NoFields, !.inflight = Nothing, !.timer = FALSE]
           q == RebasedOnto(p, s.banner.version, s.banner.fields)
           t == [s EXCEPT !.screen = s.banner.fields, !.banner = Nothing, !.reverted = Nothing]
<1>1. /\ tab[c] \in Tabs /\ queue[c] \in Queues /\ wire[c] \in Messages
      /\ Fits(c, tab[c], queue[c], wire[c], mirror[c], Version, room.open)
      /\ tab \in [Clients -> Tabs] /\ wire = [wire EXCEPT ![c] = wire[c]]
      /\ own \in [Clients -> Draft] /\ basis \in [Clients -> Snapshot]
  BY ThePage DEF Types, Pages, Shared
<1>2. /\ s.open /\ s.banner # Nothing /\ queue' = [queue EXCEPT ![c] = q]
      /\ mirror' = [mirror EXCEPT ![c] = Nothing] /\ tab' = [tab EXCEPT ![c] = t]
      /\ basis' = [basis EXCEPT ![c] = s.banner.fields]
      /\ own' = [own EXCEPT ![c] = NoFields] /\ wire' = wire
      /\ UNCHANGED <<setting, versions, room, loose, count>>
  BY <1>1 DEF TakeTheirs, MayAct
<1>3. /\ s.banner.version \in Nat /\ s.banner.fields \in Snapshot /\ s.banner.version <= Version
  BY <1>1, <1>2 DEF Tabs, Notices, Fits
<1>4. p \in Queues /\ p.stage = queue[c].stage
  BY <1>1, EmptyDraft DEF Queues
<1>5. t \in Tabs /\ t.open /\ t.banner = Nothing /\ t.seat = s.seat /\ t.suspended = s.suspended
  BY <1>1, <1>2, <1>3 DEF Tabs
<1>6. own' \in [Clients -> Draft] /\ basis' \in [Clients -> Snapshot]
  BY <1>1, <1>2, <1>3, EmptyDraft
<1>7. Shared' /\ Version' = Version /\ Version <= Version' /\ room'.open = room.open
       /\ (room.open => room'.open)
  BY <1>2, <1>6, CountsStay
<1> HIDE DEF p, t
<1>8. q \in Queues /\ q.version = s.banner.version /\ q.stage = queue[c].stage
  <2> HIDE DEF s
  <2>1. p \in Queues /\ s.banner.version \in Nat /\ s.banner.fields \in Snapshot
        /\ p.stage = queue[c].stage
    BY <1>3, <1>4
  <2> QED  BY ONLY <2>1, RebasedQueue DEF q
<1> HIDE DEF q
<1>9. Fits(c, t, q, wire[c], Nothing, Version, room.open)
  BY <1>1, <1>2, <1>3, <1>5, <1>8 DEF Fits
<1>10. OnePage(c, t, q, wire[c], Nothing, Version', room'.open)
  BY <1>1, <1>5, <1>7, <1>8, <1>9 DEF OnePage, Mirrors
<1>11. /\ queue' = [queue EXCEPT ![c] = q] /\ mirror' = [mirror EXCEPT ![c] = Nothing]
       /\ tab' = [tab EXCEPT ![c] = t] /\ wire' = [wire EXCEPT ![c] = wire[c]]
  BY <1>1, <1>2
<1> QED  BY <1>7, <1>10, <1>11, OthersKept

(* The draft that was offered is dropped.                                  *)
LEMMA DiscardDraftTypes ==
    ASSUME Types, NEW c \in Clients, DiscardDraft(c)
    PROVE  Types'
<1> DEFINE t == [tab[c] EXCEPT !.recovery = Nothing]
<1>1. /\ tab[c] \in Tabs /\ queue[c] \in Queues /\ wire[c] \in Messages
      /\ Fits(c, tab[c], queue[c], wire[c], mirror[c], Version, room.open)
      /\ tab \in [Clients -> Tabs] /\ wire = [wire EXCEPT ![c] = wire[c]]
      /\ queue = [queue EXCEPT ![c] = queue[c]]
      /\ own \in [Clients -> Draft] /\ basis \in [Clients -> Snapshot]
  BY ThePage DEF Types, Pages, Shared
<1>2. /\ tab[c].open /\ mirror' = [mirror EXCEPT ![c] = Nothing]
      /\ own' = [own EXCEPT ![c] = Without(@, DOMAIN tab[c].recovery)]
      /\ tab' = [tab EXCEPT ![c] = t]
      /\ UNCHANGED <<setting, versions, room, queue, wire, loose, count, basis>>
  BY <1>1 DEF DiscardDraft, MayAct
<1>3. Without(own[c], DOMAIN tab[c].recovery) \in Draft
  BY <1>1, LessDraft
<1>4. own' \in [Clients -> Draft] /\ basis' \in [Clients -> Snapshot]
  BY <1>1, <1>2, <1>3
<1>5. Shared' /\ Version' = Version /\ Version <= Version' /\ room'.open = room.open
      /\ (room.open => room'.open)
  BY <1>2, <1>4, CountsStay
<1>6. t \in Tabs /\ t.open /\ t.banner = tab[c].banner /\ t.seat = tab[c].seat
      /\ t.suspended = tab[c].suspended
  BY <1>1, <1>2 DEF Tabs
<1> HIDE DEF t
<1>7. Fits(c, t, queue[c], wire[c], Nothing, Version, room.open)
  BY <1>1, <1>2, <1>6 DEF Fits
<1>8. OnePage(c, t, queue[c], wire[c], Nothing, Version', room'.open)
  BY <1>1, <1>5, <1>6, <1>7 DEF OnePage, Mirrors
<1>9. /\ queue' = [queue EXCEPT ![c] = queue[c]] /\ wire' = [wire EXCEPT ![c] = wire[c]]
      /\ tab' = [tab EXCEPT ![c] = t] /\ mirror' = [mirror EXCEPT ![c] = Nothing]
  BY <1>1, <1>2
<1> QED  BY <1>5, <1>8, <1>9, OthersKept

(* The draft that was offered is put back.                                 *)
LEMMA RestoreDraftTypes ==
    ASSUME Types, NEW c \in Clients, RestoreDraft(c)
    PROVE  Types'
<1> DEFINE s      == tab[c]
           toRoom == RoomOwns(s) /\ s.seat = "live" /\ "body" \in DOMAIN s.recovery
           rest   == IF RoomOwns(s) THEN Without(s.recovery, RoomOwned) ELSE s.recovery
           q      == IF rest = NoFields THEN queue[c] ELSE Changed(queue[c], rest)
           m      == IF rest = NoFields THEN mirror[c] ELSE Mirrored(q)
           back   == Merge(s.screen, s.recovery)
           t      == [s EXCEPT !.screen = back, !.recovery = Nothing]
<1>1. /\ tab[c] \in Tabs /\ queue[c] \in Queues /\ wire[c] \in Messages /\ mirror[c] \in Mirrors
      /\ Fits(c, tab[c], queue[c], wire[c], mirror[c], Version, room.open)
      /\ tab \in [Clients -> Tabs] /\ mirror \in [Clients -> Mirrors]
      /\ wire = [wire EXCEPT ![c] = wire[c]] /\ Version \in Nat
      /\ room \in Rooms /\ (room.peer \/ room.dirty => room.open)
      /\ setting \in Settings /\ versions \in Seq(Snapshot) /\ Version > 0
      /\ loose \subseteq Requests /\ count \in Counts /\ own \in [Clients -> Draft]
  BY ThePage DEF Types, Pages, Shared
<1>2. /\ s.open /\ s.recovery # Nothing
      /\ tab' = [tab EXCEPT ![c] = t] /\ queue' = [queue EXCEPT ![c] = q]
      /\ mirror' = [mirror EXCEPT ![c] = m] /\ wire' = wire
      /\ room' = IF toRoom THEN [room EXCEPT !.text = s.recovery["body"], !.dirty = TRUE] ELSE room
      /\ basis' = Beginning(c, queue[c], rest)
      /\ UNCHANGED <<setting, versions, loose, count, own>>
  BY <1>1 DEF RestoreDraft, MayAct
<1>3. s.recovery \in Draft /\ s.screen \in Snapshot
  BY <1>1, <1>2 DEF Tabs
<1>4. rest \in Draft
  BY <1>3, LessDraft
<1>5. back \in Snapshot
  BY <1>3, WholeDraft, MergedDraft
<1> HIDE DEF rest, back
<1>6. q \in Queues /\ q.version = queue[c].version /\ q.stage = queue[c].stage
  <2>1. CASE rest = NoFields
    BY <1>1, <2>1
  <2>2. CASE rest # NoFields
    BY <1>1, <1>4, <2>2, ChangedQueue
  <2> QED  BY <2>1, <2>2
<1>7. m \in Mirrors /\ (m # Nothing => m.version <= Version)
  <2>1. CASE rest = NoFields
    BY <1>1, <2>1 DEF Fits
  <2>2. CASE rest # NoFields
    <3> HIDE DEF q
    <3>1. m = Mirrored(q) /\ Unsent(q) \in Draft /\ q.version \in Nat /\ q.version <= Version
      BY <1>1, <1>6, <2>2, TheUnsent DEF Queues, Fits
    <3> QED  BY <3>1 DEF Mirrored, Mirrors
  <2> QED  BY <2>1, <2>2
<1> HIDE DEF q, m
<1>8. t \in Tabs /\ t.open /\ t.banner = s.banner /\ t.seat = s.seat /\ t.suspended = s.suspended
  BY <1>1, <1>2, <1>5 DEF Tabs
<1> HIDE DEF t
<1>9. room' \in Rooms /\ room'.open = room.open /\ (room'.peer \/ room'.dirty => room'.open)
      /\ room'.open \in BOOLEAN
  <2>1. CASE toRoom
    <3>1. s.recovery["body"] \in Values /\ room.open
      BY <1>1, <1>2, <1>3, <2>1, IsDraft DEF Fits
    <3>2. room' = [room EXCEPT !.text = s.recovery["body"], !.dirty = TRUE]
      BY <1>2, <2>1
    <3> HIDE DEF s
    <3> QED  BY <1>1, <3>1, <3>2 DEF Rooms
  <2>2. CASE ~toRoom
    BY <1>1, <1>2, <2>2 DEF Rooms
  <2> QED  BY <2>1, <2>2
<1>10. Version' = Version /\ Version <= Version'
  BY <1>1, <1>2 DEF Version
<1>11. basis' \in [Clients -> Snapshot]
  BY <1>1, <1>2, BeginningTypes
<1>12. Shared'
  BY <1>1, <1>2, <1>9, <1>10, <1>11 DEF Shared
<1>13. Fits(c, t, q, wire[c], m, Version, room.open)
  BY <1>1, <1>2, <1>6, <1>7, <1>8 DEF Fits
<1>14. OnePage(c, t, q, wire[c], m, Version', room'.open)
  BY <1>1, <1>6, <1>7, <1>8, <1>9, <1>10, <1>13 DEF OnePage
<1>15. /\ queue' = [queue EXCEPT ![c] = q] /\ mirror' = [mirror EXCEPT ![c] = m]
       /\ tab' = [tab EXCEPT ![c] = t] /\ wire' = [wire EXCEPT ![c] = wire[c]]
       /\ room.open => room'.open
  BY <1>1, <1>2, <1>9
<1> QED  BY <1>10, <1>12, <1>14, <1>15, OthersKept

(* The pages after a step that also shows a text on every page in the room.*)
LEMMA ScreensKept ==
    ASSUME Types, Shared', Version <= Version', room.open => room'.open,
           NEW c \in Clients, NEW t, NEW q, NEW m, NEW text \in Values,
           OnePage(c, t, q, wire[c], m, Version', room'.open),
           tab' = [d \in Clients |->
                     IF d = c THEN t
                     ELSE IF Seated(d) THEN [tab[d] EXCEPT !.screen["body"] = text] ELSE tab[d]],
           queue' = [queue EXCEPT ![c] = q], wire' = wire, mirror' = [mirror EXCEPT ![c] = m]
    PROVE  Types'
<1>1. ASSUME NEW d \in Clients
      PROVE  OnePage(d, tab'[d], queue'[d], wire'[d], mirror'[d], Version', room'.open)
  <2>1. CASE d = c
    BY <2>1 DEF Types, Pages
  <2>2. CASE d # c
    <3> DEFINE u == tab'[d]
    <3>1. queue'[d] = queue[d] /\ wire'[d] = wire[d] /\ mirror'[d] = mirror[d]
      BY <2>2 DEF Types, Pages
    <3>2. /\ tab[d] \in Tabs /\ queue[d] \in Queues /\ wire[d] \in Messages /\ mirror[d] \in Mirrors
          /\ OnePage(d, tab[d], queue[d], wire[d], mirror[d], Version, room.open)
      BY ThePage
    <3>3. /\ Version \in Nat /\ Version' \in Nat /\ room.open \in BOOLEAN
          /\ room'.open \in BOOLEAN
      BY DEF Types, Shared, Rooms
    <3>4. OnePage(d, tab[d], queue[d], wire[d], mirror[d], Version', room'.open)
      BY <3>2, <3>3, FitsLater
    <3>5. CASE Seated(d)
      <4>1. u = [tab[d] EXCEPT !.screen = [@ EXCEPT !["body"] = text]]
        BY <2>2, <3>2, <3>5
      <4>2. [tab[d].screen EXCEPT !["body"] = text] \in Snapshot
        BY <3>2 DEF Tabs, Snapshot
      <4>3. /\ u \in Tabs /\ u.open = tab[d].open /\ u.banner = tab[d].banner
            /\ u.seat = tab[d].seat /\ u.suspended = tab[d].suspended /\ tab[d].open
        BY <3>2, <3>5, <4>1, <4>2 DEF Tabs, Seated
      <4> HIDE DEF u
      <4>4. Fits(d, u, queue[d], wire[d], mirror[d], Version', room'.open)
        BY <3>4, <4>3 DEF OnePage, Fits
      <4> QED  BY <3>1, <3>2, <4>3, <4>4 DEF OnePage, u
    <3>6. CASE ~Seated(d)
      BY <2>2, <3>1, <3>4, <3>6
    <3> QED  BY <3>5, <3>6
  <2> QED  BY <2>1, <2>2
<1>2. /\ tab' = [d \in Clients |-> tab'[d]] /\ queue' = [d \in Clients |-> queue'[d]]
      /\ wire' = [d \in Clients |-> wire'[d]] /\ mirror' = [d \in Clients |-> mirror'[d]]
  BY DEF Types, Pages
<1>3. /\ tab' \in [Clients -> Tabs] /\ queue' \in [Clients -> Queues]
      /\ wire' \in [Clients -> Messages] /\ mirror' \in [Clients -> Mirrors]
  BY <1>1, <1>2 DEF OnePage
<1> QED  BY <1>1, <1>3 DEF Types, Pages, OnePage

(* The room as it is opened.                                               *)
LEMMA OpenedRoom ==
    ASSUME Types
    PROVE  Opened \in Rooms /\ Opened.open = TRUE
<1>1. room \in Rooms /\ versions \in Seq(Snapshot) /\ Version > 0
  BY DEF Types, Shared
<1>2. Current["body"] \in Values
  BY <1>1, CurrentIs, WholeDraft DEF Fields
<1> QED  BY <1>1, <1>2 DEF Opened, Rooms

(* The page joins the room.                                                *)
LEMMA SyncedTypes ==
    ASSUME Types, NEW c \in Clients, Synced(c)
    PROVE  Types'
<1> DEFINE q0    == queue[c]
           mine  == Unsent(q0)
           takes == "body" \in DOMAIN mine
           kept  == Without(q0.pending, RoomOwned)
           sent  == IF q0.inflight = Nothing THEN q0.inflight ELSE Without(q0.inflight, RoomOwned)
           strip == [q0 EXCEPT !.pending = kept, !.inflight = sent]
           text  == IF takes THEN mine["body"] ELSE Opened.text
           p     == IF takes THEN strip ELSE q0
           q     == Resumed(p)
           m     == IF ~takes THEN mirror[c]
                    ELSE IF HasPending(strip) THEN Mirrored(strip) ELSE Nothing
           t     == [tab[c] EXCEPT !.seat = "live", !.synced = TRUE, !.suspended = FALSE,
                                   !.screen["body"] = text]
<1>1. /\ tab[c] \in Tabs /\ q0 \in Queues /\ wire[c] \in Messages /\ mirror[c] \in Mirrors
      /\ Fits(c, tab[c], q0, wire[c], mirror[c], Version, room.open)
      /\ mirror \in [Clients -> Mirrors] /\ Version \in Nat
      /\ room \in Rooms
      /\ setting \in Settings /\ versions \in Seq(Snapshot) /\ Version > 0
      /\ loose \subseteq Requests /\ count \in Counts /\ own \in [Clients -> Draft]
      /\ basis \in [Clients -> Snapshot]
  BY ThePage DEF Types, Pages, Shared
<1>2. strip = [q0 EXCEPT !.pending = Without(@, RoomOwned),
                         !.inflight = IF @ = Nothing THEN @ ELSE Without(@, RoomOwned)]
  BY <1>1 DEF Queues
<1>3. /\ tab[c].open
      /\ room' = [Opened EXCEPT !.text = text, !.dirty = @ \/ takes]
      /\ queue' = [queue EXCEPT ![c] = q]
      /\ mirror' = [mirror EXCEPT ![c] = m]
      /\ tab' = [d \in Clients |->
                   IF d = c THEN t
                   ELSE IF Seated(d) THEN [tab[d] EXCEPT !.screen["body"] = text] ELSE tab[d]]
      /\ UNCHANGED <<setting, versions, wire, loose, count, own, basis>>
  BY <1>1, <1>2 DEF Synced
<1>4. mine \in Draft /\ q0.pending \in Draft /\ (q0.inflight # Nothing => q0.inflight \in Draft)
  BY <1>1, TheUnsent
<1>5. Opened \in Rooms /\ Opened.open = TRUE
  BY OpenedRoom
<1>6. text \in Values
  <2> HIDE DEF mine
  <2> QED  BY <1>4, <1>5, IsDraft DEF Rooms
<1>7. kept \in Draft /\ sent \in Draft \cup {Nothing}
  BY <1>4, LessDraft
<1> HIDE DEF kept, sent, q0, mine, takes
<1>8. strip \in Queues /\ strip.version = q0.version /\ strip.stage = q0.stage
  BY <1>1, <1>7 DEF Queues
<1> HIDE DEF strip
<1>9. p \in Queues /\ p.version = q0.version /\ p.stage = q0.stage
  BY <1>1, <1>8
<1> HIDE DEF p
<1>10. q \in Queues /\ q.version = q0.version /\ q.stage = q0.stage
  <2>1. Version \in Nat /\ Current \in Snapshot
    BY <1>1, CurrentIs
  <2> QED  BY <1>9, <2>1, OtherSteps
<1>11. m \in Mirrors /\ (m # Nothing => m.version <= Version)
  <2>1. CASE ~takes
    BY <1>1, <2>1 DEF Fits
  <2>2. CASE takes /\ HasPending(strip)
    <3>1. m = Mirrored(strip) /\ Unsent(strip) \in Draft /\ strip.version \in Nat
          /\ strip.version <= Version
      BY <1>1, <1>8, <2>2, TheUnsent DEF Queues, Fits
    <3> QED  BY <3>1 DEF Mirrored, Mirrors
  <2>3. CASE takes /\ ~HasPending(strip)
    BY <2>3 DEF Mirrors
  <2> QED  BY <2>1, <2>2, <2>3
<1> HIDE DEF q, m, text
<1>12. /\ t \in Tabs /\ t.open /\ t.banner = tab[c].banner /\ t.seat = "live"
       /\ t.suspended = FALSE
  <2>1. t = [tab[c] EXCEPT !.seat = "live", !.synced = TRUE, !.suspended = FALSE,
                           !.screen = [tab[c].screen EXCEPT !["body"] = text]]
    BY <1>1
  <2>2. [tab[c].screen EXCEPT !["body"] = text] \in Snapshot
    BY <1>1, <1>6 DEF Tabs, Snapshot
  <2> HIDE DEF t
  <2> QED  BY <1>1, <1>3, <2>1, <2>2 DEF Tabs
<1> HIDE DEF t
<1>13. room' \in Rooms /\ room'.open = TRUE
  <2>1. (Opened.dirty \/ takes) \in BOOLEAN
    BY <1>5 DEF Rooms, takes
  <2> QED  BY <1>3, <1>5, <1>6, <2>1 DEF Rooms
<1>14. Version' = Version /\ Version <= Version'
  BY <1>1, <1>3 DEF Version
<1>15. Shared'
  BY <1>1, <1>3, <1>13, <1>14 DEF Shared
<1>16. Fits(c, t, q, wire[c], m, Version', room'.open)
  BY <1>1, <1>10, <1>11, <1>12, <1>13, <1>14 DEF Fits
<1>17. OnePage(c, t, q, wire[c], m, Version', room'.open)
  BY <1>1, <1>10, <1>11, <1>12, <1>16 DEF OnePage
<1>18. /\ queue' = [queue EXCEPT ![c] = q] /\ mirror' = [mirror EXCEPT ![c] = m] /\ wire' = wire
       /\ tab' = [d \in Clients |->
                    IF d = c THEN t
                    ELSE IF Seated(d) THEN [tab[d] EXCEPT !.screen["body"] = text] ELSE tab[d]]
       /\ room.open => room'.open
  BY <1>3, <1>13
<1> QED  BY <1>6, <1>14, <1>15, <1>17, <1>18, ScreensKept

(* The socket drops.                                                       *)
LEMMA DroppedTypes ==
    ASSUME Types, NEW c \in Clients, Dropped(c)
    PROVE  Types'
<1> DEFINE t == [tab[c] EXCEPT !.seat = "joining", !.suspended = TRUE]
<1>1. /\ tab[c] \in Tabs /\ queue[c] \in Queues /\ wire[c] \in Messages /\ mirror[c] \in Mirrors
      /\ Fits(c, tab[c], queue[c], wire[c], mirror[c], Version, room.open)
      /\ tab \in [Clients -> Tabs] /\ wire = [wire EXCEPT ![c] = wire[c]]
      /\ queue = [queue EXCEPT ![c] = queue[c]] /\ mirror = [mirror EXCEPT ![c] = mirror[c]]
      /\ own \in [Clients -> Draft] /\ basis \in [Clients -> Snapshot]
  BY ThePage DEF Types, Pages, Shared
<1>2. /\ tab[c].open /\ tab' = [tab EXCEPT ![c] = t]
      /\ UNCHANGED <<setting, versions, room, queue, wire, loose, mirror, count, own, basis>>
  BY <1>1 DEF Dropped, Seated
<1>3. Shared' /\ Version' = Version /\ Version <= Version' /\ room'.open = room.open
      /\ (room.open => room'.open)
  BY <1>1, <1>2, CountsStay
<1>4. t \in Tabs /\ t.open /\ t.banner = tab[c].banner /\ t.seat = "joining" /\ t.suspended = TRUE
  BY <1>1, <1>2 DEF Tabs
<1> HIDE DEF t
<1>5. Fits(c, t, queue[c], wire[c], mirror[c], Version, room.open)
  BY <1>1, <1>4 DEF Fits
<1>6. OnePage(c, t, queue[c], wire[c], mirror[c], Version', room'.open)
  BY <1>1, <1>3, <1>4, <1>5 DEF OnePage
<1>7. /\ queue' = [queue EXCEPT ![c] = queue[c]] /\ wire' = [wire EXCEPT ![c] = wire[c]]
      /\ tab' = [tab EXCEPT ![c] = t] /\ mirror' = [mirror EXCEPT ![c] = mirror[c]]
  BY <1>1, <1>2
<1> QED  BY <1>3, <1>6, <1>7, OthersKept

(* The room refuses the page.                                              *)
LEMMA DeniedTypes ==
    ASSUME Types, NEW c \in Clients, Denied(c)
    PROVE  Types'
<1> DEFINE s     == tab[c]
           draft == Restrict(s.screen, IF s.synced THEN RoomOwned ELSE {})
           p     == Resumed(queue[c])
           q     == IF s.synced THEN Changed(p, draft) ELSE p
           m     == IF s.synced THEN Mirrored(q) ELSE mirror[c]
           t     == [s EXCEPT !.seat = "denied", !.suspended = FALSE]
<1>1. /\ s \in Tabs /\ queue[c] \in Queues /\ wire[c] \in Messages /\ mirror[c] \in Mirrors
      /\ Fits(c, s, queue[c], wire[c], mirror[c], Version, room.open)
      /\ tab \in [Clients -> Tabs] /\ wire = [wire EXCEPT ![c] = wire[c]]
      /\ mirror \in [Clients -> Mirrors] /\ Version \in Nat /\ Current \in Snapshot
      /\ own \in [Clients -> Draft]
  BY ThePage DEF Types, Pages, Shared
<1>2. /\ s.open /\ tab' = [tab EXCEPT ![c] = t] /\ queue' = [queue EXCEPT ![c] = q]
      /\ mirror' = [mirror EXCEPT ![c] = m] /\ wire' = wire
      /\ basis' = Beginning(c, p, draft)
      /\ UNCHANGED <<setting, versions, room, loose, count, own>>
  BY <1>1 DEF Denied
<1>3. draft \in Draft
  <2>1. s.screen \in Draft /\ (IF s.synced THEN RoomOwned ELSE {}) \subseteq DOMAIN s.screen
    BY <1>1, WholeDraft DEF Tabs, RoomOwned, Fields
  <2> QED  BY <2>1, CutDraft
<1>4. p \in Queues /\ p.version = queue[c].version /\ p.stage = queue[c].stage
  BY <1>1, OtherSteps
<1> HIDE DEF p, draft
<1>5. q \in Queues /\ q.version = queue[c].version /\ q.stage = queue[c].stage
  BY <1>3, <1>4, ChangedQueue
<1>6. m \in Mirrors /\ (m # Nothing => m.version <= Version)
  <2>1. CASE ~s.synced
    BY <1>1, <2>1 DEF Fits
  <2>2. CASE s.synced
    <3> HIDE DEF q
    <3>1. m = Mirrored(q) /\ Unsent(q) \in Draft /\ q.version \in Nat /\ q.version <= Version
      BY <1>1, <1>5, <2>2, TheUnsent DEF Queues, Fits
    <3> QED  BY <3>1 DEF Mirrored, Mirrors
  <2> QED  BY <2>1, <2>2
<1> HIDE DEF q, m
<1>7. t \in Tabs /\ t.open /\ t.banner = s.banner /\ t.seat = "denied" /\ t.suspended = FALSE
  BY <1>1, <1>2 DEF Tabs
<1> HIDE DEF t
<1>8. basis' \in [Clients -> Snapshot]
  BY <1>2, <1>4, BeginningTypes
<1>9. Shared' /\ Version' = Version /\ Version <= Version' /\ room'.open = room.open
      /\ (room.open => room'.open)
  BY <1>1, <1>2, <1>8, CountsStay
<1>10. Fits(c, t, q, wire[c], m, Version, room.open)
  BY <1>1, <1>2, <1>5, <1>6, <1>7 DEF Fits
<1>11. OnePage(c, t, q, wire[c], m, Version', room'.open)
  BY <1>1, <1>5, <1>6, <1>7, <1>9, <1>10 DEF OnePage
<1>12. /\ queue' = [queue EXCEPT ![c] = q] /\ wire' = [wire EXCEPT ![c] = wire[c]]
       /\ tab' = [tab EXCEPT ![c] = t] /\ mirror' = [mirror EXCEPT ![c] = m]
  BY <1>1, <1>2
<1> QED  BY <1>9, <1>11, <1>12, OthersKept

(* A person types in the room.                                             *)
LEMMA TypeInRoomTypes ==
    ASSUME Types, NEW c \in Clients, TypeInRoom(c)
    PROVE  Types'
<1> DEFINE t == [tab[c] EXCEPT !.screen["body"] = Fresh(c)]
<1>1. /\ tab[c] \in Tabs /\ queue[c] \in Queues /\ wire[c] \in Messages /\ mirror[c] \in Mirrors
      /\ Fits(c, tab[c], queue[c], wire[c], mirror[c], Version, room.open)
      /\ queue = [queue EXCEPT ![c] = queue[c]] /\ mirror = [mirror EXCEPT ![c] = mirror[c]]
      /\ room \in Rooms /\ Version \in Nat /\ basis \in [Clients -> Snapshot]
      /\ setting \in Settings /\ versions \in Seq(Snapshot) /\ Version > 0 /\ loose \subseteq Requests
  BY ThePage DEF Types, Pages, Shared
<1>2. /\ Seated(c) /\ count.edits[c] < setting.edits /\ Typed(c, "body")
      /\ room' = [room EXCEPT !.text = Fresh(c), !.dirty = TRUE]
      /\ tab' = [d \in Clients |->
            IF Seated(d) THEN [tab[d] EXCEPT !.screen["body"] = Fresh(c)] ELSE tab[d]]
      /\ UNCHANGED <<setting, versions, queue, wire, loose, mirror, basis>>
  BY DEF TypeInRoom, MayType
<1>3. Fresh(c) \in Values /\ count' \in Counts /\ own' \in [Clients -> Draft]
  BY <1>2, FreshValue DEF Fields
<1>4. room.open
  BY <1>1, <1>2 DEF Fits, Seated
<1>5. room' \in Rooms /\ room'.open = room.open
  BY <1>1, <1>2, <1>3 DEF Rooms
<1>6. Version' = Version /\ Version <= Version'
  BY <1>1, <1>2 DEF Version
<1>7. Shared'
  BY <1>1, <1>2, <1>3, <1>4, <1>5, <1>6 DEF Shared
<1>8. /\ t \in Tabs /\ t.open = tab[c].open /\ t.banner = tab[c].banner /\ t.seat = tab[c].seat
      /\ t.suspended = tab[c].suspended
  <2>1. t = [tab[c] EXCEPT !.screen = [tab[c].screen EXCEPT !["body"] = Fresh(c)]]
    BY <1>1
  <2>2. [tab[c].screen EXCEPT !["body"] = Fresh(c)] \in Snapshot
    BY <1>1, <1>3 DEF Tabs, Snapshot
  <2> HIDE DEF t
  <2> QED  BY <1>1, <2>1, <2>2 DEF Tabs
<1>9. tab' = [d \in Clients |->
                IF d = c THEN t
                ELSE IF Seated(d) THEN [tab[d] EXCEPT !.screen["body"] = Fresh(c)] ELSE tab[d]]
  BY <1>2
<1> HIDE DEF t
<1>10. Fits(c, t, queue[c], wire[c], mirror[c], Version, room.open)
  BY <1>1, <1>2, <1>8 DEF Fits, Seated
<1>11. OnePage(c, t, queue[c], wire[c], mirror[c], Version', room'.open)
  BY <1>1, <1>5, <1>6, <1>8, <1>10 DEF OnePage
<1>12. /\ queue' = [queue EXCEPT ![c] = queue[c]] /\ mirror' = [mirror EXCEPT ![c] = mirror[c]]
       /\ wire' = wire /\ (room.open => room'.open)
  BY <1>1, <1>2, <1>5
<1> QED  BY <1>3, <1>6, <1>7, <1>9, <1>11, <1>12, ScreensKept

(* The room closes, with nobody on a page in it.                           *)
LEMMA RoomClosesTypes ==
    ASSUME Types, RoomCloses
    PROVE  Types'
<1>1. /\ room \in Rooms /\ room' = [room EXCEPT !.open = FALSE] /\ ~room.peer /\ ~room.dirty
      /\ \A c \in Clients : ~Seated(c)
      /\ UNCHANGED <<setting, versions, tab, queue, wire, loose, mirror, count, own, basis>>
  BY DEF RoomCloses, Types, Shared
<1>2. room' \in Rooms /\ room'.open = FALSE /\ ~room'.peer /\ ~room'.dirty
  BY <1>1 DEF Rooms
<1>3. Version' = Version
  BY <1>1 DEF Version
<1>4. Shared'
  BY <1>1, <1>2, <1>3 DEF Types, Shared
<1>5. ASSUME NEW c \in Clients
      PROVE  Fits(c, tab'[c], queue'[c], wire'[c], mirror'[c], Version', room'.open)
  <2>1. Fits(c, tab[c], queue[c], wire[c], mirror[c], Version, room.open)
    BY ThePage
  <2>2. ~(tab[c].open /\ tab[c].seat = "live")
    BY <1>1 DEF Seated
  <2>3. Fits(c, tab[c], queue[c], wire[c], mirror[c], Version, room'.open)
    BY <2>1, <2>2 DEF Fits
  <2> QED  BY <1>1, <1>3, <2>3
<1> QED  BY <1>1, <1>4, <1>5 DEF Types, Pages

(* A tab is closed.                                                        *)
LEMMA CloseTypes ==
    ASSUME Types, NEW c \in Clients, NEW tidy, Close(c, tidy)
    PROVE  Types'
<1> DEFINE parts == Without(Unsent(queue[c]), Held(tab[c]))
           last  == IF tidy /\ parts # NoFields THEN {Request(c, parts, queue[c].version)} ELSE {}
           m     == IF tidy /\ HasPending(queue[c]) THEN Mirrored(queue[c]) ELSE mirror[c]
<1>1. /\ queue[c] \in Queues /\ wire[c] \in Messages /\ mirror[c] \in Mirrors
      /\ Fits(c, tab[c], queue[c], wire[c], mirror[c], Version, room.open)
      /\ mirror \in [Clients -> Mirrors] /\ Version \in Nat /\ Version > 0 /\ Current \in Snapshot
      /\ versions \in Seq(Snapshot) /\ loose \subseteq Requests /\ count \in Counts
  BY ThePage DEF Types, Pages, Shared
<1>2. /\ loose' = loose \cup last \cup (IF wire[c].kind = "request" THEN {wire[c]} ELSE {})
      /\ mirror' = [mirror EXCEPT ![c] = m] /\ tab' = [tab EXCEPT ![c] = Shut]
      /\ queue' = [queue EXCEPT ![c] = Created] /\ wire' = [wire EXCEPT ![c] = Silence]
      /\ count' = [count EXCEPT !.closes = @ + 1]
      /\ UNCHANGED <<setting, versions, room, own, basis>>
  BY <1>1 DEF Close
<1>3. Unsent(queue[c]) \in Draft /\ queue[c].version \in Nat
  BY <1>1, TheUnsent DEF Queues
<1>4. parts \in Draft
  BY <1>3, LessDraft
<1> HIDE DEF parts
<1>5. last \subseteq Requests
  BY <1>3, <1>4 DEF Request, Requests
<1>6. wire[c].kind = "request" => wire[c] \in Requests
  BY <1>1, TheMessage
<1> HIDE DEF last
<1>7. loose' \subseteq Requests
  BY <1>1, <1>2, <1>5, <1>6
<1>8. count' \in Counts
  <2>1. count \in Counts /\ count' = [count EXCEPT !.closes = @ + 1]
    BY <1>1, <1>2
  <2> QED  BY ONLY <2>1 DEF Counts
<1>9. m \in Mirrors /\ (m # Nothing => m.version <= Version)
  <2>1. CASE ~(tidy /\ HasPending(queue[c]))
    BY <1>1, <2>1 DEF Fits
  <2>2. CASE tidy /\ HasPending(queue[c])
    <3>1. m = Mirrored(queue[c]) /\ queue[c].version <= Version
      BY <1>1, <2>2 DEF Fits
    <3> QED  BY <1>3, <3>1 DEF Mirrored, Mirrors
  <2> QED  BY <2>1, <2>2
<1> HIDE DEF m
<1>10. /\ Shut \in Tabs /\ Shut.open = FALSE /\ Shut.synced = FALSE /\ Shut.suspended = FALSE
       /\ Shut.seat = "none" /\ Shut.recovery = Nothing /\ Shut.banner = Nothing
       /\ Shut.reverted = Nothing
  BY <1>1 DEF Shut, Tabs
<1>11. Silence \in Messages /\ Silence.kind = "none"
  BY DEF Messages, Silence
<1>12. /\ Created \in Queues /\ Created.stage = "idle" /\ Created.version = Version
       /\ Unsent(Created) = NoFields
  BY <1>1, CreatedQueue
<1>13. Version' = Version /\ Version <= Version'
  BY <1>1, <1>2 DEF Version
<1>14. Shared' /\ room'.open = room.open /\ (room.open => room'.open)
  BY <1>2, <1>7, <1>8, <1>13 DEF Types, Shared
<1>15. Fits(c, Shut, Created, Silence, m, Version, room.open)
  <2>1. Version <= Version
    BY <1>1
  <2> QED  BY ONLY <1>9, <1>10, <1>11, <1>12, <2>1 DEF Fits
<1>16. OnePage(c, Shut, Created, Silence, m, Version', room'.open)
  BY <1>9, <1>10, <1>11, <1>12, <1>13, <1>14, <1>15 DEF OnePage
<1>17. /\ queue' = [queue EXCEPT ![c] = Created] /\ wire' = [wire EXCEPT ![c] = Silence]
       /\ tab' = [tab EXCEPT ![c] = Shut] /\ mirror' = [mirror EXCEPT ![c] = m]
  BY <1>2
<1> QED  BY <1>13, <1>14, <1>16, <1>17, OthersKept

(* A tab is opened.                                                        *)
LEMMA LoadTypes ==
    ASSUME Types, NEW c \in Clients, Load(c)
    PROVE  Types'
<1> DEFINE t == Loaded(c).tab
           q == Loaded(c).queue
<1>1. /\ queue[c] \in Queues /\ wire[c] \in Messages /\ mirror[c] \in Mirrors
      /\ Fits(c, tab[c], queue[c], wire[c], mirror[c], Version, room.open)
      /\ wire = [wire EXCEPT ![c] = wire[c]] /\ mirror = [mirror EXCEPT ![c] = mirror[c]]
      /\ Version \in Nat /\ Version > 0 /\ Current \in Snapshot /\ setting \in Settings
      /\ versions \in Seq(Snapshot) /\ basis \in [Clients -> Snapshot] /\ own \in [Clients -> Draft]
  BY ThePage DEF Types, Pages, Shared
<1>2. /\ ~tab[c].open /\ tab' = [tab EXCEPT ![c] = t] /\ queue' = [queue EXCEPT ![c] = q]
      /\ basis' = [basis EXCEPT ![c] = Current]
      /\ UNCHANGED <<setting, versions, room, wire, loose, mirror, count, own>>
  BY DEF Load
<1>3. wire[c] = Silence /\ (mirror[c] # Nothing => mirror[c].version <= Version)
  BY <1>1, <1>2 DEF Fits
<1>4. OnePage(c, t, q, Silence, mirror[c], Version, room.open)
  BY <1>1, <1>3, LoadedPage
<1> HIDE DEF t, q
<1>5. own' \in [Clients -> Draft] /\ basis' \in [Clients -> Snapshot]
  BY <1>1, <1>2
<1>6. Shared' /\ Version' = Version /\ Version <= Version' /\ room'.open = room.open
      /\ (room.open => room'.open)
  BY <1>2, <1>5, CountsStay
<1>7. OnePage(c, t, q, wire[c], mirror[c], Version', room'.open)
  BY <1>3, <1>4, <1>6
<1>8. /\ queue' = [queue EXCEPT ![c] = q] /\ wire' = [wire EXCEPT ![c] = wire[c]]
      /\ tab' = [tab EXCEPT ![c] = t] /\ mirror' = [mirror EXCEPT ![c] = mirror[c]]
  BY <1>1, <1>2
<1> QED  BY <1>6, <1>7, <1>8, OthersKept

(* Whatever happens.                                                       *)
LEMMA TypesStep == Types /\ [Next]_vars => Types'
<1> SUFFICES ASSUME Types, [Next]_vars PROVE Types'
  OBVIOUS
<1>1. CASE UNCHANGED vars
  <2>1. Version' = Version
    BY <1>1 DEF vars, Version
  <2> QED  BY <1>1, <2>1 DEF vars, Types, Shared, Pages
<1>2. ASSUME NEW c \in Clients, Page(c) PROVE Types'
  BY <1>2, TimerFiresTypes, AnsweredTypes, BackoffEndsTypes DEF Page
<1>3. ASSUME NEW c \in Clients, Person(c) PROVE Types'
  BY <1>3, TypeTypes, TypeInRoomTypes, KeepMineTypes, TakeTheirsTypes, RestoreDraftTypes,
     DiscardDraftTypes, CloseTypes, LoadTypes DEF Person
<1>4. ASSUME NEW c \in Clients, Session(c) PROVE Types'
  BY <1>4, SyncedTypes, DroppedTypes, DeniedTypes DEF Session
<1> QED
  BY <1>1, <1>2, <1>3, <1>4, ServeTypes, LoseTypes, ElsewhereTypes, RoomClosesTypes DEF Next

(* Types, for every set of clients, every number of rebases and every      *)
(* setting: a call of `save' is under way exactly while the pump waits for *)
(* one, no queue, mirror, banner or answer knows a version that is still to*)
(* come, and a page that is shut has nothing unsent (saveQueue.ts).        *)
THEOREM TypesHold == Spec => []TypeOK
<1>1. Init => Types
  BY TypesInit
<1>2. Types /\ [Next]_vars => Types'
  BY TypesStep
<1>3. Types => TypeOK
  BY TypesGiveTypeOK
<1> QED  BY <1>1, <1>2, <1>3, PTL DEF Spec

-----------------------------------------------------------------------------
(* Nothing typed is on the screen only.  A person who waits for a save to  *)
(* end and decides what to do with a draft that is offered, on a page that *)
(* joins no room.                                                          *)

Patient == ~setting.ahead /\ ~setting.heedless /\ ~setting.collab

WasIn(vs, f, value) == \E i \in 1..Len(vs) : vs[i][f] = value

Resting(q) == q.stage = "idle" /\ q.pending = NoFields /\ q.inflight = Nothing

\* What one client typed and has not given up was saved, or is in the mirror,
\* and, with the page open and no draft offered, in the queue and on the screen.
Keeps(vs, t, q, w, m, o) ==
    /\ t.seat = "none" /\ ~t.synced
    /\ q.stage # "idle" => q.pending = NoFields /\ q.inflight # Nothing
    /\ w.kind = "request" => w.patch = q.inflight
    /\ w.kind = "done" => \A f \in DOMAIN q.inflight : WasIn(vs, f, q.inflight[f])
    /\ w.kind = "stale" => \A f \in Fields : WasIn(vs, f, w.fields[f])
    /\ t.recovery # Nothing =>
          /\ Resting(q) /\ t.banner = Nothing /\ t.reverted = Nothing
          /\ m # Nothing /\ m.fields = t.recovery
    /\ t.reverted # Nothing => Resting(q) /\ t.banner # Nothing
    /\ m # Nothing =>
          /\ DOMAIN m.fields # {}
          /\ t.open => HasPending(q) \/ t.banner # Nothing \/ t.recovery # Nothing
    /\ \A f \in DOMAIN o : ~WasIn(vs, f, o[f]) =>
          /\ m # Nothing /\ f \in DOMAIN m.fields /\ m.fields[f] = o[f]
          /\ t.open /\ t.recovery = Nothing =>
                f \in DOMAIN Unsent(q) /\ Unsent(q)[f] = o[f] /\ t.screen[f] = o[f]

Calm ==
    /\ ~room.open /\ ~room.peer
    /\ \A c \in Clients : Keeps(versions, tab[c], queue[c], wire[c], mirror[c], own[c])

Grown(vs, us) == Len(vs) <= Len(us) /\ \A i \in 1..Len(vs) : us[i] = vs[i]

(* What the invariant says is what is promised.                            *)
LEMMA CalmGivesEditsKept == Types /\ Calm => EditsKept
<1> SUFFICES ASSUME Types, Calm, NEW c \in Clients
             PROVE  /\ \A f \in DOMAIN own[c] :
                        \/ WasSaved(f, own[c][f]) \/ InRoom(f, own[c][f])
                        \/ /\ mirror[c] # Nothing /\ f \in DOMAIN mirror[c].fields
                           /\ mirror[c].fields[f] = own[c][f]
                    /\ Quiet(c) => mirror[c] = Nothing
  BY DEF EditsKept
<1>1. Keeps(versions, tab[c], queue[c], wire[c], mirror[c], own[c])
  BY DEF Calm
<1>2. ASSUME NEW f \in DOMAIN own[c], ~WasSaved(f, own[c][f])
      PROVE  /\ mirror[c] # Nothing /\ f \in DOMAIN mirror[c].fields
             /\ mirror[c].fields[f] = own[c][f]
  BY <1>1, <1>2 DEF Keeps, WasIn, WasSaved, Version
<1>3. Quiet(c) => mirror[c] = Nothing
  BY <1>1 DEF Keeps, Quiet
<1> QED  BY <1>2, <1>3

(* Drafts and nothing.                                                     *)
LEMMA NoneDraft ==
    ASSUME NEW a \in Draft
    PROVE  /\ a # Nothing /\ Without(a, {}) = a /\ Merge(a, NoFields) = a
           /\ Restrict(a, DOMAIN a \ DOMAIN a) = NoFields
<1>1. a # Nothing
  BY NothingAssumption
<1>2. ASSUME NEW b \in Draft, DOMAIN b = DOMAIN a, \A f \in DOMAIN a : b[f] = a[f]
      PROVE  b = a
  <2>1. a = [f \in DOMAIN a |-> a[f]] /\ b = [f \in DOMAIN b |-> b[f]]
    BY IsDraft
  <2> QED  BY <1>2, <2>1
<1>3. Without(a, {}) = a
  <2>1. /\ Without(a, {}) \in Draft /\ DOMAIN Without(a, {}) = DOMAIN a \ {}
        /\ \A f \in DOMAIN a \ {} : Without(a, {})[f] = a[f]
    BY LessDraft
  <2> QED  BY <1>2, <2>1
<1>4. Merge(a, NoFields) = a
  <2>1. /\ Merge(a, NoFields) \in Draft /\ DOMAIN Merge(a, NoFields) = DOMAIN a \cup {}
        /\ \A f \in DOMAIN a \ {} : Merge(a, NoFields)[f] = a[f]
    BY MergedDraft, EmptyDraft
  <2> QED  BY <1>2, <2>1
<1>5. Restrict(a, {}) = NoFields
  <2>1. {} \subseteq DOMAIN a
    OBVIOUS
  <2>2. Restrict(a, {}) \in Draft /\ DOMAIN Restrict(a, {}) = {}
    BY <2>1, CutDraft
  <2> QED  BY <2>2, EmptyDraft
<1>6. DOMAIN a \ DOMAIN a = {}
  OBVIOUS
<1> QED  BY <1>1, <1>3, <1>4, <1>5, <1>6

(* The pump with nothing held back sends all there is, or rests as it was. *)
LEMMA PumpedOpen ==
    ASSUME NEW q \in Queues, NEW x, x = Pumped(q, {})
    PROVE  /\ x \in Queues /\ Unsent(x) = Unsent(q) /\ x.stage \in {"idle", "sent"}
           /\ x.stage = "idle" => x.inflight = q.inflight /\ x.pending = q.pending
           /\ x.stage = "sent" => /\ x.pending = NoFields /\ x.inflight = Unsent(q)
                                  /\ x.inflight \in Draft
           /\ q.inflight = Nothing /\ q.pending = NoFields => x.stage = "idle"
<1> DEFINE all  == Unsent(q)
           send == IF q.pending = NoFields THEN all ELSE Without(all, {})
<1>1. all \in Draft /\ q.pending \in Draft /\ DOMAIN q.pending \subseteq DOMAIN all
  BY TheUnsent
<1>2. /\ x \in Queues /\ Unsent(x) = Unsent(q) /\ x.stage \in {"idle", "sent"}
      /\ x.stage = "sent" => x.inflight \in Draft
  BY PumpedQueue, NothingAssumption
<1>3. x = IF q.blocked \/ (q.inflight = Nothing /\ q.pending = NoFields)
          THEN [q EXCEPT !.stage = "idle"]
          ELSE IF send = NoFields /\ q.pending # NoFields
          THEN [q EXCEPT !.stage = "idle", !.inflight = Nothing, !.pending = all]
          ELSE [q EXCEPT !.stage = "sent", !.attempt = 0, !.inflight = send,
                         !.pending = Restrict(all, DOMAIN all \ DOMAIN send)]
  BY DEF Pumped
<1> HIDE DEF all
<1>4. send = all
  BY <1>1, NoneDraft
<1> HIDE DEF send
<1>5. ~(send = NoFields /\ q.pending # NoFields)
  BY <1>1, <1>4, EmptyDraft
<1>6. CASE q.blocked \/ (q.inflight = Nothing /\ q.pending = NoFields)
  <2>1. x = [q EXCEPT !.stage = "idle"]
    BY <1>3, <1>6
  <2>2. x.stage = "idle" /\ x.inflight = q.inflight /\ x.pending = q.pending
    BY <2>1 DEF Queues
  <2> QED  BY <1>2, <2>2
<1>7. CASE ~(q.blocked \/ (q.inflight = Nothing /\ q.pending = NoFields))
  <2>1. x = [q EXCEPT !.stage = "sent", !.attempt = 0, !.inflight = send,
                      !.pending = Restrict(all, DOMAIN all \ DOMAIN send)]
    BY <1>3, <1>5, <1>7
  <2>2. Restrict(all, DOMAIN all \ DOMAIN send) = NoFields
    BY <1>1, <1>4, NoneDraft
  <2>3. x.stage = "sent" /\ x.inflight = all /\ x.pending = NoFields
    BY <1>4, <2>1, <2>2 DEF Queues
  <2> QED  BY <1>2, <1>7, <2>3 DEF all
<1> QED  BY <1>6, <1>7

(* What was saved stays saved.                                             *)
LEMMA WasLater ==
    ASSUME NEW vs, NEW us, Len(vs) \in Nat, Len(us) \in Nat, Grown(vs, us), NEW f, NEW value,
           WasIn(vs, f, value)
    PROVE  WasIn(us, f, value)
<1>1. PICK i \in 1..Len(vs) : vs[i][f] = value
  BY DEF WasIn
<1>2. i \in 1..Len(us) /\ us[i][f] = value
  BY <1>1 DEF Grown
<1> QED  BY <1>2 DEF WasIn

(* So a page that does nothing keeps what it has.                          *)
LEMMA KeepsLater ==
    ASSUME NEW vs, NEW us, Len(vs) \in Nat, Len(us) \in Nat, Grown(vs, us),
           NEW t, NEW q, NEW w, NEW m, NEW o, Keeps(vs, t, q, w, m, o)
    PROVE  Keeps(us, t, q, w, m, o)
<1>1. \A f, value : WasIn(vs, f, value) => WasIn(us, f, value)
  BY WasLater
<1>2. w.kind = "done" => \A f \in DOMAIN q.inflight : WasIn(us, f, q.inflight[f])
  BY <1>1 DEF Keeps
<1>3. w.kind = "stale" => \A f \in Fields : WasIn(us, f, w.fields[f])
  BY <1>1 DEF Keeps
<1>4. \A f \in DOMAIN o : ~WasIn(us, f, o[f]) =>
          /\ m # Nothing /\ f \in DOMAIN m.fields /\ m.fields[f] = o[f]
          /\ t.open /\ t.recovery = Nothing =>
                f \in DOMAIN Unsent(q) /\ Unsent(q)[f] = o[f] /\ t.screen[f] = o[f]
  BY <1>1 DEF Keeps
<1> QED  BY <1>2, <1>3, <1>4 DEF Keeps

(* The pages after a step that changed one of them, or none.               *)
LEMMA OthersKeep ==
    ASSUME Types, Types', Calm, Grown(versions, versions'), ~room'.open, ~room'.peer,
           NEW c \in Clients, NEW t, NEW q, NEW w, NEW m, NEW o,
           Keeps(versions', t, q, w, m, o),
           tab' = [tab EXCEPT ![c] = t], queue' = [queue EXCEPT ![c] = q],
           wire' = [wire EXCEPT ![c] = w], mirror' = [mirror EXCEPT ![c] = m],
           own' = [own EXCEPT ![c] = o]
    PROVE  Calm'
<1>1. /\ tab \in [Clients -> Tabs] /\ queue \in [Clients -> Queues]
      /\ wire \in [Clients -> Messages] /\ mirror \in [Clients -> Mirrors]
      /\ own \in [Clients -> Draft] /\ Len(versions) \in Nat /\ Len(versions') \in Nat
  BY DEF Types, Shared, Pages, Version
<1>2. ASSUME NEW d \in Clients
      PROVE  Keeps(versions', tab'[d], queue'[d], wire'[d], mirror'[d], own'[d])
  <2>1. CASE d = c
    BY <1>1, <2>1
  <2>2. CASE d # c
    <3>1. /\ tab'[d] = tab[d] /\ queue'[d] = queue[d] /\ wire'[d] = wire[d]
          /\ mirror'[d] = mirror[d] /\ own'[d] = own[d]
      BY <1>1, <2>2
    <3>2. Keeps(versions, tab[d], queue[d], wire[d], mirror[d], own[d])
      BY DEF Calm
    <3>3. Keeps(versions', tab[d], queue[d], wire[d], mirror[d], own[d])
      BY <1>1, <3>2, KeepsLater
    <3> QED  BY <3>1, <3>3
  <2> QED  BY <2>1, <2>2
<1> QED  BY <1>2 DEF Calm

(* What is known of a client.                                              *)
LEMMA TheKeeps ==
    ASSUME Types, Calm, NEW c \in Clients
    PROVE  /\ Keeps(versions, tab[c], queue[c], wire[c], mirror[c], own[c])
           /\ tab = [tab EXCEPT ![c] = tab[c]] /\ queue = [queue EXCEPT ![c] = queue[c]]
           /\ wire = [wire EXCEPT ![c] = wire[c]] /\ mirror = [mirror EXCEPT ![c] = mirror[c]]
           /\ own = [own EXCEPT ![c] = own[c]]
           /\ tab[c] \in Tabs /\ queue[c] \in Queues /\ wire[c] \in Messages
           /\ mirror[c] \in Mirrors /\ own[c] \in Draft
           /\ tab[c].suspended = FALSE /\ Held(tab[c]) = {} /\ ~RoomOwns(tab[c])
           /\ queue[c].stage # "sent" => wire[c] = Silence
           /\ queue[c].stage = "sent" => tab[c].open
           /\ Grown(versions, versions)
<1>1. Keeps(versions, tab[c], queue[c], wire[c], mirror[c], own[c])
  BY DEF Calm
<1>2. /\ tab = [tab EXCEPT ![c] = tab[c]] /\ queue = [queue EXCEPT ![c] = queue[c]]
      /\ wire = [wire EXCEPT ![c] = wire[c]] /\ mirror = [mirror EXCEPT ![c] = mirror[c]]
      /\ tab[c] \in Tabs /\ queue[c] \in Queues /\ wire[c] \in Messages
      /\ mirror[c] \in Mirrors /\ own[c] \in Draft
      /\ Fits(c, tab[c], queue[c], wire[c], mirror[c], Version, room.open)
  BY ThePage
<1>3. own = [own EXCEPT ![c] = own[c]]
  BY DEF Types, Shared
<1>4. /\ tab[c].seat = "none" /\ ~tab[c].synced /\ tab[c].suspended = FALSE
  BY <1>1, <1>2 DEF Keeps, Fits, Tabs
<1>5. Held(tab[c]) = {} /\ ~RoomOwns(tab[c])
  BY <1>4 DEF Held, RoomOwns
<1>6. /\ queue[c].stage # "sent" => wire[c] = Silence
      /\ queue[c].stage = "sent" => tab[c].open
  BY <1>2 DEF Fits
<1>7. Version \in Nat
  BY DEF Types, Shared
<1>8. Grown(versions, versions)
  BY <1>7 DEF Grown, Version
<1> QED  BY <1>1, <1>2, <1>3, <1>4, <1>5, <1>6, <1>8

(* A pump keeps what there is.                                             *)
LEMMA PumpKeeps ==
    ASSUME NEW c \in Clients, NEW q \in Queues, q.stage = "idle", NEW vs, NEW t, NEW m, NEW o,
           Keeps(vs, t, q, Silence, m, o), NEW x, x = Pumped(q, {})
    PROVE  Keeps(vs, t, x, Sent(c, x), m, o)
<1> DEFINE w == Sent(c, x)
<1>1. /\ x \in Queues /\ Unsent(x) = Unsent(q) /\ x.stage \in {"idle", "sent"}
      /\ x.stage = "idle" => x.inflight = q.inflight /\ x.pending = q.pending
      /\ x.stage = "sent" => /\ x.pending = NoFields /\ x.inflight = Unsent(q)
                             /\ x.inflight \in Draft
      /\ q.inflight = Nothing /\ q.pending = NoFields => x.stage = "idle"
  BY PumpedOpen
<1>2. /\ w.kind \in {"none", "request"}
      /\ w.kind = "request" => w.patch = x.inflight
  BY DEF Sent, Silence, Request
<1>3. Resting(q) => Resting(x)
  BY <1>1 DEF Resting
<1>4. HasPending(x) = HasPending(q)
  BY <1>1 DEF HasPending
<1>5. x.stage # "idle" => x.pending = NoFields /\ x.inflight # Nothing
  BY <1>1, NothingAssumption
<1> HIDE DEF w
<1> QED  BY <1>1, <1>2, <1>3, <1>4, <1>5 DEF Keeps, w

(* The timer.                                                              *)
LEMMA TimerFiresKeeps ==
    ASSUME Types, Types', Calm, NEW c \in Clients, TimerFires(c)
    PROVE  Calm'
<1> DEFINE q == [queue[c] EXCEPT !.timer = FALSE]
           x == Pumped(q, {})
<1>1. /\ Keeps(versions, tab[c], queue[c], wire[c], mirror[c], own[c])
      /\ tab = [tab EXCEPT ![c] = tab[c]] /\ mirror = [mirror EXCEPT ![c] = mirror[c]]
      /\ own = [own EXCEPT ![c] = own[c]] /\ wire = [wire EXCEPT ![c] = wire[c]]
      /\ queue[c] \in Queues /\ Held(tab[c]) = {}
      /\ queue[c].stage # "sent" => wire[c] = Silence
      /\ Grown(versions, versions) /\ ~room.open /\ ~room.peer
  BY TheKeeps DEF Calm
<1>2. /\ UNCHANGED <<setting, versions, room, tab, loose, mirror, count, own, basis>>
      /\ q.stage = "idle" =>
            queue' = [queue EXCEPT ![c] = x] /\ wire' = [wire EXCEPT ![c] = Sent(c, x)]
      /\ q.stage # "idle" => queue' = [queue EXCEPT ![c] = q] /\ wire' = wire
  BY <1>1 DEF TimerFires, Pump
<1>3. /\ q \in Queues /\ q.stage = queue[c].stage /\ q.pending = queue[c].pending
      /\ q.inflight = queue[c].inflight
  BY <1>1 DEF Queues
<1> HIDE DEF q
<1>4. Unsent(q) = Unsent(queue[c])
  BY <1>3 DEF Unsent
<1>5. Keeps(versions, tab[c], q, wire[c], mirror[c], own[c])
  BY <1>1, <1>3, <1>4 DEF Keeps, Resting, HasPending
<1>6. /\ tab' = [tab EXCEPT ![c] = tab[c]] /\ mirror' = [mirror EXCEPT ![c] = mirror[c]]
      /\ own' = [own EXCEPT ![c] = own[c]] /\ versions' = versions
      /\ ~room'.open /\ ~room'.peer /\ Grown(versions, versions')
  BY <1>1, <1>2
<1>7. CASE q.stage = "idle"
  <2>1. wire[c] = Silence
    BY <1>1, <1>3, <1>7
  <2>2. Keeps(versions, tab[c], x, Sent(c, x), mirror[c], own[c])
    BY <1>3, <1>5, <1>7, <2>1, PumpKeeps
  <2> HIDE DEF x
  <2>3. /\ Keeps(versions', tab[c], x, Sent(c, x), mirror[c], own[c])
        /\ queue' = [queue EXCEPT ![c] = x] /\ wire' = [wire EXCEPT ![c] = Sent(c, x)]
    BY <1>2, <1>6, <1>7, <2>2
  <2> QED  BY <1>6, <2>3, OthersKeep
<1>8. CASE q.stage # "idle"
  <2>1. /\ Keeps(versions', tab[c], q, wire[c], mirror[c], own[c])
        /\ queue' = [queue EXCEPT ![c] = q] /\ wire' = [wire EXCEPT ![c] = wire[c]]
    BY <1>1, <1>2, <1>5, <1>6, <1>8
  <2> QED  BY <1>6, <2>1, OthersKeep
<1> QED  BY <1>7, <1>8

(* An edit.                                                                *)
LEMMA TypeKeeps ==
    ASSUME Types, Types', Patient, Calm, NEW c \in Clients, NEW f \in Fields, Type(c, f)
    PROVE  Calm'
<1> DEFINE edit == Single(f, Fresh(c))
           q0 == queue[c]
           q == Changed(q0, edit)
           m == Mirrored(q)
           s == [tab[c].screen EXCEPT ![f] = Fresh(c)]
           t == [tab[c] EXCEPT !.screen = s, !.reverted = Nothing]
           o == Merge(own[c], edit)
<1>1. /\ Keeps(versions, tab[c], q0, wire[c], mirror[c], own[c])
      /\ wire = [wire EXCEPT ![c] = wire[c]]
      /\ q0 \in Queues /\ tab[c] \in Tabs /\ own[c] \in Draft
      /\ q0.stage # "sent" => wire[c] = Silence
      /\ Grown(versions, versions) /\ ~room.open /\ ~room.peer
      /\ tab \in [Clients -> Tabs]
  BY TheKeeps DEF Calm, Types, Pages
<1>2. /\ tab[c].open /\ q0.stage = "idle" /\ tab[c].recovery = Nothing
      /\ count.edits[c] < setting.edits /\ Typed(c, f)
      /\ UNCHANGED <<setting, versions, room, wire, loose>>
      /\ queue' = [queue EXCEPT ![c] = q] /\ mirror' = [mirror EXCEPT ![c] = m]
      /\ own' = [own EXCEPT ![c] = o]
      /\ tab' = [tab EXCEPT ![c].screen[f] = Fresh(c), ![c].reverted = Nothing]
  BY DEF Type, MayType, MayAct, Patient, Typed
<1>3. tab' = [tab EXCEPT ![c] = t]
  BY <1>1, <1>2
<1>4. Fresh(c) \in Values
  BY <1>2, FreshValue
<1>5. edit \in Draft /\ DOMAIN edit = {f} /\ edit[f] = Fresh(c)
  BY <1>4, OneDraft
<1> HIDE DEF edit
<1>6. DOMAIN o = DOMAIN own[c] \cup {f} /\ o[f] = Fresh(c)
      /\ \A g \in DOMAIN own[c] \ {f} : o[g] = own[c][g]
  <2>1. own[c] \in Draft /\ edit \in Draft
    BY <1>1, <1>5
  <2>2. /\ DOMAIN o = DOMAIN own[c] \cup DOMAIN edit
        /\ \A g \in DOMAIN edit : o[g] = edit[g]
        /\ \A g \in DOMAIN own[c] \ DOMAIN edit : o[g] = own[c][g]
    BY ONLY <2>1, MergedDraft
  <2> HIDE DEF o
  <2> QED  BY <1>5, <2>2
<1>7. /\ q \in Queues /\ q.stage = "idle" /\ q.version = q0.version
      /\ DOMAIN Unsent(q) = DOMAIN Unsent(q0) \cup {f} /\ Unsent(q)[f] = Fresh(c)
      /\ \A g \in DOMAIN Unsent(q0) \ {f} : Unsent(q)[g] = Unsent(q0)[g]
      /\ Unsent(q) \in Draft /\ q.version \in Nat
  <2>1. /\ q \in Queues /\ q.stage = q0.stage /\ q.version = q0.version
        /\ DOMAIN Unsent(q) = DOMAIN Unsent(q0) \cup {f} /\ Unsent(q)[f] = Fresh(c)
        /\ \A g \in DOMAIN Unsent(q0) \ {f} : Unsent(q)[g] = Unsent(q0)[g]
    <3>1. q0 \in Queues /\ edit \in Draft
      BY <1>1, <1>5
    <3> HIDE DEF q0
    <3>2. /\ q \in Queues /\ q.stage = q0.stage /\ q.version = q0.version
          /\ DOMAIN Unsent(q) = DOMAIN Unsent(q0) \cup DOMAIN edit
          /\ \A g \in DOMAIN edit : Unsent(q)[g] = edit[g]
          /\ \A g \in DOMAIN Unsent(q0) \ DOMAIN edit : Unsent(q)[g] = Unsent(q0)[g]
      BY ONLY <3>1, ChangedQueue
    <3> HIDE DEF q
    <3> QED  BY <1>5, <3>2
  <2> HIDE DEF q
  <2> QED  BY <1>2, <2>1, TheUnsent DEF Queues
<1> HIDE DEF q, o, q0
<1>8. m # Nothing /\ m.fields = Unsent(q)
  BY <1>7, NothingAssumption DEF Mirrored
<1>9. /\ t.seat = tab[c].seat /\ t.synced = tab[c].synced /\ t.recovery = Nothing
      /\ t.reverted = Nothing /\ t.screen = s /\ t.open
  BY <1>1, <1>2 DEF Tabs
<1>10. s[f] = Fresh(c) /\ \A g \in Fields \ {f} : s[g] = tab[c].screen[g]
  BY <1>1 DEF Tabs, Snapshot
<1> HIDE DEF m, t, s
<1>11. ASSUME NEW g \in DOMAIN o, ~WasIn(versions, g, o[g])
       PROVE  /\ g \in DOMAIN m.fields /\ m.fields[g] = o[g]
              /\ g \in DOMAIN Unsent(q) /\ Unsent(q)[g] = o[g] /\ t.screen[g] = o[g]
  <2>1. CASE g = f
    BY <1>6, <1>7, <1>8, <1>9, <1>10, <2>1
  <2>2. CASE g # f
    <3>1. g \in DOMAIN own[c] /\ o[g] = own[c][g] /\ g \in Fields
      BY <1>1, <1>6, <1>11, <2>2, IsDraft
    <3>2. g \in DOMAIN Unsent(q0) /\ Unsent(q0)[g] = o[g] /\ tab[c].screen[g] = o[g]
      BY <1>1, <1>2, <1>11, <3>1 DEF Keeps
    <3> QED  BY <1>7, <1>8, <1>9, <1>10, <2>2, <3>1, <3>2
  <2> QED  BY <2>1, <2>2
<1>12. wire[c] = Silence /\ Silence.kind = "none"
  BY <1>1, <1>2 DEF Silence
<1>13. HasPending(q) /\ DOMAIN m.fields # {}
  BY <1>7, <1>8 DEF HasPending
<1>14. Keeps(versions, t, q, wire[c], m, o)
  BY <1>1, <1>7, <1>8, <1>9, <1>11, <1>12, <1>13 DEF Keeps
<1>15. /\ Keeps(versions', t, q, wire[c], m, o)
       /\ tab' = [tab EXCEPT ![c] = t] /\ queue' = [queue EXCEPT ![c] = q]
       /\ wire' = [wire EXCEPT ![c] = wire[c]] /\ mirror' = [mirror EXCEPT ![c] = m]
       /\ own' = [own EXCEPT ![c] = o] /\ Grown(versions, versions') /\ ~room'.open /\ ~room'.peer
  BY <1>1, <1>2, <1>3, <1>14
<1> QED  BY <1>15, OthersKeep

(* The box's answer tells what was saved.                                  *)
LEMMA ServeKeeps ==
    ASSUME Types, Types', Calm, NEW c \in Clients, Serve(c)
    PROVE  Calm'
<1> DEFINE r == wire[c]
           w == IF Refusal(r) # Nothing THEN Refusal(r)
                ELSE [kind |-> "done", version |-> Len(Patched(r))]
<1>1. /\ Keeps(versions, tab[c], queue[c], r, mirror[c], own[c])
      /\ tab = [tab EXCEPT ![c] = tab[c]] /\ mirror = [mirror EXCEPT ![c] = mirror[c]]
      /\ own = [own EXCEPT ![c] = own[c]] /\ queue = [queue EXCEPT ![c] = queue[c]]
      /\ r \in Messages /\ queue[c] \in Queues
      /\ Grown(versions, versions) /\ ~room.open /\ ~room.peer
      /\ versions \in Seq(Snapshot) /\ Version > 0 /\ Version \in Nat /\ Current \in Snapshot
  BY TheKeeps, CurrentIs DEF Calm, Types, Shared
<1>2. /\ r.kind = "request" /\ UNCHANGED <<setting, room, tab, queue, loose, mirror, count, own, basis>>
      /\ wire' = [wire EXCEPT ![c] = w]
      /\ versions' = IF Refusal(r) # Nothing THEN versions ELSE Patched(r)
  BY DEF Serve
<1>3. r \in Requests /\ r.patch = queue[c].inflight /\ r.patch \in Draft
  BY <1>1, <1>2, TheMessage DEF Keeps, Requests
<1>4. ASSUME Refusal(r) # Nothing
      PROVE  /\ versions' = versions /\ w.kind \in {"locked", "stale"}
             /\ w.kind = "stale" => \A f \in Fields : WasIn(versions, f, w.fields[f])
  <2>1. w = Refusal(r) /\ versions' = versions
    BY <1>2, <1>4
  <2>2. \/ w = [kind |-> "locked"]
        \/ w = [kind |-> "stale", version |-> Version, fields |-> Current]
    BY <1>4, <2>1 DEF Refusal
  <2>3. ASSUME NEW f \in Fields PROVE WasIn(versions, f, Current[f])
    <3>1. Len(versions) \in 1..Len(versions) /\ Current = versions[Len(versions)]
      BY <1>1 DEF Version, Current
    <3> QED  BY <3>1 DEF WasIn
  <2> QED  BY <2>1, <2>2, <2>3
<1>5. ASSUME Refusal(r) = Nothing
      PROVE  /\ Grown(versions, versions') /\ w.kind = "done"
             /\ \A f \in DOMAIN r.patch : WasIn(versions', f, r.patch[f])
  <2>1. versions' = Patched(r) /\ w.kind = "done"
    BY <1>2, <1>5
  <2>2. CASE DOMAIN r.patch = {}
    BY <1>1, <2>1, <2>2 DEF Patched
  <2>3. CASE DOMAIN r.patch # {}
    <3> DEFINE s == Merge(Current, r.patch)
    <3>1. versions' = Append(versions, s)
      BY <2>1, <2>3 DEF Patched
    <3>2. s \in Snapshot /\ \A f \in DOMAIN r.patch : s[f] = r.patch[f]
      <4>1. Current \in Snapshot /\ Current \in Draft /\ r.patch \in Draft
        BY <1>1, <1>3, WholeDraft
      <4> HIDE DEF r
      <4> QED  BY ONLY <4>1, MergedDraft
    <3> HIDE DEF s
    <3>3. /\ Len(versions') = Version + 1 /\ versions'[Len(versions')] = s
          /\ \A i \in 1..Version : versions'[i] = versions[i]
      BY <1>1, <3>1, <3>2, OneMore
    <3>4. Grown(versions, versions')
      BY <1>1, <3>3 DEF Grown, Version
    <3>5. Len(versions') \in 1..Len(versions')
      BY <1>1, <3>3
    <3> QED  BY <2>1, <3>2, <3>3, <3>4, <3>5 DEF WasIn
  <2> QED  BY <2>2, <2>3
<1> HIDE DEF w
<1>6. Grown(versions, versions')
  BY <1>1, <1>4, <1>5
<1>7. Len(versions) \in Nat /\ Len(versions') \in Nat
  BY DEF Types, Shared, Version
<1>8. Keeps(versions', tab[c], queue[c], r, mirror[c], own[c])
  BY <1>1, <1>6, <1>7, KeepsLater
<1>9. /\ w.kind \in {"locked", "stale", "done"}
      /\ w.kind = "stale" => \A f \in Fields : WasIn(versions', f, w.fields[f])
      /\ w.kind = "done" => \A f \in DOMAIN queue[c].inflight : WasIn(versions', f, queue[c].inflight[f])
  <2>1. CASE Refusal(r) # Nothing
    BY <1>4, <2>1
  <2>2. CASE Refusal(r) = Nothing
    BY <1>3, <1>5, <2>2
  <2> QED  BY <2>1, <2>2
<1> HIDE DEF r
<1>10. Keeps(versions', tab[c], queue[c], w, mirror[c], own[c])
  BY <1>8, <1>9 DEF Keeps
<1>11. /\ tab' = [tab EXCEPT ![c] = tab[c]] /\ queue' = [queue EXCEPT ![c] = queue[c]]
       /\ mirror' = [mirror EXCEPT ![c] = mirror[c]] /\ own' = [own EXCEPT ![c] = own[c]]
       /\ wire' = [wire EXCEPT ![c] = w] /\ ~room'.open /\ ~room'.peer
  BY <1>1, <1>2
<1> QED  BY <1>6, <1>10, <1>11, OthersKeep

(* A message is lost.                                                      *)
LEMMA LoseKeeps ==
    ASSUME Types, Types', Calm, NEW c \in Clients, Lose(c)
    PROVE  Calm'
<1>1. /\ Keeps(versions, tab[c], queue[c], wire[c], mirror[c], own[c])
      /\ tab = [tab EXCEPT ![c] = tab[c]] /\ mirror = [mirror EXCEPT ![c] = mirror[c]]
      /\ own = [own EXCEPT ![c] = own[c]] /\ queue = [queue EXCEPT ![c] = queue[c]]
      /\ Grown(versions, versions) /\ ~room.open /\ ~room.peer
  BY TheKeeps DEF Calm
<1>2. /\ wire' = [wire EXCEPT ![c] = Failed] /\ Failed.kind = "failed"
      /\ UNCHANGED <<versions, room, tab, queue, mirror, own>>
  BY DEF Lose, Failed
<1>3. Keeps(versions, tab[c], queue[c], Failed, mirror[c], own[c])
  BY <1>1, <1>2 DEF Keeps
<1>4. /\ tab' = [tab EXCEPT ![c] = tab[c]] /\ queue' = [queue EXCEPT ![c] = queue[c]]
      /\ mirror' = [mirror EXCEPT ![c] = mirror[c]] /\ own' = [own EXCEPT ![c] = own[c]]
      /\ wire' = [wire EXCEPT ![c] = Failed] /\ ~room'.open /\ ~room'.peer
      /\ Grown(versions, versions')
      /\ Keeps(versions', tab[c], queue[c], Failed, mirror[c], own[c])
  BY <1>1, <1>2, <1>3
<1> QED  BY <1>4, OthersKeep

(* A notice of the version that won.                                       *)
LEMMA ANotice ==
    ASSUME NEW v \in Nat, NEW s \in Snapshot
    PROVE  [version |-> v, fields |-> s] # Nothing
<1>1. s \in Draft
  BY WholeDraft
<1>2. [version |-> v, fields |-> s] \in [fields : Draft, version : Nat]
  BY <1>1
<1> QED  BY <1>2, NothingAssumption

(* The answer: what was sent is saved, or is in the queue still, or is     *)
(* given up on the screen.                                                 *)
LEMMA AnsweredKeeps ==
    ASSUME Types, Types', Calm, NEW c \in Clients, Answered(c)
    PROVE  Calm'
<1> DEFINE w     == wire[c]
           q0    == queue[c]
           ours  == IF q0.inflight = Nothing THEN NoFields ELSE q0.inflight
           weighs == IF w.kind = "stale" THEN Verdict(ours, q0.base, w.fields) ELSE w.kind
           notice == [version |-> w.version, fields |-> w.fields]
<1>1. /\ Keeps(versions, tab[c], q0, w, mirror[c], own[c])
      /\ tab = [tab EXCEPT ![c] = tab[c]] /\ mirror = [mirror EXCEPT ![c] = mirror[c]]
      /\ own = [own EXCEPT ![c] = own[c]]
      /\ q0 \in Queues /\ tab[c] \in Tabs /\ w \in Messages /\ own[c] \in Draft
      /\ Held(tab[c]) = {} /\ Grown(versions, versions) /\ ~room.open /\ ~room.peer
      /\ tab \in [Clients -> Tabs]
  BY TheKeeps DEF Calm, Types, Pages
<1>2. /\ q0.stage = "sent" /\ UNCHANGED <<setting, versions, room, loose, count, basis>>
      /\ \/ /\ weighs \in {"failed", "locked"}
            /\ queue' = [queue EXCEPT ![c] = Stopped(@)]
            /\ wire' = [wire EXCEPT ![c] = Silence]
            /\ UNCHANGED <<tab, mirror, own>>
         \/ weighs \in {"done", "landed"} /\ Saved(c, w.version) /\ UNCHANGED own
         \/ weighs = "conflict" /\ Conflicted(c, w) /\ UNCHANGED <<mirror, own>>
         \/ weighs = "rebase" /\ Exhaust(c, w) /\ UNCHANGED mirror
         \/ weighs = "rebase" /\ Rebase(c, w) /\ UNCHANGED <<tab, mirror, own>>
  BY DEF Answered
<1>3. /\ tab[c].open /\ tab[c].recovery = Nothing /\ tab[c].reverted = Nothing
      /\ q0.pending = NoFields /\ q0.inflight # Nothing /\ q0.inflight \in Draft
  <2>1. tab[c].open /\ ~Resting(q0)
    BY <1>2, TheKeeps DEF Resting
  <2> QED  BY <1>1, <1>2, <2>1 DEF Keeps, Queues
<1>4. Unsent(q0) = q0.inflight /\ ours = q0.inflight
  BY <1>3, NoneDraft DEF Unsent
<1>5. /\ w.kind = "done" => w.version \in Nat
      /\ w.kind = "stale" => w.version \in Nat /\ w.fields \in Snapshot
      /\ Silence.kind = "none"
  BY <1>1, TheMessage DEF Silence
<1>6. weighs \in {"conflict", "rebase"} => w.kind = "stale"
  <2>1. w.kind # "stale" => weighs = w.kind
    OBVIOUS
  <2> HIDE DEF w, weighs
  <2> QED  BY <1>1, <2>1, TheMessage
<1>7. weighs \in {"done", "landed"} =>
        w.version \in Nat /\ \A f \in DOMAIN q0.inflight : WasIn(versions, f, q0.inflight[f])
  <2>1. CASE w.kind = "stale" /\ weighs \in {"done", "landed"}
    <3>1. \A f \in DOMAIN q0.inflight : w.fields[f] = q0.inflight[f]
      BY <1>4, <2>1 DEF Verdict
    <3>2. DOMAIN q0.inflight \subseteq Fields
      BY <1>3, IsDraft
    <3>3. \A f \in Fields : WasIn(versions, f, w.fields[f])
      BY <1>1, <2>1 DEF Keeps
    <3> HIDE DEF q0, w
    <3> QED  BY <1>5, <2>1, <3>1, <3>2, <3>3
  <2>2. CASE w.kind # "stale" /\ weighs \in {"done", "landed"}
    <3>1. w.kind = "done"
      <4>1. weighs = w.kind
        BY <2>2
      <4> HIDE DEF w, weighs
      <4> QED  BY <1>1, <2>2, <4>1, TheMessage
    <3> QED  BY <1>1, <1>5, <3>1 DEF Keeps
  <2> QED  BY <2>1, <2>2
<1>8. ASSUME NEW f \in DOMAIN own[c], ~WasIn(versions, f, own[c][f])
      PROVE  f \in DOMAIN q0.inflight /\ q0.inflight[f] = own[c][f]
  BY <1>1, <1>3, <1>4, <1>8 DEF Keeps
<1> HIDE DEF weighs, ours, q0, w, notice
<1>9. ~room'.open /\ ~room'.peer /\ versions' = versions /\ Grown(versions, versions')
  BY <1>1, <1>2
<1>10. ASSUME queue' = [queue EXCEPT ![c] = Stopped(@)], wire' = [wire EXCEPT ![c] = Silence],
              UNCHANGED <<tab, mirror, own>>
       PROVE  Calm'
  <2> DEFINE q == Stopped(q0)
  <2>1. /\ Unsent(q) = Unsent(q0) /\ q.stage = "idle"
    BY <1>1, OtherSteps, CurrentIs DEF Types, Shared
  <2> HIDE DEF q
  <2>2. Keeps(versions, tab[c], q, Silence, mirror[c], own[c])
    BY <1>1, <1>3, <1>5, <2>1 DEF Keeps, HasPending
  <2>3. /\ Keeps(versions', tab[c], q, Silence, mirror[c], own[c])
        /\ queue' = [queue EXCEPT ![c] = q] /\ wire' = [wire EXCEPT ![c] = Silence]
        /\ tab' = [tab EXCEPT ![c] = tab[c]] /\ mirror' = [mirror EXCEPT ![c] = mirror[c]]
        /\ own' = [own EXCEPT ![c] = own[c]]
    BY <1>1, <1>9, <1>10, <2>2 DEF q, q0
  <2> QED  BY <1>9, <2>3, OthersKeep
<1>11. ASSUME weighs \in {"done", "landed"}, Saved(c, w.version), UNCHANGED own
       PROVE  Calm'
  <2> DEFINE q == Acked(q0, w.version)
             x == Pumped(q, {})
             t == [tab[c] EXCEPT !.banner = Nothing, !.reverted = Nothing]
  <2>1. /\ q \in Queues /\ q.stage = "idle" /\ Unsent(q) = NoFields
        /\ q.pending = NoFields /\ q.inflight = Nothing
    BY <1>1, <1>3, <1>7, <1>11, AckedQueue
  <2>2. ~HasPending(q)
    BY <2>1, EmptyDraft DEF HasPending
  <2>3. /\ queue' = [queue EXCEPT ![c] = x] /\ wire' = [wire EXCEPT ![c] = Sent(c, x)]
        /\ tab' = [tab EXCEPT ![c] = t] /\ mirror' = [mirror EXCEPT ![c] = Nothing]
    BY <1>1, <1>11, <2>2 DEF Saved, Pump, q0
  <2>4. /\ t.seat = tab[c].seat /\ t.synced = tab[c].synced /\ t.recovery = Nothing
        /\ t.banner = Nothing /\ t.reverted = Nothing
    BY <1>1, <1>3 DEF Tabs
  <2>5. \A f \in DOMAIN own[c] : WasIn(versions, f, own[c][f])
    BY <1>7, <1>8, <1>11
  <2> HIDE DEF q, t
  <2>6. Keeps(versions, t, q, Silence, Nothing, own[c])
    BY <1>1, <1>5, <2>1, <2>4, <2>5 DEF Keeps
  <2>7. Keeps(versions, t, x, Sent(c, x), Nothing, own[c])
    BY <2>1, <2>6, PumpKeeps
  <2> HIDE DEF x
  <2>8. /\ Keeps(versions', t, x, Sent(c, x), Nothing, own[c])
        /\ own' = [own EXCEPT ![c] = own[c]]
    BY <1>1, <1>9, <1>11, <2>7
  <2> QED  BY <1>9, <2>3, <2>8, OthersKeep
<1>12. ASSUME weighs = "conflict", Conflicted(c, w), UNCHANGED <<mirror, own>>
       PROVE  Calm'
  <2> DEFINE q == Stopped(q0)
             t == [tab[c] EXCEPT !.banner = notice]
  <2>1. /\ Unsent(q) = Unsent(q0) /\ q.stage = "idle"
    BY <1>1, OtherSteps, CurrentIs DEF Types, Shared
  <2>2. notice # Nothing
    BY <1>5, <1>6, <1>12, ANotice DEF notice
  <2>3. /\ queue' = [queue EXCEPT ![c] = q] /\ wire' = [wire EXCEPT ![c] = Silence]
        /\ tab' = [tab EXCEPT ![c] = t]
    BY <1>1, <1>12 DEF Conflicted, q0, notice
  <2>4. /\ t.seat = tab[c].seat /\ t.synced = tab[c].synced /\ t.recovery = Nothing
        /\ t.banner = notice /\ t.reverted = Nothing /\ t.open = tab[c].open
        /\ t.screen = tab[c].screen
    BY <1>1, <1>3 DEF Tabs
  <2> HIDE DEF q, t
  <2>5. Keeps(versions, t, q, Silence, mirror[c], own[c])
    BY <1>1, <1>3, <1>5, <2>1, <2>2, <2>4 DEF Keeps
  <2>6. /\ Keeps(versions', t, q, Silence, mirror[c], own[c])
        /\ mirror' = [mirror EXCEPT ![c] = mirror[c]] /\ own' = [own EXCEPT ![c] = own[c]]
    BY <1>1, <1>9, <1>12, <2>5
  <2> QED  BY <1>9, <2>3, <2>6, OthersKeep
<1>13. ASSUME weighs = "rebase", Exhaust(c, w), UNCHANGED mirror
       PROVE  Calm'
  <2> DEFINE q == [Stopped(q0) EXCEPT !.inflight = Nothing, !.pending = NoFields]
             back == Merge(tab[c].screen, Restrict(q0.base, DOMAIN q0.inflight))
             t == [tab[c] EXCEPT !.banner = notice, !.reverted = tab[c].screen, !.screen = back]
             o == Without(own[c], DOMAIN q0.inflight)
  <2>1. q.stage = "idle" /\ q.inflight = Nothing /\ q.pending = NoFields
    BY <1>1 DEF Stopped, Queues
  <2>2. Resting(q)
    BY <2>1 DEF Resting
  <2>3. notice # Nothing
    BY <1>5, <1>6, <1>13, ANotice DEF notice
  <2>4. /\ queue' = [queue EXCEPT ![c] = q] /\ wire' = [wire EXCEPT ![c] = Silence]
        /\ tab' = [tab EXCEPT ![c] = t] /\ own' = [own EXCEPT ![c] = o]
    BY <1>1, <1>13 DEF Exhaust, q0, notice
  <2> HIDE DEF back
  <2>5. /\ t.seat = tab[c].seat /\ t.synced = tab[c].synced /\ t.recovery = Nothing
        /\ t.banner = notice
    BY <1>1, <1>3 DEF Tabs
  <2>6. ASSUME NEW f \in DOMAIN o PROVE WasIn(versions, f, o[f])
    <3>1. /\ DOMAIN o = DOMAIN own[c] \ DOMAIN q0.inflight
          /\ \A g \in DOMAIN own[c] \ DOMAIN q0.inflight : o[g] = own[c][g]
      BY <1>1, LessDraft
    <3> HIDE DEF o
    <3>2. f \in DOMAIN own[c] /\ f \notin DOMAIN q0.inflight /\ o[f] = own[c][f]
      BY <2>6, <3>1
    <3> QED  BY <1>8, <3>2
  <2> HIDE DEF q, t, o
  <2>7. Keeps(versions, t, q, Silence, mirror[c], o)
    BY <1>1, <1>5, <2>1, <2>2, <2>3, <2>5, <2>6 DEF Keeps
  <2>8. /\ Keeps(versions', t, q, Silence, mirror[c], o)
        /\ mirror' = [mirror EXCEPT ![c] = mirror[c]]
    BY <1>1, <1>9, <1>13, <2>7
  <2> QED  BY <1>9, <2>4, <2>8, OthersKeep
<1>14. ASSUME weighs = "rebase", Rebase(c, w), UNCHANGED <<tab, mirror, own>>
       PROVE  Calm'
  <2> DEFINE r == RebasedOnto(q0, w.version, w.fields)
             q == [r EXCEPT !.stage = "backoff", !.attempt = @ + 1]
  <2>1. q0 \in Queues /\ w.version \in Nat /\ w.fields \in Snapshot
    BY <1>1, <1>5, <1>6, <1>14
  <2>2. /\ r \in Queues /\ r.pending = q0.pending /\ r.inflight = q0.inflight
    BY ONLY <2>1, OtherSteps
  <2>3. queue' = [queue EXCEPT ![c] = q] /\ wire' = [wire EXCEPT ![c] = Silence]
    BY <1>14 DEF Rebase, q0
  <2> HIDE DEF r
  <2>4. q.stage = "backoff" /\ q.pending = q0.pending /\ q.inflight = q0.inflight
    BY <2>2 DEF Queues
  <2> HIDE DEF q
  <2>5. Unsent(q) = Unsent(q0)
    BY <2>4 DEF Unsent
  <2>6. Keeps(versions, tab[c], q, Silence, mirror[c], own[c])
    BY <1>1, <1>3, <1>5, <2>4, <2>5 DEF Keeps, HasPending
  <2>7. /\ Keeps(versions', tab[c], q, Silence, mirror[c], own[c])
        /\ tab' = [tab EXCEPT ![c] = tab[c]] /\ mirror' = [mirror EXCEPT ![c] = mirror[c]]
        /\ own' = [own EXCEPT ![c] = own[c]]
    BY <1>1, <1>9, <1>14, <2>6
  <2> QED  BY <1>9, <2>3, <2>7, OthersKeep
<1> QED  BY <1>2, <1>10, <1>11, <1>12, <1>13, <1>14

(* The retry carries what there was.                                       *)
LEMMA BackoffEndsKeeps ==
    ASSUME Types, Types', Calm, NEW c \in Clients, BackoffEnds(c)
    PROVE  Calm'
<1> DEFINE q0  == queue[c]
           all == Unsent(q0)
           q   == [q0 EXCEPT !.stage = "sent", !.inflight = all, !.pending = NoFields]
           w   == Sent(c, q)
<1>1. /\ Keeps(versions, tab[c], q0, wire[c], mirror[c], own[c])
      /\ tab = [tab EXCEPT ![c] = tab[c]] /\ mirror = [mirror EXCEPT ![c] = mirror[c]]
      /\ own = [own EXCEPT ![c] = own[c]] /\ q0 \in Queues
      /\ Grown(versions, versions) /\ ~room.open /\ ~room.peer
  BY TheKeeps DEF Calm
<1>2. q0.stage = "backoff" /\ q0.inflight # Nothing /\ q0.pending = NoFields
  BY <1>1 DEF BackoffEnds, Keeps
<1>3. /\ UNCHANGED <<setting, versions, room, tab, loose, mirror, count, own, basis>>
      /\ queue' = [queue EXCEPT ![c] = q] /\ wire' = [wire EXCEPT ![c] = w]
  BY <1>2 DEF BackoffEnds
<1>4. all \in Draft
  BY <1>1, TheUnsent
<1> HIDE DEF all, q0
<1>5. q.stage = "sent" /\ q.inflight = all /\ q.pending = NoFields
  BY <1>1 DEF Queues
<1> HIDE DEF q
<1>6. all # Nothing /\ Unsent(q) = all
  BY <1>4, <1>5, NoneDraft DEF Unsent
<1>7. w.kind = "request" /\ w.patch = q.inflight
  BY <1>5 DEF Sent, Request
<1> HIDE DEF w
<1>8. tab[c].recovery = Nothing /\ tab[c].reverted = Nothing
  BY <1>1, <1>2 DEF Keeps, Resting
<1>9. HasPending(q) = HasPending(q0)
  BY <1>6 DEF HasPending, all
<1>10. Keeps(versions, tab[c], q, w, mirror[c], own[c])
  BY <1>1, <1>5, <1>6, <1>7, <1>8, <1>9 DEF Keeps, all
<1>11. /\ tab' = [tab EXCEPT ![c] = tab[c]] /\ mirror' = [mirror EXCEPT ![c] = mirror[c]]
       /\ own' = [own EXCEPT ![c] = own[c]] /\ ~room'.open /\ ~room'.peer
       /\ Grown(versions, versions') /\ Keeps(versions', tab[c], q, w, mirror[c], own[c])
       /\ queue' = [queue EXCEPT ![c] = q] /\ wire' = [wire EXCEPT ![c] = w]
  BY <1>1, <1>3, <1>10
<1> QED  BY <1>11, OthersKeep

(* "Keep mine": what is on the screen is sent again.                       *)
LEMMA KeepMineKeeps ==
    ASSUME Types, Types', Patient, Calm, NEW c \in Clients, KeepMine(c)
    PROVE  Calm'
<1> DEFINE s     == tab[c]
           mine  == IF s.reverted = Nothing THEN s.screen ELSE s.reverted
           props == {f \in Fields \ RoomOwned : mine[f] # s.banner.fields[f]}
           draft == Restrict(mine, RoomOwned \cup props)
           r     == RebasedOnto(queue[c], s.banner.version, s.banner.fields)
           next  == Changed(r, draft)
           q     == [next EXCEPT !.timer = FALSE]
           x     == Pumped(q, {})
           t     == [s EXCEPT !.screen = mine, !.banner = Nothing, !.reverted = Nothing]
           m     == Mirrored(next)
           mineOnly == {f \in DOMAIN draft : draft[f][1] = c}
           given == Restrict(draft, mineOnly)
           o     == Merge(own[c], given)
<1>1. /\ Keeps(versions, s, queue[c], wire[c], mirror[c], own[c])
      /\ s \in Tabs /\ queue[c] \in Queues /\ own[c] \in Draft
      /\ Held(s) = {} /\ ~RoomOwns(s) /\ ~room.open /\ ~room.peer
      /\ Grown(versions, versions) /\ tab \in [Clients -> Tabs]
      /\ queue[c].stage # "sent" => wire[c] = Silence
  BY TheKeeps DEF Calm, Types, Pages
<1>2. s.open /\ queue[c].stage = "idle" /\ s.banner # Nothing
  BY DEF KeepMine, MayAct, Patient
<1>3. /\ mine \in Snapshot /\ s.banner.version \in Nat /\ s.banner.fields \in Snapshot
  BY <1>1, <1>2 DEF Tabs, Notices
<1>4. draft \in Draft /\ DOMAIN draft = RoomOwned \cup props
      /\ \A f \in RoomOwned \cup props : draft[f] = mine[f]
  <2>1. RoomOwned \cup props \subseteq DOMAIN mine /\ mine \in Draft
    BY <1>3, WholeDraft DEF RoomOwned, Fields
  <2> HIDE DEF mine, props
  <2> QED  BY <2>1, CutDraft
<1>5. draft # NoFields
  <2>1. "body" \in DOMAIN draft
    BY <1>4 DEF RoomOwned
  <2> HIDE DEF draft
  <2> QED  BY <2>1, EmptyDraft
<1>6. /\ r \in Queues /\ Unsent(r) = Unsent(queue[c]) /\ r.stage = "idle"
  <2>1. queue[c] \in Queues /\ s.banner.version \in Nat /\ s.banner.fields \in Snapshot
    BY <1>1, <1>3
  <2> HIDE DEF s
  <2>2. /\ r \in Queues /\ Unsent(r) = Unsent(queue[c]) /\ r.stage = queue[c].stage
    BY ONLY <2>1, OtherSteps
  <2> QED  BY <1>2, <2>2
<1> HIDE DEF r
<1>7. /\ next \in Queues /\ next.stage = "idle"
      /\ DOMAIN Unsent(next) = DOMAIN Unsent(queue[c]) \cup DOMAIN draft
      /\ \A f \in DOMAIN draft : Unsent(next)[f] = draft[f]
      /\ \A f \in DOMAIN Unsent(queue[c]) \ DOMAIN draft : Unsent(next)[f] = Unsent(queue[c])[f]
  <2> HIDE DEF draft
  <2>1. /\ next \in Queues /\ next.stage = r.stage
        /\ DOMAIN Unsent(next) = DOMAIN Unsent(r) \cup DOMAIN draft
        /\ \A f \in DOMAIN draft : Unsent(next)[f] = draft[f]
        /\ \A f \in DOMAIN Unsent(r) \ DOMAIN draft : Unsent(next)[f] = Unsent(r)[f]
    BY <1>4, <1>6, ChangedQueue
  <2> QED  BY <1>6, <2>1
<1>8. /\ tab' = [tab EXCEPT ![c] = t] /\ mirror' = [mirror EXCEPT ![c] = m]
      /\ own' = [own EXCEPT ![c] = o]
      /\ queue' = [queue EXCEPT ![c] = x] /\ wire' = [wire EXCEPT ![c] = Sent(c, x)]
      /\ UNCHANGED <<setting, versions, room, loose, count>>
  <2> DEFINE body  == IF RoomOwns(s) THEN {} ELSE RoomOwned
             draft0 == Restrict(mine, body \cup props)
             next0  == IF draft0 = NoFields THEN r ELSE Changed(r, draft0)
             sends0 == [next0 EXCEPT !.timer = FALSE]
             given0 == Restrict(draft0, {f \in DOMAIN draft0 : draft0[f][1] = c})
  <2>1. /\ next0.stage = "idle" => Pump(c, sends0)
        /\ mirror' = [mirror EXCEPT ![c] = IF draft0 = NoFields THEN @ ELSE Mirrored(next0)]
        /\ tab' = [tab EXCEPT ![c].screen = mine, ![c].banner = Nothing, ![c].reverted = Nothing]
        /\ own' = [own EXCEPT ![c] = Merge(@, given0)]
        /\ UNCHANGED <<setting, versions, room, loose, count>>
    BY DEF KeepMine, r
  <2>2. draft0 = draft
    BY <1>1
  <2>3. next0 = next
    <3> HIDE DEF draft, draft0
    <3> QED  BY <1>5, <2>2
  <2>4. tab' = [tab EXCEPT ![c] = t]
    BY <1>1, <2>1
  <2>5. given0 = given /\ sends0 = q
    BY <2>2, <2>3
  <2> HIDE DEF draft, draft0, next, next0, sends0, q, given, given0, t
  <2>6. Pump(c, q) /\ mirror' = [mirror EXCEPT ![c] = m]
    BY <1>5, <1>7, <2>1, <2>2, <2>3, <2>5
  <2>7. own' = [own EXCEPT ![c] = o]
    BY <2>1, <2>5
  <2> QED  BY <1>1, <2>1, <2>4, <2>6, <2>7 DEF Pump
<1>9. /\ given \in Draft /\ DOMAIN given = mineOnly /\ \A f \in mineOnly : given[f] = draft[f]
  <2>1. mineOnly \subseteq DOMAIN draft
    OBVIOUS
  <2> HIDE DEF draft, mineOnly
  <2> QED  BY <1>4, <2>1, CutDraft
<1>10. mineOnly \subseteq DOMAIN draft
  OBVIOUS
<1> HIDE DEF given, mineOnly, draft, next
<1>11. /\ DOMAIN o = DOMAIN own[c] \cup mineOnly
       /\ \A f \in mineOnly : o[f] = draft[f]
       /\ \A f \in DOMAIN own[c] \ mineOnly : o[f] = own[c][f]
  <2>1. /\ DOMAIN o = DOMAIN own[c] \cup DOMAIN given
        /\ \A f \in DOMAIN given : o[f] = given[f]
        /\ \A f \in DOMAIN own[c] \ DOMAIN given : o[f] = own[c][f]
    BY <1>1, <1>9, MergedDraft
  <2> HIDE DEF o
  <2> QED  BY <1>9, <2>1
<1>12. q \in Queues /\ q.stage = "idle" /\ q.pending = next.pending /\ q.inflight = next.inflight
  BY <1>7 DEF Queues
<1> HIDE DEF q
<1>13. Unsent(q) = Unsent(next)
  BY <1>12 DEF Unsent
<1>14. m # Nothing /\ m.fields = Unsent(next)
  <2>1. Unsent(next) \in Draft /\ next.version \in Nat
    BY <1>7, TheUnsent DEF Queues
  <2> QED  BY <2>1, NothingAssumption DEF Mirrored
<1>15. /\ t.seat = s.seat /\ t.synced = s.synced /\ t.open /\ t.recovery = s.recovery
       /\ t.banner = Nothing /\ t.reverted = Nothing /\ t.screen = mine
  BY <1>1, <1>2 DEF Tabs
<1>16. s.recovery = Nothing
  BY <1>1, <1>2 DEF Keeps
<1>17. ASSUME NEW f \in DOMAIN o, ~WasIn(versions, f, o[f])
       PROVE  f \in DOMAIN Unsent(next) /\ Unsent(next)[f] = o[f] /\ mine[f] = o[f]
  <2>1. CASE f \in mineOnly
    BY <1>4, <1>7, <1>10, <1>11, <2>1
  <2>2. CASE f \notin mineOnly
    <3>1. f \in DOMAIN own[c] /\ o[f] = own[c][f]
      BY <1>11, <1>17, <2>2
    <3>2. /\ f \in DOMAIN Unsent(queue[c]) /\ Unsent(queue[c])[f] = o[f] /\ s.screen[f] = o[f]
      BY <1>1, <1>2, <1>16, <1>17, <3>1 DEF Keeps
    <3>3. s.reverted = Nothing
      <4>1. HasPending(queue[c])
        BY <3>2 DEF HasPending
      <4>2. ~Resting(queue[c])
        BY <4>1, EmptyDraft DEF Resting, HasPending, Unsent
      <4> QED  BY <1>1, <4>2 DEF Keeps
    <3>4. mine[f] = o[f]
      BY <3>2, <3>3
    <3>5. CASE f \in DOMAIN draft
      BY <1>4, <1>7, <3>4, <3>5
    <3>6. CASE f \notin DOMAIN draft
      BY <1>7, <3>2, <3>4, <3>6
    <3> QED  BY <3>5, <3>6
  <2> QED  BY <2>1, <2>2
<1>18. HasPending(q) /\ DOMAIN m.fields # {}
  BY <1>4, <1>7, <1>13, <1>14 DEF HasPending, RoomOwned
<1> HIDE DEF s, mine, t, m, o
<1>19. Silence.kind = "none"
  BY DEF Silence
<1>20. Keeps(versions, t, q, Silence, m, o)
  BY <1>1, <1>12, <1>13, <1>14, <1>15, <1>16, <1>17, <1>18, <1>19 DEF Keeps
<1>21. Keeps(versions, t, x, Sent(c, x), m, o)
  BY <1>12, <1>20, PumpKeeps
<1> HIDE DEF x
<1>22. /\ Keeps(versions', t, x, Sent(c, x), m, o) /\ ~room'.open /\ ~room'.peer
       /\ Grown(versions, versions')
  BY <1>1, <1>8, <1>21
<1> QED  BY <1>8, <1>22, OthersKeep

(* "Take theirs": nothing is kept.                                         *)
LEMMA TakeTheirsKeeps ==
    ASSUME Types, Types', Patient, Calm, NEW c \in Clients, TakeTheirs(c)
    PROVE  Calm'
<1> DEFINE s == tab[c]
           p == [queue[c] EXCEPT !.pending = NoFields, !.inflight = Nothing, !.timer = FALSE]
           q == RebasedOnto(p, s.banner.version, s.banner.fields)
           t == [s EXCEPT !.screen = s.banner.fields, !.banner = Nothing, !.reverted = Nothing]
<1>1. /\ Keeps(versions, s, queue[c], wire[c], mirror[c], own[c])
      /\ s \in Tabs /\ queue[c] \in Queues /\ wire = [wire EXCEPT ![c] = wire[c]]
      /\ ~room.open /\ ~room.peer /\ Grown(versions, versions) /\ tab \in [Clients -> Tabs]
      /\ queue[c].stage # "sent" => wire[c] = Silence
  BY TheKeeps DEF Calm, Types, Pages
<1>2. /\ s.open /\ s.banner # Nothing /\ queue[c].stage = "idle"
      /\ queue' = [queue EXCEPT ![c] = q]
      /\ mirror' = [mirror EXCEPT ![c] = Nothing] /\ tab' = [tab EXCEPT ![c] = t]
      /\ own' = [own EXCEPT ![c] = NoFields]
      /\ UNCHANGED <<setting, versions, room, wire, loose, count>>
  BY <1>1 DEF TakeTheirs, MayAct, Patient
<1>3. s.banner.version \in Nat /\ s.banner.fields \in Snapshot
  BY <1>1, <1>2 DEF Tabs, Notices
<1>4. p \in Queues /\ p.stage = "idle" /\ p.inflight = Nothing /\ p.pending = NoFields
  BY <1>1, <1>2, EmptyDraft DEF Queues
<1>5. t.seat = s.seat /\ t.synced = s.synced /\ t.recovery = s.recovery /\ t.reverted = Nothing
      /\ t.banner = Nothing
  BY <1>1 DEF Tabs
<1>6. s.recovery = Nothing
  BY <1>1, <1>2 DEF Keeps
<1> HIDE DEF p, t, s
<1>7. q.stage = "idle"
  BY <1>3, <1>4, OtherSteps
<1>8. wire[c] = Silence /\ Silence.kind = "none" /\ DOMAIN NoFields = {}
  BY <1>1, <1>2, EmptyDraft DEF Silence
<1> HIDE DEF q
<1>9. Keeps(versions, t, q, wire[c], Nothing, NoFields)
  BY <1>1, <1>5, <1>6, <1>7, <1>8 DEF Keeps
<1>10. /\ Keeps(versions', t, q, wire[c], Nothing, NoFields) /\ ~room'.open /\ ~room'.peer
       /\ Grown(versions, versions') /\ wire' = [wire EXCEPT ![c] = wire[c]]
  BY <1>1, <1>2, <1>9
<1> QED  BY <1>2, <1>10, OthersKeep

(* The draft that was offered goes back into the queue and on the screen.  *)
LEMMA RestoreDraftKeeps ==
    ASSUME Types, Types', Calm, NEW c \in Clients, RestoreDraft(c)
    PROVE  Calm'
<1> DEFINE s    == tab[c]
           d    == s.recovery
           q    == Changed(queue[c], d)
           m    == Mirrored(q)
           back == Merge(s.screen, d)
           t    == [s EXCEPT !.screen = back, !.recovery = Nothing]
<1>1. /\ Keeps(versions, s, queue[c], wire[c], mirror[c], own[c])
      /\ s \in Tabs /\ queue[c] \in Queues /\ wire = [wire EXCEPT ![c] = wire[c]]
      /\ own = [own EXCEPT ![c] = own[c]]
      /\ ~room.open /\ ~room.peer /\ Grown(versions, versions) /\ tab \in [Clients -> Tabs]
      /\ queue[c].stage # "sent" => wire[c] = Silence
      /\ ~RoomOwns(s)
  BY TheKeeps DEF Calm, Types, Pages
<1>2. s.open /\ d # Nothing
  BY DEF RestoreDraft, MayAct
<1>3. /\ mirror[c] # Nothing /\ mirror[c].fields = d /\ DOMAIN d # {} /\ Resting(queue[c])
      /\ s.banner = Nothing /\ s.reverted = Nothing
  BY <1>1, <1>2 DEF Keeps
<1>4. d \in Draft /\ s.screen \in Snapshot
  BY <1>1, <1>2 DEF Tabs
<1>5. d # NoFields
  BY <1>3, EmptyDraft
<1>6. /\ tab' = [tab EXCEPT ![c] = t] /\ queue' = [queue EXCEPT ![c] = q]
      /\ mirror' = [mirror EXCEPT ![c] = m]
      /\ UNCHANGED <<setting, versions, room, wire, loose, count, own>>
  BY <1>1, <1>5 DEF RestoreDraft
<1> HIDE DEF d
<1>7. \A f \in DOMAIN d : back[f] = d[f]
  <2>1. s.screen \in Draft
    BY <1>4, WholeDraft
  <2> QED  BY <1>4, <2>1, MergedDraft
<1> HIDE DEF back
<1>8. /\ t.seat = s.seat /\ t.synced = s.synced /\ t.recovery = Nothing /\ t.banner = Nothing
      /\ t.reverted = Nothing /\ t.screen = back /\ t.open
  BY <1>1, <1>2, <1>3 DEF Tabs
<1>9. /\ q \in Queues /\ q.stage = "idle" /\ DOMAIN d \subseteq DOMAIN Unsent(q)
      /\ \A f \in DOMAIN d : Unsent(q)[f] = d[f]
  <2>1. q \in Queues /\ q.stage = queue[c].stage
        /\ DOMAIN Unsent(q) = DOMAIN Unsent(queue[c]) \cup DOMAIN d
        /\ \A f \in DOMAIN d : Unsent(q)[f] = d[f]
    BY <1>1, <1>4, ChangedQueue
  <2> HIDE DEF q
  <2> QED  BY <1>3, <2>1 DEF Resting
<1> HIDE DEF q, t
<1>10. m # Nothing /\ m.fields = Unsent(q)
  <2>1. Unsent(q) \in Draft /\ q.version \in Nat
    BY <1>9, TheUnsent DEF Queues
  <2> QED  BY <2>1, NothingAssumption DEF Mirrored
<1> HIDE DEF m
<1>11. HasPending(q) /\ DOMAIN m.fields # {}
  BY <1>3, <1>9, <1>10 DEF HasPending
<1>12. ASSUME NEW f \in DOMAIN own[c], ~WasIn(versions, f, own[c][f])
       PROVE  f \in DOMAIN Unsent(q) /\ Unsent(q)[f] = own[c][f] /\ t.screen[f] = own[c][f]
  <2>1. f \in DOMAIN d /\ d[f] = own[c][f]
    BY <1>1, <1>3, <1>12 DEF Keeps
  <2> QED  BY <1>7, <1>8, <1>9, <2>1
<1>13. wire[c] = Silence /\ Silence.kind = "none"
  BY <1>1, <1>3 DEF Silence, Resting
<1> HIDE DEF s
<1>14. Keeps(versions, t, q, wire[c], m, own[c])
  BY <1>1, <1>8, <1>9, <1>10, <1>11, <1>12, <1>13 DEF Keeps
<1>15. /\ Keeps(versions', t, q, wire[c], m, own[c]) /\ ~room'.open /\ ~room'.peer
       /\ Grown(versions, versions') /\ wire' = [wire EXCEPT ![c] = wire[c]]
       /\ own' = [own EXCEPT ![c] = own[c]]
  BY <1>1, <1>6, <1>14
<1> QED  BY <1>6, <1>15, OthersKeep

(* Or it is dropped.                                                       *)
LEMMA DiscardDraftKeeps ==
    ASSUME Types, Types', Calm, NEW c \in Clients, DiscardDraft(c)
    PROVE  Calm'
<1> DEFINE s == tab[c]
           t == [s EXCEPT !.recovery = Nothing]
           o == Without(own[c], DOMAIN s.recovery)
<1>1. /\ Keeps(versions, s, queue[c], wire[c], mirror[c], own[c])
      /\ s \in Tabs /\ queue[c] \in Queues /\ wire = [wire EXCEPT ![c] = wire[c]]
      /\ queue = [queue EXCEPT ![c] = queue[c]] /\ own[c] \in Draft
      /\ ~room.open /\ ~room.peer /\ Grown(versions, versions) /\ tab \in [Clients -> Tabs]
      /\ queue[c].stage # "sent" => wire[c] = Silence
  BY TheKeeps DEF Calm, Types, Pages
<1>2. /\ s.recovery # Nothing /\ tab' = [tab EXCEPT ![c] = t]
      /\ mirror' = [mirror EXCEPT ![c] = Nothing] /\ own' = [own EXCEPT ![c] = o]
      /\ UNCHANGED <<setting, versions, room, queue, wire, loose, count, basis>>
  BY <1>1 DEF DiscardDraft
<1>3. /\ mirror[c].fields = s.recovery /\ Resting(queue[c])
      /\ s.banner = Nothing /\ s.reverted = Nothing
  BY <1>1, <1>2 DEF Keeps
<1>4. ASSUME NEW f \in DOMAIN o PROVE WasIn(versions, f, o[f])
  <2>1. /\ DOMAIN o = DOMAIN own[c] \ DOMAIN s.recovery
        /\ \A g \in DOMAIN own[c] \ DOMAIN s.recovery : o[g] = own[c][g]
    BY <1>1, LessDraft
  <2> HIDE DEF o
  <2>2. f \in DOMAIN own[c] /\ f \notin DOMAIN s.recovery /\ o[f] = own[c][f]
    BY <1>4, <2>1
  <2> QED  BY <1>1, <1>3, <2>2 DEF Keeps
<1>5. /\ t.seat = s.seat /\ t.synced = s.synced /\ t.recovery = Nothing /\ t.reverted = Nothing
      /\ t.banner = Nothing
  BY <1>1, <1>3 DEF Tabs
<1>6. wire[c] = Silence /\ Silence.kind = "none"
  BY <1>1, <1>3 DEF Silence, Resting
<1> HIDE DEF s, t, o
<1>7. Keeps(versions, t, queue[c], wire[c], Nothing, o)
  BY <1>1, <1>3, <1>4, <1>5, <1>6 DEF Keeps, Resting
<1>8. /\ Keeps(versions', t, queue[c], wire[c], Nothing, o) /\ ~room'.open /\ ~room'.peer
       /\ Grown(versions, versions') /\ wire' = [wire EXCEPT ![c] = wire[c]]
       /\ queue' = [queue EXCEPT ![c] = queue[c]]
  BY <1>1, <1>2, <1>7
<1> QED  BY <1>2, <1>8, OthersKeep

(* A tab is closed: what was unsent is in the mirror.                      *)
LEMMA CloseKeeps ==
    ASSUME Types, Types', Patient, Calm, NEW c \in Clients, NEW tidy, Close(c, tidy)
    PROVE  Calm'
<1> DEFINE m == IF tidy /\ HasPending(queue[c]) THEN Mirrored(queue[c]) ELSE mirror[c]
<1>1. /\ Keeps(versions, tab[c], queue[c], wire[c], mirror[c], own[c])
      /\ queue[c] \in Queues /\ own = [own EXCEPT ![c] = own[c]]
      /\ ~room.open /\ ~room.peer /\ Grown(versions, versions)
      /\ versions \in Seq(Snapshot) /\ Version > 0
  BY TheKeeps DEF Calm, Types, Shared
<1>2. /\ tab[c].open /\ tab[c].recovery = Nothing
      /\ mirror' = [mirror EXCEPT ![c] = m] /\ tab' = [tab EXCEPT ![c] = Shut]
      /\ queue' = [queue EXCEPT ![c] = Created] /\ wire' = [wire EXCEPT ![c] = Silence]
      /\ UNCHANGED <<setting, versions, room, own, basis>>
  BY DEF Close, MayAct, Patient
<1>3. Unsent(queue[c]) \in Draft /\ queue[c].version \in Nat
  BY <1>1, TheUnsent DEF Queues
<1>4. tidy /\ HasPending(queue[c]) =>
        m # Nothing /\ m.fields = Unsent(queue[c]) /\ DOMAIN m.fields # {}
  BY <1>3, NothingAssumption DEF Mirrored, HasPending
<1>5. ~(tidy /\ HasPending(queue[c])) => m = mirror[c]
  OBVIOUS
<1> HIDE DEF m
<1>6. /\ Shut.open = FALSE /\ Shut.synced = FALSE /\ Shut.seat = "none"
      /\ Shut.recovery = Nothing /\ Shut.reverted = Nothing
  BY DEF Shut
<1>7. Created.stage = "idle"
  BY <1>1, CreatedQueue
<1>8. Silence.kind = "none"
  BY DEF Silence
<1>9. m # Nothing => DOMAIN m.fields # {}
  BY <1>1, <1>4, <1>5 DEF Keeps
<1>10. ASSUME NEW f \in DOMAIN own[c], ~WasIn(versions, f, own[c][f])
       PROVE  m # Nothing /\ f \in DOMAIN m.fields /\ m.fields[f] = own[c][f]
  BY <1>1, <1>2, <1>4, <1>5, <1>10 DEF Keeps
<1>11. Keeps(versions, Shut, Created, Silence, m, own[c])
  BY ONLY <1>6, <1>7, <1>8, <1>9, <1>10 DEF Keeps
<1>12. /\ Keeps(versions', Shut, Created, Silence, m, own[c]) /\ ~room'.open /\ ~room'.peer
       /\ Grown(versions, versions') /\ own' = [own EXCEPT ![c] = own[c]]
  BY <1>1, <1>2, <1>11
<1> QED  BY <1>2, <1>12, OthersKeep

(* The page of a client whose mirror has what is unsaved, as it is loaded. *)
LEMMA LoadedKeeps ==
    ASSUME versions \in Seq(Snapshot), Version > 0, setting.collab = FALSE, NEW c,
           mirror[c] \in Mirrors, mirror[c] # Nothing => DOMAIN mirror[c].fields # {},
           NEW o, \A f \in DOMAIN o : ~WasIn(versions, f, o[f]) =>
                     /\ mirror[c] # Nothing /\ f \in DOMAIN mirror[c].fields
                     /\ mirror[c].fields[f] = o[f]
    PROVE  Keeps(versions, Loaded(c).tab, Loaded(c).queue, Silence, mirror[c], o)
<1> DEFINE applies == mirror[c] # Nothing /\ mirror[c].version = Version
           offered == mirror[c] # Nothing /\ mirror[c].version # Version
           draft   == IF applies THEN mirror[c].fields ELSE NoFields
           offer   == IF offered THEN mirror[c].fields ELSE Nothing
           screen  == Merge(Current, draft)
           t       == Loaded(c).tab
           q       == Loaded(c).queue
<1>1. /\ draft \in Draft /\ (mirror[c] # Nothing => mirror[c].fields \in Draft)
      /\ (offered => offer # Nothing /\ offer = mirror[c].fields) /\ (~offered => offer = Nothing)
      /\ applies => draft = mirror[c].fields
  BY EmptyDraft, NothingAssumption DEF Mirrors
<1>2. \A f \in DOMAIN draft : screen[f] = draft[f]
  <2>1. Current \in Draft
    BY CurrentIs, WholeDraft
  <2> HIDE DEF draft
  <2> QED  BY <1>1, <2>1, MergedDraft
<1>3. /\ t.open /\ t.synced = FALSE /\ t.seat = "none" /\ t.screen = screen
      /\ t.recovery = offer /\ t.banner = Nothing /\ t.reverted = Nothing
  BY DEF Loaded
<1>4. q = IF applies THEN Changed(Created, draft) ELSE Created
  BY DEF Loaded
<1>5. /\ Created \in Queues /\ Created.stage = "idle" /\ Created.pending = NoFields
      /\ Created.inflight = Nothing
  BY CreatedQueue
<1>6. applies => /\ q.stage = "idle" /\ DOMAIN draft \subseteq DOMAIN Unsent(q)
                 /\ \A f \in DOMAIN draft : Unsent(q)[f] = draft[f]
  <2> HIDE DEF draft, q
  <2> DEFINE x == Changed(Created, draft)
  <2>1. Created \in Queues /\ Created.stage = "idle" /\ draft \in Draft
    BY <1>1, <1>5
  <2>2. /\ x.stage = "idle" /\ DOMAIN draft \subseteq DOMAIN Unsent(x)
        /\ \A f \in DOMAIN draft : Unsent(x)[f] = draft[f]
    <3>1. /\ x.stage = Created.stage
          /\ DOMAIN Unsent(x) = DOMAIN Unsent(Created) \cup DOMAIN draft
          /\ \A f \in DOMAIN draft : Unsent(x)[f] = draft[f]
      BY ONLY <2>1, ChangedQueue
    <3> HIDE DEF x
    <3> QED  BY ONLY <2>1, <3>1
  <2>3. applies => q = x
    BY <1>4
  <2> HIDE DEF x, applies
  <2> QED  BY ONLY <2>2, <2>3
<1>7. ~applies => q.stage = "idle" /\ Resting(q)
  BY <1>4, <1>5 DEF Resting
<1>8. offered => ~applies
  OBVIOUS
<1>9. mirror[c] # Nothing => applies \/ offered
  OBVIOUS
<1>10. applies => mirror[c] # Nothing
  OBVIOUS
<1> HIDE DEF t, q, draft, offer, screen, applies, offered
<1>11. applies => HasPending(q)
  BY <1>1, <1>6, <1>10 DEF HasPending
<1>12. Silence.kind = "none"
  BY DEF Silence
<1>13. ASSUME NEW f \in DOMAIN o, ~WasIn(versions, f, o[f]), t.recovery = Nothing
       PROVE  f \in DOMAIN Unsent(q) /\ Unsent(q)[f] = o[f] /\ t.screen[f] = o[f]
  <2>1. f \in DOMAIN mirror[c].fields /\ mirror[c].fields[f] = o[f] /\ applies
    BY <1>1, <1>3, <1>9, <1>13
  <2> QED  BY <1>1, <1>2, <1>3, <1>6, <2>1
<1>14. q.stage = "idle" /\ (offered => Resting(q))
  BY <1>6, <1>7, <1>8
<1>15. t.recovery # Nothing => offered /\ t.recovery = mirror[c].fields
  BY <1>1, <1>3
<1>16. mirror[c] # Nothing => HasPending(q) \/ t.recovery # Nothing
  BY <1>1, <1>3, <1>9, <1>11
<1>17. offered => mirror[c] # Nothing
  BY DEF offered
<1>18. Keeps(versions, t, q, Silence, mirror[c], o)
  <2>1. /\ t.recovery # Nothing =>
             /\ Resting(q) /\ t.banner = Nothing /\ t.reverted = Nothing
             /\ mirror[c] # Nothing /\ mirror[c].fields = t.recovery
        /\ t.reverted # Nothing => Resting(q) /\ t.banner # Nothing
    BY ONLY <1>3, <1>14, <1>15, <1>17
  <2>2. \A f \in DOMAIN o : ~WasIn(versions, f, o[f]) =>
             /\ mirror[c] # Nothing /\ f \in DOMAIN mirror[c].fields
             /\ mirror[c].fields[f] = o[f]
             /\ t.open /\ t.recovery = Nothing =>
                   f \in DOMAIN Unsent(q) /\ Unsent(q)[f] = o[f] /\ t.screen[f] = o[f]
    BY <1>13
  <2>3. /\ t.seat = "none" /\ ~t.synced
        /\ q.stage # "idle" => q.pending = NoFields /\ q.inflight # Nothing
        /\ Silence.kind = "request" => Silence.patch = q.inflight
        /\ Silence.kind = "done" => \A f \in DOMAIN q.inflight : WasIn(versions, f, q.inflight[f])
        /\ Silence.kind = "stale" => \A f \in Fields : WasIn(versions, f, Silence.fields[f])
    BY ONLY <1>3, <1>12, <1>14
  <2>4. mirror[c] # Nothing =>
             /\ DOMAIN mirror[c].fields # {}
             /\ t.open => HasPending(q) \/ t.banner # Nothing \/ t.recovery # Nothing
    BY <1>16
  <2> QED  BY ONLY <2>1, <2>2, <2>3, <2>4 DEF Keeps
<1> QED  BY <1>18 DEF t, q

(* A tab is opened: the mirror is put back, or offered.                    *)
LEMMA LoadKeeps ==
    ASSUME Types, Types', Patient, Calm, NEW c \in Clients, Load(c)
    PROVE  Calm'
<1> DEFINE t == Loaded(c).tab
           q == Loaded(c).queue
<1>1. /\ Keeps(versions, tab[c], queue[c], wire[c], mirror[c], own[c])
      /\ wire = [wire EXCEPT ![c] = wire[c]] /\ mirror = [mirror EXCEPT ![c] = mirror[c]]
      /\ own = [own EXCEPT ![c] = own[c]] /\ mirror[c] \in Mirrors
      /\ queue[c].stage # "sent" => wire[c] = Silence
      /\ queue[c].stage = "sent" => tab[c].open
      /\ ~room.open /\ ~room.peer /\ Grown(versions, versions)
      /\ versions \in Seq(Snapshot) /\ Version > 0 /\ setting \in Settings
  BY TheKeeps DEF Calm, Types, Shared
<1>2. /\ ~tab[c].open /\ tab' = [tab EXCEPT ![c] = t] /\ queue' = [queue EXCEPT ![c] = q]
      /\ UNCHANGED <<setting, versions, room, wire, loose, mirror, count, own>>
  BY DEF Load
<1>3. setting.collab = FALSE
  BY <1>1, SaveQueueAssumption DEF Patient, Setting
<1>4. Keeps(versions, t, q, Silence, mirror[c], own[c])
  <2>1. /\ mirror[c] # Nothing => DOMAIN mirror[c].fields # {}
        /\ \A f \in DOMAIN own[c] : ~WasIn(versions, f, own[c][f]) =>
              /\ mirror[c] # Nothing /\ f \in DOMAIN mirror[c].fields
              /\ mirror[c].fields[f] = own[c][f]
    BY <1>1 DEF Keeps
  <2> QED  BY ONLY <1>1, <1>3, <2>1, LoadedKeeps
<1> HIDE DEF t, q
<1>5. /\ Keeps(versions', t, q, wire[c], mirror[c], own[c])
      /\ wire' = [wire EXCEPT ![c] = wire[c]] /\ mirror' = [mirror EXCEPT ![c] = mirror[c]]
      /\ own' = [own EXCEPT ![c] = own[c]] /\ ~room'.open /\ ~room'.peer
      /\ Grown(versions, versions')
  BY <1>1, <1>2, <1>4
<1>6. tab' = [tab EXCEPT ![c] = t] /\ queue' = [queue EXCEPT ![c] = q]
  BY <1>2
<1>7. Types /\ Types' /\ Calm
  OBVIOUS
<1> QED  BY ONLY <1>5, <1>6, <1>7, OthersKeep

(* Every page keeps what it has while only the object goes on.             *)
LEMMA PagesKeep ==
    ASSUME Types, Types', Calm, Grown(versions, versions'), ~room'.open, ~room'.peer,
           UNCHANGED <<tab, queue, wire, mirror, own>>
    PROVE  Calm'
<1>1. Len(versions) \in Nat /\ Len(versions') \in Nat
  BY DEF Types, Shared, Version
<1>2. ASSUME NEW d \in Clients
      PROVE  Keeps(versions', tab'[d], queue'[d], wire'[d], mirror'[d], own'[d])
  <2>1. Keeps(versions, tab[d], queue[d], wire[d], mirror[d], own[d])
    BY DEF Calm
  <2>2. Keeps(versions', tab[d], queue[d], wire[d], mirror[d], own[d])
    BY <1>1, <2>1, KeepsLater
  <2> QED  BY <2>2
<1> QED  BY <1>2 DEF Calm

(* An object with one more version has grown.                              *)
LEMMA AppendedGrows ==
    ASSUME versions \in Seq(Snapshot), NEW s \in Snapshot, NEW us,
           us = versions \/ us = Append(versions, s)
    PROVE  Grown(versions, us)
<1>1. CASE us = versions
  BY <1>1 DEF Grown
<1>2. CASE us = Append(versions, s)
  <2>1. Len(us) = Version + 1 /\ Version \in Nat /\ \A i \in 1..Version : us[i] = versions[i]
    BY <1>2, OneMore DEF Version
  <2> QED  BY <2>1 DEF Grown, Version
<1> QED  BY <1>1, <1>2

(* The steps of the box and of the network that no page takes part in; the *)
(* room is closed and nobody joins it.                                     *)
LEMMA ElsewhereKeeps ==
    ASSUME Types, Types', Patient, Calm,
           \/ \E r \in loose : ServeLoose(r) \/ LoseLoose(r)
           \/ \E f \in Fields : AgentWrites(f)
           \/ RoomFlushes \/ PeerComes \/ PeerGoes \/ RoomCloses
    PROVE  Calm'
<1>0. /\ versions \in Seq(Snapshot) /\ Version > 0 /\ Current \in Snapshot
      /\ room \in Rooms /\ loose \subseteq Requests /\ count \in Counts
      /\ ~room.open /\ ~room.peer /\ ~room.dirty
      /\ Grown(versions, versions)
  <2>1. /\ versions \in Seq(Snapshot) /\ Version > 0 /\ Current \in Snapshot
        /\ room \in Rooms /\ loose \subseteq Requests /\ count \in Counts
        /\ ~room.open /\ ~room.peer /\ ~room.dirty
    BY CurrentIs DEF Types, Shared, Calm
  <2> QED  BY <2>1, AppendedGrows
<1>1. ASSUME NEW r \in loose, ServeLoose(r) PROVE Calm'
  <2> DEFINE s == Merge(Current, r.patch)
  <2>1. r.patch \in Draft
    BY <1>0, <1>1 DEF Requests
  <2>2. s \in Snapshot
    BY <1>0, <2>1, WholeDraft, MergedDraft
  <2>3. versions' = versions \/ versions' = Append(versions, s)
    BY <1>1 DEF ServeLoose, Patched
  <2> HIDE DEF s
  <2>4. Grown(versions, versions')
    BY <1>0, <2>2, <2>3, AppendedGrows
  <2> QED  BY <1>0, <1>1, <2>4, PagesKeep DEF ServeLoose
<1>2. ASSUME NEW r \in loose, LoseLoose(r) PROVE Calm'
  BY <1>0, <1>2, PagesKeep DEF LoseLoose
<1>3. ASSUME NEW f \in Fields, AgentWrites(f) PROVE Calm'
  <2> DEFINE v == <<"agent", count.agents + 1>>
             s == Merge(Current, Single(f, v))
  <2>1. setting.agents \in 0 .. MaxWrites /\ MaxWrites \in Nat
    BY SaveQueueAssumption DEF Types, Shared, Setting
  <2>2. count.agents \in 0 .. MaxWrites /\ count.agents < setting.agents
    BY <1>0, <1>3 DEF Counts, AgentWrites
  <2>3. v \in Values
    BY <2>1, <2>2 DEF Values
  <2>4. s \in Snapshot
    <3> HIDE DEF v
    <3> QED  BY <1>0, <2>3, OneDraft, WholeDraft, MergedDraft
  <2>5. versions' = Append(versions, s)
    BY <1>3 DEF AgentWrites
  <2> HIDE DEF s
  <2>6. Grown(versions, versions')
    BY <1>0, <2>4, <2>5, AppendedGrows
  <2> QED  BY <1>0, <1>3, <2>6, PagesKeep DEF AgentWrites
<1>4. ASSUME RoomCloses PROVE Calm'
  BY <1>0, <1>4 DEF RoomCloses
<1>5. ~RoomFlushes /\ ~PeerComes /\ ~PeerGoes
  BY <1>0 DEF RoomFlushes, PeerComes, PeerGoes, Patient
<1> QED  BY <1>1, <1>2, <1>3, <1>4, <1>5

(* No page takes part in a room.                                           *)
LEMMA NoSession ==
    ASSUME Types, Calm, NEW c \in Clients
    PROVE  ~Session(c) /\ ~TypeInRoom(c)
<1>1. tab[c].seat = "none"
  BY DEF Calm, Keeps
<1> QED  BY <1>1 DEF Session, Synced, Dropped, Denied, TypeInRoom, Seated

(* Whatever happens, a page that kept what was typed keeps it.             *)
LEMMA CalmStep ==
    ASSUME Types, Types', Patient, Calm, [Next]_vars
    PROVE  Calm'
<1>1. CASE UNCHANGED vars
  <2>1. Grown(versions, versions') /\ ~room'.open /\ ~room'.peer
    BY <1>1, AppendedGrows DEF vars, Types, Shared, Calm, Grown, Version
  <2> QED  BY <1>1, <2>1, PagesKeep DEF vars
<1>2. ASSUME NEW c \in Clients, Page(c) PROVE Calm'
  BY <1>2, TimerFiresKeeps, AnsweredKeeps, BackoffEndsKeeps DEF Page
<1>3. ASSUME NEW c \in Clients, Person(c) PROVE Calm'
  BY <1>3, TypeKeeps, NoSession, KeepMineKeeps, TakeTheirsKeeps, RestoreDraftKeeps,
     DiscardDraftKeeps, CloseKeeps, LoadKeeps DEF Person
<1> QED
  BY <1>1, <1>2, <1>3, NoSession, ServeKeeps, LoseKeeps, ElsewhereKeeps DEF Next

(* The first state: nothing is typed.                                      *)
LEMMA CalmInit ==
    ASSUME Init, Patient
    PROVE  Calm
<1>1. /\ setting \in Settings /\ room.open = FALSE /\ room.peer = FALSE
      /\ setting.collab = FALSE
  BY SaveQueueAssumption DEF Init, Patient, Setting
<1>2. versions \in Seq(Snapshot) /\ Version > 0
  BY TypesInit DEF Types, Shared
<1>3. DOMAIN NoFields = {}
  BY EmptyDraft
<1>4. ASSUME NEW c \in Clients
      PROVE  Keeps(versions, tab[c], queue[c], wire[c], mirror[c], own[c])
  <2>1. mirror[c] = Nothing /\ wire[c] = Silence /\ queue[c] = Created /\ own[c] = NoFields
    BY DEF Init
  <2>2. CASE c \in setting.people
    <3>1. tab[c] = Loaded(c).tab
      BY <2>2 DEF Init
    <3>2. queue[c] = Loaded(c).queue
      BY <2>1 DEF Loaded
    <3>3. mirror[c] \in Mirrors
      BY <2>1 DEF Mirrors
    <3>4. Keeps(versions, Loaded(c).tab, Loaded(c).queue, Silence, mirror[c], own[c])
      BY <1>1, <1>2, <1>3, <2>1, <3>3, LoadedKeeps
    <3> QED  BY <2>1, <3>1, <3>2, <3>4
  <2>3. CASE c \notin setting.people
    <3>1. tab[c] = Shut
      BY <2>3 DEF Init
    <3>2. /\ Shut.open = FALSE /\ Shut.synced = FALSE /\ Shut.seat = "none"
          /\ Shut.recovery = Nothing /\ Shut.reverted = Nothing
      BY DEF Shut
    <3>3. Created.stage = "idle" /\ Silence.kind = "none"
      BY <1>2, CreatedQueue DEF Silence
    <3>4. Keeps(versions, Shut, Created, Silence, Nothing, NoFields)
      BY ONLY <1>3, <3>2, <3>3 DEF Keeps
    <3> QED  BY <2>1, <3>1, <3>4
  <2> QED  BY <2>2, <2>3
<1> QED  BY <1>1, <1>4 DEF Calm

(* No step changes the setting.                                            *)
LEMMA SettingStays == [Next]_vars => setting' = setting
<1> SUFFICES ASSUME [Next]_vars PROVE setting' = setting
  OBVIOUS
<1>1. ASSUME NEW c \in Clients, Person(c) PROVE setting' = setting
  <2>1. ASSUME NEW f \in Fields, Type(c, f) PROVE setting' = setting
    BY <2>1 DEF Type
  <2>2. ASSUME NEW tidy \in setting.farewells, Close(c, tidy) PROVE setting' = setting
    BY <2>2 DEF Close
  <2>3. CASE TypeInRoom(c) \/ Load(c)
    BY <2>3 DEF TypeInRoom, Load
  <2>4. CASE KeepMine(c) \/ TakeTheirs(c) \/ RestoreDraft(c) \/ DiscardDraft(c)
    BY <2>4 DEF KeepMine, TakeTheirs, RestoreDraft, DiscardDraft
  <2> QED  BY <1>1, <2>1, <2>2, <2>3, <2>4 DEF Person
<1>2. ASSUME NEW c \in Clients, Page(c) PROVE setting' = setting
  BY <1>2 DEF Page, TimerFires, Answered, BackoffEnds
<1>3. ASSUME NEW c \in Clients, Session(c) \/ Serve(c) \/ Lose(c) PROVE setting' = setting
  BY <1>3 DEF Session, Synced, Dropped, Denied, Serve, Lose
<1>4. ASSUME NEW r \in loose, ServeLoose(r) \/ LoseLoose(r) PROVE setting' = setting
  BY <1>4 DEF ServeLoose, LoseLoose
<1>5. ASSUME NEW f \in Fields, AgentWrites(f) PROVE setting' = setting
  BY <1>5 DEF AgentWrites
<1>6. CASE RoomFlushes \/ PeerComes \/ PeerGoes \/ RoomCloses
  BY <1>6 DEF RoomFlushes, PeerComes, PeerGoes, RoomCloses
<1>7. CASE UNCHANGED vars
  BY <1>7 DEF vars
<1> QED  BY <1>1, <1>2, <1>3, <1>4, <1>5, <1>6, <1>7 DEF Next

\* The inductive invariant: the types, and for a patient person the rest.
PatientlyKept == Types /\ (Patient => Calm)

(* For every set of clients, every number of rebases, any losses, writes   *)
(* by others and tabs closed with or without their last event: what a      *)
(* person typed and did not give up has been saved or is in the browser,   *)
(* and a page that asks nothing has nothing left, as long as the person    *)
(* waits for a save to end and decides on a draft that is offered, and the *)
(* page joins no room (saveQueue.ts:30).                                   *)
THEOREM EditsAreKept == Spec => [](Patient => EditsKept)
<1>1. Init => PatientlyKept
  BY TypesInit, CalmInit DEF PatientlyKept
<1>2. PatientlyKept /\ [Next]_vars => PatientlyKept'
  <2> SUFFICES ASSUME PatientlyKept, [Next]_vars PROVE PatientlyKept'
    OBVIOUS
  <2>1. Types /\ Types'
    BY TypesStep DEF PatientlyKept
  <2>2. setting' = setting
    BY SettingStays
  <2>3. Patient' => Patient
    BY <2>2 DEF Patient
  <2>4. Patient' => Calm'
    BY <2>1, <2>3, CalmStep DEF PatientlyKept
  <2> QED  BY <2>1, <2>4 DEF PatientlyKept
<1>3. PatientlyKept => (Patient => EditsKept)
  BY CalmGivesEditsKept DEF PatientlyKept
<1> HIDE DEF PatientlyKept
<1> QED  BY <1>1, <1>2, <1>3, PTL DEF Spec

-----------------------------------------------------------------------------
(* What the queue takes for the server's is what the server had.  No       *)
(* message is lost and no tab sends anything as it is closed.              *)

Undisturbed ==
    /\ Patient /\ setting.losses = 0
    /\ setting.closes = 0 \/ setting.farewells \subseteq {FALSE}

\* A draft of one client, who typed e values: they are among these, or were
\* saved before.
Authored(vs, c, e, d) == \A f \in DOMAIN d : WasIn(vs, f, d[f]) \/ \E n \in 1..e : d[f] = <<c, n>>

\* What of it was saved at all was saved by version n.
SavedBy(vs, d, n) ==
    \A f \in DOMAIN d : WasIn(vs, f, d[f]) => \E i \in 1..Len(vs) : i <= n /\ vs[i][f] = d[f]

HasNew(vs, d) == \E f \in DOMAIN d : ~WasIn(vs, f, d[f])

\* What a page shows, sends, offers and keeps for "keep mine".
Drafts(t, q) == {t.screen, Unsent(q)} \cup ({t.recovery, t.reverted} \ {Nothing})

\* The versions the page may send as its base: the one it was told of.
Level(t, q, w, n) ==
    IF w.kind = "done" THEN n = w.version
    ELSE n = q.version \/ (t.banner # Nothing /\ n = t.banner.version)

Told(vs, c, e, t, q, w) ==
    \A d \in Drafts(t, q) :
        Authored(vs, c, e, d) /\ \A n \in 1..Len(vs) : Level(t, q, w, n) => SavedBy(vs, d, n)

OnBase(vs, q, b) ==
    /\ q.version \in 1..Len(vs) /\ q.base = vs[q.version]
    /\ \A f \in DOMAIN Unsent(q) : q.base[f] = b[f]

Answering(vs, q, w) ==
    /\ w.kind \in {"none", "request", "stale", "done"}
    /\ w.kind = "request" => w.version = q.version
    /\ w.kind = "stale" =>
          w.version \in 1..Len(vs) /\ q.version <= w.version /\ w.fields = vs[w.version]
    /\ w.kind = "done" => w.version \in 1..Len(vs) /\ vs[w.version] = Merge(q.base, q.inflight)

Asking(vs, t, q) ==
    t.banner # Nothing =>
        /\ t.banner.version \in 1..Len(vs) /\ t.banner.fields = vs[t.banner.version]
        /\ IF t.reverted = Nothing THEN HasPending(q) ELSE HasNew(vs, t.reverted)

\* Something of what is unsent was never saved, and the screen shows it.
Live(vs, t, q, w) ==
    /\ q.inflight # Nothing => HasPending(q)
    /\ HasPending(q) /\ w.kind # "done" =>
          \E f \in DOMAIN Unsent(q) : ~WasIn(vs, f, Unsent(q)[f]) /\ t.screen[f] = Unsent(q)[f]

Left(vs, c, e, m, w) ==
    m # Nothing => Authored(vs, c, e, m.fields) /\ (w.kind # "done" => HasNew(vs, m.fields))

Knows(vs, c, e, t, q, w, m, b) ==
    /\ Left(vs, c, e, m, w)
    /\ t.open => /\ OnBase(vs, q, b) /\ Answering(vs, q, w) /\ Told(vs, c, e, t, q, w)
                 /\ Asking(vs, t, q) /\ Live(vs, t, q, w)

\* Each version has a value that no version had before.
Novel(vs) == \A n \in 2..Len(vs) : \E f \in Fields : \A i \in 1..(n - 1) : vs[i][f] # vs[n][f]

\* What was saved was typed, and by whom it says.
Past(vs, edits, agents) ==
    \A f \in Fields, n \in Nat :
        /\ \A c \in Clients : WasIn(vs, f, <<c, n>>) => n <= edits[c]
        /\ WasIn(vs, f, <<"agent", n>>) => n <= agents

AllKnow ==
    /\ loose = {} /\ Novel(versions) /\ Past(versions, count.edits, count.agents)
    /\ \A c \in Clients :
        Knows(versions, c, count.edits[c], tab[c], queue[c], wire[c], mirror[c], basis[c])

\* Whatever is new of one client's was there before.
Foreign(vs, us, c) == \A f \in Fields, n \in Nat : WasIn(us, f, <<c, n>>) => WasIn(vs, f, <<c, n>>)

(* Drafts of a client, while others write.                                 *)
LEMMA DraftLater ==
    ASSUME NEW vs, NEW us, Len(vs) \in Nat, Len(us) \in Nat, Grown(vs, us), NEW c,
           Foreign(vs, us, c), NEW e \in Nat, NEW g \in Nat, e <= g,
           NEW d \in Draft, Authored(vs, c, e, d)
    PROVE  /\ Authored(us, c, g, d)
           /\ \A f \in DOMAIN d : WasIn(us, f, d[f]) => WasIn(vs, f, d[f])
           /\ \A n \in 1..Len(vs) : SavedBy(vs, d, n) => SavedBy(us, d, n)
           /\ HasNew(vs, d) => HasNew(us, d)
<1>1. \A f, value : WasIn(vs, f, value) => WasIn(us, f, value)
  BY WasLater
<1>2. DOMAIN d \subseteq Fields
  BY IsDraft
<1>3. ASSUME NEW f \in DOMAIN d, WasIn(us, f, d[f]) PROVE WasIn(vs, f, d[f])
  <2>1. CASE \E n \in 1..e : d[f] = <<c, n>>
    BY <1>2, <1>3, <2>1 DEF Foreign
  <2> QED  BY <2>1 DEF Authored
<1>4. Authored(us, c, g, d)
  <2>1. \A n \in 1..e : n \in 1..g
    OBVIOUS
  <2> QED  BY <1>1, <2>1 DEF Authored
<1>5. ASSUME NEW n \in 1..Len(vs), SavedBy(vs, d, n) PROVE SavedBy(us, d, n)
  <2> SUFFICES ASSUME NEW f \in DOMAIN d, WasIn(us, f, d[f])
               PROVE  \E i \in 1..Len(us) : i <= n /\ us[i][f] = d[f]
    BY DEF SavedBy
  <2>1. PICK i \in 1..Len(vs) : i <= n /\ vs[i][f] = d[f]
    BY <1>3, <1>5 DEF SavedBy
  <2>2. i \in 1..Len(us) /\ us[i] = vs[i]
    BY <2>1 DEF Grown
  <2> QED  BY <2>1, <2>2
<1>6. HasNew(vs, d) => HasNew(us, d)
  BY <1>3 DEF HasNew
<1> QED  BY <1>3, <1>4, <1>5, <1>6

(* So a page that does nothing knows what it knew.                         *)
LEMMA KnowsLater ==
    ASSUME NEW vs, NEW us, Len(vs) \in Nat, Len(us) \in Nat, Grown(vs, us), NEW c,
           Foreign(vs, us, c), NEW e \in Nat, NEW g \in Nat, e <= g,
           NEW t \in Tabs, NEW q \in Queues, NEW w, NEW m \in Mirrors, NEW b,
           Knows(vs, c, e, t, q, w, m, b)
    PROVE  Knows(us, c, g, t, q, w, m, b)
<1>1. \A d \in Draft : Authored(vs, c, e, d) =>
        /\ Authored(us, c, g, d)
        /\ \A f \in DOMAIN d : WasIn(us, f, d[f]) => WasIn(vs, f, d[f])
        /\ \A n \in 1..Len(vs) : SavedBy(vs, d, n) => SavedBy(us, d, n)
        /\ HasNew(vs, d) => HasNew(us, d)
  BY DraftLater
<1>2. \A n \in 1..Len(vs) : n \in 1..Len(us) /\ us[n] = vs[n]
  BY DEF Grown
<1>3. Left(us, c, g, m, w)
  <2>1. m # Nothing => m.fields \in Draft
    BY DEF Mirrors
  <2> QED  BY <1>1, <2>1 DEF Knows, Left
<1>4. ASSUME t.open
      PROVE  /\ OnBase(us, q, b) /\ Answering(us, q, w) /\ Told(us, c, g, t, q, w)
             /\ Asking(us, t, q) /\ Live(us, t, q, w)
  <2>1. /\ OnBase(vs, q, b) /\ Answering(vs, q, w) /\ Told(vs, c, e, t, q, w)
        /\ Asking(vs, t, q) /\ Live(vs, t, q, w)
    BY <1>4 DEF Knows
  <2>2. OnBase(us, q, b) /\ Answering(us, q, w)
    BY <1>2, <2>1 DEF OnBase, Answering
  <2>3. Drafts(t, q) \subseteq Draft
    <3>1. t.screen \in Draft /\ (t.recovery # Nothing => t.recovery \in Draft)
          /\ (t.reverted # Nothing => t.reverted \in Draft)
      BY WholeDraft DEF Tabs
    <3>2. Unsent(q) \in Draft
      BY TheUnsent
    <3> QED  BY <3>1, <3>2 DEF Drafts
  <2>4. \A n : Level(t, q, w, n) => n \in 1..Len(vs)
    BY <2>1 DEF Level, OnBase, Answering, Asking
  <2>5. Told(us, c, g, t, q, w)
    <3> SUFFICES ASSUME NEW d \in Drafts(t, q)
                 PROVE  /\ Authored(us, c, g, d)
                        /\ \A n \in 1..Len(us) : Level(t, q, w, n) => SavedBy(us, d, n)
      BY DEF Told
    <3>1. d \in Draft /\ Authored(vs, c, e, d)
          /\ \A n \in 1..Len(vs) : Level(t, q, w, n) => SavedBy(vs, d, n)
      BY <2>1, <2>3 DEF Told
    <3> QED  BY <1>1, <2>4, <3>1
  <2>6. Asking(us, t, q)
    <3>1. t.reverted # Nothing => t.reverted \in Drafts(t, q)
      BY DEF Drafts
    <3>2. t.reverted # Nothing => (HasNew(vs, t.reverted) => HasNew(us, t.reverted))
      BY <1>1, <2>1, <2>3, <3>1 DEF Told
    <3> QED  BY <1>2, <2>1, <3>2 DEF Asking
  <2>7. Live(us, t, q, w)
    <3>1. Unsent(q) \in Drafts(t, q)
      BY DEF Drafts
    <3>2. \A f \in DOMAIN Unsent(q) : WasIn(us, f, Unsent(q)[f]) => WasIn(vs, f, Unsent(q)[f])
      BY <1>1, <2>1, <2>3, <3>1 DEF Told
    <3> QED  BY <2>1, <3>2 DEF Live
  <2> QED  BY <2>2, <2>5, <2>6, <2>7
<1> QED  BY <1>3, <1>4 DEF Knows

(* The pages after a step that changed one of them, or none.               *)
LEMMA OthersKnow ==
    ASSUME Types, Types', AllKnow, Grown(versions, versions'), loose' = {}, Novel(versions'),
           Past(versions', count'.edits, count'.agents),
           NEW c \in Clients, NEW t, NEW q, NEW w, NEW m, NEW b,
           Knows(versions', c, count'.edits[c], t, q, w, m, b),
           \A d \in Clients \ {c} :
              Foreign(versions, versions', d) /\ count.edits[d] <= count'.edits[d],
           tab' = [tab EXCEPT ![c] = t], queue' = [queue EXCEPT ![c] = q],
           wire' = [wire EXCEPT ![c] = w], mirror' = [mirror EXCEPT ![c] = m],
           basis' = [basis EXCEPT ![c] = b]
    PROVE  AllKnow'
<1>1. /\ tab \in [Clients -> Tabs] /\ queue \in [Clients -> Queues]
      /\ wire \in [Clients -> Messages] /\ mirror \in [Clients -> Mirrors]
      /\ basis \in [Clients -> Snapshot] /\ Len(versions) \in Nat /\ Len(versions') \in Nat
  BY DEF Types, Shared, Pages, Version
<1>2. \A d \in Clients : count.edits[d] \in Nat /\ count'.edits[d] \in Nat
  BY SaveQueueAssumption DEF Types, Shared, Counts
<1>3. ASSUME NEW d \in Clients
      PROVE  Knows(versions', d, count'.edits[d], tab'[d], queue'[d], wire'[d], mirror'[d], basis'[d])
  <2>1. CASE d = c
    BY <1>1, <2>1
  <2>2. CASE d # c
    <3>1. /\ tab'[d] = tab[d] /\ queue'[d] = queue[d] /\ wire'[d] = wire[d]
          /\ mirror'[d] = mirror[d] /\ basis'[d] = basis[d]
      BY <1>1, <2>2
    <3>2. Knows(versions, d, count.edits[d], tab[d], queue[d], wire[d], mirror[d], basis[d])
      BY DEF AllKnow
    <3>3. /\ Foreign(versions, versions', d) /\ count.edits[d] <= count'.edits[d]
          /\ tab[d] \in Tabs /\ queue[d] \in Queues /\ mirror[d] \in Mirrors
      BY <1>1, <2>2
    <3>4. Knows(versions', d, count'.edits[d], tab[d], queue[d], wire[d], mirror[d], basis[d])
      BY <1>1, <1>2, <3>2, <3>3, KnowsLater
    <3> QED  BY <3>1, <3>4
  <2> QED  BY <2>1, <2>2
<1> QED  BY <1>3 DEF AllKnow

(* And after one that left the object alone.                               *)
LEMMA OthersStill ==
    ASSUME Types, Types', AllKnow, versions' = versions, loose' = {},
           count'.agents = count.agents, \A d \in Clients : count.edits[d] <= count'.edits[d],
           NEW c \in Clients, NEW t, NEW q, NEW w, NEW m, NEW b,
           Knows(versions, c, count'.edits[c], t, q, w, m, b),
           tab' = [tab EXCEPT ![c] = t], queue' = [queue EXCEPT ![c] = q],
           wire' = [wire EXCEPT ![c] = w], mirror' = [mirror EXCEPT ![c] = m],
           basis' = [basis EXCEPT ![c] = b]
    PROVE  AllKnow'
<1>1. Grown(versions, versions')
  BY DEF Grown, Types, Shared, Version
<1>2. \A d \in Clients : Foreign(versions, versions', d)
  BY DEF Foreign
<1>3. \A d \in Clients : count.edits[d] \in Nat /\ count'.edits[d] \in Nat
  BY SaveQueueAssumption DEF Types, Shared, Counts
<1>4. Novel(versions') /\ Past(versions', count'.edits, count'.agents)
  <2>1. Novel(versions) /\ Past(versions, count.edits, count.agents)
    BY DEF AllKnow
  <2>2. Past(versions, count'.edits, count.agents)
    <3> SUFFICES ASSUME NEW f \in Fields, NEW n \in Nat
                 PROVE  /\ \A d \in Clients : WasIn(versions, f, <<d, n>>) => n <= count'.edits[d]
                        /\ WasIn(versions, f, <<"agent", n>>) => n <= count.agents
      BY DEF Past
    <3>1. WasIn(versions, f, <<"agent", n>>) => n <= count.agents
      BY <2>1 DEF Past
    <3>2. ASSUME NEW d \in Clients, WasIn(versions, f, <<d, n>>) PROVE n <= count'.edits[d]
      <4>1. n <= count.edits[d] /\ count.edits[d] <= count'.edits[d]
        BY <2>1, <3>2 DEF Past
      <4>2. count.edits[d] \in Nat /\ count'.edits[d] \in Nat
        BY <1>3
      <4> QED  BY <4>1, <4>2
    <3> QED  BY <3>1, <3>2
  <2> QED  BY <2>1, <2>2
<1>5. Knows(versions', c, count'.edits[c], t, q, w, m, b)
  OBVIOUS
<1> QED  BY <1>1, <1>2, <1>4, <1>5, OthersKnow

(* What is known of a client.                                              *)
LEMMA TheKnows ==
    ASSUME Types, Calm, AllKnow, NEW c \in Clients
    PROVE  /\ Knows(versions, c, count.edits[c], tab[c], queue[c], wire[c], mirror[c], basis[c])
           /\ count.edits[c] \in Nat /\ loose = {} /\ Version \in Nat /\ Version > 0
           /\ Len(versions) = Version /\ versions \in Seq(Snapshot)
           /\ basis = [basis EXCEPT ![c] = basis[c]] /\ basis[c] \in Snapshot
           /\ tab[c].open =>
                /\ OnBase(versions, queue[c], basis[c]) /\ Answering(versions, queue[c], wire[c])
                /\ Told(versions, c, count.edits[c], tab[c], queue[c], wire[c])
                /\ Asking(versions, tab[c], queue[c]) /\ Live(versions, tab[c], queue[c], wire[c])
           /\ Left(versions, c, count.edits[c], mirror[c], wire[c])
           /\ \A d \in Clients : count.edits[d] \in Nat /\ count.edits[d] <= count.edits[d]
<1>1. Knows(versions, c, count.edits[c], tab[c], queue[c], wire[c], mirror[c], basis[c]) /\ loose = {}
  BY DEF AllKnow
<1>2. /\ count.edits[c] \in Nat /\ Version \in Nat /\ Version > 0
      /\ Len(versions) = Version /\ versions \in Seq(Snapshot)
      /\ basis = [basis EXCEPT ![c] = basis[c]] /\ basis[c] \in Snapshot
  BY SaveQueueAssumption DEF Types, Shared, Counts, Version
<1>3. ASSUME NEW d \in Clients PROVE count.edits[d] \in Nat /\ count.edits[d] <= count.edits[d]
  BY SaveQueueAssumption DEF Types, Shared, Counts
<1> QED  BY <1>1, <1>2, <1>3 DEF Knows

(* The drafts of a page.                                                   *)
LEMMA TheDrafts ==
    ASSUME NEW t \in Tabs, NEW q \in Queues
    PROVE  /\ t.screen \in Draft /\ Unsent(q) \in Draft
           /\ t.recovery # Nothing => t.recovery \in Draft
           /\ t.reverted # Nothing => t.reverted \in Draft
           /\ t.banner # Nothing => t.banner.version \in Nat /\ t.banner.fields \in Snapshot
<1>1. /\ t.screen \in Draft /\ (t.recovery # Nothing => t.recovery \in Draft)
      /\ (t.reverted # Nothing => t.reverted \in Draft)
      /\ t.banner # Nothing => t.banner.version \in Nat /\ t.banner.fields \in Snapshot
  BY WholeDraft DEF Tabs, Notices
<1> QED  BY <1>1, TheUnsent

(* A version of the object, as a draft: all of it was saved by then.       *)
LEMMA VersionTold ==
    ASSUME NEW vs, NEW n \in 1..Len(vs), NEW d, Len(vs) \in Nat,
           \A f \in DOMAIN d : d[f] = vs[n][f], NEW c, NEW e
    PROVE  Authored(vs, c, e, d) /\ \A k \in 1..Len(vs) : n <= k => SavedBy(vs, d, k)
<1>1. \A f \in DOMAIN d : WasIn(vs, f, d[f])
  BY DEF WasIn
<1>2. ASSUME NEW k \in 1..Len(vs), n <= k PROVE SavedBy(vs, d, k)
  BY <1>2 DEF SavedBy
<1> QED  BY <1>1, <1>2 DEF Authored

(* Drafts that are put together are told as their parts are.               *)
LEMMA MergedTold ==
    ASSUME NEW a \in Draft, NEW b \in Draft, NEW d, DOMAIN d \subseteq DOMAIN a \cup DOMAIN b,
           \A f \in DOMAIN d : d[f] = IF f \in DOMAIN b THEN b[f] ELSE a[f],
           NEW vs, NEW c, NEW e
    PROVE  /\ Authored(vs, c, e, a) /\ Authored(vs, c, e, b) => Authored(vs, c, e, d)
           /\ \A n : SavedBy(vs, a, n) /\ SavedBy(vs, b, n) => SavedBy(vs, d, n)
<1>1. ASSUME Authored(vs, c, e, a), Authored(vs, c, e, b) PROVE Authored(vs, c, e, d)
  <2> SUFFICES ASSUME NEW f \in DOMAIN d
               PROVE  WasIn(vs, f, d[f]) \/ \E n \in 1..e : d[f] = <<c, n>>
    BY DEF Authored
  <2>1. CASE f \in DOMAIN b
    BY <1>1, <2>1 DEF Authored
  <2>2. CASE f \notin DOMAIN b
    BY <1>1, <2>2 DEF Authored
  <2> QED  BY <2>1, <2>2
<1>2. ASSUME NEW n, SavedBy(vs, a, n), SavedBy(vs, b, n) PROVE SavedBy(vs, d, n)
  <2> SUFFICES ASSUME NEW f \in DOMAIN d, WasIn(vs, f, d[f])
               PROVE  \E i \in 1..Len(vs) : i <= n /\ vs[i][f] = d[f]
    BY DEF SavedBy
  <2>1. CASE f \in DOMAIN b
    BY <1>2, <2>1 DEF SavedBy
  <2>2. CASE f \notin DOMAIN b
    BY <1>2, <2>2 DEF SavedBy
  <2> QED  BY <2>1, <2>2
<1> QED  BY <1>1, <1>2

(* A page whose queue has what it had, on the base it had.                 *)
LEMMA SameKnows ==
    ASSUME NEW vs, NEW c, NEW e, NEW t, NEW q, NEW w, NEW m, NEW b, NEW p, NEW v,
           Knows(vs, c, e, t, q, w, m, b), w.kind # "done", v.kind # "done",
           t.open => Answering(vs, p, v), Unsent(p) = Unsent(q), p.version = q.version,
           p.base = q.base, p.inflight # Nothing => HasPending(p)
    PROVE  Knows(vs, c, e, t, p, v, m, b)
<1>1. Left(vs, c, e, m, v)
  BY DEF Knows, Left
<1>2. HasPending(p) = HasPending(q) /\ Drafts(t, p) = Drafts(t, q)
  BY DEF HasPending, Drafts
<1>3. \A n : Level(t, p, v, n) => Level(t, q, w, n)
  BY DEF Level
<1>4. ASSUME t.open
      PROVE  OnBase(vs, p, b) /\ Told(vs, c, e, t, p, v) /\ Asking(vs, t, p) /\ Live(vs, t, p, v)
  <2>1. OnBase(vs, q, b) /\ Told(vs, c, e, t, q, w) /\ Asking(vs, t, q) /\ Live(vs, t, q, w)
    BY <1>4 DEF Knows
  <2>2. OnBase(vs, p, b)
    BY <2>1 DEF OnBase
  <2>3. Told(vs, c, e, t, p, v)
    BY <1>2, <1>3, <2>1 DEF Told
  <2>4. Asking(vs, t, p)
    BY <1>2, <2>1 DEF Asking
  <2>5. Live(vs, t, p, v)
    BY <1>2, <2>1 DEF Live
  <2> QED  BY <2>2, <2>3, <2>4, <2>5
<1> QED  BY <1>1, <1>4 DEF Knows

(* A pump.                                                                 *)
LEMMA PumpKnows ==
    ASSUME NEW c, NEW q \in Queues, q.stage = "idle", NEW vs, NEW e, NEW t, NEW m, NEW b,
           Knows(vs, c, e, t, q, Silence, m, b), q.inflight # Nothing => HasPending(q),
           NEW x, x = Pumped(q, {})
    PROVE  Knows(vs, c, e, t, x, Sent(c, x), m, b)
<1> DEFINE w == Sent(c, x)
<1>1. /\ x \in Queues /\ Unsent(x) = Unsent(q) /\ x.stage \in {"idle", "sent"}
      /\ x.stage = "idle" => x.inflight = q.inflight /\ x.pending = q.pending
      /\ q.inflight = Nothing /\ q.pending = NoFields => x.stage = "idle"
  BY PumpedOpen
<1>2. x.version = q.version /\ x.base = q.base
  BY PumpedQueue
<1>3. /\ w.kind \in {"none", "request"}
      /\ w.kind = "request" => w.version = x.version
  BY DEF Sent, Silence, Request
<1>4. q.pending # NoFields => HasPending(q)
  <2>1. q.pending \in Draft /\ DOMAIN q.pending \subseteq DOMAIN Unsent(q)
    BY TheUnsent
  <2> QED  BY <2>1, EmptyDraft DEF HasPending
<1>5. HasPending(x) = HasPending(q)
  BY <1>1 DEF HasPending
<1>6. x.inflight # Nothing => HasPending(x)
  BY <1>1, <1>4, <1>5
<1> HIDE DEF w
<1>7. Answering(vs, x, w)
  BY <1>3 DEF Answering
<1>8. Silence.kind # "done" /\ w.kind # "done"
  BY <1>3 DEF Silence
<1>9. Knows(vs, c, e, t, x, w, m, b)
  BY <1>1, <1>2, <1>6, <1>7, <1>8, SameKnows
<1> QED  BY <1>9 DEF w

(* The timer.                                                              *)
LEMMA TimerFiresKnows ==
    ASSUME Types, Types', Calm, AllKnow, NEW c \in Clients, TimerFires(c)
    PROVE  AllKnow'
<1> DEFINE q == [queue[c] EXCEPT !.timer = FALSE]
           x == Pumped(q, {})
<1>1. /\ tab = [tab EXCEPT ![c] = tab[c]] /\ mirror = [mirror EXCEPT ![c] = mirror[c]]
      /\ wire = [wire EXCEPT ![c] = wire[c]] /\ basis = [basis EXCEPT ![c] = basis[c]]
      /\ queue[c] \in Queues /\ Held(tab[c]) = {}
      /\ queue[c].stage # "sent" => wire[c] = Silence
      /\ Knows(versions, c, count.edits[c], tab[c], queue[c], wire[c], mirror[c], basis[c])
      /\ loose = {} /\ \A d \in Clients : count.edits[d] <= count.edits[d]
  BY TheKeeps, TheKnows
<1>2. /\ UNCHANGED <<setting, versions, room, tab, loose, mirror, count, own, basis>>
      /\ q.stage = "idle" =>
            queue' = [queue EXCEPT ![c] = x] /\ wire' = [wire EXCEPT ![c] = Sent(c, x)]
      /\ q.stage # "idle" => queue' = [queue EXCEPT ![c] = q] /\ wire' = wire /\ tab[c].open
      /\ tab[c].open
  BY <1>1 DEF TimerFires, Pump
<1>3. /\ q \in Queues /\ q.stage = queue[c].stage /\ q.pending = queue[c].pending
      /\ q.inflight = queue[c].inflight /\ q.version = queue[c].version /\ q.base = queue[c].base
  BY <1>1 DEF Queues
<1> HIDE DEF q
<1>4. Unsent(q) = Unsent(queue[c]) /\ HasPending(q) = HasPending(queue[c])
  BY <1>3 DEF Unsent, HasPending
<1>5. Answering(versions, q, wire[c]) /\ (q.inflight # Nothing => HasPending(q))
  BY <1>1, <1>2, <1>3, <1>4 DEF Knows, Answering, Live
<1>6. /\ versions' = versions /\ loose' = {} /\ count' = count
      /\ tab' = [tab EXCEPT ![c] = tab[c]] /\ mirror' = [mirror EXCEPT ![c] = mirror[c]]
      /\ basis' = [basis EXCEPT ![c] = basis[c]]
  BY <1>1, <1>2
<1>7. CASE q.stage = "idle"
  <2>1. wire[c] = Silence /\ Silence.kind # "done"
    BY <1>1, <1>3, <1>7 DEF Silence
  <2>2. Knows(versions, c, count.edits[c], tab[c], q, Silence, mirror[c], basis[c])
    BY <1>1, <1>3, <1>4, <1>5, <2>1, SameKnows
  <2>3. Knows(versions, c, count.edits[c], tab[c], x, Sent(c, x), mirror[c], basis[c])
    BY <1>3, <1>5, <1>7, <2>2, PumpKnows
  <2> HIDE DEF x
  <2>4. /\ queue' = [queue EXCEPT ![c] = x] /\ wire' = [wire EXCEPT ![c] = Sent(c, x)]
        /\ Knows(versions, c, count'.edits[c], tab[c], x, Sent(c, x), mirror[c], basis[c])
        /\ count'.agents = count.agents /\ \A d \in Clients : count.edits[d] <= count'.edits[d]
    BY <1>1, <1>2, <1>6, <1>7, <2>3
  <2> QED  BY ONLY <1>6, <2>4, Types, Types', AllKnow, c \in Clients, OthersStill
<1>8. CASE q.stage # "idle"
  <2>1. Knows(versions, c, count.edits[c], tab[c], q, wire[c], mirror[c], basis[c])
    <3>1. Drafts(tab[c], q) = Drafts(tab[c], queue[c])
      BY <1>4 DEF Drafts
    <3>2. \A n : Level(tab[c], q, wire[c], n) => Level(tab[c], queue[c], wire[c], n)
      BY <1>3 DEF Level
    <3>3. /\ OnBase(versions, q, basis[c]) /\ Asking(versions, tab[c], q)
          /\ Live(versions, tab[c], q, wire[c])
      BY <1>1, <1>2, <1>3, <1>4 DEF Knows, OnBase, Asking, Live
    <3>4. Told(versions, c, count.edits[c], tab[c], q, wire[c])
      BY <1>1, <1>2, <3>1, <3>2 DEF Knows, Told
    <3> QED  BY <1>1, <1>5, <3>3, <3>4 DEF Knows
  <2>2. /\ Knows(versions, c, count'.edits[c], tab[c], q, wire[c], mirror[c], basis[c])
        /\ queue' = [queue EXCEPT ![c] = q] /\ wire' = [wire EXCEPT ![c] = wire[c]]
        /\ count'.agents = count.agents /\ \A d \in Clients : count.edits[d] <= count'.edits[d]
    BY <1>1, <1>2, <1>6, <1>8, <2>1
  <2> QED  BY ONLY <1>6, <2>2, Types, Types', AllKnow, c \in Clients, OthersStill
<1> QED  BY <1>7, <1>8

(* The retry carries what there was.                                       *)
LEMMA BackoffEndsKnows ==
    ASSUME Types, Types', Calm, AllKnow, NEW c \in Clients, BackoffEnds(c)
    PROVE  AllKnow'
<1> DEFINE q0  == queue[c]
           all == Unsent(q0)
           q   == [q0 EXCEPT !.stage = "sent", !.inflight = all, !.pending = NoFields]
           w   == Sent(c, q)
<1>1. /\ Keeps(versions, tab[c], q0, wire[c], mirror[c], own[c])
      /\ tab = [tab EXCEPT ![c] = tab[c]] /\ mirror = [mirror EXCEPT ![c] = mirror[c]]
      /\ basis = [basis EXCEPT ![c] = basis[c]] /\ q0 \in Queues
      /\ queue[c].stage # "sent" => wire[c] = Silence
      /\ Knows(versions, c, count.edits[c], tab[c], q0, wire[c], mirror[c], basis[c])
      /\ loose = {} /\ \A d \in Clients : count.edits[d] <= count.edits[d]
  BY TheKeeps, TheKnows
<1>2. /\ q0.stage = "backoff" /\ q0.inflight # Nothing /\ q0.pending = NoFields
      /\ wire[c] = Silence
  BY <1>1 DEF BackoffEnds, Keeps
<1>3. /\ UNCHANGED <<setting, versions, room, tab, loose, mirror, count, own, basis>>
      /\ queue' = [queue EXCEPT ![c] = q] /\ wire' = [wire EXCEPT ![c] = w]
  BY <1>2 DEF BackoffEnds
<1>4. all \in Draft
  BY <1>1, TheUnsent
<1> HIDE DEF all, q0
<1>5. q.stage = "sent" /\ q.inflight = all /\ q.pending = NoFields /\ q.version = q0.version
      /\ q.base = q0.base
  BY <1>1 DEF Queues
<1> HIDE DEF q
<1>6. Unsent(q) = all
  BY <1>4, <1>5, NoneDraft DEF Unsent
<1>7. w.kind = "request" /\ w.version = q.version
  BY <1>5 DEF Sent, Request
<1>8. Silence.kind # "done"
  BY DEF Silence
<1> HIDE DEF w
<1>9. Answering(versions, q, w)
  BY <1>7 DEF Answering
<1>10. CASE tab[c].open
  <2>1. q.inflight # Nothing => HasPending(q)
    BY <1>1, <1>2, <1>6, <1>10 DEF Knows, Live, HasPending, all
  <2>2. Knows(versions, c, count.edits[c], tab[c], q, w, mirror[c], basis[c])
    BY <1>1, <1>2, <1>5, <1>6, <1>7, <1>8, <1>9, <2>1, SameKnows DEF all
  <2>3. /\ Knows(versions, c, count'.edits[c], tab[c], q, w, mirror[c], basis[c])
        /\ count'.agents = count.agents /\ \A d \in Clients : count.edits[d] <= count'.edits[d]
        /\ versions' = versions /\ loose' = {}
        /\ tab' = [tab EXCEPT ![c] = tab[c]] /\ mirror' = [mirror EXCEPT ![c] = mirror[c]]
        /\ basis' = [basis EXCEPT ![c] = basis[c]]
        /\ queue' = [queue EXCEPT ![c] = q] /\ wire' = [wire EXCEPT ![c] = w]
    BY <1>1, <1>3, <2>2
  <2> QED  BY ONLY <2>3, Types, Types', AllKnow, c \in Clients, OthersStill
<1>11. tab[c].open
  BY <1>2, ThePage DEF Fits, q0
<1> QED  BY <1>10, <1>11

(* A draft that was offered is dropped.                                    *)
LEMMA DiscardDraftKnows ==
    ASSUME Types, Types', Calm, AllKnow, NEW c \in Clients, DiscardDraft(c)
    PROVE  AllKnow'
<1> DEFINE s == tab[c]
           t == [s EXCEPT !.recovery = Nothing]
<1>1. /\ Keeps(versions, s, queue[c], wire[c], mirror[c], own[c])
      /\ s \in Tabs /\ wire = [wire EXCEPT ![c] = wire[c]]
      /\ queue = [queue EXCEPT ![c] = queue[c]] /\ basis = [basis EXCEPT ![c] = basis[c]]
      /\ Knows(versions, c, count.edits[c], tab[c], queue[c], wire[c], mirror[c], basis[c])
      /\ loose = {} /\ \A d \in Clients : count.edits[d] <= count.edits[d]
  BY TheKeeps, TheKnows
<1>2. /\ s.open /\ s.recovery # Nothing /\ tab' = [tab EXCEPT ![c] = t]
      /\ mirror' = [mirror EXCEPT ![c] = Nothing]
      /\ UNCHANGED <<setting, versions, room, queue, wire, loose, count, basis>>
  BY <1>1 DEF DiscardDraft, MayAct
<1>3. /\ t.open = s.open /\ t.recovery = Nothing /\ t.reverted = s.reverted
      /\ t.banner = s.banner /\ t.screen = s.screen
  BY <1>1 DEF Tabs
<1> HIDE DEF t
<1>4. Drafts(t, queue[c]) \subseteq Drafts(s, queue[c])
  BY <1>3 DEF Drafts
<1>5. \A n : Level(t, queue[c], wire[c], n) => Level(s, queue[c], wire[c], n)
  BY <1>3 DEF Level
<1>6. /\ OnBase(versions, queue[c], basis[c]) /\ Answering(versions, queue[c], wire[c])
      /\ Asking(versions, t, queue[c]) /\ Live(versions, t, queue[c], wire[c])
  BY <1>1, <1>2, <1>3 DEF Knows, Asking, Live
<1>7. Told(versions, c, count.edits[c], t, queue[c], wire[c])
  BY <1>1, <1>2, <1>4, <1>5 DEF Knows, Told
<1>8. Knows(versions, c, count.edits[c], t, queue[c], wire[c], Nothing, basis[c])
  BY <1>6, <1>7 DEF Knows, Left
<1>9. /\ Knows(versions, c, count'.edits[c], t, queue[c], wire[c], Nothing, basis[c])
      /\ count'.agents = count.agents /\ \A d \in Clients : count.edits[d] <= count'.edits[d]
      /\ versions' = versions /\ loose' = {}
      /\ tab' = [tab EXCEPT ![c] = t] /\ mirror' = [mirror EXCEPT ![c] = Nothing]
      /\ basis' = [basis EXCEPT ![c] = basis[c]]
      /\ queue' = [queue EXCEPT ![c] = queue[c]] /\ wire' = [wire EXCEPT ![c] = wire[c]]
  BY <1>1, <1>2, <1>8
<1> QED  BY ONLY <1>9, Types, Types', AllKnow, c \in Clients, OthersStill

(* A tab is closed, and sends nothing.                                     *)
LEMMA CloseKnows ==
    ASSUME Types, Types', Undisturbed, Calm, AllKnow, NEW c \in Clients,
           NEW tidy \in setting.farewells, Close(c, tidy)
    PROVE  AllKnow'
<1>1. /\ wire = [wire EXCEPT ![c] = wire[c]] /\ mirror = [mirror EXCEPT ![c] = mirror[c]]
      /\ basis = [basis EXCEPT ![c] = basis[c]]
      /\ queue[c].stage # "sent" => wire[c] = Silence
      /\ Left(versions, c, count.edits[c], mirror[c], wire[c])
      /\ loose = {} /\ \A d \in Clients : count.edits[d] <= count.edits[d]
  BY TheKeeps, TheKnows
<1>2. tidy = FALSE
  <2>1. count.closes \in Nat /\ count.closes < setting.closes
    BY DEF Types, Shared, Counts, Close
  <2>2. setting.closes # 0
    BY <2>1
  <2> QED  BY <2>2 DEF Undisturbed
<1>3. queue[c].stage = "idle"
  BY DEF Close, MayAct, Undisturbed, Patient
<1>4. wire[c] = Silence /\ Silence.kind = "none"
  BY <1>1, <1>3 DEF Silence
<1>5. /\ loose' = {} /\ mirror' = [mirror EXCEPT ![c] = mirror[c]]
      /\ tab' = [tab EXCEPT ![c] = Shut] /\ queue' = [queue EXCEPT ![c] = Created]
      /\ wire' = [wire EXCEPT ![c] = Silence] /\ count'.edits = count.edits
      /\ count'.agents = count.agents /\ UNCHANGED <<setting, versions, room, own, basis>>
  <2>1. /\ loose' = loose \cup {} \cup (IF wire[c].kind = "request" THEN {wire[c]} ELSE {})
        /\ mirror' = [mirror EXCEPT ![c] = @]
        /\ tab' = [tab EXCEPT ![c] = Shut] /\ queue' = [queue EXCEPT ![c] = Created]
        /\ wire' = [wire EXCEPT ![c] = Silence] /\ count' = [count EXCEPT !.closes = @ + 1]
        /\ UNCHANGED <<setting, versions, room, own, basis>>
    BY <1>2 DEF Close
  <2>2. count'.edits = count.edits /\ count'.agents = count.agents
    BY <2>1 DEF Types, Shared, Counts
  <2> QED  BY <1>1, <1>4, <2>1, <2>2
<1>6. Shut.open = FALSE
  BY DEF Shut
<1>7. Knows(versions, c, count.edits[c], Shut, Created, Silence, mirror[c], basis[c])
  BY <1>1, <1>4, <1>6 DEF Knows
<1>8. /\ Knows(versions, c, count'.edits[c], Shut, Created, Silence, mirror[c], basis[c])
      /\ count'.agents = count.agents /\ \A d \in Clients : count.edits[d] <= count'.edits[d]
      /\ versions' = versions /\ loose' = {}
      /\ tab' = [tab EXCEPT ![c] = Shut] /\ mirror' = [mirror EXCEPT ![c] = mirror[c]]
      /\ basis' = [basis EXCEPT ![c] = basis[c]]
      /\ queue' = [queue EXCEPT ![c] = Created] /\ wire' = [wire EXCEPT ![c] = Silence]
  BY <1>1, <1>5, <1>7
<1> QED  BY ONLY <1>8, Types, Types', AllKnow, c \in Clients, OthersStill

(* By now everything is saved that was saved.                              *)
LEMMA SavedNow ==
    ASSUME NEW vs, Len(vs) \in Nat, NEW d
    PROVE  SavedBy(vs, d, Len(vs))
BY DEF SavedBy, WasIn

(* The page of a client, as it is loaded.                                  *)
LEMMA LoadedKnows ==
    ASSUME versions \in Seq(Snapshot), Version > 0, setting.collab = FALSE, NEW c, NEW e \in Nat,
           mirror[c] \in Mirrors, Left(versions, c, e, mirror[c], Silence)
    PROVE  Knows(versions, c, e, Loaded(c).tab, Loaded(c).queue, Silence, mirror[c], Current)
<1> DEFINE applies == mirror[c] # Nothing /\ mirror[c].version = Version
           offered == mirror[c] # Nothing /\ mirror[c].version # Version
           draft   == IF applies THEN mirror[c].fields ELSE NoFields
           offer   == IF offered THEN mirror[c].fields ELSE Nothing
           screen  == Merge(Current, draft)
           t       == Loaded(c).tab
           q       == Loaded(c).queue
           x       == Changed(Created, draft)
<1>1. /\ draft \in Draft /\ (mirror[c] # Nothing => mirror[c].fields \in Draft)
      /\ (offered => offer = mirror[c].fields) /\ (~offered => offer = Nothing)
      /\ (applies => draft = mirror[c].fields) /\ (~applies => draft = NoFields)
  BY EmptyDraft DEF Mirrors
<1>2. Version \in Nat /\ Current \in Snapshot /\ Current \in Draft /\ DOMAIN Current = Fields
      /\ Version = Len(versions) /\ Version \in 1..Len(versions) /\ Current = versions[Version]
  BY CurrentIs, WholeDraft DEF Version, Current
<1>3. /\ DOMAIN screen = DOMAIN Current \cup DOMAIN draft
      /\ \A f \in DOMAIN draft : screen[f] = draft[f]
      /\ \A f \in DOMAIN Current \ DOMAIN draft : screen[f] = Current[f]
  <2> HIDE DEF draft
  <2> QED  BY <1>1, <1>2, MergedDraft
<1>4. /\ t.open /\ t.screen = screen /\ t.recovery = offer /\ t.banner = Nothing
      /\ t.reverted = Nothing
  BY DEF Loaded
<1>5. q = IF applies THEN x ELSE Created
  BY DEF Loaded
<1>6. /\ Created \in Queues /\ Created.version = Version /\ Created.base = Current
      /\ Created.inflight = Nothing /\ Created.pending = NoFields /\ Unsent(Created) = NoFields
  BY CreatedQueue
<1>7. DOMAIN NoFields = {}
  BY EmptyDraft
<1>8. /\ x.version = Version /\ x.base = Current /\ x.inflight = Nothing
      /\ DOMAIN Unsent(x) = DOMAIN draft /\ \A f \in DOMAIN draft : Unsent(x)[f] = draft[f]
  <2> HIDE DEF draft
  <2>1. Created \in Queues /\ draft \in Draft
    BY <1>1, <1>6
  <2>2. /\ x.version = Created.version /\ x.base = Created.base /\ x.inflight = Created.inflight
        /\ DOMAIN Unsent(x) = DOMAIN Unsent(Created) \cup DOMAIN draft
        /\ \A f \in DOMAIN draft : Unsent(x)[f] = draft[f]
    BY ONLY <2>1, ChangedQueue
  <2> HIDE DEF x
  <2> QED  BY <1>6, <1>7, <2>2
<1> HIDE DEF t, q, x, draft, offer, screen
<1>9. /\ q.version = Version /\ q.base = Current /\ q.inflight = Nothing
      /\ DOMAIN Unsent(q) = DOMAIN draft /\ \A f \in DOMAIN draft : Unsent(q)[f] = draft[f]
  <2>1. CASE applies
    BY <1>5, <1>8, <2>1
  <2>2. CASE ~applies
    BY <1>1, <1>5, <1>6, <1>7, <2>2
  <2> QED  BY <2>1, <2>2
<1>10. Authored(versions, c, e, draft)
  <2>1. CASE applies
    BY <1>1, <2>1 DEF Left
  <2>2. CASE ~applies
    BY <1>1, <1>7, <2>2 DEF Authored
  <2> QED  BY <2>1, <2>2
<1>11. Authored(versions, c, e, screen)
  <2>1. Authored(versions, c, e, Current)
    BY <1>2, VersionTold
  <2>2. /\ DOMAIN screen \subseteq DOMAIN Current \cup DOMAIN draft
        /\ \A f \in DOMAIN screen : screen[f] = IF f \in DOMAIN draft THEN draft[f] ELSE Current[f]
    BY <1>3
  <2>3. draft \in Draft /\ Current \in Draft
    BY <1>1, <1>2
  <2>4. Authored(versions, c, e, Current) /\ Authored(versions, c, e, draft)
        => Authored(versions, c, e, screen)
    BY ONLY <2>2, <2>3, MergedTold
  <2> QED  BY <1>10, <2>1, <2>4
<1>12. Authored(versions, c, e, Unsent(q))
  BY <1>9, <1>10 DEF Authored
<1>13. offer # Nothing => Authored(versions, c, e, offer)
  BY <1>1 DEF Left
<1>14. Silence.kind = "none"
  BY DEF Silence
<1>15. Told(versions, c, e, t, q, Silence)
  <2>1. \A d : SavedBy(versions, d, Version)
    BY <1>2, SavedNow
  <2>2. \A n : Level(t, q, Silence, n) => n = Version
    BY <1>4, <1>9, <1>14 DEF Level
  <2>3. \A d \in Drafts(t, q) : Authored(versions, c, e, d)
    BY <1>4, <1>11, <1>12, <1>13 DEF Drafts
  <2> QED  BY <2>1, <2>2, <2>3 DEF Told
<1>16. OnBase(versions, q, Current)
  BY <1>2, <1>9 DEF OnBase
<1>17. Answering(versions, q, Silence) /\ Asking(versions, t, q)
  BY <1>4, <1>14 DEF Answering, Asking
<1>18. Live(versions, t, q, Silence)
  <2>1. ASSUME HasPending(q)
        PROVE  \E f \in DOMAIN Unsent(q) : ~WasIn(versions, f, Unsent(q)[f]) /\ t.screen[f] = Unsent(q)[f]
    <3>1. applies
      BY <1>1, <1>7, <1>9, <2>1 DEF HasPending
    <3>2. HasNew(versions, draft)
      BY <1>1, <1>14, <3>1 DEF Left
    <3> QED  BY <1>3, <1>4, <1>9, <3>2 DEF HasNew
  <2> QED  BY <1>9, <2>1 DEF Live
<1>19. Knows(versions, c, e, t, q, Silence, mirror[c], Current)
  BY <1>15, <1>16, <1>17, <1>18 DEF Knows
<1> QED  BY <1>19 DEF t, q

(* A tab is opened.                                                        *)
LEMMA LoadKnows ==
    ASSUME Types, Types', Patient, Calm, AllKnow, NEW c \in Clients, Load(c)
    PROVE  AllKnow'
<1> DEFINE t == Loaded(c).tab
           q == Loaded(c).queue
<1>1. /\ wire = [wire EXCEPT ![c] = wire[c]] /\ mirror = [mirror EXCEPT ![c] = mirror[c]]
      /\ mirror[c] \in Mirrors /\ count.edits[c] \in Nat
      /\ queue[c].stage # "sent" => wire[c] = Silence
      /\ queue[c].stage = "sent" => tab[c].open
      /\ Left(versions, c, count.edits[c], mirror[c], wire[c])
      /\ loose = {} /\ \A d \in Clients : count.edits[d] <= count.edits[d]
      /\ versions \in Seq(Snapshot) /\ Version > 0
  BY TheKeeps, TheKnows
<1>2. /\ ~tab[c].open /\ tab' = [tab EXCEPT ![c] = t] /\ queue' = [queue EXCEPT ![c] = q]
      /\ basis' = [basis EXCEPT ![c] = Current]
      /\ UNCHANGED <<setting, versions, room, wire, loose, mirror, count, own>>
  BY DEF Load
<1>3. setting.collab = FALSE
  BY SaveQueueAssumption DEF Types, Shared, Patient, Setting
<1>4. wire[c] = Silence
  BY <1>1, <1>2
<1>5. Knows(versions, c, count.edits[c], t, q, Silence, mirror[c], Current)
  BY <1>1, <1>3, <1>4, LoadedKnows
<1> HIDE DEF t, q
<1>6. /\ Knows(versions, c, count'.edits[c], t, q, wire[c], mirror[c], Current)
      /\ count'.agents = count.agents /\ \A d \in Clients : count.edits[d] <= count'.edits[d]
      /\ versions' = versions /\ loose' = {}
      /\ tab' = [tab EXCEPT ![c] = t] /\ mirror' = [mirror EXCEPT ![c] = mirror[c]]
      /\ basis' = [basis EXCEPT ![c] = Current]
      /\ queue' = [queue EXCEPT ![c] = q] /\ wire' = [wire EXCEPT ![c] = wire[c]]
  BY <1>1, <1>2, <1>4, <1>5
<1> QED  BY ONLY <1>6, Types, Types', AllKnow, c \in Clients, OthersStill

\* The object with one more version, s.
Longer(vs, us, s) ==
    /\ Len(vs) \in Nat /\ Len(us) = Len(vs) + 1 /\ us[Len(us)] = s
    /\ \A i \in 1..Len(vs) : us[i] = vs[i]

(* What was saved before still is, and what the new version has now is.    *)
LEMMA LongerSaves ==
    ASSUME NEW vs, NEW us, NEW s, Longer(vs, us, s)
    PROVE  /\ Grown(vs, us) /\ Len(us) \in Nat /\ Len(us) \in 1..Len(us)
           /\ \A f : WasIn(us, f, s[f])
<1>1. Grown(vs, us) /\ Len(us) \in 1..Len(us) /\ Len(us) \in Nat
  BY DEF Longer, Grown
<1>2. us[Len(us)] = s
  BY DEF Longer
<1> QED  BY <1>1, <1>2 DEF WasIn

(* And nothing else.                                                       *)
LEMMA LongerSavesOnly ==
    ASSUME NEW vs, NEW us, NEW s, Longer(vs, us, s), NEW f, NEW x, WasIn(us, f, x)
    PROVE  WasIn(vs, f, x) \/ x = s[f]
<1>1. PICK i \in 1..Len(us) : us[i][f] = x
  BY DEF WasIn
<1>2. CASE i = Len(us)
  BY <1>1, <1>2 DEF Longer
<1>3. CASE i # Len(us)
  <2>1. i \in 1..Len(vs)
    BY <1>3 DEF Longer
  <2> QED  BY <1>1, <2>1 DEF Longer, WasIn
<1> QED  BY <1>2, <1>3

(* Each version is novel if this one is.                                   *)
LEMMA LongerNovel ==
    ASSUME NEW vs, NEW us, NEW s, Longer(vs, us, s), Novel(vs),
           NEW g \in Fields, ~WasIn(vs, g, s[g])
    PROVE  Novel(us)
<1> SUFFICES ASSUME NEW n \in 2..Len(us)
             PROVE  \E f \in Fields : \A i \in 1..(n - 1) : us[i][f] # us[n][f]
  BY DEF Novel
<1>1. CASE n = Len(us)
  <2>1. ASSUME NEW i \in 1..(n - 1) PROVE us[i][g] # us[n][g]
    <3>1. i \in 1..Len(vs) /\ us[i] = vs[i] /\ us[n] = s
      BY <1>1 DEF Longer
    <3> QED  BY <3>1 DEF WasIn
  <2> QED  BY <2>1
<1>2. CASE n # Len(us)
  <2>1. n \in 2..Len(vs)
    BY <1>2 DEF Longer
  <2>2. PICK f \in Fields : \A i \in 1..(n - 1) : vs[i][f] # vs[n][f]
    BY <2>1 DEF Novel
  <2>3. \A i \in 1..(n - 1) : us[i] = vs[i] /\ us[n] = vs[n]
    BY <2>1 DEF Longer
  <2> QED  BY <2>2, <2>3
<1> QED  BY <1>1, <1>2

(* It is foreign to whoever has nothing new in it.                         *)
LEMMA LongerForeign ==
    ASSUME NEW vs, NEW us, NEW s, Longer(vs, us, s), NEW c,
           \A f \in Fields, n \in Nat : s[f] = <<c, n>> => WasIn(vs, f, s[f])
    PROVE  Foreign(vs, us, c)
<1> SUFFICES ASSUME NEW f \in Fields, NEW n \in Nat, WasIn(us, f, <<c, n>>)
             PROVE  WasIn(vs, f, <<c, n>>)
  BY DEF Foreign
<1>1. WasIn(vs, f, <<c, n>>) \/ <<c, n>> = s[f]
  BY LongerSavesOnly
<1> QED  BY <1>1

(* Somebody else writes.                                                   *)
LEMMA AgentWritesKnows ==
    ASSUME Types, Types', Calm, AllKnow, NEW f \in Fields, AgentWrites(f)
    PROVE  AllKnow'
<1> DEFINE v == <<"agent", count.agents + 1>>
           s == Merge(Current, Single(f, v))
<1>1. /\ loose = {} /\ Novel(versions) /\ Past(versions, count.edits, count.agents)
      /\ versions \in Seq(Snapshot) /\ Version \in Nat /\ Version > 0 /\ Version = Len(versions)
      /\ Current \in Snapshot /\ count \in Counts /\ setting \in Settings
  BY CurrentIs DEF AllKnow, Types, Shared, Version
<1>2. /\ count.agents < setting.agents /\ versions' = Append(versions, s)
      /\ count' = [count EXCEPT !.agents = @ + 1]
      /\ UNCHANGED <<setting, room, tab, queue, wire, loose, mirror, own, basis>>
  BY DEF AgentWrites
<1>3. /\ setting.agents \in 0 .. MaxWrites /\ MaxWrites \in Nat /\ count.agents \in 0..MaxWrites
      /\ \A d \in Clients : count.edits[d] \in Nat
  BY <1>1, SaveQueueAssumption DEF Setting, Counts
<1>4. v \in Values
  BY <1>2, <1>3 DEF Values
<1>5. count'.edits = count.edits /\ count'.agents = count.agents + 1
  BY <1>1, <1>2 DEF Counts
<1>6. s \in Snapshot /\ s[f] = v /\ \A g \in Fields \ {f} : s[g] = Current[g]
  <2> HIDE DEF v
  <2>1. /\ Single(f, v) \in Draft /\ DOMAIN Single(f, v) = {f} /\ Single(f, v)[f] = v
        /\ Current \in Draft /\ DOMAIN Current = Fields
    BY <1>1, <1>4, OneDraft, WholeDraft
  <2>2. /\ s \in Snapshot
        /\ \A g \in DOMAIN Single(f, v) : s[g] = Single(f, v)[g]
        /\ \A g \in DOMAIN Current \ DOMAIN Single(f, v) : s[g] = Current[g]
    BY <1>1, <2>1, MergedDraft
  <2> HIDE DEF s
  <2> QED  BY <2>1, <2>2
<1> HIDE DEF s
<1>7. \A g \in Fields : WasIn(versions, g, Current[g])
  BY <1>1 DEF WasIn, Current
<1>8. Longer(versions, versions', s)
  BY <1>1, <1>2, <1>6, OneMore DEF Longer
<1>9. /\ Grown(versions, versions') /\ Len(versions') \in Nat
      /\ \A g, x : WasIn(versions', g, x) => WasIn(versions, g, x) \/ x = s[g]
  BY <1>8, LongerSaves, LongerSavesOnly
<1>10. ~WasIn(versions, f, v)
  BY <1>1, <1>3 DEF Past
<1>11. Novel(versions')
  BY <1>1, <1>6, <1>8, <1>10, LongerNovel
<1>12. ASSUME NEW d \in Clients PROVE Foreign(versions, versions', d)
  <2>1. ASSUME NEW g \in Fields, NEW n \in Nat, s[g] = <<d, n>> PROVE WasIn(versions, g, s[g])
    <3>1. g # f
      BY <1>6, <2>1, AgentAssumption
    <3> QED  BY <1>6, <1>7, <3>1
  <2> QED  BY <1>8, <2>1, LongerForeign
<1>13. Past(versions', count'.edits, count'.agents)
  <2> SUFFICES ASSUME NEW g \in Fields, NEW n \in Nat
               PROVE  /\ \A d \in Clients : WasIn(versions', g, <<d, n>>) => n <= count.edits[d]
                      /\ WasIn(versions', g, <<"agent", n>>) => n <= count.agents + 1
    BY <1>5 DEF Past
  <2>1. \A d \in Clients : WasIn(versions', g, <<d, n>>) => n <= count.edits[d]
    BY <1>1, <1>12 DEF Foreign, Past
  <2>2. ASSUME WasIn(versions', g, <<"agent", n>>) PROVE n <= count.agents + 1
    <3>1. CASE WasIn(versions, g, <<"agent", n>>)
      BY <1>1, <1>3, <3>1 DEF Past
    <3>2. CASE <<"agent", n>> = s[g] /\ g = f
      BY <1>3, <1>6, <3>2
    <3>3. CASE <<"agent", n>> = s[g] /\ g # f
      <4>1. WasIn(versions, g, <<"agent", n>>)
        BY <1>6, <1>7, <3>3
      <4> QED  BY <3>1, <4>1
    <3> QED  BY <1>9, <2>2, <3>1, <3>2, <3>3
  <2> QED  BY <2>1, <2>2
<1>14. ASSUME NEW d \in Clients
       PROVE  Knows(versions', d, count'.edits[d], tab'[d], queue'[d], wire'[d], mirror'[d], basis'[d])
  <2>1. /\ Knows(versions, d, count.edits[d], tab[d], queue[d], wire[d], mirror[d], basis[d])
        /\ tab[d] \in Tabs /\ queue[d] \in Queues /\ mirror[d] \in Mirrors
        /\ count.edits[d] \in Nat /\ count.edits[d] <= count.edits[d]
    BY TheKnows, TheKeeps
  <2>2. Knows(versions', d, count.edits[d], tab[d], queue[d], wire[d], mirror[d], basis[d])
    BY <1>1, <1>9, <1>12, <2>1, KnowsLater
  <2> QED  BY <1>2, <1>5, <2>2
<1> QED  BY <1>1, <1>2, <1>11, <1>13, <1>14 DEF AllKnow

(* What a commit of a client's draft saves was saved, or the client typed. *)
LEMMA CommitSaves ==
    ASSUME NEW vs, NEW us, NEW s, Longer(vs, us, s), NEW c, NEW e, NEW d, Authored(vs, c, e, d),
           \A f \in Fields : IF f \in DOMAIN d THEN s[f] = d[f] ELSE WasIn(vs, f, s[f]),
           NEW f \in Fields, NEW x, WasIn(us, f, x)
    PROVE  WasIn(vs, f, x) \/ \E k \in 1..e : x = <<c, k>>
<1>1. WasIn(vs, f, x) \/ x = s[f]
  BY LongerSavesOnly
<1>2. CASE f \in DOMAIN d
  BY <1>1, <1>2 DEF Authored
<1>3. CASE f \notin DOMAIN d
  BY <1>1, <1>3
<1> QED  BY <1>2, <1>3

(* Drafts, however the object goes on.                                     *)
LEMMA AuthoredLater ==
    ASSUME NEW vs, NEW us, Len(vs) \in Nat, Len(us) \in Nat, Grown(vs, us), NEW c, NEW e, NEW d,
           Authored(vs, c, e, d)
    PROVE  Authored(us, c, e, d)
<1>1. \A f, value : WasIn(vs, f, value) => WasIn(us, f, value)
  BY WasLater
<1> QED  BY <1>1 DEF Authored

(* A request at the box is the page's unsent draft, and is committed if its *)
(* version is the object's.                                                *)
LEMMA Served ==
    ASSUME Types, Calm, AllKnow, NEW c \in Clients, Serve(c)
    PROVE  LET r == wire[c]
               q == queue[c]
           IN  /\ r.kind = "request" /\ q.stage = "sent" /\ tab[c].open
               /\ q.inflight # Nothing /\ q.inflight \in Draft /\ r.patch = q.inflight
               /\ Unsent(q) = q.inflight /\ r.version = q.version /\ HasPending(q)
               /\ UNCHANGED <<setting, room, tab, queue, loose, mirror, count, own, basis>>
               /\ IF r.version # Version
                  THEN /\ wire' = [wire EXCEPT ![c] =
                              [kind |-> "stale", version |-> Version, fields |-> Current]]
                       /\ versions' = versions
                  ELSE /\ versions' = Append(versions, Merge(Current, q.inflight))
                       /\ wire' = [wire EXCEPT ![c] =
                              [kind |-> "done", version |-> Len(versions')]]
<1> DEFINE r == wire[c]
           q == queue[c]
           stale == [kind |-> "stale", version |-> Version, fields |-> Current]
<1>1. /\ Keeps(versions, tab[c], q, r, mirror[c], own[c]) /\ q \in Queues
      /\ Knows(versions, c, count.edits[c], tab[c], q, r, mirror[c], basis[c])
  BY TheKeeps, TheKnows
<1>2. Version \in Nat /\ Current \in Snapshot /\ ~room.open
  BY ThePage DEF Calm
<1>3. /\ r.kind = "request" /\ q.stage = "sent" /\ tab[c].open
      /\ q.pending = NoFields /\ q.inflight # Nothing /\ r.patch = q.inflight
      /\ q.inflight \in Draft
  <2>1. r.kind = "request"
    BY DEF Serve
  <2>2. r # Silence
    BY <2>1 DEF Silence
  <2>3. q.stage = "sent" /\ tab[c].open
    BY <2>2, TheKeeps
  <2> QED  BY <1>1, <2>1, <2>3 DEF Keeps, Queues
<1>4. Unsent(q) = q.inflight
  BY <1>3, NoneDraft DEF Unsent
<1>5. r.version = q.version /\ HasPending(q) /\ DOMAIN q.inflight # {}
  BY <1>1, <1>3, <1>4 DEF Knows, Answering, Live, HasPending
<1>6. stale # Nothing => Refusal(r) = IF r.version # Version THEN stale ELSE Nothing
  BY <1>2, <1>3, <1>5 DEF Refusal
<1>7. Patched(r) = Append(versions, Merge(Current, q.inflight))
  BY <1>3, <1>5 DEF Patched
<1>8. stale # Nothing
  <2>1. stale \in [kind : {"stale"}, version : Nat, fields : Snapshot]
    BY <1>2
  <2> QED  BY <2>1, NothingAssumption
<1>9. /\ UNCHANGED <<setting, room, tab, queue, loose, mirror, count, own, basis>>
      /\ IF r.version # Version
         THEN wire' = [wire EXCEPT ![c] = stale] /\ versions' = versions
         ELSE /\ versions' = Append(versions, Merge(Current, q.inflight))
              /\ wire' = [wire EXCEPT ![c] = [kind |-> "done", version |-> Len(versions')]]
  BY <1>6, <1>7, <1>8 DEF Serve
<1> QED  BY <1>3, <1>4, <1>5, <1>9

(* The box's answer: the version there is, or one with the draft in it.    *)
LEMMA ServeKnows ==
    ASSUME Types, Types', Calm, AllKnow, NEW c \in Clients, Serve(c)
    PROVE  AllKnow'
<1> DEFINE r == wire[c]
           t == tab[c]
           q == queue[c]
           e == count.edits[c]
<1>1. /\ Keeps(versions, t, q, r, mirror[c], own[c])
      /\ tab = [tab EXCEPT ![c] = t] /\ mirror = [mirror EXCEPT ![c] = mirror[c]]
      /\ queue = [queue EXCEPT ![c] = q] /\ basis = [basis EXCEPT ![c] = basis[c]]
      /\ q \in Queues /\ t \in Tabs /\ r \in Messages
      /\ Knows(versions, c, e, t, q, r, mirror[c], basis[c])
      /\ loose = {} /\ \A d \in Clients : count.edits[d] \in Nat /\ count.edits[d] <= count.edits[d]
  BY TheKeeps, TheKnows
<1>2. /\ Version \in Nat /\ Version > 0 /\ Len(versions) = Version /\ versions \in Seq(Snapshot)
      /\ Novel(versions) /\ Past(versions, count.edits, count.agents)
      /\ Current \in Snapshot /\ Current = versions[Version]
      /\ q.version \in Nat /\ q.version <= Version /\ Len(versions') \in Nat
  BY TheKnows, ThePage, CurrentIs DEF AllKnow, Fits, Current, Queues, Types, Shared, Version
<1>3. /\ r.kind = "request" /\ q.stage = "sent" /\ t.open
      /\ q.inflight # Nothing /\ q.inflight \in Draft
      /\ Unsent(q) = q.inflight /\ r.version = q.version /\ HasPending(q)
      /\ UNCHANGED <<setting, room, tab, queue, loose, mirror, count, own, basis>>
      /\ IF r.version # Version
         THEN /\ wire' = [wire EXCEPT ![c] = [kind |-> "stale", version |-> Version, fields |-> Current]]
              /\ versions' = versions
         ELSE /\ versions' = Append(versions, Merge(Current, q.inflight))
              /\ wire' = [wire EXCEPT ![c] = [kind |-> "done", version |-> Len(versions')]]
  BY Served
<1>4. /\ OnBase(versions, q, basis[c]) /\ Answering(versions, q, r)
      /\ Told(versions, c, e, t, q, r) /\ Asking(versions, t, q) /\ Live(versions, t, q, r)
      /\ Left(versions, c, e, mirror[c], r)
  BY <1>1, <1>3 DEF Knows
<1>5. PICK g \in DOMAIN q.inflight : ~WasIn(versions, g, q.inflight[g])
  BY <1>3, <1>4 DEF Live
<1>6. Authored(versions, c, e, q.inflight)
  BY <1>3, <1>4 DEF Told, Drafts
<1>7. CASE r.version # Version
  <2> DEFINE w == [kind |-> "stale", version |-> Version, fields |-> Current]
  <2>1. w.kind = "stale" /\ w.version = Version /\ w.fields = Current
    OBVIOUS
  <2> HIDE DEF w
  <2>2. Answering(versions, q, w)
    BY <1>2, <2>1 DEF Answering
  <2> HIDE DEF r, t, q, e
  <2>3. Knows(versions, c, e, t, q, w, mirror[c], basis[c])
    BY <1>1, <1>3, <2>1, <2>2, SameKnows
  <2>4. /\ Knows(versions, c, count'.edits[c], t, q, w, mirror[c], basis[c])
        /\ count'.agents = count.agents /\ \A d \in Clients : count.edits[d] <= count'.edits[d]
        /\ versions' = versions /\ loose' = {}
        /\ tab' = [tab EXCEPT ![c] = t] /\ mirror' = [mirror EXCEPT ![c] = mirror[c]]
        /\ basis' = [basis EXCEPT ![c] = basis[c]]
        /\ queue' = [queue EXCEPT ![c] = q] /\ wire' = [wire EXCEPT ![c] = w]
    BY <1>1, <1>3, <1>7, <2>3 DEF e, w
  <2> QED  BY ONLY <2>4, Types, Types', AllKnow, c \in Clients, OthersStill
<1>8. CASE r.version = Version
  <2> DEFINE s == Merge(Current, q.inflight)
             w == [kind |-> "done", version |-> Len(versions')]
  <2>1. /\ versions' = Append(versions, s) /\ wire' = [wire EXCEPT ![c] = w]
        /\ w.kind = "done" /\ w.version = Len(versions')
    BY <1>3, <1>8
  <2>2. /\ s \in Snapshot /\ \A f \in DOMAIN q.inflight : s[f] = q.inflight[f]
        /\ \A f \in Fields \ DOMAIN q.inflight : s[f] = Current[f]
    <3>1. Current \in Snapshot /\ Current \in Draft /\ q.inflight \in Draft /\ DOMAIN Current = Fields
      BY <1>2, <1>3, WholeDraft
    <3> HIDE DEF q
    <3> QED  BY ONLY <3>1, MergedDraft
  <2>3. q.base = Current
    BY <1>2, <1>4, <1>3, <1>8 DEF OnBase
  <2>4. DOMAIN q.inflight \subseteq Fields
    BY <1>3, IsDraft
  <2> HIDE DEF r, t, q, e, w, s
  <2>5. Longer(versions, versions', s)
    BY <1>2, <2>1, <2>2, OneMore DEF Longer
  <2>6. /\ Grown(versions, versions') /\ Len(versions') \in Nat /\ Len(versions') \in 1..Len(versions')
        /\ versions'[Len(versions')] = s
    BY <2>5, LongerSaves DEF Longer
  <2>7. \A f \in Fields : IF f \in DOMAIN q.inflight THEN s[f] = q.inflight[f] ELSE WasIn(versions, f, s[f])
    BY <1>2, <2>2 DEF WasIn
  <2>8. ASSUME NEW f \in Fields, NEW x, WasIn(versions', f, x)
        PROVE  WasIn(versions, f, x) \/ \E k \in 1..e : x = <<c, k>>
    BY <1>6, <2>5, <2>7, <2>8, CommitSaves
  <2>9. Novel(versions')
    BY <1>2, <1>5, <2>2, <2>4, <2>5, LongerNovel
  <2>10. ASSUME NEW d \in Clients \ {c} PROVE Foreign(versions, versions', d)
    BY <2>8 DEF Foreign
  <2>11. Past(versions', count.edits, count.agents)
    <3> SUFFICES ASSUME NEW f \in Fields, NEW n \in Nat
                 PROVE  /\ \A d \in Clients : WasIn(versions', f, <<d, n>>) => n <= count.edits[d]
                        /\ WasIn(versions', f, <<"agent", n>>) => n <= count.agents
      BY DEF Past
    <3>1. ASSUME NEW d \in Clients, WasIn(versions', f, <<d, n>>) PROVE n <= count.edits[d]
      <4>1. CASE WasIn(versions, f, <<d, n>>)
        BY <1>2, <4>1 DEF Past
      <4>2. CASE \E k \in 1..e : <<d, n>> = <<c, k>>
        BY <1>1, <4>2 DEF e
      <4> QED  BY <2>8, <3>1, <4>1, <4>2
    <3>2. ASSUME WasIn(versions', f, <<"agent", n>>) PROVE n <= count.agents
      <4>1. WasIn(versions, f, <<"agent", n>>)
        BY <2>8, <3>2, AgentAssumption
      <4> QED  BY <1>2, <4>1 DEF Past
    <3> QED  BY <3>1, <3>2
  <2>12. Left(versions', c, e, mirror[c], w)
    BY <1>2, <1>4, <2>1, <2>6, AuthoredLater DEF Left
  <2>13. OnBase(versions', q, basis[c])
    BY <1>2, <1>4, <2>5, <2>6 DEF OnBase, Grown
  <2>14. Answering(versions', q, w)
    BY <2>1, <2>3, <2>6 DEF Answering, s
  <2>15. Told(versions', c, e, t, q, w)
    <3>1. \A d : SavedBy(versions', d, Len(versions'))
      BY <2>6, SavedNow
    <3>2. \A n : Level(t, q, w, n) => n = Len(versions')
      BY <2>1 DEF Level
    <3>3. \A d \in Drafts(t, q) : Authored(versions', c, e, d)
      BY <1>2, <1>4, <2>6, AuthoredLater DEF Told
    <3> QED  BY <3>1, <3>2, <3>3 DEF Told
  <2>16. Asking(versions', t, q)
    <3>1. t.reverted = Nothing
      BY <1>1, <1>3 DEF Keeps, Resting
    <3> QED  BY <1>2, <1>4, <1>3, <2>5, <2>6, <3>1 DEF Asking, Grown
  <2>17. Live(versions', t, q, w)
    BY <1>3, <2>1 DEF Live
  <2>18. Knows(versions', c, e, t, q, w, mirror[c], basis[c])
    BY <2>12, <2>13, <2>14, <2>15, <2>16, <2>17 DEF Knows
  <2>19. /\ Knows(versions', c, count'.edits[c], t, q, w, mirror[c], basis[c])
         /\ Grown(versions, versions') /\ loose' = {} /\ Novel(versions')
         /\ Past(versions', count'.edits, count'.agents)
         /\ \A d \in Clients \ {c} :
               Foreign(versions, versions', d) /\ count.edits[d] <= count'.edits[d]
         /\ tab' = [tab EXCEPT ![c] = t] /\ mirror' = [mirror EXCEPT ![c] = mirror[c]]
         /\ basis' = [basis EXCEPT ![c] = basis[c]]
         /\ queue' = [queue EXCEPT ![c] = q] /\ wire' = [wire EXCEPT ![c] = w]
    BY <1>1, <1>3, <2>1, <2>6, <2>9, <2>10, <2>11, <2>18 DEF e
  <2> QED  BY ONLY <2>19, Types, Types', AllKnow, c \in Clients, OthersKnow
<1> QED  BY <1>7, <1>8

(* What was saved by one version was saved by any after it.                *)
LEMMA SavedLater ==
    ASSUME NEW vs, Len(vs) \in Nat, NEW d, NEW n \in Nat, NEW k \in Nat, n <= k, SavedBy(vs, d, n)
    PROVE  SavedBy(vs, d, k)
<1> SUFFICES ASSUME NEW f \in DOMAIN d, WasIn(vs, f, d[f])
             PROVE  \E i \in 1..Len(vs) : i <= k /\ vs[i][f] = d[f]
  BY DEF SavedBy
<1>1. PICK i \in 1..Len(vs) : i <= n /\ vs[i][f] = d[f]
  BY DEF SavedBy
<1> QED  BY <1>1

(* A queue that rebases finds nothing changed under what it sent: a field  *)
(* that has what was sent would have had it before, and then the version   *)
(* that won has nothing new.                                               *)
LEMMA RebaseChangesNothing ==
    ASSUME NEW vs, Len(vs) \in Nat, Novel(vs), NEW i \in 1..Len(vs), NEW j \in 1..Len(vs), i <= j,
           NEW d, DOMAIN d \subseteq Fields, SavedBy(vs, d, i),
           \A f \in DOMAIN d : vs[j][f] \in {d[f], vs[i][f]},
           NEW g \in DOMAIN d, vs[j][g] # d[g]
    PROVE  \A f \in DOMAIN d : vs[j][f] = vs[i][f]
<1> SUFFICES ASSUME NEW f \in DOMAIN d, vs[j][f] # vs[i][f] PROVE FALSE
  OBVIOUS
<1>1. i # j /\ i < j /\ j \in 2..Len(vs)
  OBVIOUS
<1>2. vs[j][f] = d[f] /\ vs[j][g] = vs[i][g] /\ f # g
  OBVIOUS
<1>3. PICK k \in 1..Len(vs) : k <= i /\ vs[k][f] = d[f]
  <2>1. WasIn(vs, f, d[f])
    BY <1>2 DEF WasIn
  <2> QED  BY <2>1 DEF SavedBy
<1>4. PICK h \in Fields : \A n \in 1..(j - 1) : vs[n][h] # vs[j][h]
  BY <1>1 DEF Novel
<1>5. h # f
  BY <1>1, <1>2, <1>3, <1>4
<1>6. h # g
  BY <1>1, <1>2, <1>4
<1>7. Fields = {"body", "prop"}
  BY DEF Fields
<1> QED  BY <1>2, <1>5, <1>6, <1>7

(* The answer.                                                             *)
LEMMA AnsweredKnows ==
    ASSUME Types, Types', Calm, AllKnow, NEW c \in Clients, Answered(c)
    PROVE  AllKnow'
<1> DEFINE w     == wire[c]
           q0    == queue[c]
           s     == tab[c]
           e     == count.edits[c]
           b     == basis[c]
           ours  == IF q0.inflight = Nothing THEN NoFields ELSE q0.inflight
           weighs == IF w.kind = "stale" THEN Verdict(ours, q0.base, w.fields) ELSE w.kind
           notice == [version |-> w.version, fields |-> w.fields]
<1>1. /\ Keeps(versions, s, q0, w, mirror[c], own[c])
      /\ tab = [tab EXCEPT ![c] = s] /\ mirror = [mirror EXCEPT ![c] = mirror[c]]
      /\ basis = [basis EXCEPT ![c] = b]
      /\ q0 \in Queues /\ s \in Tabs /\ w \in Messages
      /\ Held(s) = {} /\ tab \in [Clients -> Tabs]
      /\ Knows(versions, c, e, s, q0, w, mirror[c], b)
      /\ loose = {} /\ \A d \in Clients : count.edits[d] <= count.edits[d]
      /\ Len(versions) \in Nat /\ Novel(versions) /\ versions \in Seq(Snapshot)
  BY TheKeeps, TheKnows DEF AllKnow, Types, Pages
<1>2. /\ q0.stage = "sent" /\ UNCHANGED <<setting, versions, room, loose, count, basis>>
      /\ \/ weighs \in {"failed", "locked"}
         \/ weighs \in {"done", "landed"} /\ Saved(c, w.version)
         \/ weighs = "conflict" /\ Conflicted(c, w) /\ UNCHANGED mirror
         \/ weighs = "rebase" /\ Exhaust(c, w) /\ UNCHANGED mirror
         \/ weighs = "rebase" /\ Rebase(c, w) /\ UNCHANGED <<tab, mirror>>
  BY DEF Answered
<1>3. /\ s.open /\ s.recovery = Nothing /\ s.reverted = Nothing
      /\ q0.pending = NoFields /\ q0.inflight # Nothing /\ q0.inflight \in Draft
  <2>1. s.open /\ ~Resting(q0)
    BY <1>2, TheKeeps DEF Resting
  <2> QED  BY <1>1, <1>2, <2>1 DEF Keeps, Queues
<1>4. Unsent(q0) = q0.inflight /\ ours = q0.inflight
  BY <1>3, NoneDraft DEF Unsent
<1>5. /\ OnBase(versions, q0, b) /\ Answering(versions, q0, w)
      /\ Told(versions, c, e, s, q0, w) /\ Asking(versions, s, q0) /\ Live(versions, s, q0, w)
      /\ Left(versions, c, e, mirror[c], w)
  BY <1>1, <1>3 DEF Knows
<1>6. /\ w.kind = "stale" => /\ w.version \in 1..Len(versions) /\ w.fields = versions[w.version]
                            /\ q0.version <= w.version /\ w.fields \in Snapshot
                            /\ w.version \in Nat
      /\ q0.version \in Nat /\ q0.version \in 1..Len(versions) /\ Silence.kind = "none"
  BY <1>1, <1>5 DEF Answering, Queues, OnBase, Silence
<1>7. HasPending(q0) /\ DOMAIN q0.inflight \subseteq Fields
  BY <1>3, <1>5, IsDraft DEF Live
<1>8. w.kind # "done" =>
        \E f \in DOMAIN q0.inflight : ~WasIn(versions, f, q0.inflight[f]) /\ s.screen[f] = q0.inflight[f]
  BY <1>4, <1>5, <1>7 DEF Live
<1>9. w.kind = "stale" => weighs \in {"rebase", "conflict"}
  <2>1. ASSUME w.kind = "stale", \A f \in DOMAIN q0.inflight : w.fields[f] = q0.inflight[f]
        PROVE  FALSE
    <3>1. PICK f \in DOMAIN q0.inflight : ~WasIn(versions, f, q0.inflight[f])
      BY <1>8, <2>1
    <3>2. versions[w.version][f] = q0.inflight[f]
      BY <1>6, <2>1
    <3> QED  BY <1>6, <2>1, <3>1, <3>2 DEF WasIn
  <2>2. w.kind = "stale" => \E f \in DOMAIN ours : w.fields[f] # ours[f]
    BY <1>4, <2>1
  <2> HIDE DEF ours, w, q0
  <2> QED  BY <2>2 DEF Verdict
<1>10. w.kind # "stale" => weighs = w.kind
  OBVIOUS
<1>11. w.kind = "stale" /\ weighs = "rebase" =>
         /\ \A f \in DOMAIN q0.inflight : w.fields[f] \in {q0.inflight[f], q0.base[f]}
         /\ \E f \in DOMAIN q0.inflight : w.fields[f] # q0.inflight[f]
  <2> HIDE DEF w, q0, ours
  <2> QED  BY <1>4 DEF Verdict
<1>12. /\ weighs \notin {"failed", "locked"} /\ (weighs \in {"done", "landed"} => w.kind = "done")
       /\ weighs \in {"conflict", "rebase"} => w.kind = "stale"
  <2> HIDE DEF w, weighs
  <2> QED  BY <1>5, <1>9, <1>10 DEF Answering
<1>13. count'.agents = count.agents /\ (\A d \in Clients : count.edits[d] <= count'.edits[d])
       /\ versions' = versions /\ loose' = {} /\ count'.edits[c] = e
       /\ basis' = [basis EXCEPT ![c] = b]
  BY <1>1, <1>2
<1> HIDE DEF weighs, ours, q0, w, notice, s, e, b
<1>14. ASSUME weighs \in {"done", "landed"}, Saved(c, w.version)
       PROVE  AllKnow'
  <2> DEFINE q == Acked(q0, w.version)
             x == Pumped(q, {})
             t == [s EXCEPT !.banner = Nothing, !.reverted = Nothing]
  <2>0. /\ w.kind = "done" /\ w.version \in 1..Len(versions) /\ w.version \in Nat
        /\ versions[w.version] = Merge(q0.base, q0.inflight)
    BY <1>1, <1>5, <1>12, <1>14 DEF Answering
  <2>1. /\ q \in Queues /\ q.stage = "idle" /\ Unsent(q) = NoFields
        /\ q.pending = NoFields /\ q.inflight = Nothing /\ q.version = w.version
        /\ q.base = versions[w.version]
    BY <1>1, <1>3, <2>0, AckedQueue
  <2>2. ~HasPending(q) /\ DOMAIN NoFields = {}
    BY <2>1, EmptyDraft DEF HasPending
  <2>3. /\ queue' = [queue EXCEPT ![c] = x] /\ wire' = [wire EXCEPT ![c] = Sent(c, x)]
        /\ tab' = [tab EXCEPT ![c] = t] /\ mirror' = [mirror EXCEPT ![c] = Nothing]
    BY <1>1, <1>14, <2>2 DEF Saved, Pump, q0, s
  <2>4. /\ t.open /\ t.recovery = Nothing /\ t.screen = s.screen
        /\ t.banner = Nothing /\ t.reverted = Nothing
    BY <1>1, <1>3 DEF Tabs
  <2> HIDE DEF q, t
  <2>5. OnBase(versions, q, b)
    BY <2>0, <2>1, <2>2 DEF OnBase
  <2>6. Told(versions, c, e, t, q, Silence)
    <3>1. Drafts(t, q) = {s.screen, NoFields}
      BY <2>1, <2>4 DEF Drafts
    <3>2. \A n : Level(t, q, Silence, n) => n = w.version
      BY <1>6, <2>1, <2>4 DEF Level
    <3>3. Authored(versions, c, e, s.screen) /\ SavedBy(versions, s.screen, w.version)
      BY <1>5, <2>0 DEF Told, Drafts, Level
    <3>4. Authored(versions, c, e, NoFields) /\ SavedBy(versions, NoFields, w.version)
      BY <2>2 DEF Authored, SavedBy
    <3> QED  BY <3>1, <3>2, <3>3, <3>4 DEF Told
  <2>7. Answering(versions, q, Silence) /\ Asking(versions, t, q) /\ Live(versions, t, q, Silence)
    BY <1>6, <2>1, <2>2, <2>4 DEF Answering, Asking, Live
  <2>8. Knows(versions, c, e, t, q, Silence, Nothing, b)
    BY <2>5, <2>6, <2>7 DEF Knows, Left
  <2>9. Knows(versions, c, e, t, x, Sent(c, x), Nothing, b)
    BY <2>1, <2>8, PumpKnows
  <2> HIDE DEF x
  <2>10. Knows(versions, c, count'.edits[c], t, x, Sent(c, x), Nothing, b)
    BY <1>13, <2>9
  <2> QED  BY ONLY <1>13, <2>3, <2>10, Types, Types', AllKnow, c \in Clients, OthersStill
<1>15. ASSUME weighs = "conflict", Conflicted(c, w), UNCHANGED mirror
       PROVE  AllKnow'
  <2> DEFINE q == Stopped(q0)
             t == [s EXCEPT !.banner = notice]
  <2>0. w.kind = "stale"
    BY <1>12, <1>15
  <2>1. /\ Unsent(q) = Unsent(q0) /\ q.inflight = q0.inflight
        /\ q.version = q0.version /\ q.base = q0.base
    BY <1>1, OtherSteps, CurrentIs DEF Types, Shared
  <2>2. notice # Nothing
    BY <1>6, <2>0, ANotice DEF notice
  <2>3. /\ queue' = [queue EXCEPT ![c] = q] /\ wire' = [wire EXCEPT ![c] = Silence]
        /\ tab' = [tab EXCEPT ![c] = t]
    BY <1>1, <1>15 DEF Conflicted, q0, notice, s
  <2>4. /\ t.recovery = Nothing /\ t.banner = notice /\ t.reverted = Nothing /\ t.open
        /\ t.screen = s.screen /\ notice.version = w.version /\ notice.fields = w.fields
    BY <1>1, <1>3 DEF Tabs, notice
  <2> HIDE DEF q, t
  <2>5. HasPending(q) /\ Drafts(t, q) = Drafts(s, q0)
    BY <1>3, <1>7, <2>1, <2>4 DEF HasPending, Drafts
  <2>6. Told(versions, c, e, t, q, Silence)
    <3>1. \A n : Level(t, q, Silence, n) => n = q0.version \/ n = w.version
      BY <1>6, <2>1, <2>4 DEF Level
    <3>2. ASSUME NEW d \in Drafts(s, q0)
          PROVE  /\ Authored(versions, c, e, d)
                 /\ SavedBy(versions, d, q0.version) /\ SavedBy(versions, d, w.version)
      <4>1. Authored(versions, c, e, d) /\ SavedBy(versions, d, q0.version)
        BY <1>5, <1>6, <2>0 DEF Told, Level
      <4> QED  BY <1>1, <1>6, <2>0, <4>1, SavedLater
    <3> QED  BY <2>5, <3>1, <3>2 DEF Told
  <2>7. /\ OnBase(versions, q, b) /\ Answering(versions, q, Silence)
        /\ Asking(versions, t, q) /\ Live(versions, t, q, Silence)
    <3>1. OnBase(versions, q, b) /\ Answering(versions, q, Silence)
      BY <1>5, <1>6, <2>1 DEF OnBase, Answering
    <3>2. Asking(versions, t, q)
      BY <1>6, <2>0, <2>4, <2>5 DEF Asking
    <3>3. Live(versions, t, q, Silence)
      BY <1>4, <1>8, <2>0, <2>1, <2>4, <2>5 DEF Live
    <3> QED  BY <3>1, <3>2, <3>3
  <2>8. Left(versions, c, e, mirror[c], Silence)
    BY <1>5, <2>0 DEF Left
  <2>9. Knows(versions, c, e, t, q, Silence, mirror[c], b)
    BY <2>6, <2>7, <2>8 DEF Knows
  <2>10. /\ Knows(versions, c, count'.edits[c], t, q, Silence, mirror[c], b)
         /\ mirror' = [mirror EXCEPT ![c] = mirror[c]]
    BY <1>1, <1>13, <1>15, <2>9
  <2> QED  BY ONLY <1>13, <2>3, <2>10, Types, Types', AllKnow, c \in Clients, OthersStill
<1>16. ASSUME weighs = "rebase", Exhaust(c, w), UNCHANGED mirror
       PROVE  AllKnow'
  <2> DEFINE q == [Stopped(q0) EXCEPT !.inflight = Nothing, !.pending = NoFields]
             was == Restrict(q0.base, DOMAIN q0.inflight)
             back == Merge(s.screen, was)
             t == [s EXCEPT !.banner = notice, !.reverted = s.screen, !.screen = back]
  <2>0. w.kind = "stale"
    BY <1>12, <1>16
  <2>1. /\ q.inflight = Nothing /\ q.pending = NoFields /\ q.version = q0.version
        /\ q.base = q0.base
    BY <1>1 DEF Stopped, Queues
  <2>2. notice # Nothing
    BY <1>6, <2>0, ANotice DEF notice
  <2>3. /\ queue' = [queue EXCEPT ![c] = q] /\ wire' = [wire EXCEPT ![c] = Silence]
        /\ tab' = [tab EXCEPT ![c] = t]
    BY <1>1, <1>16 DEF Exhaust, q0, notice, s
  <2> HIDE DEF back, q
  <2>4. /\ t.recovery = Nothing /\ t.banner = notice /\ t.reverted = s.screen /\ t.open
        /\ t.screen = back /\ notice.version = w.version /\ notice.fields = w.fields
    BY <1>1, <1>3 DEF Tabs, notice
  <2> HIDE DEF t
  <2>5. Unsent(q) = NoFields /\ DOMAIN NoFields = {} /\ ~HasPending(q)
    BY <2>1, EmptyDraft DEF Unsent, HasPending
  <2>6. /\ s.screen \in Snapshot /\ s.screen \in Draft /\ DOMAIN s.screen = Fields
        /\ q0.base \in Draft /\ DOMAIN q0.base = Fields
    BY <1>1, WholeDraft DEF Tabs, Queues
  <2>7. s.screen # Nothing
    BY <2>6, NoneDraft
  <2>8. was \in Draft /\ DOMAIN was = DOMAIN q0.inflight
        /\ \A f \in DOMAIN was : was[f] = versions[q0.version][f]
    <3>1. was \in Draft /\ DOMAIN was = DOMAIN q0.inflight
          /\ \A f \in DOMAIN q0.inflight : was[f] = q0.base[f]
      BY <1>7, <2>6, CutDraft
    <3> HIDE DEF was
    <3> QED  BY <1>5, <3>1 DEF OnBase
  <2> HIDE DEF was
  <2>9. /\ DOMAIN back \subseteq DOMAIN s.screen \cup DOMAIN was
        /\ \A f \in DOMAIN back : back[f] = IF f \in DOMAIN was THEN was[f] ELSE s.screen[f]
    BY DEF back, Merge
  <2>10. /\ Authored(versions, c, e, was)
         /\ \A k \in 1..Len(versions) : q0.version <= k => SavedBy(versions, was, k)
    BY <1>1, <1>6, <2>8, VersionTold
  <2>11. /\ Authored(versions, c, e, s.screen)
         /\ SavedBy(versions, s.screen, q0.version) /\ SavedBy(versions, s.screen, w.version)
    <3>1. Authored(versions, c, e, s.screen) /\ SavedBy(versions, s.screen, q0.version)
      BY <1>5, <1>6, <2>0 DEF Told, Level, Drafts
    <3> QED  BY <1>1, <1>6, <2>0, <3>1, SavedLater
  <2>12. /\ Authored(versions, c, e, back)
         /\ SavedBy(versions, back, q0.version) /\ SavedBy(versions, back, w.version)
    <3>1. /\ Authored(versions, c, e, s.screen) /\ Authored(versions, c, e, was)
             => Authored(versions, c, e, back)
          /\ \A n : SavedBy(versions, s.screen, n) /\ SavedBy(versions, was, n)
                    => SavedBy(versions, back, n)
      BY ONLY <2>6, <2>8, <2>9, MergedTold
    <3>2. SavedBy(versions, was, q0.version) /\ SavedBy(versions, was, w.version)
      BY <1>6, <2>0, <2>10
    <3> QED  BY <2>10, <2>11, <3>1, <3>2
  <2>13. Told(versions, c, e, t, q, Silence)
    <3>1. \A n : Level(t, q, Silence, n) => n = q0.version \/ n = w.version
      BY <1>6, <2>1, <2>4 DEF Level
    <3>2. Drafts(t, q) \subseteq {back, NoFields, s.screen}
      BY <2>4, <2>5 DEF Drafts
    <3>3. Authored(versions, c, e, NoFields) /\ \A n : SavedBy(versions, NoFields, n)
      BY <2>5 DEF Authored, SavedBy
    <3> QED  BY <2>11, <2>12, <3>1, <3>2, <3>3 DEF Told
  <2>14. Asking(versions, t, q)
    <3>1. HasNew(versions, s.screen)
      BY <1>7, <1>8, <2>0, <2>6 DEF HasNew
    <3> QED  BY <1>6, <2>0, <2>4, <2>7, <3>1 DEF Asking
  <2>15. OnBase(versions, q, b) /\ Answering(versions, q, Silence) /\ Live(versions, t, q, Silence)
    BY <1>5, <1>6, <2>1, <2>5 DEF OnBase, Answering, Live
  <2>16. Left(versions, c, e, mirror[c], Silence)
    BY <1>5, <2>0 DEF Left
  <2>17. Knows(versions, c, e, t, q, Silence, mirror[c], b)
    BY <2>13, <2>14, <2>15, <2>16 DEF Knows
  <2>18. /\ Knows(versions, c, count'.edits[c], t, q, Silence, mirror[c], b)
         /\ mirror' = [mirror EXCEPT ![c] = mirror[c]]
    BY <1>1, <1>13, <1>16, <2>17
  <2> QED  BY ONLY <1>13, <2>3, <2>18, Types, Types', AllKnow, c \in Clients, OthersStill
<1>17. ASSUME weighs = "rebase", Rebase(c, w), UNCHANGED <<tab, mirror>>
       PROVE  AllKnow'
  <2> DEFINE r == RebasedOnto(q0, w.version, w.fields)
             q == [r EXCEPT !.stage = "backoff", !.attempt = @ + 1]
  <2>0. w.kind = "stale"
    BY <1>12, <1>17
  <2>1. q0 \in Queues /\ w.version \in Nat /\ w.fields \in Snapshot
    BY <1>1, <1>6, <2>0
  <2>2. /\ r \in Queues /\ r.pending = q0.pending /\ r.inflight = q0.inflight
        /\ r.version = w.version /\ r.base = w.fields
    BY ONLY <2>1, OtherSteps
  <2>3. queue' = [queue EXCEPT ![c] = q] /\ wire' = [wire EXCEPT ![c] = Silence]
    BY <1>17 DEF Rebase, q0
  <2> HIDE DEF r
  <2>4. /\ q.pending = q0.pending /\ q.inflight = q0.inflight
        /\ q.version = w.version /\ q.base = w.fields
    BY <2>2 DEF Queues
  <2> HIDE DEF q
  <2>5. Unsent(q) = Unsent(q0) /\ HasPending(q) /\ Drafts(s, q) = Drafts(s, q0)
    BY <1>7, <2>4 DEF Unsent, HasPending, Drafts
  <2>6. ASSUME NEW d \in Drafts(s, q0)
        PROVE  /\ Authored(versions, c, e, d) /\ SavedBy(versions, d, q0.version)
               /\ SavedBy(versions, d, w.version)
               /\ s.banner # Nothing => SavedBy(versions, d, s.banner.version)
    <3>1. Authored(versions, c, e, d) /\ SavedBy(versions, d, q0.version)
      BY <1>5, <1>6, <2>0 DEF Told, Level
    <3>2. s.banner # Nothing => SavedBy(versions, d, s.banner.version)
      BY <1>5, <2>0 DEF Told, Level, Asking
    <3> QED  BY <1>1, <1>6, <2>0, <3>1, <3>2, SavedLater
  <2>7. \A f \in DOMAIN q0.inflight : w.fields[f] = q0.base[f]
    <3>1. PICK g \in DOMAIN q0.inflight : w.fields[g] # q0.inflight[g]
      BY <1>11, <1>17, <2>0
    <3>2. SavedBy(versions, q0.inflight, q0.version)
      BY <1>4, <2>6 DEF Drafts
    <3>3. q0.base = versions[q0.version] /\ w.fields = versions[w.version]
      BY <1>5, <1>6, <2>0 DEF OnBase
    <3>4. \A f \in DOMAIN q0.inflight : versions[w.version][f] \in {q0.inflight[f], versions[q0.version][f]}
      BY <1>11, <1>17, <2>0, <3>3
    <3>5. versions[w.version][g] # q0.inflight[g]
      BY <3>1, <3>3
    <3>6. \A f \in DOMAIN q0.inflight : versions[w.version][f] = versions[q0.version][f]
      BY <1>1, <1>6, <1>7, <2>0, <3>1, <3>2, <3>4, <3>5, RebaseChangesNothing
    <3> QED  BY <3>3, <3>6
  <2>8. OnBase(versions, q, b)
    BY <1>4, <1>5, <1>6, <2>0, <2>4, <2>5, <2>7 DEF OnBase
  <2>9. Told(versions, c, e, s, q, Silence)
    <3>1. \A n : Level(s, q, Silence, n) =>
            n = w.version \/ (s.banner # Nothing /\ n = s.banner.version)
      BY <1>6, <2>4 DEF Level
    <3> QED  BY <2>5, <2>6, <3>1 DEF Told
  <2>10. Asking(versions, s, q) /\ Answering(versions, q, Silence)
    BY <1>3, <1>5, <1>6, <2>5 DEF Asking, Answering
  <2>11. Live(versions, s, q, Silence)
    BY <1>4, <1>8, <2>0, <2>5 DEF Live
  <2>12. Left(versions, c, e, mirror[c], Silence)
    BY <1>5, <2>0 DEF Left
  <2>13. Knows(versions, c, e, s, q, Silence, mirror[c], b)
    BY <2>8, <2>9, <2>10, <2>11, <2>12 DEF Knows
  <2>14. /\ Knows(versions, c, count'.edits[c], s, q, Silence, mirror[c], b)
         /\ mirror' = [mirror EXCEPT ![c] = mirror[c]] /\ tab' = [tab EXCEPT ![c] = s]
    BY <1>1, <1>13, <1>17, <2>13
  <2> QED  BY ONLY <1>13, <2>3, <2>14, Types, Types', AllKnow, c \in Clients, OthersStill
<1> QED  BY <1>2, <1>12, <1>14, <1>15, <1>16, <1>17

(* A draft with one value more, that was just typed.                       *)
LEMMA EditTold ==
    ASSUME NEW vs, NEW c, NEW e \in Nat, NEW f, ~WasIn(vs, f, <<c, e + 1>>), NEW a, NEW d,
           DOMAIN d \subseteq DOMAIN a \cup {f}, d[f] = <<c, e + 1>>,
           \A g \in DOMAIN d \ {f} : d[g] = a[g], Authored(vs, c, e, a)
    PROVE  /\ Authored(vs, c, e + 1, d)
           /\ \A n : SavedBy(vs, a, n) => SavedBy(vs, d, n)
<1>1. ASSUME NEW g \in DOMAIN d
      PROVE  WasIn(vs, g, d[g]) \/ \E k \in 1..(e + 1) : d[g] = <<c, k>>
  <2>1. CASE g = f
    BY <2>1
  <2>2. CASE g # f
    <3>1. WasIn(vs, g, d[g]) \/ \E k \in 1..e : d[g] = <<c, k>>
      BY <2>2 DEF Authored
    <3>2. \A k \in 1..e : k \in 1..(e + 1)
      OBVIOUS
    <3> QED  BY <3>1, <3>2
  <2> QED  BY <2>1, <2>2
<1>2. ASSUME NEW n, SavedBy(vs, a, n), NEW g \in DOMAIN d, WasIn(vs, g, d[g])
      PROVE  \E i \in 1..Len(vs) : i <= n /\ vs[i][g] = d[g]
  <2>1. g # f
    BY <1>2
  <2> QED  BY <1>2, <2>1 DEF SavedBy
<1>3. ASSUME NEW n, SavedBy(vs, a, n) PROVE SavedBy(vs, d, n)
  BY <1>2, <1>3 DEF SavedBy
<1> QED  BY <1>1, <1>3 DEF Authored

(* The basis of an edit that begins is the base it begins on.              *)
LEMMA BeginsOnBase ==
    ASSUME Types, NEW c \in Clients, NEW q \in Queues, OnBase(versions, q, basis[c]), NEW d \in Draft
    PROVE  \E b : /\ Beginning(c, q, d) = [basis EXCEPT ![c] = b]
                  /\ \A f \in DOMAIN Unsent(q) \cup DOMAIN d : q.base[f] = b[f]
<1> DEFINE b == [f \in Fields |-> IF f \in DOMAIN d \ DOMAIN Unsent(q) THEN q.base[f] ELSE basis[c][f]]
<1>1. Beginning(c, q, d) = [basis EXCEPT ![c] = b]
  BY DEF Beginning, Types, Shared
<1>2. DOMAIN Unsent(q) \subseteq Fields /\ DOMAIN d \subseteq Fields
  BY TheUnsent, IsDraft
<1>3. \A f \in DOMAIN Unsent(q) \cup DOMAIN d : q.base[f] = b[f]
  BY <1>2 DEF OnBase
<1> HIDE DEF b
<1> QED  BY <1>1, <1>3

(* An edit.                                                                *)
LEMMA TypeKnows ==
    ASSUME Types, Types', Patient, Calm, AllKnow, NEW c \in Clients, NEW f \in Fields, Type(c, f)
    PROVE  AllKnow'
<1> DEFINE edit == Single(f, Fresh(c))
           e == count.edits[c]
           q0 == queue[c]
           q == Changed(q0, edit)
           m == Mirrored(q)
           old == tab[c].screen
           s == [tab[c].screen EXCEPT ![f] = Fresh(c)]
           t == [tab[c] EXCEPT !.screen = s, !.reverted = Nothing]
<1>1. /\ Keeps(versions, tab[c], q0, wire[c], mirror[c], own[c])
      /\ wire = [wire EXCEPT ![c] = wire[c]]
      /\ q0 \in Queues /\ tab[c] \in Tabs
      /\ q0.stage # "sent" => wire[c] = Silence
      /\ tab \in [Clients -> Tabs]
      /\ Knows(versions, c, e, tab[c], q0, wire[c], mirror[c], basis[c])
      /\ loose = {} /\ \A d \in Clients : count.edits[d] \in Nat
      /\ Past(versions, count.edits, count.agents) /\ count \in Counts
  BY TheKeeps, TheKnows DEF Types, Pages, Shared, AllKnow
<1>2. /\ tab[c].open /\ q0.stage = "idle" /\ tab[c].recovery = Nothing
      /\ count.edits[c] < setting.edits /\ Typed(c, f)
      /\ UNCHANGED <<setting, versions, room, wire, loose>>
      /\ queue' = [queue EXCEPT ![c] = q] /\ mirror' = [mirror EXCEPT ![c] = m]
      /\ tab' = [tab EXCEPT ![c].screen[f] = Fresh(c), ![c].reverted = Nothing]
      /\ basis' = Beginning(c, q0, edit)
  BY DEF Type, MayType, MayAct, Patient, Typed
<1>3. tab' = [tab EXCEPT ![c] = t]
  BY <1>1, <1>2
<1>4. count'.edits = [count.edits EXCEPT ![c] = e + 1] /\ count'.agents = count.agents
  BY <1>1, <1>2 DEF Typed, Counts
<1>5. /\ count'.edits[c] = e + 1 /\ e \in Nat
      /\ \A d \in Clients : count.edits[d] <= count'.edits[d]
  <2>1. count.edits \in [Clients -> Nat]
    BY <1>1, SaveQueueAssumption DEF Counts
  <2> QED  BY <1>1, <1>4, <2>1
<1>6. Fresh(c) = <<c, e + 1>> /\ Fresh(c) \in Values
  BY <1>2, FreshValue DEF Fresh
<1>7. ~WasIn(versions, f, <<c, e + 1>>)
  <2>1. e + 1 \in Nat /\ ~(e + 1 <= e)
    BY <1>5
  <2>2. \A n \in Nat : WasIn(versions, f, <<c, n>>) => n <= e
    BY <1>1 DEF Past
  <2> HIDE DEF e
  <2> QED  BY <2>1, <2>2
<1>8. edit \in Draft /\ DOMAIN edit = {f} /\ edit[f] = <<c, e + 1>>
  BY <1>6, OneDraft
<1> HIDE DEF edit, e
<1>9. /\ q \in Queues /\ q.version = q0.version /\ q.base = q0.base /\ q.inflight = q0.inflight
      /\ DOMAIN Unsent(q) = DOMAIN Unsent(q0) \cup {f} /\ Unsent(q)[f] = <<c, e + 1>>
      /\ \A g \in DOMAIN Unsent(q0) \ {f} : Unsent(q)[g] = Unsent(q0)[g]
  <2>1. q0 \in Queues /\ edit \in Draft
    BY <1>1, <1>8
  <2> HIDE DEF q0
  <2>2. /\ q \in Queues /\ q.version = q0.version /\ q.base = q0.base /\ q.inflight = q0.inflight
        /\ DOMAIN Unsent(q) = DOMAIN Unsent(q0) \cup DOMAIN edit
        /\ \A g \in DOMAIN edit : Unsent(q)[g] = edit[g]
        /\ \A g \in DOMAIN Unsent(q0) \ DOMAIN edit : Unsent(q)[g] = Unsent(q0)[g]
    BY ONLY <2>1, ChangedQueue
  <2> HIDE DEF q
  <2> QED  BY <1>8, <2>2
<1> HIDE DEF q, q0
<1>10. m # Nothing /\ m.fields = Unsent(q)
  <2>1. Unsent(q) \in Draft /\ q.version \in Nat
    BY <1>9, TheUnsent DEF Queues
  <2> QED  BY <2>1, NothingAssumption DEF Mirrored
<1>11. /\ t.recovery = Nothing /\ t.reverted = Nothing /\ t.screen = s /\ t.open
       /\ t.banner = tab[c].banner
  BY <1>1, <1>2 DEF Tabs
<1>12. /\ DOMAIN s = Fields /\ DOMAIN old = Fields /\ s[f] = <<c, e + 1>>
       /\ \A g \in Fields \ {f} : s[g] = old[g]
  BY <1>1, <1>6 DEF Tabs, Snapshot
<1>13. wire[c] = Silence /\ Silence.kind = "none"
  BY <1>1, <1>2 DEF Silence
<1>14. /\ OnBase(versions, q0, basis[c]) /\ Told(versions, c, e, tab[c], q0, Silence)
       /\ Asking(versions, tab[c], q0)
       /\ old \in Drafts(tab[c], q0) /\ Unsent(q0) \in Drafts(tab[c], q0)
  BY <1>1, <1>2, <1>13 DEF Knows, Drafts
<1> HIDE DEF m, t, s, old
<1>15. /\ Authored(versions, c, e + 1, s)
       /\ \A n : SavedBy(versions, old, n) => SavedBy(versions, s, n)
  BY <1>5, <1>7, <1>12, <1>14, EditTold DEF Told
<1>16. /\ Authored(versions, c, e + 1, Unsent(q))
       /\ \A n : SavedBy(versions, Unsent(q0), n) => SavedBy(versions, Unsent(q), n)
  BY <1>5, <1>7, <1>9, <1>14, EditTold DEF Told
<1>17. HasPending(q) /\ HasNew(versions, Unsent(q))
  BY <1>7, <1>9 DEF HasPending, HasNew
<1>18. Told(versions, c, e + 1, t, q, Silence)
  <2>1. Drafts(t, q) = {s, Unsent(q)}
    BY <1>11 DEF Drafts
  <2>2. \A n : Level(t, q, Silence, n) => Level(tab[c], q0, Silence, n)
    BY <1>9, <1>11 DEF Level
  <2> QED  BY <1>14, <1>15, <1>16, <2>1, <2>2 DEF Told
<1>19. Asking(versions, t, q) /\ Answering(versions, q, Silence) /\ Live(versions, t, q, Silence)
  BY <1>7, <1>9, <1>11, <1>12, <1>13, <1>14, <1>17 DEF Asking, Answering, Live
<1>20. Left(versions, c, e + 1, m, Silence)
  BY <1>10, <1>16, <1>17 DEF Left
<1>21. PICK b : /\ basis' = [basis EXCEPT ![c] = b]
                /\ \A g \in DOMAIN Unsent(q0) \cup {f} : q0.base[g] = b[g]
  BY <1>1, <1>2, <1>8, <1>14, BeginsOnBase
<1>22. OnBase(versions, q, b)
  BY <1>9, <1>14, <1>21 DEF OnBase
<1>23. Knows(versions, c, e + 1, t, q, Silence, m, b)
  BY <1>18, <1>19, <1>20, <1>22 DEF Knows
<1>24. /\ Knows(versions, c, count'.edits[c], t, q, wire[c], m, b)
       /\ count'.agents = count.agents /\ \A d \in Clients : count.edits[d] <= count'.edits[d]
       /\ versions' = versions /\ loose' = {}
       /\ tab' = [tab EXCEPT ![c] = t] /\ queue' = [queue EXCEPT ![c] = q]
       /\ wire' = [wire EXCEPT ![c] = wire[c]] /\ mirror' = [mirror EXCEPT ![c] = m]
       /\ basis' = [basis EXCEPT ![c] = b]
  BY <1>1, <1>2, <1>3, <1>4, <1>5, <1>13, <1>21, <1>23
<1> QED  BY ONLY <1>24, Types, Types', AllKnow, c \in Clients, OthersStill

(* A part of a draft is told as the draft is.                              *)
LEMMA PartTold ==
    ASSUME NEW a, NEW d, \A f \in DOMAIN d : f \in DOMAIN a /\ d[f] = a[f],
           NEW vs, NEW c, NEW e, Authored(vs, c, e, a)
    PROVE  Authored(vs, c, e, d) /\ \A n : SavedBy(vs, a, n) => SavedBy(vs, d, n)
<1>1. Authored(vs, c, e, d)
  BY DEF Authored
<1>2. ASSUME NEW n, SavedBy(vs, a, n) PROVE SavedBy(vs, d, n)
  BY <1>2 DEF SavedBy
<1> QED  BY <1>1, <1>2

(* "Take theirs": the page of the version that won.                        *)
LEMMA TakeTheirsKnows ==
    ASSUME Types, Types', Patient, Calm, AllKnow, NEW c \in Clients, TakeTheirs(c)
    PROVE  AllKnow'
<1> DEFINE s == tab[c]
           e == count.edits[c]
           b == s.banner.fields
           v == s.banner.version
           p == [queue[c] EXCEPT !.pending = NoFields, !.inflight = Nothing, !.timer = FALSE]
           q == RebasedOnto(p, v, b)
           t == [s EXCEPT !.screen = b, !.banner = Nothing, !.reverted = Nothing]
<1>1. /\ Keeps(versions, s, queue[c], wire[c], mirror[c], own[c])
      /\ s \in Tabs /\ queue[c] \in Queues /\ wire = [wire EXCEPT ![c] = wire[c]]
      /\ tab \in [Clients -> Tabs]
      /\ queue[c].stage # "sent" => wire[c] = Silence
  BY TheKeeps DEF Types, Pages
<1>2. /\ s.open => Asking(versions, s, queue[c])
      /\ loose = {} /\ \A d \in Clients : count.edits[d] <= count.edits[d]
      /\ Len(versions) \in Nat
  BY TheKnows
<1>3. /\ s.open /\ s.banner # Nothing /\ queue[c].stage = "idle"
      /\ queue' = [queue EXCEPT ![c] = q]
      /\ mirror' = [mirror EXCEPT ![c] = Nothing] /\ tab' = [tab EXCEPT ![c] = t]
      /\ basis' = [basis EXCEPT ![c] = b]
      /\ UNCHANGED <<setting, versions, room, wire, loose, count>>
  BY <1>1 DEF TakeTheirs, MayAct, Patient
<1>4. v \in Nat /\ b \in Snapshot
  BY <1>1, <1>3 DEF Tabs, Notices
<1>5. v \in 1..Len(versions) /\ b = versions[v] /\ s.recovery = Nothing
  BY <1>1, <1>2, <1>3 DEF Asking, Keeps
<1>6. p \in Queues /\ p.inflight = Nothing /\ p.pending = NoFields
  BY <1>1, <1>3, EmptyDraft DEF Queues
<1>7. /\ t.recovery = Nothing /\ t.reverted = Nothing /\ t.banner = Nothing /\ t.screen = b
      /\ t.open
  BY <1>1, <1>3, <1>5 DEF Tabs
<1> HIDE DEF p, t, s, b, v, e
<1>8. /\ q.version = v /\ q.base = b /\ q.inflight = Nothing /\ q.pending = NoFields
  <2>1. /\ RebasedOnto(p, v, b).inflight = p.inflight
        /\ RebasedOnto(p, v, b).pending = p.pending
        /\ RebasedOnto(p, v, b).version = v /\ RebasedOnto(p, v, b).base = b
    BY ONLY <1>4, <1>6, OtherSteps
  <2> QED  BY <1>6, <2>1
<1>9. wire[c] = Silence /\ Silence.kind = "none" /\ DOMAIN NoFields = {}
  BY <1>1, <1>3, EmptyDraft DEF Silence
<1> HIDE DEF q
<1>10. Unsent(q) = NoFields /\ ~HasPending(q)
  BY <1>8, <1>9 DEF Unsent, HasPending
<1>11. Told(versions, c, e, t, q, Silence)
  <2>1. Drafts(t, q) = {b, NoFields}
    BY <1>7, <1>10 DEF Drafts
  <2>2. \A n : Level(t, q, Silence, n) => n = v
    BY <1>7, <1>8, <1>9 DEF Level
  <2>3. Authored(versions, c, e, b) /\ SavedBy(versions, b, v)
    <3>1. /\ Len(versions) \in Nat /\ v \in 1..Len(versions) /\ v <= v
          /\ \A f \in DOMAIN b : b[f] = versions[v][f]
      BY <1>2, <1>4, <1>5
    <3>2. Authored(versions, c, e, b)
          /\ \A k \in 1..Len(versions) : v <= k => SavedBy(versions, b, k)
      BY ONLY <3>1, VersionTold
    <3> QED  BY <3>1, <3>2
  <2>4. Authored(versions, c, e, NoFields) /\ SavedBy(versions, NoFields, v)
    BY <1>9 DEF Authored, SavedBy
  <2> QED  BY <2>1, <2>2, <2>3, <2>4 DEF Told
<1>12. /\ OnBase(versions, q, b) /\ Answering(versions, q, Silence)
       /\ Asking(versions, t, q) /\ Live(versions, t, q, Silence)
  BY <1>5, <1>7, <1>8, <1>9, <1>10 DEF OnBase, Answering, Asking, Live
<1>13. Knows(versions, c, e, t, q, Silence, Nothing, b)
  BY <1>11, <1>12 DEF Knows, Left
<1>14. /\ Knows(versions, c, count'.edits[c], t, q, wire[c], Nothing, b)
       /\ count'.agents = count.agents /\ \A d \in Clients : count.edits[d] <= count'.edits[d]
       /\ versions' = versions /\ loose' = {}
       /\ tab' = [tab EXCEPT ![c] = t] /\ queue' = [queue EXCEPT ![c] = q]
       /\ wire' = [wire EXCEPT ![c] = wire[c]] /\ mirror' = [mirror EXCEPT ![c] = Nothing]
       /\ basis' = [basis EXCEPT ![c] = b]
  BY <1>1, <1>2, <1>3, <1>9, <1>13 DEF e
<1> QED  BY ONLY <1>14, Types, Types', AllKnow, c \in Clients, OthersStill

(* The draft that was offered, put back: it has what was never saved.      *)
LEMMA RestoreDraftKnows ==
    ASSUME Types, Types', Calm, AllKnow, NEW c \in Clients, RestoreDraft(c)
    PROVE  AllKnow'
<1> DEFINE s    == tab[c]
           e    == count.edits[c]
           q0   == queue[c]
           d    == s.recovery
           q    == Changed(q0, d)
           m    == Mirrored(q)
           back == Merge(s.screen, d)
           t    == [s EXCEPT !.screen = back, !.recovery = Nothing]
<1>1. /\ Keeps(versions, s, q0, wire[c], mirror[c], own[c])
      /\ s \in Tabs /\ q0 \in Queues /\ wire = [wire EXCEPT ![c] = wire[c]]
      /\ tab \in [Clients -> Tabs] /\ ~RoomOwns(s)
      /\ q0.stage # "sent" => wire[c] = Silence
  BY TheKeeps DEF Types, Pages
<1>2. s.open /\ d # Nothing
  BY DEF RestoreDraft, MayAct
<1>3. /\ OnBase(versions, q0, basis[c]) /\ Told(versions, c, e, s, q0, wire[c])
      /\ Left(versions, c, e, mirror[c], wire[c])
      /\ loose = {} /\ \A x \in Clients : count.edits[x] <= count.edits[x]
  BY <1>2, TheKnows
<1>4. /\ mirror[c] # Nothing /\ mirror[c].fields = d /\ DOMAIN d # {} /\ Resting(q0)
      /\ s.banner = Nothing /\ s.reverted = Nothing
  BY <1>1, <1>2 DEF Keeps
<1>5. d \in Draft /\ s.screen \in Snapshot /\ s.screen \in Draft
  BY <1>1, <1>2, WholeDraft DEF Tabs
<1>6. d # NoFields /\ DOMAIN NoFields = {}
  BY <1>4, EmptyDraft
<1>7. /\ tab' = [tab EXCEPT ![c] = t] /\ queue' = [queue EXCEPT ![c] = q]
      /\ mirror' = [mirror EXCEPT ![c] = m] /\ basis' = Beginning(c, q0, d)
      /\ UNCHANGED <<setting, versions, room, wire, loose, count, own>>
  BY <1>1, <1>6 DEF RestoreDraft
<1>8. wire[c] = Silence /\ Silence.kind = "none"
  BY <1>1, <1>4 DEF Silence, Resting
<1>9. d \in Drafts(s, q0) /\ s.screen \in Drafts(s, q0)
  BY <1>2 DEF Drafts
<1> HIDE DEF d
<1>10. /\ DOMAIN back \subseteq DOMAIN s.screen \cup DOMAIN d
       /\ \A f \in DOMAIN back : back[f] = IF f \in DOMAIN d THEN d[f] ELSE s.screen[f]
       /\ DOMAIN d \subseteq DOMAIN back
  BY DEF Merge
<1> HIDE DEF back
<1>11. /\ t.recovery = Nothing /\ t.banner = Nothing /\ t.reverted = Nothing
       /\ t.screen = back /\ t.open
  BY <1>1, <1>2, <1>4 DEF Tabs
<1>12. /\ q \in Queues /\ q.version = q0.version /\ q.base = q0.base /\ q.inflight = Nothing
       /\ DOMAIN Unsent(q) = DOMAIN d /\ \A f \in DOMAIN d : Unsent(q)[f] = d[f]
  <2>1. Unsent(q0) = NoFields /\ q0.inflight = Nothing
    BY <1>4 DEF Resting, Unsent
  <2> HIDE DEF q0
  <2>2. /\ q \in Queues /\ q.version = q0.version /\ q.base = q0.base
        /\ q.inflight = q0.inflight
        /\ DOMAIN Unsent(q) = DOMAIN Unsent(q0) \cup DOMAIN d
        /\ \A f \in DOMAIN d : Unsent(q)[f] = d[f]
    BY <1>1, <1>5, ChangedQueue
  <2> HIDE DEF q
  <2> QED  BY <1>6, <2>1, <2>2
<1> HIDE DEF q, t, s, q0, e
<1>13. m # Nothing /\ m.fields = Unsent(q)
  <2>1. Unsent(q) \in Draft /\ q.version \in Nat
    BY <1>12, TheUnsent DEF Queues
  <2> QED  BY <2>1, NothingAssumption DEF Mirrored
<1> HIDE DEF m
<1>14. Authored(versions, c, e, d) /\ Authored(versions, c, e, s.screen)
  BY <1>3, <1>9 DEF Told
<1>15. HasNew(versions, d)
  BY <1>3, <1>4, <1>8 DEF Left
<1>16. /\ Authored(versions, c, e, Unsent(q))
       /\ \A n : SavedBy(versions, d, n) => SavedBy(versions, Unsent(q), n)
  BY <1>12, <1>14, PartTold
<1>17. /\ Authored(versions, c, e, back)
       /\ \A n : SavedBy(versions, s.screen, n) /\ SavedBy(versions, d, n)
                 => SavedBy(versions, back, n)
  <2>1. /\ Authored(versions, c, e, s.screen) /\ Authored(versions, c, e, d)
           => Authored(versions, c, e, back)
        /\ \A n : SavedBy(versions, s.screen, n) /\ SavedBy(versions, d, n)
                  => SavedBy(versions, back, n)
    BY ONLY <1>5, <1>10, MergedTold
  <2> QED  BY <1>14, <2>1
<1>18. Told(versions, c, e, t, q, Silence)
  <2>1. Drafts(t, q) = {back, Unsent(q)}
    BY <1>11 DEF Drafts
  <2>2. \A n : Level(t, q, Silence, n) => Level(s, q0, wire[c], n)
    BY <1>8, <1>11, <1>12 DEF Level
  <2> QED  BY <1>3, <1>9, <1>16, <1>17, <2>1, <2>2 DEF Told
<1>19. Asking(versions, t, q) /\ Answering(versions, q, Silence)
  BY <1>8, <1>11 DEF Asking, Answering
<1>20. Live(versions, t, q, Silence)
  <2>1. PICK f \in DOMAIN d : ~WasIn(versions, f, d[f])
    BY <1>15 DEF HasNew
  <2> QED  BY <1>10, <1>11, <1>12, <2>1 DEF Live
<1>21. Left(versions, c, e, m, Silence)
  BY <1>12, <1>13, <1>15, <1>16 DEF Left, HasNew
<1>22. PICK b : /\ basis' = [basis EXCEPT ![c] = b]
                /\ \A g \in DOMAIN Unsent(q0) \cup DOMAIN d : q0.base[g] = b[g]
  BY <1>1, <1>3, <1>5, <1>7, BeginsOnBase
<1>23. OnBase(versions, q, b)
  BY <1>3, <1>12, <1>22 DEF OnBase
<1>24. Knows(versions, c, e, t, q, Silence, m, b)
  BY <1>18, <1>19, <1>20, <1>21, <1>23 DEF Knows
<1>25. /\ Knows(versions, c, count'.edits[c], t, q, wire[c], m, b)
       /\ count'.agents = count.agents /\ \A x \in Clients : count.edits[x] <= count'.edits[x]
       /\ versions' = versions /\ loose' = {}
       /\ tab' = [tab EXCEPT ![c] = t] /\ queue' = [queue EXCEPT ![c] = q]
       /\ wire' = [wire EXCEPT ![c] = wire[c]] /\ mirror' = [mirror EXCEPT ![c] = m]
       /\ basis' = [basis EXCEPT ![c] = b]
  BY <1>1, <1>3, <1>7, <1>8, <1>22, <1>24 DEF e
<1> QED  BY ONLY <1>25, Types, Types', AllKnow, c \in Clients, OthersStill

(* "Keep mine": what was never saved is sent again, on the version that    *)
(* won.                                                                    *)
LEMMA KeepMineKnows ==
    ASSUME Types, Types', Patient, Calm, AllKnow, NEW c \in Clients, KeepMine(c)
    PROVE  AllKnow'
<1> DEFINE s     == tab[c]
           e     == count.edits[c]
           b     == s.banner.fields
           v     == s.banner.version
           mine  == IF s.reverted = Nothing THEN s.screen ELSE s.reverted
           props == {f \in Fields \ RoomOwned : mine[f] # b[f]}
           draft == Restrict(mine, RoomOwned \cup props)
           q0    == queue[c]
           r     == RebasedOnto(q0, v, b)
           next  == Changed(r, draft)
           q     == [next EXCEPT !.timer = FALSE]
           x     == Pumped(q, {})
           t     == [s EXCEPT !.screen = mine, !.banner = Nothing, !.reverted = Nothing]
           m     == Mirrored(next)
<1>1. /\ Keeps(versions, s, q0, wire[c], mirror[c], own[c])
      /\ s \in Tabs /\ q0 \in Queues
      /\ Held(s) = {} /\ ~RoomOwns(s) /\ tab \in [Clients -> Tabs]
      /\ q0.stage # "sent" => wire[c] = Silence
  BY TheKeeps DEF Types, Pages
<1>2. s.open /\ q0.stage = "idle" /\ s.banner # Nothing
  BY DEF KeepMine, MayAct, Patient
<1>3. /\ Told(versions, c, e, s, q0, wire[c]) /\ Asking(versions, s, q0)
      /\ Live(versions, s, q0, wire[c])
      /\ loose = {} /\ \A d \in Clients : count.edits[d] <= count.edits[d]
      /\ Len(versions) \in Nat
  BY <1>2, TheKnows
<1>4. /\ mine \in Snapshot /\ mine \in Draft /\ DOMAIN mine = Fields
      /\ v \in Nat /\ b \in Snapshot /\ DOMAIN b = Fields
  BY <1>1, <1>2, WholeDraft DEF Tabs, Notices
<1>5. v \in 1..Len(versions) /\ b = versions[v] /\ s.recovery = Nothing
  BY <1>1, <1>2, <1>3 DEF Asking, Keeps
<1>6. wire[c] = Silence /\ Silence.kind = "none"
  BY <1>1, <1>2 DEF Silence
<1>7. PICK g \in Fields : ~WasIn(versions, g, mine[g])
  <2>1. CASE s.reverted = Nothing
    <3>1. HasPending(q0)
      BY <1>2, <1>3, <2>1 DEF Asking
    <3>2. PICK f \in DOMAIN Unsent(q0) :
            ~WasIn(versions, f, Unsent(q0)[f]) /\ s.screen[f] = Unsent(q0)[f]
      BY <1>3, <1>6, <3>1 DEF Live
    <3>3. f \in Fields
      BY <1>1, TheUnsent, IsDraft
    <3> QED  BY <2>1, <3>2, <3>3
  <2>2. CASE s.reverted # Nothing
    <3>1. HasNew(versions, s.reverted)
      BY <1>2, <1>3, <2>2 DEF Asking
    <3> QED  BY <1>4, <2>2, <3>1 DEF HasNew
  <2> QED  BY <2>1, <2>2
<1>8. mine \in Drafts(s, q0) /\ Unsent(q0) \in Drafts(s, q0)
  BY DEF Drafts
<1> HIDE DEF mine
<1>9. RoomOwned \cup props \subseteq DOMAIN mine /\ "body" \in RoomOwned \cup props
  BY <1>4 DEF RoomOwned, Fields
<1>10. g \in RoomOwned \cup props
  <2>1. CASE g \in RoomOwned
    BY <2>1
  <2>2. CASE g \notin RoomOwned
    <3>1. mine[g] # b[g]
      BY <1>5, <1>7 DEF WasIn
    <3> QED  BY <2>2, <3>1
  <2> QED  BY <2>1, <2>2
<1> HIDE DEF props
<1>11. draft \in Draft /\ DOMAIN draft = RoomOwned \cup props
       /\ \A f \in DOMAIN draft : draft[f] = mine[f]
  BY <1>4, <1>9, CutDraft
<1>12. draft # NoFields
  <2>1. "body" \in DOMAIN draft
    BY <1>9, <1>11
  <2> HIDE DEF draft
  <2> QED  BY <2>1, EmptyDraft
<1>13. /\ r \in Queues /\ Unsent(r) = Unsent(q0) /\ r.stage = "idle"
       /\ r.version = v /\ r.base = b
  <2>1. q0 \in Queues /\ v \in Nat /\ b \in Snapshot
    BY <1>1, <1>4
  <2> HIDE DEF b, v, q0, s
  <2>2. /\ r \in Queues /\ Unsent(r) = Unsent(q0) /\ r.stage = q0.stage
        /\ r.version = v /\ r.base = b
    BY ONLY <2>1, OtherSteps
  <2> QED  BY <1>2, <2>2
<1> HIDE DEF r
<1>14. /\ next \in Queues /\ next.stage = "idle" /\ next.version = v /\ next.base = b
       /\ DOMAIN Unsent(next) = DOMAIN Unsent(q0) \cup DOMAIN draft
       /\ \A f \in DOMAIN draft : Unsent(next)[f] = draft[f]
       /\ \A f \in DOMAIN Unsent(q0) \ DOMAIN draft : Unsent(next)[f] = Unsent(q0)[f]
  <2> HIDE DEF draft
  <2>1. /\ next \in Queues /\ next.stage = r.stage
        /\ next.version = r.version /\ next.base = r.base
        /\ DOMAIN Unsent(next) = DOMAIN Unsent(r) \cup DOMAIN draft
        /\ \A f \in DOMAIN draft : Unsent(next)[f] = draft[f]
        /\ \A f \in DOMAIN Unsent(r) \ DOMAIN draft : Unsent(next)[f] = Unsent(r)[f]
    BY ONLY <1>11, <1>13, ChangedQueue
  <2> QED  BY <1>13, <2>1
<1>15. /\ tab' = [tab EXCEPT ![c] = t] /\ mirror' = [mirror EXCEPT ![c] = m]
       /\ basis' = [basis EXCEPT ![c] = b]
       /\ queue' = [queue EXCEPT ![c] = x] /\ wire' = [wire EXCEPT ![c] = Sent(c, x)]
       /\ UNCHANGED <<setting, versions, room, loose, count>>
  <2> DEFINE body  == IF RoomOwns(s) THEN {} ELSE RoomOwned
             draft0 == Restrict(mine, body \cup props)
             next0  == IF draft0 = NoFields THEN r ELSE Changed(r, draft0)
             sends0 == [next0 EXCEPT !.timer = FALSE]
  <2>1. /\ next0.stage = "idle" => Pump(c, sends0)
        /\ mirror' = [mirror EXCEPT ![c] = IF draft0 = NoFields THEN @ ELSE Mirrored(next0)]
        /\ tab' = [tab EXCEPT ![c].screen = mine, ![c].banner = Nothing, ![c].reverted = Nothing]
        /\ basis' = [basis EXCEPT ![c] = b]
        /\ UNCHANGED <<setting, versions, room, loose, count>>
    BY DEF KeepMine, r, mine, props
  <2>2. draft0 = draft
    BY <1>1
  <2>3. next0 = next
    <3> HIDE DEF draft, draft0
    <3> QED  BY <1>12, <2>2
  <2>4. tab' = [tab EXCEPT ![c] = t]
    BY <1>1, <2>1
  <2>5. sends0 = q
    BY <2>2, <2>3
  <2> HIDE DEF draft, draft0, next, next0, sends0, q, t
  <2>6. Pump(c, q) /\ mirror' = [mirror EXCEPT ![c] = m]
    BY <1>12, <1>14, <2>1, <2>2, <2>3, <2>5
  <2> QED  BY <1>1, <2>1, <2>4, <2>6 DEF Pump
<1> HIDE DEF draft, next
<1>16. /\ q \in Queues /\ q.stage = "idle" /\ q.pending = next.pending
       /\ q.inflight = next.inflight /\ q.version = v /\ q.base = b
  BY <1>14 DEF Queues
<1> HIDE DEF q
<1>17. Unsent(q) = Unsent(next)
  BY <1>16 DEF Unsent
<1>18. m # Nothing /\ m.fields = Unsent(q)
  <2>1. Unsent(next) \in Draft /\ next.version \in Nat
    BY <1>14, TheUnsent DEF Queues
  <2> QED  BY <1>17, <2>1, NothingAssumption DEF Mirrored
<1>19. /\ t.open /\ t.recovery = Nothing /\ t.banner = Nothing /\ t.reverted = Nothing
       /\ t.screen = mine
  BY <1>1, <1>2, <1>5 DEF Tabs
<1> HIDE DEF s, t, m, x, b, v, q0, e
<1>20. /\ g \in DOMAIN Unsent(q) /\ Unsent(q)[g] = mine[g]
  BY <1>10, <1>11, <1>14, <1>17
<1>21. HasPending(q) /\ HasNew(versions, Unsent(q))
  BY <1>7, <1>20 DEF HasPending, HasNew
<1>22. /\ Authored(versions, c, e, mine) /\ SavedBy(versions, mine, v)
       /\ Authored(versions, c, e, Unsent(q0)) /\ SavedBy(versions, Unsent(q0), v)
  <2>1. Level(s, q0, wire[c], v)
    BY <1>2, <1>6 DEF Level, v
  <2> QED  BY <1>3, <1>5, <1>8, <2>1 DEF Told
<1>23. Authored(versions, c, e, Unsent(q)) /\ SavedBy(versions, Unsent(q), v)
  <2>1. Authored(versions, c, e, draft) /\ SavedBy(versions, draft, v)
    <3>1. \A f \in DOMAIN draft : f \in DOMAIN mine /\ draft[f] = mine[f]
      BY <1>9, <1>11
    <3> QED  BY ONLY <1>22, <3>1, PartTold
  <2>2. Unsent(q0) \in Draft /\ draft \in Draft
    BY <1>1, <1>11, TheUnsent
  <2>3. /\ DOMAIN Unsent(q) \subseteq DOMAIN Unsent(q0) \cup DOMAIN draft
        /\ \A f \in DOMAIN Unsent(q) :
              Unsent(q)[f] = IF f \in DOMAIN draft THEN draft[f] ELSE Unsent(q0)[f]
    BY <1>14, <1>17
  <2>4. /\ Authored(versions, c, e, Unsent(q0)) /\ Authored(versions, c, e, draft)
           => Authored(versions, c, e, Unsent(q))
        /\ \A n : SavedBy(versions, Unsent(q0), n) /\ SavedBy(versions, draft, n)
                  => SavedBy(versions, Unsent(q), n)
    BY ONLY <2>2, <2>3, MergedTold
  <2> QED  BY <1>22, <2>1, <2>4
<1>24. Told(versions, c, e, t, q, Silence)
  <2>1. Drafts(t, q) = {mine, Unsent(q)}
    BY <1>19 DEF Drafts
  <2>2. \A n : Level(t, q, Silence, n) => n = v
    BY <1>6, <1>16, <1>19 DEF Level
  <2> QED  BY <1>22, <1>23, <2>1, <2>2 DEF Told
<1>25. /\ OnBase(versions, q, b) /\ Answering(versions, q, Silence) /\ Asking(versions, t, q)
       /\ Live(versions, t, q, Silence)
  BY <1>5, <1>6, <1>7, <1>16, <1>19, <1>20, <1>21 DEF OnBase, Answering, Asking, Live
<1>26. Left(versions, c, e, m, Silence)
  BY <1>18, <1>21, <1>23 DEF Left
<1>27. Knows(versions, c, e, t, q, Silence, m, b)
  BY <1>24, <1>25, <1>26 DEF Knows
<1>28. Knows(versions, c, e, t, x, Sent(c, x), m, b)
  BY <1>16, <1>21, <1>27, PumpKnows DEF x
<1>29. /\ Knows(versions, c, count'.edits[c], t, x, Sent(c, x), m, b)
       /\ count'.agents = count.agents /\ \A d \in Clients : count.edits[d] <= count'.edits[d]
       /\ versions' = versions /\ loose' = {}
  BY <1>3, <1>15, <1>28 DEF e
<1> QED  BY ONLY <1>15, <1>29, Types, Types', AllKnow, c \in Clients, OthersStill

(* Who makes a version of the object.                                      *)
LEMMA WhoWrites ==
    ASSUME Next, versions' # versions
    PROVE  \/ \E c \in Clients : Serve(c) \/ Session(c) \/ Lose(c) \/ TypeInRoom(c)
           \/ \E r \in loose : ServeLoose(r)
           \/ \E f \in Fields : AgentWrites(f)
           \/ RoomFlushes
<1>1. ASSUME NEW c \in Clients PROVE ~Page(c)
  BY <1>1 DEF Page, TimerFires, Answered, BackoffEnds
<1>2. ASSUME NEW c \in Clients, Person(c) PROVE TypeInRoom(c)
  <2>1. ASSUME NEW f \in Fields PROVE ~Type(c, f)
    BY <2>1 DEF Type
  <2>2. ASSUME NEW tidy \in setting.farewells PROVE ~Close(c, tidy)
    BY <2>2 DEF Close
  <2>3. ~Load(c)
    BY DEF Load
  <2>4. ~KeepMine(c) /\ ~TakeTheirs(c) /\ ~RestoreDraft(c) /\ ~DiscardDraft(c)
    BY DEF KeepMine, TakeTheirs, RestoreDraft, DiscardDraft
  <2> QED  BY <1>2, <2>1, <2>2, <2>3, <2>4 DEF Person
<1>3. ASSUME NEW r \in loose PROVE ~LoseLoose(r)
  BY <1>3 DEF LoseLoose
<1>4. ~PeerComes /\ ~PeerGoes /\ ~RoomCloses
  BY DEF PeerComes, PeerGoes, RoomCloses
<1> QED  BY <1>1, <1>2, <1>3, <1>4 DEF Next

(* What is known is known while a step leaves the pages and the object     *)
(* alone.                                                                  *)
LEMMA StillKnows ==
    ASSUME AllKnow, UNCHANGED <<versions, tab, queue, wire, loose, mirror, count, basis>>
    PROVE  AllKnow'
BY DEF AllKnow

(* With no message lost and nothing sent by a tab that closes, no request  *)
(* outlives its page; and the room stays closed.                           *)
LEMMA NothingElse ==
    ASSUME Types, Undisturbed, Calm, AllKnow
    PROVE  /\ loose = {} /\ (\A c \in Clients : ~Lose(c) /\ ~Session(c) /\ ~TypeInRoom(c))
           /\ ~RoomFlushes /\ ~PeerComes /\ ~PeerGoes
<1>1. ~room.open /\ ~room.peer /\ ~room.dirty /\ count.losses \in Nat
  BY DEF Calm, Types, Shared, Counts
<1>2. ASSUME NEW c \in Clients PROVE ~Lose(c)
  BY <1>1 DEF Lose, Undisturbed
<1>3. ~RoomFlushes /\ ~PeerComes /\ ~PeerGoes
  BY <1>1 DEF RoomFlushes, PeerComes, PeerGoes, Undisturbed, Patient
<1> QED  BY <1>2, <1>3, NoSession DEF AllKnow

(* Whatever happens, the pages know what they knew.                        *)
LEMMA KnowsStep ==
    ASSUME Types, Types', Undisturbed, Calm, AllKnow, [Next]_vars
    PROVE  AllKnow'
<1>1. CASE UNCHANGED vars
  BY <1>1, StillKnows DEF vars
<1>2. Patient
  BY DEF Undisturbed
<1>3. ASSUME NEW c \in Clients, Page(c) PROVE AllKnow'
  BY <1>3, TimerFiresKnows, AnsweredKnows, BackoffEndsKnows DEF Page
<1>4. ASSUME NEW c \in Clients, Person(c) PROVE AllKnow'
  BY <1>2, <1>4, TypeKnows, NothingElse, KeepMineKnows, TakeTheirsKnows, RestoreDraftKnows,
     DiscardDraftKnows, CloseKnows, LoadKnows DEF Person
<1>5. ASSUME NEW f \in Fields, AgentWrites(f) PROVE AllKnow'
  BY <1>5, AgentWritesKnows
<1>6. ASSUME RoomCloses PROVE AllKnow'
  BY <1>6, StillKnows DEF RoomCloses
<1> QED
  BY <1>1, <1>3, <1>4, <1>5, <1>6, NothingElse, ServeKnows DEF Next

(* The first state: there is one version, and nobody typed anything.       *)
LEMMA KnowsInit ==
    ASSUME Init, Patient
    PROVE  AllKnow
<1>1. /\ loose = {} /\ versions = << [f \in Fields |-> <<"nobody", 0>>] >> /\ setting.collab = FALSE
      /\ \A c \in Clients : count.edits[c] = 0
      /\ count.agents = 0
  BY SaveQueueAssumption DEF Init, Patient, Setting
<1>2. versions \in Seq(Snapshot) /\ Version > 0 /\ Len(versions) = 1
  BY <1>1, TypesInit DEF Types, Shared
<1>3. Novel(versions)
  BY <1>2 DEF Novel
<1>4. Past(versions, count.edits, count.agents)
  <2>1. ASSUME NEW f \in Fields, NEW n \in Nat, NEW x, WasIn(versions, f, <<x, n>>)
        PROVE  n = 0
    <3>1. versions[1][f] = <<x, n>>
      BY <1>2, <2>1 DEF WasIn
    <3>2. versions[1][f] = <<"nobody", 0>>
      BY <1>1
    <3> QED  BY <3>1, <3>2
  <2>2. ASSUME NEW f \in Fields, NEW n \in Nat
        PROVE  /\ \A d \in Clients : WasIn(versions, f, <<d, n>>) => n <= count.edits[d]
               /\ WasIn(versions, f, <<"agent", n>>) => n <= count.agents
    <3>1. ASSUME NEW d \in Clients, WasIn(versions, f, <<d, n>>) PROVE n <= count.edits[d]
      <4>1. n = 0 /\ count.edits[d] = 0
        BY <1>1, <2>1, <3>1
      <4> QED  BY <4>1
    <3>2. ASSUME WasIn(versions, f, <<"agent", n>>) PROVE n <= count.agents
      <4>1. n = 0 /\ count.agents = 0
        BY <1>1, <2>1, <3>2
      <4> QED  BY <4>1
    <3> QED  BY <3>1, <3>2
  <2> QED  BY <2>2 DEF Past
<1>5. ASSUME NEW c \in Clients
      PROVE  Knows(versions, c, count.edits[c], tab[c], queue[c], wire[c], mirror[c], basis[c])
  <2>1. /\ mirror[c] = Nothing /\ wire[c] = Silence /\ queue[c] = Created /\ basis[c] = Current
        /\ count.edits[c] = 0
    BY <1>1 DEF Init
  <2>2. Left(versions, c, 0, mirror[c], Silence)
    BY <2>1 DEF Left
  <2>3. CASE c \in setting.people
    <3>1. tab[c] = Loaded(c).tab
      BY <2>3 DEF Init
    <3>2. queue[c] = Loaded(c).queue
      BY <2>1 DEF Loaded
    <3>3. mirror[c] \in Mirrors /\ 0 \in Nat
      BY <2>1 DEF Mirrors
    <3>4. Knows(versions, c, 0, Loaded(c).tab, Loaded(c).queue, Silence, mirror[c], Current)
      BY <1>1, <1>2, <2>2, <3>3, LoadedKnows
    <3> QED  BY <2>1, <3>1, <3>2, <3>4
  <2>4. CASE c \notin setting.people
    <3>1. tab[c] = Shut /\ Shut.open = FALSE
      BY <2>4 DEF Init, Shut
    <3> QED  BY <2>1, <2>2, <3>1 DEF Knows
  <2> QED  BY <2>3, <2>4
<1> QED  BY <1>1, <1>3, <1>4, <1>5 DEF AllKnow

\* The inductive invariant of a behaviour that nothing disturbs.
Informed == Types /\ Undisturbed /\ Calm /\ AllKnow

LEMMA InformedAlways ==
    /\ Init /\ Undisturbed => Informed
    /\ Informed /\ [Next]_vars => Informed'
<1>1. Init /\ Undisturbed => Informed
  BY TypesInit, CalmInit, KnowsInit DEF Informed, Undisturbed
<1>2. ASSUME Informed, [Next]_vars PROVE Informed'
  <2>1. Types /\ Types' /\ Undisturbed /\ Patient /\ Calm /\ AllKnow
    BY <1>2, TypesStep DEF Informed, Undisturbed
  <2>2. Calm' /\ AllKnow'
    BY <1>2, <2>1, CalmStep, KnowsStep
  <2>3. Undisturbed'
    BY <1>2, <2>1, SettingStays DEF Undisturbed, Patient
  <2> QED  BY <2>1, <2>2, <2>3 DEF Informed
<1> QED  BY <1>1, <1>2

(* For every set of clients, every number of rebases, any writes by others *)
(* and tabs closed without their last event: what a queue takes for the    *)
(* server's fields are the object's at the version it sends as its base    *)
(* (saveQueue.ts:229), as long as no message is lost, the person waits for *)
(* a save to end and decides on a draft that is offered, and the page      *)
(* joins no room.                                                          *)
THEOREM BaseHolds == Spec /\ Undisturbed => []BaseIsTheVersion
<1>1. Informed => BaseIsTheVersion
  BY DEF Informed, AllKnow, Knows, OnBase, BaseIsTheVersion
<1> HIDE DEF Informed, Undisturbed
<1> QED  BY <1>1, InformedAlways, PTL DEF Spec

(* Under the same conditions: a patch that is committed replaces nothing   *)
(* of somebody else's that its sender had not been told of when the edit   *)
(* began (saveQueue.ts:25), for every interleaving of the writers.         *)
THEOREM NothingClobbered == Spec /\ Undisturbed => NeverClobbers
<1> DEFINE Spares == \A r \in Outstanding :
                        versions' # versions /\ r \notin Outstanding' => ~Clobbers(r)
<1>1. ASSUME Informed, [Next]_vars PROVE [Spares]_vars
  <2> SUFFICES ASSUME Next, NEW r \in Outstanding, versions' # versions, r \notin Outstanding'
               PROVE  ~Clobbers(r)
    BY <1>1
  <2>1. Types /\ Undisturbed /\ Calm /\ AllKnow /\ loose = {}
    BY <1>1 DEF Informed, AllKnow
  <2>2. PICK d \in Clients : r = wire[d] /\ wire[d].kind = "request"
    BY <2>1 DEF Outstanding
  <2>3. ASSUME NEW f \in Fields PROVE ~AgentWrites(f)
    <3>1. AgentWrites(f) => Outstanding' = Outstanding
      BY DEF AgentWrites, Outstanding
    <3> QED  BY <3>1
  <2>4. PICK c \in Clients : Serve(c)
    BY <2>1, <2>3, NothingElse, WhoWrites
  <2>5. /\ wire[c].version = Version => versions' = Append(versions, Merge(Current, queue[c].inflight))
        /\ wire[c].version # Version => versions' = versions
        /\ \A x \in Clients \ {c} : wire'[x] = wire[x]
    <3>1. wire \in [Clients -> Messages]
      BY <2>1 DEF Types, Pages
    <3> QED  BY <2>1, <2>4, <3>1, Served
  <2>6. d = c
    BY <2>2, <2>5 DEF Outstanding
  <2>7. /\ wire[c].version = Version /\ queue[c].version = Version /\ tab[c].open
        /\ wire[c].patch = Unsent(queue[c]) /\ wire[c].by = c
    BY <2>1, <2>2, <2>4, <2>5, <2>6, Served, ThePage DEF Fits
  <2>8. OnBase(versions, queue[c], basis[c])
    BY <2>1, <2>7, TheKnows
  <2>9. \A f \in DOMAIN wire[c].patch : Current[f] = basis[c][f]
    BY <2>7, <2>8 DEF OnBase, Current
  <2> QED  BY <2>2, <2>6, <2>7, <2>9 DEF Clobbers
<1>2. NeverClobbers <=> [][Spares]_vars
  BY DEF NeverClobbers
<1> HIDE DEF Informed, Undisturbed, Spares
<1> QED  BY <1>1, <1>2, InformedAlways, PTL DEF Spec

=============================================================================

-------------------------- MODULE CollabRoomsProofs --------------------------
(***************************************************************************)
(* Proofs about the rooms: types, one epoch per document, and that whoever *)
(* edits is counted in the room that is flushed.  The invariant has three  *)
(* layers, each inductive over the ones before it; a fourth, about texts,  *)
(* shows that the rooms implement one shared text.                         *)
(***************************************************************************)
EXTENDS CollabRooms, FiniteSetTheorems, TLAPS

(***************************************************************************)
(* The first layer: types, and which parts of the state stand for a room   *)
(* that is there.                                                          *)
(***************************************************************************)
Joins == [pc : {"none", "gate", "loaded", "opened"}, who : SUBSET People,
          version : Nat, body : SUBSET Words, row : Blobs \union {NoRow}]

Objects ==
    /\ object \in [version : Nat, body : SUBSET Words, deleted : BOOLEAN]
    /\ \A i \in DOMAIN images : i \in Nat /\ images[i] \subseteq Words

Stored ==
    /\ row \in Blobs \union {NoRow}
    /\ row # NoRow => row.base <= object.version

RoomState ==
    /\ room \in LiveRooms \union {NoRoom}
    /\ landed \in Nat /\ landed <= object.version
    /\ room # NoRoom => room.base <= object.version
    /\ drain \in {"none", "mark", "flush", "keep", "drop", "remove", "unwritten"}
    /\ room = NoRoom => landed = 0 /\ drain = "none"
    /\ crowd \in {"out", "in"}
    /\ drain = "none" => crowd = "out"

Timer ==
    /\ due \in BOOLEAN
    /\ room = NoRoom \/ drain # "none" => due = FALSE

Waiting ==
    /\ join \in Joins
    /\ join.version <= object.version
    /\ join.row # NoRow => join.row.base <= object.version
    /\ join.pc \in {"gate", "loaded"} => Len(lines) < MaxLines

Counting ==
    /\ online \in [People -> Lines] /\ leaving \in Nat
    /\ lines \in Seq(Nat) /\ Len(lines) <= MaxLines /\ clock \in Nat
    /\ used \subseteq Words /\ handed \subseteq Words

Types == Objects /\ Stored /\ RoomState /\ Timer /\ Waiting /\ Counting

(***************************************************************************)
(* The second: every document has the epoch it was seeded with, and the    *)
(* clock has passed them all.                                              *)
(***************************************************************************)
Known(d) == d.line \in DOMAIN lines /\ d.epoch = lines[d.line]

Epochs ==
    /\ \A i \in DOMAIN lines : lines[i] < clock
    /\ \A i, j \in DOMAIN lines : lines[i] = lines[j] => i = j
    /\ room # NoRoom => Known(room)
    /\ row # NoRow => Known(row)
    /\ join.row # NoRow => Known(join.row)

(***************************************************************************)
(* The third: a room counts at least the people in it, the hooks of those  *)
(* who left it and the join that opened it.                                *)
(***************************************************************************)
Arriving == IF join.pc = "opened" THEN 1 ELSE 0

Counts ==
    /\ InTheRoom
    /\ room # NoRoom => room.conns >= Cardinality(Present) + leaving + Arriving
    /\ join.pc # "none" => \E u \in People : join.who = {u}
    /\ join.pc = "opened" =>
          /\ room # NoRoom /\ (drain = "none" \/ crowd = "in")
          /\ Present = {} /\ leaving = 0

RInv == Types /\ Epochs /\ Counts

-----------------------------------------------------------------------------
(***************************************************************************)
(* A set of numbers that is not empty has a least one.                     *)
(***************************************************************************)
LEMMA Least ==
  ASSUME NEW S \in SUBSET Nat, S # {}
  PROVE  \E n \in S : \A m \in S : n <= m
<1>1. SUFFICES ASSUME \A n \in S : \E m \in S : m < n
               PROVE  FALSE
  BY SMT
<1>2. PICK top \in S : TRUE
  OBVIOUS
<1> DEFINE A == {n \in 0 .. top : \E m \in S : m <= n}
<1>3. IsFiniteSet(0 .. top) /\ A \in SUBSET (0 .. top) /\ top \in A
  BY <1>2, FS_Interval
<1>4. IsFiniteSet(A)
  BY <1>3, FS_Subset
<1>5. IsFiniteSet(A \ {top}) /\ Cardinality(A \ {top}) = Cardinality(A) - 1
  BY <1>3, <1>4, FS_RemoveElement
<1>6. Cardinality(A) \in Nat
  BY <1>4, FS_CardinalityType
<1>7. ASSUME NEW n \in A  PROVE  n - 1 \in A \ {top}
  <2>1. PICK m \in S : m <= n
    OBVIOUS
  <2>2. PICK l \in S : l < m
    BY <1>1
  <2>3. l \in Nat /\ m \in Nat /\ n \in Nat /\ n <= top /\ top \in Nat
    BY <1>2
  <2> QED  BY <2>1, <2>2, <2>3, SMT
<1> DEFINE f == [n \in A |-> n - 1]
<1>8. f \in [A -> A \ {top}]
  BY <1>7
<1>9. Cardinality(A \ {top}) < Cardinality(A)
  BY <1>5, <1>6
<1> HIDE DEF f
<1>10. PICK x \in A, y \in A : x # y /\ f[x] = f[y]
  BY <1>4, <1>5, <1>8, <1>9, FS_PigeonHole
<1>11. f[x] = x - 1 /\ f[y] = y - 1 /\ x \in Int /\ y \in Int
  BY DEF f
<1>12. x - 1 = y - 1
  BY <1>10, <1>11, Zenon
<1>13. x = y
  BY <1>11, <1>12
<1> QED  BY <1>10, <1>13

\* A merge of texts is a text.
LEMMA MergeType ==
  ASSUME NEW text \in SUBSET Words, NEW from \in SUBSET Words, NEW to \in SUBSET Words
  PROVE  Merge(text, from, to) \in SUBSET Words
BY DEF Merge

\* So is the body of any version, kept or still there.
LEMMA BodyAtType ==
  ASSUME Objects, NEW v \in Nat
  PROVE  BodyAt(v) \in SUBSET Words
<1> DEFINE later == {i \in DOMAIN images : i >= v}
<1>1. CASE later = {}
  BY <1>1 DEF BodyAt, Objects
<1>2. CASE later # {}
  <2>1. later \in SUBSET Nat
    BY DEF Objects
  <2>2. \E n \in later : \A m \in later : n <= m
    BY <1>2, <2>1, Least
  <2>3. (CHOOSE i \in later : \A j \in later : i <= j) \in DOMAIN images
    BY <2>2
  <2> QED  BY <1>2, <2>3 DEF BodyAt, Objects
<1> QED  BY <1>1, <1>2

\* So is a text brought up to the object as it is.
LEMMA UpToDateType ==
  ASSUME Objects, NEW text \in SUBSET Words, NEW v \in Nat
  PROVE  UpToDate(text, v) \in SUBSET Words
<1>1. BodyAt(v) \in SUBSET Words
  BY BodyAtType
<1>2. object.body \in SUBSET Words
  BY DEF Objects
<1> QED  BY <1>1, <1>2, MergeType DEF UpToDate

-----------------------------------------------------------------------------
(***************************************************************************)
(* A room with another text, base or count is still a room, and the row    *)
(* that is written of it a row.                                            *)
(***************************************************************************)
LEMMA RoomType ==
  ASSUME NEW r \in LiveRooms
  PROVE  /\ r # NoRoom /\ RowOf(r) \in Blobs /\ RowOf(r).base = r.base
         /\ \A text \in SUBSET Words :
              [r EXCEPT !.doc = text] \in LiveRooms /\ [r EXCEPT !.doc = text].base = r.base
         /\ \A v \in Nat :
              [r EXCEPT !.base = Max2(@, v)] \in LiveRooms
              /\ [r EXCEPT !.base = Max2(@, v)].base = Max2(r.base, v)
         /\ [r EXCEPT !.conns = @ + 1] \in LiveRooms
         /\ [r EXCEPT !.conns = @ + 1].base = r.base
         /\ [r EXCEPT !.conns = Max2(0, @ - 1)] \in LiveRooms
         /\ [r EXCEPT !.conns = Max2(0, @ - 1)].base = r.base
BY NoRoomAssumption DEF LiveRooms, Blobs, RowOf, Version, Max2

\* The people in a room are finitely many.
LEMMA PeopleIn ==
  ASSUME online \in [People -> Lines]
  PROVE  Present \in SUBSET People /\ IsFiniteSet(Present) /\ Cardinality(Present) \in Nat
<1>1. Present \in SUBSET People
  BY DEF Present
<1> QED  BY <1>1, RoomsAssumption, FS_Subset, FS_CardinalityType

(***************************************************************************)
(* What is written, in the room or outside it, is made of words.           *)
(***************************************************************************)
LEMMA CommitTypes ==
  ASSUME Objects, NEW text \in SUBSET Words, Commit(text)
  PROVE  Objects' /\ object'.version = object.version + 1
<1> DEFINE Object == [version : Nat, body : SUBSET Words, deleted : BOOLEAN]
           newer == [object EXCEPT !.version = @ + 1]
<1>1. object' \in Object /\ object'.version = object.version + 1
  <2>1. newer \in Object /\ newer.version = object.version + 1
    BY DEF Objects
  <2>2. object' = [newer EXCEPT !.body = text]
    BY DEF Commit
  <2> HIDE DEF newer
  <2> QED  BY <2>1, <2>2
<1>2. object.version \in Nat /\ object.body \subseteq Words
  BY DEF Objects
<1>3. \A i \in DOMAIN images' : i \in Nat /\ images'[i] \subseteq Words
  BY <1>2 DEF Objects, Commit
<1> QED  BY <1>1, <1>3 DEF Objects

\* An edit leaves a room with a text.
LEMMA EditTypes ==
  ASSUME Types, NEW text \in SUBSET Words, room # NoRoom, Edit(text),
         used' \in SUBSET Words
  PROVE  Types' /\ room' \in LiveRooms
<1>1. Objects' /\ Stored' /\ Waiting'
  BY DEF Edit, Types, Objects, Stored, Waiting, stored
<1>2. Counting'
  BY DEF Edit, Types, Counting
<1>3. RoomState' /\ room' \in LiveRooms
  BY RoomType DEF Edit, Types, RoomState, stored
<1>4. Timer'
  BY <1>3, NoRoomAssumption, Zenon DEF Edit, Timer
<1> QED  BY <1>1, <1>2, <1>3, <1>4 DEF Types

(***************************************************************************)
(* A row write either keeps the row or writes the room's.                  *)
(***************************************************************************)
LEMMA SaveTypes ==
  ASSUME Types, Objects', object'.version >= object.version,
         NEW r \in LiveRooms, r.base <= object'.version, Save(r)
  PROVE  Stored'
<1>1. object.version \in Nat /\ object'.version \in Nat
  BY DEF Types, Objects
<1>2. CASE row' = RowOf(r)
  BY <1>1, <1>2, RoomType DEF Stored
<1>3. CASE row' = row
  BY <1>1, <1>3 DEF Types, Stored, Blobs, Version
<1> QED  BY <1>2, <1>3 DEF Save

(***************************************************************************)
(* What a step leaves alone keeps its type: versions only go up.           *)
(***************************************************************************)
LEMMA Untouched ==
  ASSUME Types, Objects', object'.version >= object.version
  PROVE  /\ UNCHANGED row => Stored'
         /\ UNCHANGED <<room, landed, drain, crowd>> => RoomState'
         /\ UNCHANGED <<room, due, drain>> => Timer'
         /\ UNCHANGED <<join, lines>> => Waiting'
         /\ UNCHANGED <<online, leaving, lines, clock, used, handed>> => Counting'
<1>1. object.version \in Nat /\ object'.version \in Nat
  BY DEF Types, Objects
<1>2. UNCHANGED row => Stored'
  BY <1>1 DEF Types, Stored, Blobs, Version
<1>3. UNCHANGED <<room, landed, drain, crowd>> => RoomState'
  BY <1>1 DEF Types, RoomState, LiveRooms, Version
<1>4. UNCHANGED <<join, lines>> => Waiting'
  BY <1>1 DEF Types, Waiting, Joins, Blobs, Version
<1>5. UNCHANGED <<online, leaving, lines, clock, used, handed>> => Counting'
  BY DEF Types, Counting
<1>6. UNCHANGED <<room, due, drain>> => Timer'
  BY Zenon DEF Types, Timer
<1> QED  BY <1>2, <1>3, <1>4, <1>5, <1>6

\* Nothing stored changes: its types stay.
LEMMA StoredUnchanged ==
  ASSUME Types, UNCHANGED stored
  PROVE  Objects' /\ object'.version >= object.version /\ object' = object
BY DEF Types, Objects, stored

(***************************************************************************)
(* A room that is gone leaves nothing of itself.                           *)
(***************************************************************************)
LEMMA Gone ==
  ASSUME Types, Objects', room' = NoRoom, due' = FALSE, landed' = 0, drain' = "none",
         crowd' = "out"
  PROVE  RoomState' /\ Timer'
<1>1. object'.version \in Nat
  BY DEF Types, Objects
<1>2. RoomState'
  BY <1>1 DEF Types, RoomState
<1> QED  BY <1>2, Zenon DEF Timer

\* The program starts with the types.
LEMMA TypesInit == Init => Types
<1> SUFFICES ASSUME Init  PROVE Types
  OBVIOUS
<1>1. Objects /\ Stored
  BY RoomsAssumption DEF Init, Objects, Stored
<1>2. RoomState
  BY DEF Init, RoomState
<1>3. Timer
  BY Zenon DEF Init, Timer
<1>4. Waiting
  BY RoomsAssumption DEF Init, Waiting, Joins, NotJoining
<1>5. Counting
  BY RoomsAssumption DEF Init, Counting, Lines
<1> QED  BY <1>1, <1>2, <1>3, <1>4, <1>5 DEF Types

-----------------------------------------------------------------------------
(***************************************************************************)
(* Edits, in the room and from outside it, keep the types.                 *)
(***************************************************************************)
LEMMA TypesEdits ==
  ASSUME Types, NEW w \in Words,
         \/ \E u \in People : Type(u, w) \/ Strike(u, w)
         \/ OutsideAdds(w) \/ OutsideCuts(w)
  PROVE  Types'
<1>1. room # NoRoom => room \in LiveRooms /\ room.doc \in SUBSET Words
  BY DEF Types, RoomState, LiveRooms
<1>2. used \in SUBSET Words /\ object.body \in SUBSET Words /\ object.version \in Nat
  BY DEF Types, Counting, Objects
<1>3. CASE \E u \in People : Type(u, w)
  <2>1. room # NoRoom /\ used' \in SUBSET Words /\ room.doc \union {w} \in SUBSET Words
        /\ Edit(room.doc \union {w})
    BY <1>1, <1>2, <1>3 DEF Type
  <2> QED  BY <2>1, EditTypes
<1>4. CASE \E u \in People : Strike(u, w)
  <2>1. room # NoRoom /\ used' \in SUBSET Words /\ room.doc \ {w} \in SUBSET Words
        /\ Edit(room.doc \ {w})
    BY <1>1, <1>2, <1>4 DEF Strike
  <2> QED  BY <2>1, EditTypes
<1>5. CASE OutsideAdds(w) \/ OutsideCuts(w)
  <2>1. PICK text \in SUBSET Words : Commit(text)
    BY <1>2, <1>5 DEF OutsideAdds, OutsideCuts
  <2>2. Objects' /\ object'.version >= object.version
    BY <1>2, <2>1, CommitTypes DEF Types
  <2>3. FromOutside /\ used' \in SUBSET Words
    BY <1>2, <1>5 DEF OutsideAdds, OutsideCuts
  <2>4. Counting'
    BY <2>3 DEF Types, Counting, FromOutside
  <2> QED  BY <2>2, <2>3, <2>4, Untouched DEF FromOutside, Types
<1> QED  BY <1>3, <1>4, <1>5

(***************************************************************************)
(* So do the timers, the flushes and the watcher of an open room.          *)
(***************************************************************************)
LEMMA LandTypes ==
  ASSUME Types, room # NoRoom, Land
  PROVE  /\ Objects' /\ object'.version >= object.version
         /\ room' \in LiveRooms /\ room'.base <= object'.version
         /\ landed' \in Nat /\ landed' <= object'.version
<1>1. room \in LiveRooms /\ room.doc \in SUBSET Words /\ Reached \in Nat
      /\ room.base \in Nat /\ room.base <= object.version /\ object.version \in Nat
  BY DEF Types, RoomState, LiveRooms, Reached, Version, Objects
<1> DEFINE text == UpToDate(room.doc, Reached)
<1>2. text \in SUBSET Words
  BY <1>1, UpToDateType DEF Types
<1>3. Commit(text) /\ landed' = object.version + 1 /\ room' = [room EXCEPT !.doc = text]
  BY DEF Land
<1> HIDE DEF text
<1>4. Objects' /\ object'.version = object.version + 1
  BY <1>2, <1>3, CommitTypes DEF Types
<1>5. room' \in LiveRooms /\ room'.base = room.base
  BY <1>1, <1>2, <1>3, RoomType
<1> QED  BY <1>1, <1>3, <1>4, <1>5

\* Timers, flushes and the watcher keep the types of an open room.
LEMMA TypesOpenRoom ==
  ASSUME Types, Persist \/ Flush \/ MarkFlushed \/ Ingest
  PROVE  Types' /\ room # NoRoom /\ room' \in LiveRooms
<1>1. room # NoRoom => /\ room \in LiveRooms /\ room.doc \in SUBSET Words
                       /\ room.base \in Nat /\ room.base <= object.version
  BY DEF Types, RoomState, LiveRooms, Version
<1>2. object.version \in Nat /\ landed \in Nat /\ landed <= object.version
  BY DEF Types, RoomState, Objects
<1>3. CASE Persist
  <2>1. room # NoRoom
    BY <1>3, Zenon DEF Persist, Types, Timer
  <2>2. Objects' /\ object'.version = object.version
    BY <1>3, StoredUnchanged DEF Persist
  <2>3. Stored'
    BY <1>1, <1>2, <1>3, <2>1, <2>2, SaveTypes DEF Persist
  <2>4. Timer'
    BY <1>3, <2>1, Zenon DEF Persist, Timer
  <2> QED  BY <1>1, <1>2, <1>3, <2>1, <2>2, <2>3, <2>4, Untouched DEF Persist, Types
<1>4. CASE Flush
  <2>1. /\ Objects' /\ object'.version >= object.version
        /\ room' \in LiveRooms /\ room'.base <= object'.version
        /\ landed' \in Nat /\ landed' <= object'.version
    BY <1>4, LandTypes DEF Flush
  <2>2. RoomState'
    BY <1>4, <2>1, NoRoomAssumption DEF Flush, Types, RoomState
  <2>3. Timer'
    BY <1>4, <2>1, NoRoomAssumption, Zenon DEF Flush, Types, Timer
  <2> QED  BY <1>4, <2>1, <2>2, <2>3, Untouched DEF Flush, Types
<1>5. CASE MarkFlushed
  <2>1. room # NoRoom
    BY <1>5 DEF MarkFlushed, Types, RoomState
  <2>2. Objects' /\ object'.version = object.version
    BY <1>5, StoredUnchanged DEF MarkFlushed
  <2>3. PICK r \in LiveRooms : room' = r /\ r.base = Max2(room.base, landed) /\ Save(r)
    BY <1>1, <1>2, <1>5, <2>1, RoomType DEF MarkFlushed, Marked
  <2>4. r.base <= object.version
    BY <1>1, <1>2, <2>1, <2>3 DEF Max2
  <2>5. Stored'
    BY <1>2, <2>2, <2>3, <2>4, SaveTypes
  <2>6. RoomState'
    BY <1>2, <1>5, <2>2, <2>3, <2>4, NoRoomAssumption DEF MarkFlushed, Types, RoomState
  <2>7. Timer'
    BY <1>5, Zenon DEF MarkFlushed, Timer
  <2> QED  BY <1>2, <1>5, <2>1, <2>2, <2>3, <2>5, <2>6, <2>7, Untouched DEF MarkFlushed, Types
<1>6. CASE Ingest
  <2>1. room # NoRoom
    BY <1>6 DEF Ingest
  <2>2. Objects' /\ object'.version = object.version
    BY <1>6, StoredUnchanged DEF Ingest
  <2> DEFINE text == UpToDate(room.doc, room.base)
  <2>3. text \in SUBSET Words
    BY <1>1, <2>1, UpToDateType DEF Types
  <2> HIDE DEF text
  <2>4. PICK r : r = [room EXCEPT !.doc = text, !.base = object.version]
    OBVIOUS
  <2>5. r \in LiveRooms /\ r.base = object.version
    BY <1>1, <1>2, <2>1, <2>3, <2>4 DEF LiveRooms, Version
  <2>6. room' = r /\ Save(r)
    BY <1>6, <2>4 DEF Ingest, text
  <2>7. Stored'
    BY <1>2, <2>2, <2>5, <2>6, SaveTypes
  <2>8. RoomState'
    BY <1>2, <1>6, <2>2, <2>5, <2>6, NoRoomAssumption DEF Ingest, Types, RoomState
  <2>9. Timer'
    BY <1>6, Zenon DEF Ingest, Timer
  <2> QED  BY <1>2, <1>6, <2>1, <2>2, <2>5, <2>6, <2>7, <2>8, <2>9, Untouched DEF Ingest, Types
<1> QED  BY <1>3, <1>4, <1>5, <1>6

-----------------------------------------------------------------------------
(***************************************************************************)
(* A join that waits for its turn and reads what is stored keeps the       *)
(* types.                                                                  *)
(***************************************************************************)
LEMMA TypesWaiting ==
  ASSUME Types, (\E u \in People : JoinBegin(u)) \/ JoinLoads \/ JoinWaits
  PROVE  Types'
<1>1. Objects' /\ object'.version = object.version /\ object.version \in Nat
      /\ object.body \in SUBSET Words /\ UNCHANGED stored
  BY StoredUnchanged DEF JoinBegin, JoinLoads, JoinWaits, Joining, Types, Objects, stored
<1>2. UNCHANGED <<row, room, landed, drain, crowd, due, online, leaving, lines, clock, used,
                  handed>>
  BY DEF JoinBegin, JoinLoads, JoinWaits, Joining
<1>3. Stored' /\ RoomState' /\ Timer' /\ Counting'
  BY <1>1, <1>2, Untouched
<1>4. CASE \E u \in People : JoinBegin(u)
  <2>1. PICK u \in People : JoinBegin(u)
    BY <1>4
  <2>2. join' = [pc |-> "gate", who |-> {u}, version |-> 0, body |-> {}, row |-> NoRow]
    BY <2>1 DEF JoinBegin, Joining, NotJoining
  <2>3. Len(lines) < MaxLines
    BY <2>1 DEF JoinBegin
  <2> QED  BY <1>1, <1>2, <2>2, <2>3, <1>3 DEF Types, Waiting, Joins
<1>5. CASE JoinLoads
  <2>1. join.pc = "gate" /\ join \in Joins /\ Len(lines) < MaxLines
        /\ row \in Blobs \union {NoRow} /\ (row # NoRow => row.base <= object.version)
    BY <1>5 DEF JoinLoads, Types, Waiting, Stored
  <2>2. CASE object.deleted
    <3>1. join' = NotJoining
      BY <1>5, <2>2 DEF JoinLoads, Joining
    <3> QED  BY <1>1, <1>3, <3>1 DEF Types, Waiting, Joins, NotJoining
  <2>3. CASE ~object.deleted
    <3>1. join' = [join EXCEPT !.pc = "loaded", !.version = object.version,
                               !.body = object.body, !.row = row]
      BY <1>5, <2>3 DEF JoinLoads, Joining
    <3>2. join' = [pc |-> "loaded", who |-> join.who, version |-> object.version,
                   body |-> object.body, row |-> row]
      BY <2>1, <3>1 DEF Joins
    <3>3. join.who \in SUBSET People
      BY <2>1 DEF Joins
    <3>4. join' \in Joins
      BY <1>1, <2>1, <3>2, <3>3 DEF Joins
    <3> QED  BY <1>1, <1>2, <1>3, <2>1, <3>2, <3>4 DEF Types, Waiting
  <2> QED  BY <2>2, <2>3
<1>6. CASE JoinWaits
  <2>1. join.pc = "loaded" /\ join' = [join EXCEPT !.pc = "gate"]
    BY <1>6 DEF JoinWaits, Joining
  <2> QED  BY <1>1, <1>2, <1>3, <2>1 DEF Types, Waiting, Joins
<1> QED  BY <1>4, <1>5, <1>6

(***************************************************************************)
(* A room that is opened: of the words there are, on a base there has      *)
(* been, in a lineage of its own or in the row's.                          *)
(***************************************************************************)
LEMMA OpenTypes ==
  ASSUME Types, Objects', object' = object, NEW text \in SUBSET Words, NEW base \in Nat,
         base <= object.version, NEW epoch \in Nat, NEW line \in Lines,
         Open(text, base, epoch, line)
  PROVE  /\ Stored'
         /\ room' = [doc |-> text, base |-> base, epoch |-> epoch, line |-> line,
                     conns |-> 1]
         /\ room' \in LiveRooms
<1>1. PICK r : /\ r = [doc |-> text, base |-> base, epoch |-> epoch, line |-> line,
                       conns |-> 1]
               /\ room' = r /\ Save(r)
  BY DEF Open
<1>2. r \in LiveRooms /\ r.base = base
  BY <1>1 DEF LiveRooms, Version
<1>3. object.version \in Nat
  BY DEF Types, Objects
<1> QED  BY <1>1, <1>2, <1>3, SaveTypes

(***************************************************************************)
(* A join that attaches to a room or opens it keeps the types.             *)
(***************************************************************************)
LEMMA TypesSeeding ==
  ASSUME Types, Seed \/ Resume \/ Rebase \/ RebaseUnmerged
  PROVE  Types' /\ room' \in LiveRooms
<1>1. /\ join.pc = "loaded" /\ room = NoRoom /\ join' = [join EXCEPT !.pc = "opened"]
      /\ clock' = clock + 1
      /\ UNCHANGED <<stored, due, landed, drain, crowd, online, leaving, used>>
  BY DEF Seed, Resume, Rebase, RebaseUnmerged, Seeding
<1>2. /\ join.version \in Nat /\ join.version <= object.version
      /\ join.body \in SUBSET Words /\ join.row \in Blobs \union {NoRow}
      /\ (join.row # NoRow => join.row.base <= object.version)
      /\ Len(lines) < MaxLines
  BY <1>1 DEF Types, Waiting, Joins
<1>3. join.row # NoRow =>
        /\ join.row.blob \in SUBSET Words /\ join.row.base \in Nat
        /\ join.row.epoch \in Nat /\ join.row.line \in Lines
  BY <1>2 DEF Blobs, Version
<1>4. Objects' /\ object' = object /\ object'.version >= object.version
  BY <1>1, StoredUnchanged
<1>5. lines \in Seq(Nat) /\ clock \in Nat /\ MaxLines \in Nat
  BY RoomsAssumption DEF Types, Counting
<1>6. ASSUME NEW text \in SUBSET Words, Fresh(text)
      PROVE  /\ Stored' /\ room' \in LiveRooms /\ room'.base <= object.version
             /\ lines' \in Seq(Nat) /\ Len(lines') <= MaxLines
  <2>1. PICK epoch : epoch = IF join.row = NoRow THEN clock
                             ELSE Max2(join.row.epoch + 1, clock)
    OBVIOUS
  <2>2. epoch \in Nat
    BY <1>3, <1>5, <2>1 DEF Max2
  <2>3. lines' = Append(lines, epoch) /\ Open(text, join.version, epoch, Len(lines) + 1)
    BY <1>6, <2>1 DEF Fresh
  <2>4. Len(lines) + 1 \in Lines
    BY <1>2, <1>5 DEF Lines
  <2>5. Stored' /\ room' \in LiveRooms /\ room'.base = join.version
    BY <1>2, <1>4, <2>2, <2>3, <2>4, OpenTypes
  <2>6. lines' \in Seq(Nat) /\ Len(lines') = Len(lines) + 1 /\ Len(lines) \in Nat
    BY <1>5, <2>2, <2>3
  <2> QED  BY <1>2, <1>5, <2>5, <2>6
<1>7. /\ Stored' /\ room' \in LiveRooms /\ room'.base <= object.version
      /\ lines' \in Seq(Nat) /\ Len(lines') <= MaxLines
      /\ handed' \in SUBSET Words
  <2>1. handed \in SUBSET Words
    BY DEF Types, Counting
  <2>2. CASE Seed
    <3>1. Fresh(join.body) /\ handed' = handed
      BY <2>2 DEF Seed
    <3> QED  BY <1>2, <1>6, <2>1, <3>1
  <2>3. CASE Resume
    <3>1. join.row # NoRow /\ lines' = lines /\ handed' = handed
          /\ Open(join.row.blob, join.row.base, join.row.epoch, join.row.line)
      BY <2>3 DEF Resume, Plan
    <3>2. Stored' /\ room' \in LiveRooms /\ room'.base = join.row.base
      BY <1>2, <1>3, <1>4, <3>1, OpenTypes
    <3> QED  BY <1>2, <1>5, <2>1, <3>1, <3>2 DEF Types, Counting
  <2>4. CASE Rebase \/ RebaseUnmerged
    <3> DEFINE merged == Merge(join.body, BodyAt(join.row.base), join.row.blob)
    <3>1. join.row # NoRow
      BY <2>4 DEF Rebase, RebaseUnmerged, Plan
    <3>2. BodyAt(join.row.base) \in SUBSET Words
      BY <1>3, <3>1, BodyAtType DEF Types
    <3>3. merged \in SUBSET Words
      BY <1>2, <1>3, <3>1, <3>2, MergeType
    <3>4. \/ Fresh(merged) /\ handed' = handed
          \/ /\ Fresh(join.body)
             /\ handed' = handed \union (merged \ join.body) \union (join.body \ merged)
      BY <2>4 DEF Rebase, RebaseUnmerged
    <3> HIDE DEF merged
    <3> QED  BY <1>2, <1>6, <2>1, <3>3, <3>4
  <2> QED  BY <2>2, <2>3, <2>4
<1>8. RoomState'
  BY <1>1, <1>4, <1>7, NoRoomAssumption DEF Types, RoomState
<1>9. Timer'
  BY <1>1, <1>7, NoRoomAssumption, Zenon DEF Types, Timer
<1>10. Waiting'
  BY <1>1, <1>2, <1>4 DEF Types, Waiting, Joins
<1>11. Counting'
  BY <1>1, <1>5, <1>7 DEF Types, Counting
<1> QED  BY <1>4, <1>7, <1>8, <1>9, <1>10, <1>11 DEF Types

\* A join that enters an open room keeps the types.
LEMMA TypesEntering ==
  ASSUME Types, Attach \/ Enter
  PROVE  Types'
<1>1. /\ join' = NotJoining
      /\ UNCHANGED <<stored, due, landed, drain, crowd, leaving, clock, used, row, lines,
                     handed>>
  BY DEF Attach, Enter, Joining
<1>2. Objects' /\ object' = object /\ object'.version >= object.version
      /\ object.version \in Nat
  BY <1>1, StoredUnchanged DEF Types, Objects
<1>3. room # NoRoom => room \in LiveRooms /\ room.line \in Lines
  BY DEF Types, RoomState, LiveRooms
<1>4. online' \in [People -> Lines]
  BY <1>3 DEF Attach, Enter, Types, Counting
<1>5. Stored' /\ Counting'
  BY <1>1, <1>2, <1>4, Untouched DEF Types, Counting
<1>6. Waiting'
  BY <1>1, <1>2 DEF Waiting, Joins, NotJoining
<1>7. \/ UNCHANGED room
      \/ /\ room # NoRoom /\ room' \in LiveRooms /\ room' # NoRoom
         /\ room'.base = room.base
  BY <1>3, RoomType DEF Attach, Enter
<1>8. RoomState'
  BY <1>1, <1>2, <1>7 DEF Types, RoomState
<1>9. Timer'
  BY <1>1, <1>7, Zenon DEF Types, Timer
<1> QED  BY <1>2, <1>5, <1>6, <1>8, <1>9 DEF Types

-----------------------------------------------------------------------------
(***************************************************************************)
(* Everybody out is nobody in, and as many hooks to run.                   *)
(***************************************************************************)
LEMMA OutTypes ==
  ASSUME Types, EverybodyOut
  PROVE  online' \in [People -> Lines] /\ leaving' \in Nat
<1>1. Cardinality(Present) \in Nat
  BY PeopleIn DEF Types, Counting
<1>2. 0 \in Lines
  BY RoomsAssumption DEF Lines
<1> QED  BY <1>1, <1>2 DEF EverybodyOut, Types, Counting

\* Leaving, and the start of a teardown, keep the types.
LEMMA TypesLeaving ==
  ASSUME Types, (\E u \in People : Leave(u)) \/ Disconnected \/ Sweep \/ Evict
                  \/ Narrow
  PROVE  Types'
<1>1. /\ object.version \in Nat /\ object \in [version : Nat, body : SUBSET Words,
                                              deleted : BOOLEAN]
      /\ 0 \in Lines
  BY RoomsAssumption DEF Types, Objects, Lines
<1>2. CASE (\E u \in People : Leave(u)) \/ Sweep \/ Evict \/ Disconnected
  <2>1. UNCHANGED stored
    BY <1>2 DEF Leave, Sweep, Evict, Drain, Disconnected, stored
  <2>2. Objects' /\ object' = object /\ object'.version >= object.version
    BY <1>1, <2>1, StoredUnchanged
  <2>3. UNCHANGED <<row, landed, join, lines, clock, used, handed>>
    BY <1>2 DEF Leave, Sweep, Evict, Drain, Disconnected
  <2>4. online' \in [People -> Lines] /\ leaving' \in Nat
    BY <1>1, <1>2 DEF Leave, Sweep, Evict, Disconnected, Types, Counting
  <2>5. Counting'
    BY <2>3, <2>4 DEF Types, Counting
  <2>6. \/ UNCHANGED <<room, due, drain, crowd>>
        \/ room # NoRoom /\ room' = room /\ due' = FALSE /\ drain' = "mark"
           /\ crowd' \in {crowd, "in"}
        \/ /\ room # NoRoom /\ UNCHANGED <<due, drain, crowd>>
           /\ room' = [room EXCEPT !.conns = Max2(0, @ - 1)]
    BY <1>2 DEF Leave, Sweep, Evict, Drain, Disconnected
  <2>7. room # NoRoom => room \in LiveRooms
    BY DEF Types, RoomState
  <2>8. \/ UNCHANGED <<room, due, drain, crowd>>
        \/ room # NoRoom /\ room' = room /\ due' = FALSE /\ drain' = "mark"
           /\ crowd' \in {crowd, "in"}
        \/ /\ room # NoRoom /\ UNCHANGED <<due, drain, crowd>>
           /\ room' \in LiveRooms /\ room' # NoRoom /\ room'.base = room.base
    BY <2>6, <2>7, RoomType
  <2>9. RoomState'
    BY <1>1, <2>2, <2>3, <2>8 DEF Types, RoomState
  <2>10. Timer'
    BY <2>8, Zenon DEF Types, Timer
  <2> QED  BY <2>2, <2>3, <2>5, <2>9, <2>10, Untouched DEF Types
<1>3. CASE Narrow
  <2>1. object' = [object EXCEPT !.version = @ + 1] /\ images' = images
    BY <1>3 DEF Narrow, Drain
  <2>2. Objects' /\ object'.version = object.version + 1
    BY <1>1, <2>1 DEF Types, Objects
  <2>3. EverybodyOut /\ UNCHANGED <<row, room, landed, join, clock, lines, used, handed>>
        /\ room # NoRoom /\ UNCHANGED crowd
    BY <1>3 DEF Narrow, Drain, Types, RoomState
  <2>7. \/ drain' = "mark" /\ due' = FALSE
        \/ drain # "none" /\ UNCHANGED <<due, drain>>
    BY <1>3 DEF Narrow, Drain
  <2>4. Counting'
    BY <2>3, OutTypes DEF Types, Counting
  <2>5. RoomState'
    BY <1>1, <2>2, <2>3, <2>7 DEF Types, RoomState, LiveRooms, Version
  <2>6. Timer'
    BY <2>3, <2>7, Zenon DEF Types, Timer
  <2> QED  BY <1>1, <2>2, <2>3, <2>4, <2>5, <2>6, Untouched DEF Types
<1> QED  BY <1>2, <1>3

\* The steps of a teardown keep the types.
LEMMA TypesDraining ==
  ASSUME Types, DrainStep
  PROVE  Types'
<1>1. room # NoRoom /\ room \in LiveRooms /\ room.base <= object.version
      /\ object.version \in Nat /\ landed \in Nat /\ landed <= object.version
  BY DEF DrainStep, MarkDraining, LastFlush, Keep, Remove, Drop, Types,
         RoomState, Objects
<1>2. UNCHANGED <<due, join, clock, lines, used>>
  BY DEF DrainStep, MarkDraining, LastFlush, Keep, Remove, Drop, Draining
<1>3. CASE MarkDraining \/ Keep
  <2>1. Objects' /\ object' = object /\ object'.version >= object.version
    BY <1>1, <1>3, StoredUnchanged DEF MarkDraining, Keep
  <2>2. Stored'
    BY <1>1, <1>3, <2>1, SaveTypes DEF MarkDraining, Keep
  <2>3. RoomState'
    BY <1>1, <1>3, <2>1 DEF MarkDraining, Keep, Types, RoomState
  <2>4. Timer'
    BY <1>2, <1>3, Zenon DEF MarkDraining, Keep, Types, Timer
  <2> QED  BY <1>2, <1>3, <2>1, <2>2, <2>3, <2>4, Untouched DEF MarkDraining, Keep, Types
<1>4. CASE LastFlush
  <2>1. /\ UNCHANGED <<row, crowd, online, leaving>>
        /\ drain' \in {"remove", "keep", "unwritten"}
    BY <1>4 DEF LastFlush
  <2>2. Land \/ UNCHANGED <<stored, room, landed>>
    BY <1>4 DEF LastFlush
  <2>3. /\ Objects' /\ object'.version >= object.version
        /\ room' \in LiveRooms /\ room'.base <= object'.version
        /\ landed' \in Nat /\ landed' <= object'.version
    <3>1. CASE Land
      BY <1>1, <3>1, LandTypes
    <3>2. CASE UNCHANGED <<stored, room, landed>>
      <4>1. Objects' /\ object' = object /\ object'.version >= object.version
        BY <3>2, StoredUnchanged
      <4> QED  BY <1>1, <3>2, <4>1
    <3> QED  BY <2>2, <3>1, <3>2
  <2>4. RoomState'
    BY <2>1, <2>3, NoRoomAssumption DEF Types, RoomState
  <2>5. Timer'
    BY <1>2, <1>4, <2>3, NoRoomAssumption, Zenon DEF LastFlush, Types, Timer
  <2>6. handed' \in SUBSET Words
    <3>1. handed \in SUBSET Words /\ object.body \in SUBSET Words
      BY DEF Types, Counting, Objects
    <3>2. UpToDate(room.doc, Reached) \in SUBSET Words
      BY <1>1, UpToDateType DEF Types, LiveRooms, Reached, Version
    <3> QED  BY <1>4, <3>1, <3>2 DEF LastFlush
  <2>7. Counting'
    BY <1>2, <2>1, <2>6 DEF Types, Counting
  <2> QED  BY <1>2, <2>1, <2>3, <2>4, <2>5, <2>7, Untouched DEF Types
<1>5. CASE Remove \/ Drop
  <2>1. Objects' /\ object' = object /\ object'.version >= object.version
    BY <1>1, <1>5, StoredUnchanged DEF Remove, Drop
  <2>2. DropRoom /\ handed' = handed
    BY <1>5 DEF Remove, Drop
  <2>3. Stored'
    BY <1>1, <1>5, <2>1 DEF Remove, Drop, RemoveRow, Types, Stored
  <2>4. due' = FALSE
    BY <1>2, <1>5, Zenon DEF Remove, Drop, Types, Timer
  <2>5. RoomState' /\ Timer'
    BY <2>1, <2>2, <2>4, Gone DEF DropRoom
  <2>6. Counting'
    BY <1>2, <2>2, OutTypes DEF DropRoom, Types, Counting
  <2> QED  BY <1>1, <1>2, <2>1, <2>3, <2>5, <2>6, Untouched DEF Types
<1> QED  BY <1>3, <1>4, <1>5 DEF DrainStep

\* A purge and a death keep the types.
LEMMA TypesEnding ==
  ASSUME Types, Trash \/ BoxOff \/ Crash
  PROVE  Types'
<1>1. /\ object.version \in Nat /\ object \in [version : Nat, body : SUBSET Words,
                                              deleted : BOOLEAN]
      /\ 0 \in Lines
  BY RoomsAssumption DEF Types, Objects, Lines
<1>2. ASSUME Objects', object'.version >= object.version, Purge,
             UNCHANGED <<join, clock, lines, used, handed>>
      PROVE  Types'
  <2>1. row' \in {row, NoRow} /\ DropRoom /\ due' = FALSE
    BY <1>2 DEF Purge
  <2>2. object'.version \in Nat
    BY <1>2 DEF Objects
  <2>3. Stored'
    BY <1>1, <1>2, <2>1, <2>2 DEF Types, Stored, Blobs, Version
  <2>4. RoomState' /\ Timer'
    BY <1>2, <2>1, Gone DEF DropRoom
  <2>5. Counting'
    BY <1>2, <2>1, OutTypes DEF DropRoom, Types, Counting
  <2> QED  BY <1>2, <2>3, <2>4, <2>5, Untouched DEF Types
<1>3. CASE Trash
  <2>1. /\ object' = [object EXCEPT !.version = @ + 1, !.deleted = TRUE]
        /\ UNCHANGED <<images, join, clock, lines, used, handed>>
    BY <1>3 DEF Trash
  <2>2. object' = [version |-> object.version + 1, body |-> object.body, deleted |-> TRUE]
    BY <1>1, <2>1
  <2>3. Objects' /\ object'.version >= object.version
    <3>1. images' = images /\ object.body \in SUBSET Words
      BY <1>1, <2>1
    <3> QED  BY <1>1, <2>2, <3>1 DEF Types, Objects
  <2>4. CASE UNCHANGED <<row, room, due, landed, drain, crowd, online, leaving>>
    BY <2>1, <2>3, <2>4, Untouched DEF Types
  <2>5. CASE Purge
    BY <1>2, <2>1, <2>3, <2>5
  <2> QED  BY <1>3, <2>4, <2>5 DEF Trash
<1>4. CASE BoxOff
  <2>1. Objects' /\ object' = object /\ object'.version >= object.version
    BY <1>4, StoredUnchanged DEF BoxOff
  <2> QED  BY <1>2, <1>4, <2>1 DEF BoxOff
<1>5. CASE Crash
  <2>1. Objects' /\ object' = object /\ object'.version >= object.version
    BY <1>5, StoredUnchanged DEF Crash
  <2>2. RoomState' /\ Timer'
    BY <1>5, <2>1, Gone DEF Crash
  <2>3. Waiting'
    BY <1>1, <1>5, <2>1 DEF Crash, Waiting, Joins, NotJoining
  <2>4. Counting'
    BY <1>1, <1>5 DEF Crash, Types, Counting
  <2> QED  BY <1>5, <2>1, <2>2, <2>3, <2>4, Untouched DEF Crash, Types
<1> QED  BY <1>3, <1>4, <1>5

(***************************************************************************)
(* Every step keeps the types.                                             *)
(***************************************************************************)
LEMMA TypesNext == Types /\ [Next]_vars => Types'
<1> SUFFICES ASSUME Types, [Next]_vars  PROVE Types'
  OBVIOUS
<1>1. CASE UNCHANGED vars
  <2>1. UNCHANGED <<stored, row, room, due, landed, drain, crowd, join, online,
                    leaving, clock, lines, used, handed>>
    BY <1>1 DEF vars
  <2>2. Objects' /\ object'.version >= object.version
    BY <2>1, StoredUnchanged
  <2> QED  BY <2>1, <2>2, Untouched DEF Types
<1>2. CASE \E u \in People, w \in Words : Type(u, w) \/ Strike(u, w)
  BY <1>2, TypesEdits
<1>3. CASE \E w \in Words : OutsideAdds(w) \/ OutsideCuts(w)
  BY <1>3, TypesEdits
<1>4. CASE Persist \/ Flush \/ MarkFlushed \/ Ingest
  BY <1>4, TypesOpenRoom
<1>5. CASE (\E u \in People : JoinBegin(u)) \/ JoinStep
  BY <1>5, TypesWaiting, TypesSeeding, TypesEntering DEF JoinStep
<1>6. CASE (\E u \in People : Leave(u)) \/ Disconnected \/ Sweep \/ Evict \/ Narrow
  BY <1>6, TypesLeaving
<1>7. CASE DrainStep
  BY <1>7, TypesDraining
<1>8. CASE Trash \/ BoxOff \/ Crash
  BY <1>8, TypesEnding
<1> QED  BY <1>1, <1>2, <1>3, <1>4, <1>5, <1>6, <1>7, <1>8 DEF Next

-----------------------------------------------------------------------------
(***************************************************************************)
(* No step but the opening of a room gives a document another lineage: a   *)
(* room keeps its own, a row is the room's, and a join has read a row.     *)
(***************************************************************************)
Same(d, e) == d.line = e.line /\ d.epoch = e.epoch

Kept ==
    /\ UNCHANGED <<lines, clock>>
    /\ room' = NoRoom \/ (room # NoRoom /\ Same(room', room))
    /\ row' \in {row, NoRow} \/ (room # NoRoom /\ Same(row', room))
    /\ join'.row \in {join.row, row, NoRow}

\* A room with another text or count keeps its lineage.
LEMMA SameRoom ==
  ASSUME NEW r \in LiveRooms
  PROVE  /\ Same(RowOf(r), r)
         /\ \A t : Same([r EXCEPT !.doc = t], r)
         /\ Same([r EXCEPT !.conns = @ + 1], r)
         /\ Same([r EXCEPT !.conns = Max2(0, @ - 1)], r)
BY DEF LiveRooms, RowOf, Same

\* A row write writes the lineage of the room.
LEMMA SaveSame ==
  ASSUME NEW r \in LiveRooms, room # NoRoom, Same(r, room), Save(r)
  PROVE  row' \in {row, NoRow} \/ (room # NoRoom /\ Same(row', room))
BY SameRoom DEF Save, Same

\* A join that opens no room changes no lineage.
LEMMA KeptJoining ==
  ASSUME Types, (\E u \in People : JoinBegin(u)) \/ JoinLoads \/ JoinWaits
                  \/ Attach \/ Enter
  PROVE  Kept
<1>1. UNCHANGED <<row, lines, clock>>
  BY DEF JoinBegin, JoinLoads, JoinWaits, Attach, Enter, Joining
<1>2. room' = room \/ (room # NoRoom /\ room' = [room EXCEPT !.conns = @ + 1])
  BY DEF JoinBegin, JoinLoads, JoinWaits, Attach, Enter
<1>3. room # NoRoom => room \in LiveRooms
  BY DEF Types, RoomState
<1>4. room' = NoRoom \/ (room # NoRoom /\ Same(room', room))
  <2>1. CASE room' = room
    BY <2>1 DEF Same
  <2>2. CASE room # NoRoom /\ room' = [room EXCEPT !.conns = @ + 1]
    BY <1>3, <2>2, SameRoom
  <2> QED  BY <1>2, <2>1, <2>2
<1>5. join'.row \in {join.row, row, NoRow}
  <2>1. CASE JoinLoads
    <3>1. \/ join' = NotJoining
          \/ join' = [join EXCEPT !.pc = "loaded", !.version = object.version,
                                  !.body = object.body, !.row = row]
      BY <2>1 DEF JoinLoads, Joining
    <3>2. join \in Joins
      BY DEF Types, Waiting
    <3>3. \/ join' = NotJoining
          \/ join' = [pc |-> "loaded", who |-> join.who, version |-> object.version,
                      body |-> object.body, row |-> row]
      BY <3>1, <3>2 DEF Joins
    <3> QED  BY <3>3 DEF NotJoining
  <2>2. CASE JoinWaits
    BY <2>2 DEF JoinWaits, Joining, Types, Waiting, Joins
  <2>3. CASE \E u \in People : JoinBegin(u)
    <3>1. PICK u \in People : join' = [NotJoining EXCEPT !.pc = "gate", !.who = {u}]
      BY <2>3 DEF JoinBegin, Joining
    <3> QED  BY <3>1 DEF NotJoining
  <2>4. CASE Attach \/ Enter
    BY <2>4 DEF Attach, Enter, Joining, NotJoining
  <2> QED  BY <2>1, <2>2, <2>3, <2>4
<1> QED  BY <1>1, <1>4, <1>5 DEF Kept

\* Nor do the timers, the flushes and the watcher.
LEMMA KeptOpenRoom ==
  ASSUME Types, Persist \/ Flush \/ MarkFlushed \/ Ingest \/ MarkDraining
                  \/ LastFlush \/ Keep
  PROVE  Kept
<1>1. UNCHANGED <<lines, clock, join>>
  BY DEF Persist, Flush, MarkFlushed, Ingest, MarkDraining, LastFlush, Keep, Draining
<1>2. room # NoRoom => room \in LiveRooms
  BY DEF Types, RoomState
<1>3. room # NoRoom
  <2>1. CASE Persist
    BY <2>1, Zenon DEF Persist, Types, Timer
  <2> QED  BY <2>1 DEF Flush, MarkFlushed, Ingest, MarkDraining, LastFlush, Keep, Types,
                      RoomState
<1>4. CASE Persist \/ MarkDraining \/ Keep
  <2>1. room' = room /\ Save(room)
    BY <1>4 DEF Persist, MarkDraining, Keep
  <2> QED  BY <1>1, <1>2, <1>3, <2>1, SaveSame DEF Kept, Same
<1>5. CASE Flush \/ LastFlush
  <2>1. PICK text : row' = row /\ (room' = room \/ room' = [room EXCEPT !.doc = text])
    BY <1>5 DEF Flush, LastFlush, Land
  <2>2. Same(room', room)
    BY <1>2, <1>3, <2>1 DEF Same, LiveRooms
  <2> QED  BY <1>1, <1>3, <2>1, <2>2 DEF Kept
<1>6. CASE MarkFlushed \/ Ingest
  <2>1. PICK text, v : \/ room' = [room EXCEPT !.base = v]
                       \/ room' = [room EXCEPT !.doc = text, !.base = v]
    BY <1>6 DEF MarkFlushed, Marked, Ingest
  <2>2. Same(room', room)
    BY <1>2, <1>3, <2>1 DEF Same, LiveRooms
  <2>3. PICK r : room' = r /\ Save(r)
    BY <1>6 DEF MarkFlushed, Marked, Ingest
  <2>4. Same(r, room) /\ Same(RowOf(r), r)
    BY <2>2, <2>3 DEF Same, RowOf
  <2>5. row' = row \/ Same(row', room)
    BY <2>3, <2>4 DEF Save, Same
  <2> QED  BY <1>1, <1>3, <2>2, <2>5 DEF Kept
<1> QED  BY <1>4, <1>5, <1>6

\* Nor do edits, leaving, and the ways a room ends.
LEMMA KeptElsewhere ==
  ASSUME Types,
         \/ \E u \in People, w \in Words : Type(u, w) \/ Strike(u, w)
         \/ \E w \in Words : OutsideAdds(w) \/ OutsideCuts(w)
         \/ (\E u \in People : Leave(u)) \/ Disconnected \/ Sweep \/ Evict \/ Narrow
         \/ Remove \/ Drop \/ Trash \/ BoxOff \/ Crash
         \/ UNCHANGED vars
  PROVE  Kept
<1>1. room # NoRoom => room \in LiveRooms
  BY DEF Types, RoomState
<1>2. CASE \E u \in People, w \in Words : Type(u, w) \/ Strike(u, w)
  <2>1. PICK text : room # NoRoom /\ Edit(text)
    BY <1>2 DEF Type, Strike
  <2>2. Same(room', room)
    BY <1>1, <2>1, SameRoom DEF Edit
  <2> QED  BY <2>1, <2>2 DEF Edit, Kept
<1>3. CASE \E w \in Words : OutsideAdds(w) \/ OutsideCuts(w)
  <2>1. UNCHANGED <<lines, clock, row, room, join>>
    BY <1>3 DEF OutsideAdds, OutsideCuts, FromOutside
  <2> QED  BY <2>1 DEF Kept, Same
<1>4. CASE Disconnected
  <2>1. UNCHANGED <<lines, clock, row, join>>
        /\ room' = IF room = NoRoom THEN NoRoom ELSE [room EXCEPT !.conns = Max2(0, @ - 1)]
    BY <1>4 DEF Disconnected
  <2>2. room' = NoRoom \/ (room # NoRoom /\ Same(room', room))
    BY <1>1, <2>1, SameRoom
  <2> QED  BY <2>1, <2>2 DEF Kept
<1>5. CASE (\E u \in People : Leave(u)) \/ Sweep \/ Evict \/ Narrow \/ UNCHANGED vars
  <2>1. UNCHANGED <<lines, clock, row, room, join>>
    BY <1>5 DEF Leave, Sweep, Evict, Narrow, Drain, vars
  <2> QED  BY <2>1 DEF Kept, Same
<1>6. CASE Remove \/ Drop
  <2>1. UNCHANGED <<lines, clock, join>> /\ room' = NoRoom /\ row' \in {row, NoRow}
    BY <1>6 DEF Remove, Drop, RemoveRow, Draining, DropRoom
  <2> QED  BY <2>1 DEF Kept
<1>7. CASE Trash \/ BoxOff \/ Crash
  <2>1. UNCHANGED <<lines, clock>> /\ (join' = join \/ join' = NotJoining)
        /\ (row' = row \/ row' = NoRow)
    BY <1>7 DEF Trash, BoxOff, Purge, Crash
  <2>2. room' = room \/ room' = NoRoom
    BY <1>7 DEF Trash, BoxOff, Purge, DropRoom, Crash
  <2>3. join'.row \in {join.row, row, NoRow}
    BY <2>1 DEF NotJoining
  <2> QED  BY <2>1, <2>2, <2>3 DEF Kept, Same
<1> QED  BY <1>2, <1>3, <1>4, <1>5, <1>6, <1>7

\* Where lineages are kept, so are their epochs.
LEMMA KeptEpochs ==
  ASSUME Epochs, Kept
  PROVE  Epochs'
<1>1. /\ room' # NoRoom => Known(room')
      /\ row' # NoRow => Known(row')
      /\ join'.row # NoRow => Known(join'.row)
  BY DEF Epochs, Kept, Known, Same
<1> QED  BY <1>1 DEF Epochs, Kept, Known

(***************************************************************************)
(* A document that is seeded anew is numbered by the clock, which is past  *)
(* every epoch there has been; one that is resumed has the row's.          *)
(***************************************************************************)
LEMMA EpochsSeeding ==
  ASSUME Types, Epochs, Seed \/ Resume \/ Rebase \/ RebaseUnmerged
  PROVE  Epochs'
<1>1. join.pc = "loaded" /\ clock' = clock + 1 /\ join' = [join EXCEPT !.pc = "opened"]
  BY DEF Seed, Resume, Rebase, RebaseUnmerged, Seeding
<1>2. join \in Joins /\ lines \in Seq(Nat) /\ clock \in Nat /\ Len(lines) \in Nat
  BY DEF Types, Waiting, Counting
<1>3. join'.row = join.row
  BY <1>1, <1>2 DEF Joins
<1>4. ASSUME NEW text, Fresh(text)
      PROVE  Epochs'
  <2>1. (IF join.row = NoRow THEN clock ELSE Max2(join.row.epoch + 1, clock)) = clock
    <3>1. CASE join.row = NoRow
      BY <3>1
    <3>2. CASE join.row # NoRow
      <4>1. join.row.epoch < clock /\ join.row.epoch \in Nat
        BY <1>2, <3>2 DEF Epochs, Known
      <4> QED  BY <1>2, <3>2, <4>1 DEF Max2
    <3> QED  BY <3>1, <3>2
  <2>2. /\ lines' = Append(lines, clock)
        /\ Open(text, join.version, clock, Len(lines) + 1)
    BY <1>4, <2>1 DEF Fresh
  <2>3. /\ DOMAIN lines' = DOMAIN lines \union {Len(lines) + 1}
        /\ Len(lines) + 1 \notin DOMAIN lines
        /\ lines'[Len(lines) + 1] = clock
        /\ \A i \in DOMAIN lines : lines'[i] = lines[i] /\ lines[i] \in Nat
    BY <1>2, <2>2
  <2>4. \A i \in DOMAIN lines' : lines'[i] < clock'
    BY <1>1, <1>2, <2>3 DEF Epochs
  <2>5. \A i, j \in DOMAIN lines' : lines'[i] = lines'[j] => i = j
    BY <1>2, <2>3 DEF Epochs
  <2>6. room'.line = Len(lines) + 1 /\ room'.epoch = clock
        /\ (row' = row \/ (row'.line = Len(lines) + 1 /\ row'.epoch = clock))
    BY <2>2 DEF Open, Save, RowOf
  <2>7. Known(room)'
    BY <2>3, <2>6 DEF Known
  <2>8. row' # NoRow => Known(row)'
    BY <2>3, <2>6 DEF Epochs, Known
  <2>9. join'.row # NoRow => Known(join.row)'
    BY <1>3, <2>3 DEF Epochs, Known
  <2> QED  BY <2>4, <2>5, <2>7, <2>8, <2>9 DEF Epochs
<1>5. CASE Resume
  <2>1. join.row # NoRow /\ lines' = lines
        /\ Open(join.row.blob, join.row.base, join.row.epoch, join.row.line)
    BY <1>5 DEF Resume, Plan
  <2>2. room'.line = join.row.line /\ room'.epoch = join.row.epoch
        /\ (row' = row \/ (row'.line = join.row.line /\ row'.epoch = join.row.epoch))
    BY <2>1 DEF Open, Save, RowOf
  <2>3. \A i \in DOMAIN lines : lines[i] < clock'
    BY <1>1, <1>2 DEF Epochs
  <2>4. /\ Known(room') /\ (row' # NoRow => Known(row'))
    BY <2>1, <2>2 DEF Epochs, Known
  <2> QED  BY <1>3, <2>1, <2>3, <2>4 DEF Epochs, Known
<1> QED  BY <1>4, <1>5 DEF Seed, Rebase, RebaseUnmerged

\* Every step keeps one epoch for each document.
LEMMA EpochsNext == Types /\ Epochs /\ [Next]_vars => Epochs'
<1> SUFFICES ASSUME Types, Epochs, [Next]_vars  PROVE Epochs'
  OBVIOUS
<1>1. CASE (\E u \in People : JoinBegin(u)) \/ JoinStep
  BY <1>1, KeptJoining, KeptEpochs, EpochsSeeding DEF JoinStep
<1>2. CASE Persist \/ Flush \/ MarkFlushed \/ Ingest \/ MarkDraining \/ LastFlush
        \/ Keep
  BY <1>2, KeptOpenRoom, KeptEpochs
<1>3. CASE \/ \E u \in People, w \in Words : Type(u, w) \/ Strike(u, w)
           \/ \E w \in Words : OutsideAdds(w) \/ OutsideCuts(w)
           \/ (\E u \in People : Leave(u)) \/ Disconnected \/ Sweep \/ Evict \/ Narrow
           \/ Remove \/ Drop \/ Trash \/ BoxOff \/ Crash
           \/ UNCHANGED vars
  BY <1>3, KeptElsewhere, KeptEpochs
<1> QED  BY <1>1, <1>2, <1>3 DEF Next, DrainStep

-----------------------------------------------------------------------------
(***************************************************************************)
(* How many are in a room: one more after somebody enters, one fewer after *)
(* somebody leaves, nobody after everybody is out.                         *)
(***************************************************************************)
LEMMA HeadCount ==
  ASSUME Types
  PROVE  /\ Cardinality(Present) \in Nat
         /\ Cardinality(Present) = 0 => Present = {}
         /\ Present = {} => Cardinality(Present) = 0
         /\ leaving \in Nat /\ Arriving \in {0, 1}
         /\ room # NoRoom => room \in LiveRooms /\ room.conns \in Nat
<1>1. IsFiniteSet(Present) /\ Cardinality(Present) \in Nat
  BY PeopleIn DEF Types, Counting
<1>2. Cardinality(Present) = 0 <=> Present = {}
  BY <1>1, FS_EmptySet
<1>3. leaving \in Nat /\ Arriving \in {0, 1}
  BY DEF Types, Counting, Arriving
<1>4. room # NoRoom => room \in LiveRooms /\ room.conns \in Nat
  BY DEF Types, RoomState, LiveRooms
<1> QED  BY <1>1, <1>2, <1>3, <1>4

\* At most one more is in the room after somebody enters.
LEMMA Entering ==
  ASSUME Types, NEW u \in People, NEW line,
         online' = [v \in People |-> IF v = u THEN line ELSE online[v]]
  PROVE  /\ Cardinality(Present') \in Nat
         /\ Cardinality(Present') <= Cardinality(Present) + 1
         /\ Present' \subseteq Present \union {u}
<1>1. IsFiniteSet(Present) /\ Cardinality(Present) \in Nat
  BY PeopleIn DEF Types, Counting
<1>2. Present' \in SUBSET (Present \union {u})
  BY DEF Present
<1>3. IsFiniteSet(Present \union {u})
      /\ Cardinality(Present \union {u}) <= Cardinality(Present) + 1
      /\ Cardinality(Present \union {u}) \in Nat
  <2>1. /\ IsFiniteSet(Present \union {u})
        /\ Cardinality(Present \union {u}) = IF u \in Present THEN Cardinality(Present)
                                            ELSE Cardinality(Present) + 1
    BY <1>1, FS_AddElement
  <2> QED  BY <1>1, <2>1
<1>4. IsFiniteSet(Present') /\ Cardinality(Present') <= Cardinality(Present \union {u})
      /\ Cardinality(Present') \in Nat
  BY <1>2, <1>3, FS_Subset, FS_CardinalityType
<1> QED  BY <1>1, <1>2, <1>3, <1>4

\* One fewer is in it after somebody leaves.
LEMMA Going ==
  ASSUME Types, NEW u \in Present, online' = [online EXCEPT ![u] = 0]
  PROVE  /\ Cardinality(Present') = Cardinality(Present) - 1
         /\ Present' \subseteq Present
<1>1. IsFiniteSet(Present) /\ Cardinality(Present) \in Nat /\ u \in People
  BY PeopleIn DEF Types, Counting, Present
<1>2. Present' = Present \ {u}
  BY <1>1 DEF Present, Types, Counting
<1>3. Cardinality(Present \ {u}) = Cardinality(Present) - 1
  BY <1>1, FS_RemoveElement
<1> QED  BY <1>2, <1>3

\* Nobody is in it after everybody is out.
LEMMA Nobody ==
  ASSUME online' = [u \in People |-> 0]
  PROVE  Present' = {} /\ Cardinality(Present') = 0
<1>1. Present' = {}
  BY DEF Present
<1> QED  BY <1>1, FS_EmptySet

(***************************************************************************)
(* The steps that change nobody's place.                                   *)
(***************************************************************************)
Placed ==
    /\ UNCHANGED <<online, leaving>>
    /\ crowd' \in {crowd, "in"}
    /\ drain' = drain \/ drain # "none" \/ crowd' = "in"
    /\ \/ room' = NoRoom /\ room = NoRoom
       \/ /\ room' # NoRoom /\ room # NoRoom
          /\ room'.line = room.line /\ room'.conns = room.conns

\* They leave everybody counted.
LEMMA CountsPlaced ==
  ASSUME Counts, Placed,
         \/ UNCHANGED join
         \/ join'.pc # "opened" /\ join.pc # "opened"
            /\ (join'.pc # "none" => \E u \in People : join'.who = {u})
  PROVE  Counts'
<1>1. Present' = Present
  BY DEF Placed, Present
<1>2. Arriving' = Arriving
  BY DEF Arriving
<1>3. InTheRoom'
  BY <1>1 DEF Counts, InTheRoom, Placed
<1>4. room' # NoRoom => room'.conns >= Cardinality(Present') + leaving' + Arriving'
  BY <1>1, <1>2 DEF Counts, Placed
<1>5. join'.pc # "none" => \E u \in People : join'.who = {u}
  BY DEF Counts
<1>6. join'.pc = "opened" =>
         /\ room' # NoRoom /\ (drain' = "none" \/ crowd' = "in")
         /\ Present' = {} /\ leaving' = 0
  BY <1>1 DEF Counts, Placed
<1> QED  BY <1>3, <1>4, <1>5, <1>6 DEF Counts

\* Edits, timers, a teardown before its end and joins that wait change nobody's
\* place.
LEMMA CountsStaying ==
  ASSUME Types, Counts,
         \/ \E u \in People, w \in Words : Type(u, w) \/ Strike(u, w)
         \/ \E w \in Words : OutsideAdds(w) \/ OutsideCuts(w)
         \/ Persist \/ Flush \/ MarkFlushed \/ Ingest \/ UNCHANGED vars
         \/ Evict \/ MarkDraining \/ LastFlush \/ Keep
         \/ (\E u \in People : JoinBegin(u)) \/ JoinLoads \/ JoinWaits
  PROVE  Counts'
<1>1. /\ room # NoRoom => room \in LiveRooms
      /\ join \in Joins
  BY DEF Types, RoomState, Waiting
<1>2. CASE \E u \in People, w \in Words : Type(u, w) \/ Strike(u, w)
  <2>1. PICK w \in Words : /\ room # NoRoom
                           /\ \/ Edit(room.doc \union {w})
                              \/ Edit(room.doc \ {w})
    BY <1>2 DEF Type, Strike
  <2>2. PICK text \in {room.doc \union {w}, room.doc \ {w}} : Edit(text)
    BY <2>1
  <2>3. UNCHANGED <<online, leaving, drain, crowd, join>>
        /\ room' = [room EXCEPT !.doc = text]
    BY <2>2 DEF Edit
  <2>4. text \in SUBSET Words
    BY <1>1, <2>1, <2>2 DEF LiveRooms
  <2>5. room'.line = room.line /\ room'.conns = room.conns /\ room' \in LiveRooms
    BY <1>1, <2>1, <2>3, <2>4 DEF LiveRooms
  <2> QED  BY <2>1, <2>3, <2>5, NoRoomAssumption, CountsPlaced DEF Placed
<1>3. CASE (\E w \in Words : OutsideAdds(w) \/ OutsideCuts(w)) \/ Persist
             \/ UNCHANGED vars
  <2>1. UNCHANGED <<online, leaving, drain, crowd, room, join>>
    BY <1>3 DEF OutsideAdds, OutsideCuts, FromOutside, Persist, vars
  <2> QED  BY <2>1, CountsPlaced DEF Placed
<1>4. CASE Flush \/ MarkFlushed \/ Ingest
  <2>1. UNCHANGED <<online, leaving, drain, crowd, join>> /\ room # NoRoom
    BY <1>4 DEF Flush, MarkFlushed, Ingest, Types, RoomState
  <2>2. PICK text, v : \/ room' = [room EXCEPT !.doc = text]
                       \/ room' = [room EXCEPT !.base = v]
                       \/ room' = [room EXCEPT !.doc = text, !.base = v]
    BY <1>4 DEF Flush, Land, MarkFlushed, Marked, Ingest
  <2>3. room'.line = room.line /\ room'.conns = room.conns
    BY <1>1, <2>1, <2>2 DEF LiveRooms
  <2>4. room' # NoRoom
    BY <1>4, TypesOpenRoom, NoRoomAssumption
  <2> QED  BY <2>1, <2>3, <2>4, CountsPlaced DEF Placed
<1>5. CASE (\E u \in People : JoinBegin(u)) \/ JoinLoads \/ JoinWaits
  <2>1. UNCHANGED <<online, leaving, drain, crowd, room>>
    BY <1>5 DEF JoinBegin, JoinLoads, JoinWaits, Joining
  <2>2. join'.pc # "opened" /\ join.pc # "opened"
        /\ (join'.pc # "none" => \E u \in People : join'.who = {u})
    <3>1. CASE \E u \in People : JoinBegin(u)
      <4>1. PICK u \in People : JoinBegin(u)
        BY <3>1
      <4>2. join' = [pc |-> "gate", who |-> {u}, version |-> 0, body |-> {}, row |-> NoRow]
            /\ join.pc = "none"
        BY <4>1 DEF JoinBegin, Joining, NotJoining
      <4> QED  BY <4>2
    <3>2. CASE JoinLoads
      <4>1. \/ join' = NotJoining
            \/ join' = [join EXCEPT !.pc = "loaded", !.version = object.version,
                                    !.body = object.body, !.row = row]
        BY <3>2 DEF JoinLoads, Joining
      <4>2. \/ join' = NotJoining
            \/ join' = [pc |-> "loaded", who |-> join.who, version |-> object.version,
                        body |-> object.body, row |-> row]
        BY <1>1, <4>1 DEF Joins
      <4> QED  BY <3>2, <4>2 DEF JoinLoads, NotJoining, Counts
    <3>3. CASE JoinWaits
      BY <1>1, <3>3 DEF JoinWaits, Joining, Joins, Counts
    <3> QED  BY <1>5, <3>1, <3>2, <3>3
  <2> QED  BY <2>1, <2>2, CountsPlaced DEF Placed
<1>6. CASE Evict
  <2>1. /\ UNCHANGED <<online, leaving, room, join>> /\ room # NoRoom
        /\ crowd' = "in"
    BY <1>6 DEF Evict, Drain
  <2> QED  BY <2>1, CountsPlaced DEF Placed
<1>7. CASE MarkDraining \/ LastFlush \/ Keep
  <2>1. /\ drain # "none" /\ room # NoRoom /\ room \in LiveRooms
        /\ UNCHANGED <<online, leaving, crowd, join>>
    BY <1>7 DEF MarkDraining, LastFlush, Keep, Draining, Types, RoomState
  <2>2. PICK text : room' = room \/ (Land /\ room' = [room EXCEPT !.doc = text])
    BY <1>7 DEF MarkDraining, LastFlush, Keep, Land
  <2>3. room'.line = room.line /\ room'.conns = room.conns
    BY <2>1, <2>2 DEF LiveRooms
  <2>4. room' # NoRoom
    BY <2>1, <2>2, LandTypes, NoRoomAssumption
  <2> QED  BY <2>1, <2>3, <2>4, CountsPlaced DEF Placed
<1> QED  BY <1>2, <1>3, <1>4, <1>5, <1>6, <1>7

\* Whoever enters a room, or opens it, is counted.
LEMMA CountsEntering ==
  ASSUME Types, Counts, Attach \/ Enter \/ Seed \/ Resume \/ Rebase \/ RebaseUnmerged
  PROVE  Counts'
<1>1. room # NoRoom => room \in LiveRooms
  BY DEF Types, RoomState
<1>2. CASE Attach
  <2>1. /\ join.pc = "loaded" /\ room # NoRoom /\ drain' = "none"
        /\ room' = [room EXCEPT !.conns = @ + 1] /\ leaving' = leaving
        /\ online' = [u \in People |-> IF u \in join.who THEN room.line ELSE online[u]]
        /\ join' = NotJoining
    BY <1>2 DEF Attach, Joining
  <2>2. PICK u \in People : join.who = {u}
    BY <2>1 DEF Counts
  <2>3. online' = [v \in People |-> IF v = u THEN room.line ELSE online[v]]
    BY <2>1, <2>2
  <2>4. /\ Cardinality(Present') \in Nat
        /\ Cardinality(Present') <= Cardinality(Present) + 1
        /\ Present' \subseteq Present \union {u}
    BY <2>3, Entering
  <2>5. /\ room' # NoRoom /\ room'.line = room.line /\ room'.conns = room.conns + 1
        /\ room.conns \in Nat
    BY <1>1, <2>1, RoomType DEF LiveRooms
  <2>6. InTheRoom'
    BY <2>1, <2>3, <2>4, <2>5 DEF Counts, InTheRoom, Present
  <2>7. join'.pc = "none" /\ Arriving' = 0 /\ Arriving = 0
    BY <2>1 DEF NotJoining, Arriving
  <2>8. room'.conns >= Cardinality(Present') + leaving' + Arriving'
    BY <2>1, <2>4, <2>5, <2>7, HeadCount DEF Counts
  <2> QED  BY <2>6, <2>7, <2>8 DEF Counts
<1>3. CASE Enter
  <2>1. /\ join.pc = "opened" /\ room' = room /\ leaving' = leaving
        /\ drain' = drain /\ crowd' = crowd
        /\ online' = [u \in People |-> IF u \in join.who /\ room # NoRoom
                                      THEN room.line ELSE online[u]]
        /\ join' = NotJoining
    BY <1>3 DEF Enter, Joining
  <2>2. room # NoRoom /\ (drain = "none" \/ crowd = "in") /\ Present = {} /\ leaving = 0
    BY <2>1 DEF Counts
  <2>3. PICK u \in People : join.who = {u}
    BY <2>1 DEF Counts
  <2>4. online' = [v \in People |-> IF v = u THEN room.line ELSE online[v]]
    BY <2>1, <2>2, <2>3
  <2>5. /\ Cardinality(Present') \in Nat
        /\ Cardinality(Present') <= Cardinality(Present) + 1
        /\ Present' \subseteq Present \union {u}
    BY <2>4, Entering
  <2>6. InTheRoom'
    BY <2>1, <2>2, <2>4, <2>5 DEF InTheRoom, Present
  <2>7. join'.pc = "none" /\ Arriving' = 0 /\ Arriving = 1
    BY <2>1 DEF NotJoining, Arriving
  <2>8. room'.conns >= Cardinality(Present') + leaving' + Arriving'
    BY <2>1, <2>2, <2>5, <2>7, HeadCount DEF Counts
  <2> QED  BY <2>6, <2>7, <2>8 DEF Counts
<1>4. CASE Seed \/ Resume \/ Rebase \/ RebaseUnmerged
  <2>1. /\ join.pc = "loaded" /\ room = NoRoom /\ leaving = 0
        /\ join' = [join EXCEPT !.pc = "opened"]
        /\ UNCHANGED <<drain, online, leaving>>
    BY <1>4 DEF Seed, Resume, Rebase, RebaseUnmerged, Seeding
  <2>2. PICK text, base, epoch, line : Open(text, base, epoch, line)
    BY <1>4 DEF Seed, Resume, Rebase, RebaseUnmerged, Fresh
  <2>3. room'.conns = 1
    BY <2>2 DEF Open
  <2>4. Present' = {} /\ Present = {} /\ drain = "none"
    BY <2>1 DEF Present, Counts, InTheRoom, Types, RoomState
  <2>5. join'.pc = "opened" /\ Arriving' = 1 /\ \E u \in People : join'.who = {u}
    BY <2>1 DEF Types, Waiting, Joins, Counts, Arriving
  <2>6. room' # NoRoom
    BY <1>4, TypesSeeding, NoRoomAssumption
  <2>7. room'.conns >= Cardinality(Present') + leaving' + Arriving'
    BY <2>1, <2>3, <2>4, <2>5, FS_EmptySet
  <2> QED  BY <2>1, <2>4, <2>5, <2>6, <2>7 DEF Counts, InTheRoom
<1> QED  BY <1>2, <1>3, <1>4

\* Whoever leaves is counted until the hook has run.
LEMMA CountsLeaving ==
  ASSUME Types, Counts,
         (\E u \in People : Leave(u)) \/ Disconnected \/ Sweep \/ Narrow
  PROVE  Counts'
<1>1. room # NoRoom => room \in LiveRooms /\ room.conns \in Nat
  BY HeadCount
<1>2. CASE \E u \in People : Leave(u)
  <2>1. PICK u \in People : Leave(u)
    BY <1>2
  <2>2. /\ u \in Present /\ online' = [online EXCEPT ![u] = 0] /\ leaving' = leaving + 1
        /\ UNCHANGED <<room, drain, crowd, join>>
    BY <2>1 DEF Leave, Present
  <2>3. join.pc # "opened"
    BY <2>2 DEF Counts
  <2>4. Cardinality(Present') = Cardinality(Present) - 1 /\ Present' \subseteq Present
    BY <2>2, Going
  <2>5. InTheRoom'
    BY <2>2, <2>4 DEF Counts, InTheRoom, Present, Types, Counting
  <2>6. Arriving' = 0 /\ Arriving = 0
    BY <2>2, <2>3 DEF Arriving
  <2>7. room' # NoRoom => room'.conns >= Cardinality(Present') + leaving' + Arriving'
    BY <1>1, <2>2, <2>4, <2>6, HeadCount DEF Counts
  <2> QED  BY <2>2, <2>3, <2>5, <2>7 DEF Counts
<1>3. CASE Disconnected
  <2>1. /\ leaving > 0 /\ leaving' = leaving - 1
        /\ UNCHANGED <<online, drain, crowd, join>>
        /\ room' = IF room = NoRoom THEN NoRoom
                   ELSE [room EXCEPT !.conns = Max2(0, @ - 1)]
    BY <1>3 DEF Disconnected
  <2>2. join.pc # "opened"
    BY <2>1, HeadCount DEF Counts
  <2>3. Present' = Present /\ Arriving' = 0 /\ Arriving = 0
    BY <2>1, <2>2 DEF Present, Arriving
  <2>4. /\ room = NoRoom => room' = NoRoom
        /\ room # NoRoom => /\ room' # NoRoom /\ room'.line = room.line
                            /\ room'.conns = Max2(0, room.conns - 1)
    BY <1>1, <2>1, RoomType DEF LiveRooms
  <2>5. InTheRoom'
    BY <2>1, <2>3, <2>4 DEF Counts, InTheRoom
  <2>6. room' # NoRoom => room'.conns >= Cardinality(Present') + leaving' + Arriving'
    BY <1>1, <2>1, <2>3, <2>4, HeadCount DEF Counts, Max2
  <2> QED  BY <2>1, <2>2, <2>5, <2>6 DEF Counts
<1>4. CASE Sweep
  <2>1. /\ room # NoRoom /\ room.conns = 0 /\ UNCHANGED <<online, leaving, room, join>>
    BY <1>4 DEF Sweep, Drain
  <2>2. Present = {} /\ Arriving = 0
    BY <2>1, HeadCount DEF Counts
  <2>3. Present' = {} /\ Arriving' = Arriving /\ join.pc # "opened"
    BY <2>1, <2>2 DEF Present, Arriving
  <2>4. room'.conns >= Cardinality(Present') + leaving' + Arriving'
    BY <2>1, <2>2, <2>3 DEF Counts
  <2> QED  BY <2>1, <2>3, <2>4 DEF Counts, InTheRoom
<1>5. CASE Narrow
  <2>1. /\ Present # {} /\ leaving' = leaving + Cardinality(Present)
        /\ online' = [u \in People |-> 0] /\ UNCHANGED <<room, join>>
    BY <1>5 DEF Narrow, Drain, EverybodyOut
  <2>2. Present' = {} /\ Cardinality(Present') = 0
    BY <2>1, Nobody
  <2>3. join.pc # "opened" /\ join'.pc # "opened" /\ Arriving = 0 /\ Arriving' = 0
    BY <2>1 DEF Counts, Arriving
  <2>4. room' # NoRoom => room'.conns >= Cardinality(Present') + leaving' + Arriving'
    BY <1>1, <2>1, <2>2, <2>3, HeadCount DEF Counts
  <2> QED  BY <2>1, <2>2, <2>3, <2>4 DEF Counts, InTheRoom
<1> QED  BY <1>2, <1>3, <1>4, <1>5

\* A room that is gone has nobody in it, and nobody about to enter it.
LEMMA CountsGone ==
  ASSUME Counts, join' = join, join.pc # "opened", DropRoom
  PROVE  Counts'
<1>1. Present' = {} /\ room' = NoRoom
  BY Nobody DEF DropRoom, EverybodyOut
<1> QED  BY <1>1 DEF Counts, InTheRoom

\* However it ends.
LEMMA CountsEnding ==
  ASSUME Types, Counts, Remove \/ Drop \/ Trash \/ BoxOff \/ Crash
  PROVE  Counts'
<1>1. CASE Remove \/ Drop \/ BoxOff
  <2>1. DropRoom /\ join' = join /\ join.pc # "opened"
    BY <1>1 DEF Remove, Drop, BoxOff, Purge, Settling, Draining
  <2> QED  BY <2>1, CountsGone
<1>2. CASE Trash
  <2>1. join' = join
    BY <1>2 DEF Trash
  <2>2. CASE UNCHANGED <<room, drain, crowd, online, leaving>>
    BY <2>1, <2>2, CountsPlaced DEF Placed
  <2>3. CASE Present # {} /\ Purge
    <3>1. DropRoom /\ join.pc # "opened"
      BY <2>3 DEF Purge, Counts
    <3> QED  BY <2>1, <3>1, CountsGone
  <2> QED  BY <1>2, <2>2, <2>3 DEF Trash
<1>3. CASE Crash
  <2>1. room' = NoRoom /\ join' = NotJoining /\ Present' = {}
    BY <1>3, Nobody DEF Crash
  <2> QED  BY <2>1 DEF Counts, InTheRoom, NotJoining
<1> QED  BY <1>1, <1>2, <1>3

\* Every step keeps everybody counted.
LEMMA CountsNext == Types /\ Counts /\ [Next]_vars => Counts'
<1> SUFFICES ASSUME Types, Counts, [Next]_vars  PROVE Counts'
  OBVIOUS
<1>1. CASE \/ \E u \in People, w \in Words : Type(u, w) \/ Strike(u, w)
           \/ \E w \in Words : OutsideAdds(w) \/ OutsideCuts(w)
           \/ Persist \/ Flush \/ MarkFlushed \/ Ingest \/ UNCHANGED vars
           \/ Evict \/ MarkDraining \/ LastFlush \/ Keep
           \/ (\E u \in People : JoinBegin(u)) \/ JoinLoads \/ JoinWaits
  BY <1>1, CountsStaying
<1>2. CASE Attach \/ Enter \/ Seed \/ Resume \/ Rebase \/ RebaseUnmerged
  BY <1>2, CountsEntering
<1>3. CASE (\E u \in People : Leave(u)) \/ Disconnected \/ Sweep \/ Narrow
  BY <1>3, CountsLeaving
<1>4. CASE Remove \/ Drop \/ Trash \/ BoxOff \/ Crash
  BY <1>4, CountsEnding
<1> QED  BY <1>1, <1>2, <1>3, <1>4 DEF Next, JoinStep, DrainStep

-----------------------------------------------------------------------------
(***************************************************************************)
(* The invariant holds of every room there is: each layer is inductive     *)
(* over the ones before it.                                                *)
(***************************************************************************)
THEOREM RoomsInvariant == Spec => []RInv
<1>1. Init => RInv
  <2> SUFFICES ASSUME Init  PROVE RInv
    OBVIOUS
  <2>1. Types
    BY TypesInit
  <2>2. Epochs
    BY DEF Init, Epochs, NotJoining
  <2>3. Counts
    BY DEF Init, Counts, InTheRoom, Present, NotJoining
  <2> QED  BY <2>1, <2>2, <2>3 DEF RInv
<1>2. RInv /\ [Next]_vars => RInv'
  BY TypesNext, EpochsNext, CountsNext DEF RInv
<1> QED  BY <1>1, <1>2, PTL DEF Spec

(***************************************************************************)
(* Types, and no text is ever reconciled to a version that is yet to come: *)
(* the row, the room and a flush's commit name versions there have been.   *)
(***************************************************************************)
THEOREM TypeCorrect == Spec => []TypeOK
<1>1. RInv => TypeOK
  <2> SUFFICES ASSUME Types  PROVE TypeOK
    BY DEF RInv
  <2>1. Objects /\ Stored /\ RoomState /\ Waiting /\ Counting
    BY DEF Types
  <2>2. due \in BOOLEAN
    BY Zenon DEF Types, Timer
  <2>3. join.pc \in {"none", "gate", "loaded", "opened"}
    BY <2>1 DEF Waiting, Joins
  <2>4. room # NoRoom => Reached <= object.version
    BY <2>1 DEF RoomState, Reached
  <2> QED  BY <2>1, <2>2, <2>3, <2>4
           DEF Objects, Stored, RoomState, Counting, TypeOK, Version
<1> QED  BY <1>1, RoomsInvariant, PTL

(***************************************************************************)
(* Whoever edits the document edits the room that is flushed, whatever     *)
(* joins, teardowns, purges and deaths there are; and only a room that is  *)
(* evicted with people in it drains under them.                            *)
(***************************************************************************)
THEOREM EverybodyInTheRoom == Spec => []InTheRoom
<1>1. RInv => InTheRoom
  BY DEF RInv, Counts
<1> QED  BY <1>1, RoomsInvariant, PTL

(***************************************************************************)
(* Every document seeded anew has an epoch of its own, which its room, its *)
(* row and a join that has read the row all carry.                         *)
(***************************************************************************)
THEOREM EpochsAreUnique == Spec => []OneEpochEach
<1>1. RInv => OneEpochEach
  BY DEF RInv, Epochs, Known, OneEpochEach
<1> QED  BY <1>1, RoomsInvariant, PTL

(***************************************************************************)
(* A room counts everybody in it and a join about to enter it, so that one *)
(* that counts nobody, which the sweep takes for idle, is empty.  (The     *)
(* budget also evicts rooms that count somebody.)                          *)
(***************************************************************************)
THEOREM EverybodyCounted == Spec => []Counted
<1>1. RInv => Counted
  <2> SUFFICES ASSUME Types, Counts  PROVE Counted
    BY DEF RInv
  <2> QED  BY HeadCount DEF Counts, Counted, Arriving
<1> QED  BY <1>1, RoomsInvariant, PTL
-----------------------------------------------------------------------------
(***************************************************************************)
(* The rooms implement one shared text (SharedText).  What is seen is made *)
(* of four texts, each reconciled to a version: the room's, the row's, the *)
(* one a join has read, and the object's own.                              *)
(***************************************************************************)
\* baseBody of a version, of the images and the body it is looked up in.
BodyIn(kept, body, v) ==
    LET later == {i \in DOMAIN kept : i >= v}
    IN  IF later = {} THEN body
        ELSE kept[CHOOSE i \in later : \A j \in later : i <= j]

\* The bodies the room, the flush under way, the row and the join start from.
RoomAt    == BodyIn(images, object.body, room.base)
ReachedAt == BodyIn(images, object.body, Reached)
RowAt     == BodyIn(images, object.body, row.base)
JoinAt    == BodyIn(images, object.body, join.version)

\* What is seen and what is saved, in terms of them.
Views ==
    /\ Saved = IF row = NoRow THEN object.body ELSE Merge(row.blob, RowAt, object.body)
    /\ Text = IF object.deleted THEN {}
              ELSE IF room = NoRoom THEN Saved
              ELSE Merge(room.doc, ReachedAt, object.body)
    /\ UpToDate(room.doc, Reached) = Merge(room.doc, ReachedAt, object.body)
    /\ UpToDate(room.doc, room.base) = Merge(room.doc, RoomAt, object.body)
    /\ BodyAt(join.row.base) = BodyIn(images, object.body, join.row.base)

\* This is what the definitions say,
LEMMA ViewsNow == Views
BY DEF Views, Saved, Text, UpToDate, BodyAt, RowAt, ReachedAt, RoomAt, BodyIn

\* before a step and after it.
LEMMA ViewsNext == Views'
BY ViewsNow, PTL

(***************************************************************************)
(* A new body keeps the one it replaces, so no version looked up before is *)
(* another body now.                                                       *)
(***************************************************************************)
LEMMA BodyOfCommit ==
  ASSUME Objects, \A i \in DOMAIN images : i < object.version,
         NEW text \in SUBSET Words, Commit(text)
  PROVE  /\ object'.body = text /\ object'.deleted = object.deleted
         /\ object'.version = object.version + 1
         /\ \A i \in DOMAIN images' : i < object'.version /\
              (images'[i] = object.body \/ (i \in DOMAIN images /\ images'[i] = images[i]))
         /\ \A v \in Nat : v <= object.version =>
              BodyIn(images', text, v) = BodyIn(images, object.body, v)
         /\ BodyIn(images', text, object.version + 1) = text
<1>1. object \in [version : Nat, body : SUBSET Words, deleted : BOOLEAN]
      /\ object.version \in Nat /\ DOMAIN images \subseteq Nat
  BY DEF Objects
<1>2. /\ object'.body = text /\ object'.deleted = object.deleted
      /\ object'.version = object.version + 1
  BY <1>1 DEF Commit
<1>3. /\ DOMAIN images' = DOMAIN images \union {object.version}
      /\ images'[object.version] = object.body
      /\ \A i \in DOMAIN images : images'[i] = images[i]
  BY <1>1 DEF Commit
<1>4. ASSUME NEW v \in Nat, v <= object.version
      PROVE  BodyIn(images', text, v) = BodyIn(images, object.body, v)
  <2> DEFINE later == {i \in DOMAIN images : i >= v}
             newer == {i \in DOMAIN images' : i >= v}
  <2>1. newer = later \union {object.version}
    BY <1>1, <1>3, <1>4
  <2>2. CASE later = {}
    <3>1. newer = {object.version}
      BY <2>1, <2>2
    <3>2. (CHOOSE i \in newer : \A j \in newer : i <= j) = object.version
      BY <1>1, <3>1
    <3> QED  BY <1>3, <2>2, <3>1, <3>2 DEF BodyIn
  <2>3. CASE later # {}
    <3>1. later \in SUBSET Nat
      BY <1>1
    <3>2. PICK n \in later : \A m \in later : n <= m
      BY <2>3, <3>1, Least
    <3>3. (CHOOSE i \in later : \A j \in later : i <= j) = n
      <4>1. ASSUME NEW k \in later, \A j \in later : k <= j  PROVE k = n
        BY <3>1, <3>2, <4>1
      <4> HIDE DEF later
      <4> QED  BY <3>2, <4>1
    <3>4. n \in newer /\ \A m \in newer : n <= m
      BY <1>1, <2>1, <3>1, <3>2
    <3>5. (CHOOSE i \in newer : \A j \in newer : i <= j) = n
      <4>1. newer \in SUBSET Nat
        BY <1>1, <2>1, <3>1
      <4>2. ASSUME NEW k \in newer, \A j \in newer : k <= j  PROVE k = n
        BY <4>1, <3>4, <4>2
      <4> HIDE DEF newer
      <4> QED  BY <3>4, <4>2
    <3>6. n \in DOMAIN images /\ newer # {}
      BY <3>2, <3>4
    <3> QED  BY <1>3, <2>3, <3>3, <3>5, <3>6 DEF BodyIn
  <2> QED  BY <2>2, <2>3
<1>5. BodyIn(images', text, object.version + 1) = text
  <2>1. \A i \in DOMAIN images' : i \in Nat /\ i < object.version + 1
    BY <1>1, <1>3
  <2>2. {i \in DOMAIN images' : i >= object.version + 1} = {}
    BY <1>1, <2>1
  <2> QED  BY <2>2 DEF BodyIn
<1> QED  BY <1>1, <1>2, <1>3, <1>4, <1>5

\* The newest version is the object as it is.
LEMMA NewestBody ==
  ASSUME Objects, \A i \in DOMAIN images : i < object.version
  PROVE  BodyIn(images, object.body, object.version) = object.body
<1>1. {i \in DOMAIN images : i >= object.version} = {}
  BY DEF Objects
<1> QED  BY <1>1 DEF BodyIn

\* A body of any version is made of words that were put in.
LEMMA BodyUsed ==
  ASSUME Objects, NEW v \in Nat, object.body \subseteq used,
         \A i \in DOMAIN images : images[i] \subseteq used
  PROVE  BodyIn(images, object.body, v) \subseteq used
<1> DEFINE later == {i \in DOMAIN images : i >= v}
<1>1. CASE later = {}
  BY <1>1 DEF BodyIn
<1>2. CASE later # {}
  <2>1. later \in SUBSET Nat
    BY DEF Objects
  <2>2. \E n \in later : \A m \in later : n <= m
    BY <1>2, <2>1, Least
  <2>3. (CHOOSE i \in later : \A j \in later : i <= j) \in DOMAIN images
    BY <2>2
  <2> QED  BY <1>2, <2>3 DEF BodyIn
<1> QED  BY <1>1, <1>2

-----------------------------------------------------------------------------
(***************************************************************************)
(* The settings of which the rooms are one text: a join's read is taken    *)
(* again once a teardown has ended, row writes fail once at most, nobody   *)
(* outside takes words out and no room with people in it is evicted while  *)
(* the box may die or a row's removal may fail, and a box whose removals   *)
(* may fail is not switched off.  README.md says what is seen of the       *)
(* others.                                                                 *)
(***************************************************************************)
Whole ==
    /\ ~setting.spans
    /\ setting.errors <= 1 \/ "save" \notin setting.fragile
    /\ \/ setting.cuts = 0 /\ setting.budgets = 0
       \/ setting.crashes = 0 /\ "remove" \notin setting.fragile
    /\ setting.offs = 0 \/ "remove" \notin setting.fragile

\* Nobody outside takes a word out any more, and no room is evicted with people
\* in it; nothing outlives its room.
NoCuts == setting.cuts = 0 /\ setting.budgets = 0 /\ crowd = "out"
NoDeaths == setting.crashes = 0 /\ "remove" \notin setting.fragile

\* Every text there is is made of words that were put in.
Uses ==
    /\ object.body \subseteq used
    /\ \A i \in DOMAIN images : images[i] \subseteq used /\ i < object.version
    /\ room # NoRoom => room.doc \subseteq used
    /\ row # NoRow => row.blob \subseteq used
    /\ join.body \subseteq used

\* What a text has added to the body it was reconciled to, the object has not.
Apart(text, from, body) == \A w \in text : w \in from \/ w \notin body

\* A join that has read what is stored and is about to open a room.
Told == join.pc = "loaded" /\ room = NoRoom

\* What it has read is still the row, and what the object got since is in
\* neither text of the row.
Reads ==
    Told =>
        /\ join.row = row /\ join.body = JoinAt
        /\ row # NoRow =>
              /\ row.base <= join.version
              /\ \A w \in object.body \ join.body : w \notin row.blob /\ w \notin RowAt

\* The text of an open room: a flush has gone on from the room's base, what the
\* text adds the object has not, and a teardown nobody edits under has put what
\* is seen into the object or into the row, or handed it up.
Stands ==
    /\ landed # 0 => room.base < landed
    /\ room # NoRoom => Apart(room.doc, ReachedAt, object.body)
    /\ drain \in {"keep", "drop", "unwritten"} => landed = 0
    /\ drain = "keep" => setting.errors = 0 \/ "save" \notin setting.fragile
    /\ drain = "drop" => row # NoRow /\ Apart(row.blob, RowAt, object.body)
    /\ crowd = "out" =>
          /\ drain = "remove" => Text = object.body
          /\ drain = "drop" => Text = Saved
          /\ drain = "unwritten" => Differ(Text, object.body) \subseteq handed

\* While calls may still fail, the row holds what is seen.
Synced == setting.errors = 0 \/ Text = Saved

(***************************************************************************)
(* With nobody outside taking words out, the object loses none but by a    *)
(* flush, and what a flush took out the row does not bring back: the       *)
(* room's base, the version flushed and the row's base agree on it.        *)
(***************************************************************************)
Grows ==
    /\ Told => join.body \subseteq object.body
    /\ room # NoRoom => ReachedAt \subseteq object.body
    /\ landed # 0 =>
          /\ \A w \in object.body : w \notin ReachedAt => w \notin RoomAt
          /\ \A w \in RoomAt : w \notin ReachedAt => w \notin room.doc
    /\ room # NoRoom /\ row # NoRow => \A w \in RowAt :
          /\ w \notin RoomAt => w \notin ReachedAt
          /\ w \notin ReachedAt => w \notin room.doc /\ w \notin object.body
    /\ (drain \in {"keep", "remove", "unwritten"} \/ (drain = "flush" /\ landed = 0))
          => Synced

(***************************************************************************)
(* With every room closed in order, what the row that is left adds the     *)
(* object has not, neither as it is nor as a join has read it.             *)
(***************************************************************************)
Lives ==
    room = NoRoom /\ row # NoRow =>
        /\ Apart(row.blob, RowAt, object.body)
        /\ Told => Apart(row.blob, RowAt, join.body)

\* The invariant, of a document that is there.
Visible == Uses /\ Reads /\ Stands /\ ((NoCuts /\ Grows) \/ (NoDeaths /\ Lives))

OInv == setting \in Setting /\ Whole /\ (object.deleted \/ Visible)

\* What a death of the box would change.
Loose == Differ(Text, Saved)

\* A step of which nothing is seen at all.
Unseen == UNCHANGED <<Text, Volatile, Handed, Written, Takes>>

-----------------------------------------------------------------------------
\* Every bound of a setting.
Bounds == {"strikes", "adds", "cuts", "crashes", "trashes", "narrows", "budgets", "offs",
           "errors"}

\* Of the bounds that are counted down, a step counts down one.
LEMMA SpendOne ==
  ASSUME setting \in Setting, NEW what \in Bounds, Spend(what)
  PROVE  /\ setting' \in Setting
         /\ setting'.spans = setting.spans /\ setting'.fragile = setting.fragile
         /\ setting[what] \in Nat /\ setting[what] > 0
         /\ \A bound \in Bounds :
              setting'[bound] = IF bound = what THEN setting[bound] - 1 ELSE setting[bound]
BY DEF Spend, Setting, Bounds

\* What is left of the bounds the hypotheses name only goes down.
Fewer ==
    /\ setting' \in Setting
    /\ setting'.spans = setting.spans /\ setting'.fragile = setting.fragile
    /\ setting'.errors <= setting.errors
    /\ setting'.cuts <= setting.cuts /\ setting'.crashes <= setting.crashes
    /\ setting'.budgets <= setting.budgets /\ setting'.offs <= setting.offs

\* What the shared text is told of them stays as it is.
Steady ==
    /\ setting'.strikes = setting.strikes /\ setting'.cuts = setting.cuts
    /\ setting'.crashes = setting.crashes /\ setting'.offs = setting.offs

\* So the hypotheses still hold, and so does the case they split into.
LEMMA WholeStays ==
  ASSUME setting \in Setting, Whole, Fewer, crowd' \in {crowd, "out"} \/ setting.budgets # 0
  PROVE  Whole' /\ (NoCuts => NoCuts') /\ (NoDeaths => NoDeaths')
BY DEF Whole, Fewer, NoCuts, NoDeaths, Setting

\* A step nobody sees: the text stays, and what a death, a switched-off box or
\* an eviction would change does not grow.
LEMMA SettledIs ==
  ASSUME setting \in Setting, ~object.deleted, ~object'.deleted, Text' = Text,
         Steady, UNCHANGED <<used, handed>>,
         Deadly' => Loose' = {} \/ (Deadly /\ Loose' \subseteq Loose),
         Unflushed' => Text' = object'.body \/ (Unflushed /\ object'.body = object.body)
  PROVE  Shared!TextStep
<1>1. ~object.deleted /\ ~object'.deleted => Volatile' \subseteq Volatile
  BY DEF Volatile, Loose, Differ
<1> QED  BY <1>1 DEF Shared!TextStep, Shared!Settle, Handed, Written, Takes, Steady

\* A step that does not go on to the end of a teardown adds to neither.
LEMMA CalmIs ==
  ASSUME Steady, \/ drain' \notin {"drop", "remove", "unwritten"}
                 \/ UNCHANGED <<drain, crowd>>
  PROVE  (Deadly' => Deadly) /\ (Unflushed' => Unflushed)
BY DEF Steady, Deadly, Unflushed

\* Before that end, a death is all that can bring the row back.
LEMMA DeadlyIs ==
  ASSUME setting \in Setting, Steady, drain' \notin {"drop", "remove", "unwritten"}
  PROVE  (Deadly' => Deadly /\ ~NoDeaths) /\ (Unflushed' => Unflushed)
BY DEF Steady, Deadly, Unflushed, NoDeaths, Setting

(***************************************************************************)
(* A step that leaves the texts of the room, the row and the object alone. *)
(***************************************************************************)
LEMMA Hidden ==
  ASSUME Types, OInv, ~object.deleted,
         images' = images, object'.body = object.body, ~object'.deleted,
         object'.version \in Nat, object.version <= object'.version,
         UNCHANGED <<row, landed, used, handed>>,
         room = NoRoom <=> room' = NoRoom,
         room # NoRoom => room'.doc = room.doc /\ room'.base = room.base,
         drain' = "mark" \/ UNCHANGED <<drain, crowd>>,
         crowd' = crowd \/ setting.budgets # 0,
         Told' => Told /\ join' = join, join'.body \subseteq used,
         Fewer, setting'.errors = setting.errors, Steady
  PROVE  Shared!TextStep /\ OInv'
<1>1. Views /\ Views' /\ setting \in Setting /\ Whole /\ Visible
  BY ViewsNow, ViewsNext DEF OInv
<1>2. room # NoRoom => Reached' = Reached
  BY DEF Reached
<1>3. /\ RowAt' = RowAt
      /\ room # NoRoom => RoomAt' = RoomAt /\ ReachedAt' = ReachedAt
      /\ Told' => JoinAt' = JoinAt
  BY <1>2 DEF RowAt, RoomAt, ReachedAt, JoinAt
<1>4. Text' = Text /\ Saved' = Saved
  BY <1>1, <1>3 DEF Views
<1>5. Shared!TextStep
  BY <1>1, <1>4, CalmIs, SettledIs DEF Loose
<1>6. Whole' /\ (NoCuts => NoCuts') /\ (NoDeaths => NoDeaths')
  BY <1>1, WholeStays
<1>7. Uses'
  BY <1>1 DEF Uses, Visible, Types, Objects
<1>8. Reads'
  BY <1>1, <1>3 DEF Reads, Visible
<1>9. Stands'
  <2>1. drain' # "mark" => drain' = drain /\ crowd' = crowd
    OBVIOUS
  <2>2. drain \in {"keep", "drop", "remove", "unwritten"} => room # NoRoom
    BY DEF Types, RoomState
  <2>3. landed # 0 => room # NoRoom
    BY DEF Types, RoomState
  <2> QED  BY <1>1, <1>2, <1>3, <1>4, <2>1, <2>2, <2>3 DEF Stands, Visible, Apart, Fewer
<1>10. Grows => Grows'
  <2>1. landed # 0 => room # NoRoom
    BY DEF Types, RoomState
  <2> QED  BY <1>1, <1>2, <1>3, <1>4, <2>1 DEF Grows, Synced
<1>11. Lives => Lives'
  BY <1>1, <1>3 DEF Lives, Apart
<1> QED  BY <1>1, <1>5, <1>6, <1>7, <1>8, <1>9, <1>10, <1>11 DEF OInv, Visible, Fewer

(***************************************************************************)
(* Joins that wait, attach or enter, hooks, leaving, and the start of a    *)
(* teardown leave every text alone.                                        *)
(***************************************************************************)
LEMMA QuietHidden ==
  ASSUME Types, OInv, ~object.deleted,
         \/ \E u \in People : JoinBegin(u) \/ Leave(u)
         \/ JoinWaits \/ Attach \/ Enter \/ Disconnected \/ Sweep \/ Evict \/ Narrow
  PROVE  Shared!TextStep /\ OInv'
<1>1. /\ object.version \in Nat /\ setting \in Setting
      /\ object \in [version : Nat, body : SUBSET Words, deleted : BOOLEAN]
      /\ join \in Joins /\ (join.body \subseteq used) 
  BY DEF Types, Objects, Waiting, OInv, Visible, Uses
<1>3. UNCHANGED setting => Fewer /\ Steady
  BY <1>1 DEF Fewer, Steady, Setting
<1>4. CASE \/ \E u \in People : JoinBegin(u) \/ Leave(u)
           \/ JoinWaits \/ Attach \/ Enter \/ Disconnected \/ Sweep
  <2>1. /\ UNCHANGED <<stored, setting, row, landed, crowd, used, handed>>
        /\ drain' = drain \/ drain' = "mark"
    BY <1>4, Zenon DEF JoinBegin, Leave, JoinWaits, Attach, Enter, Disconnected, Sweep,
                       Drain, Joining, stored
  <2>2. /\ images' = images /\ object'.body = object.body /\ ~object'.deleted
        /\ object'.version \in Nat /\ object.version <= object'.version
    BY <1>1, <2>1 DEF stored
  <2>3. /\ room = NoRoom <=> room' = NoRoom
        /\ room # NoRoom => room'.doc = room.doc /\ room'.base = room.base
    <3>1. CASE room = NoRoom
      BY <1>4, <3>1, Zenon DEF JoinBegin, Leave, JoinWaits, Attach, Enter, Disconnected,
                               Sweep, Drain, Joining
    <3>2. CASE room # NoRoom
      <4>1. /\ room \in LiveRooms
            /\ \A n \in Nat : /\ [room EXCEPT !.conns = n] # NoRoom
                              /\ [room EXCEPT !.conns = n].doc = room.doc
                              /\ [room EXCEPT !.conns = n].base = room.base
        BY <3>2, NoRoomAssumption DEF Types, RoomState, LiveRooms
      <4>2. room.conns + 1 \in Nat /\ Max2(0, room.conns - 1) \in Nat
        BY <4>1 DEF LiveRooms, Max2
      <4>3. \/ room' = room
            \/ room' = [room EXCEPT !.conns = room.conns + 1]
            \/ room' = [room EXCEPT !.conns = Max2(0, room.conns - 1)]
        BY <1>4, <3>2, Zenon DEF JoinBegin, Leave, JoinWaits, Attach, Enter,
                                 Disconnected, Sweep, Drain, Joining
      <4>4. CASE room' = room
        BY <3>2, <4>4
      <4>5. CASE \E n \in Nat : room' = [room EXCEPT !.conns = n]
        <5>1. PICK n \in Nat : room' = [room EXCEPT !.conns = n]
          BY <4>5
        <5> QED  BY <3>2, <4>1, <5>1, Zenon
      <4> QED  BY <4>2, <4>3, <4>4, <4>5
    <3> QED  BY <3>1, <3>2
  <2>4. (Told' => Told /\ join' = join) /\ join'.body \subseteq used
    <3>1. \/ join' = join
          \/ join' = NotJoining
          \/ \E u \in People : join' = [NotJoining EXCEPT !.pc = "gate", !.who = {u}]
          \/ join' = [join EXCEPT !.pc = "gate"]
      BY <1>4, Zenon DEF JoinBegin, Leave, JoinWaits, Attach, Enter, Disconnected, Sweep,
                         Drain, Joining
    <3>2. CASE join' = join
      BY <1>1, <2>3, <3>2, Zenon DEF Told
    <3>3. CASE join' # join
      <4>1. join'.pc \in {"none", "gate"} /\ join'.body \in {{}, join.body}
        <5>1. NotJoining.pc = "none" /\ NotJoining.body = {}
          BY DEF NotJoining
        <5>2. \A u \in People : /\ [NotJoining EXCEPT !.pc = "gate", !.who = {u}].pc = "gate"
                               /\ [NotJoining EXCEPT !.pc = "gate", !.who = {u}].body = {}
          BY DEF NotJoining
        <5>3. [join EXCEPT !.pc = "gate"].pc = "gate" /\ [join EXCEPT !.pc = "gate"].body = join.body
          BY <1>1 DEF Joins
        <5> QED  BY <3>1, <3>3, <5>1, <5>2, <5>3, Zenon
      <4> QED  BY <1>1, <4>1 DEF Told
    <3> QED  BY <3>2, <3>3
  <2> QED  BY <1>3, <2>1, <2>2, <2>3, <2>4, Hidden
<1>5. CASE Evict \/ Narrow
  <2>1. /\ object' = object \/ object' = [object EXCEPT !.version = @ + 1]
        /\ room # NoRoom
        /\ UNCHANGED <<images, row, room, landed, join, used, handed>>
    BY <1>5 DEF Evict, Narrow, Drain, Types, RoomState
  <2>2. /\ object'.body = object.body /\ ~object'.deleted
        /\ object'.version \in Nat /\ object.version <= object'.version
    BY <1>1, <2>1
  <2>3. /\ drain' = "mark" \/ UNCHANGED <<drain, crowd>>
        /\ \/ Spend("narrows") /\ UNCHANGED crowd
           \/ Spend("budgets")
    BY <1>5 DEF Evict, Narrow, Drain
  <2>4. /\ Fewer /\ setting'.errors = setting.errors /\ Steady
        /\ crowd' = crowd \/ setting.budgets # 0
    <3>1. CASE Spend("narrows") /\ UNCHANGED crowd
      BY <1>1, <3>1, SpendOne DEF Fewer, Steady, Bounds, Setting
    <3>2. CASE Spend("budgets")
      BY <1>1, <3>2, SpendOne DEF Fewer, Steady, Bounds, Setting
    <3> QED  BY <2>3, <3>1, <3>2
  <2>5. ~Told'
    BY <2>1 DEF Told
  <2> QED  BY <1>1, <2>1, <2>2, <2>3, <2>4, <2>5, Hidden
<1> QED  BY <1>4, <1>5

\* A join that reads what is stored reads what is seen.
LEMMA LoadsHidden ==
  ASSUME Types, OInv, ~object.deleted, JoinLoads
  PROVE  Shared!TextStep /\ OInv'
<1>1. Views /\ Views' /\ setting \in Setting /\ Whole /\ Visible
  BY ViewsNow, ViewsNext DEF OInv
<1>2. /\ UNCHANGED <<stored, object, images, row, room, landed, drain, crowd, used, handed,
                     setting>>
      /\ join' = [join EXCEPT !.pc = "loaded", !.version = object.version,
                              !.body = object.body, !.row = row]
      /\ join \in Joins
  BY DEF JoinLoads, Joining, stored, Types, Waiting
<1>3. join'.version = object.version /\ join'.body = object.body /\ join'.row = row
  BY <1>2 DEF Joins
<1>4. RowAt' = RowAt /\ RoomAt' = RoomAt /\ Reached' = Reached /\ ReachedAt' = ReachedAt
  BY <1>2 DEF RowAt, RoomAt, ReachedAt, Reached
<1>5. JoinAt' = object.body
  BY <1>1, <1>2, <1>3, NewestBody DEF JoinAt, Visible, Uses, Types
<1>6. Text' = Text /\ Saved' = Saved
  BY <1>1, <1>2, <1>4 DEF Views
<1>7. Shared!TextStep
  <2>1. Steady
    BY <1>2 DEF Steady
  <2> QED  BY <1>1, <1>2, <1>6, <2>1, CalmIs, SettledIs DEF Loose
<1>8. Whole' /\ (NoCuts => NoCuts') /\ (NoDeaths => NoDeaths')
  BY <1>1, <1>2 DEF Whole, NoCuts, NoDeaths
<1>9. Uses'
  BY <1>1, <1>2, <1>3 DEF Uses, Visible
<1>10. Reads'
  BY <1>1, <1>2, <1>3, <1>5 DEF Reads, Types, Stored
<1>11. Stands'
  BY <1>1, <1>2, <1>4, <1>6 DEF Stands, Visible, Apart
<1>12. Grows => Grows'
  BY <1>1, <1>2, <1>3, <1>4, <1>6 DEF Grows, Synced
<1>13. Lives => Lives'
  BY <1>1, <1>2, <1>3, <1>4 DEF Lives, Apart
<1> QED  BY <1>1, <1>2, <1>7, <1>8, <1>9, <1>10, <1>11, <1>12, <1>13 DEF OInv, Visible

\* Every text that is stored or looked up is made of words that were put in.
LEMMA AllUsed ==
  ASSUME Types, Uses
  PROVE  /\ room # NoRoom => ReachedAt \subseteq used /\ RoomAt \subseteq used
         /\ row # NoRow => RowAt \subseteq used
         /\ JoinAt \subseteq used
<1>1. \A v \in Nat : BodyIn(images, object.body, v) \subseteq used
  BY BodyUsed DEF Types, Uses
<1>2. room # NoRoom => room.base \in Nat /\ Reached \in Nat
  BY DEF Types, RoomState, LiveRooms, Version, Reached
<1>3. (row # NoRow => row.base \in Nat) /\ join.version \in Nat
  BY DEF Types, Stored, Blobs, Version, Waiting, Joins
<1> QED  BY <1>1, <1>2, <1>3 DEF ReachedAt, RoomAt, RowAt, JoinAt

\* A room with another text, or reconciled to another version, or both.
LEMMA AnotherText ==
  ASSUME NEW r \in LiveRooms, NEW text \in SUBSET Words
  PROVE  /\ [r EXCEPT !.doc = text] # NoRoom /\ [r EXCEPT !.doc = text].doc = text
         /\ [r EXCEPT !.doc = text].base = r.base
BY NoRoomAssumption DEF LiveRooms

LEMMA AnotherBase ==
  ASSUME NEW r \in LiveRooms, NEW v \in Nat
  PROVE  /\ [r EXCEPT !.base = v] # NoRoom /\ [r EXCEPT !.base = v].doc = r.doc
         /\ [r EXCEPT !.base = v].base = v /\ [r EXCEPT !.base = v] \in LiveRooms
         /\ \A text \in SUBSET Words :
              /\ [r EXCEPT !.doc = text, !.base = v] \in LiveRooms
              /\ [r EXCEPT !.doc = text, !.base = v] # NoRoom
              /\ [r EXCEPT !.doc = text, !.base = v].doc = text
              /\ [r EXCEPT !.doc = text, !.base = v].base = v
BY NoRoomAssumption DEF LiveRooms, Version

(***************************************************************************)
(* A word typed in a room is in the text, and was never in any other.      *)
(***************************************************************************)
LEMMA TypeSeen ==
  ASSUME Types, Counts, OInv, ~object.deleted, NEW u \in People, NEW w \in Words, Type(u, w)
  PROVE  Shared!TextStep /\ OInv'
<1>1. Views /\ Views' /\ setting \in Setting /\ Whole /\ Visible
  BY ViewsNow, ViewsNext DEF OInv
<1>2. /\ UNCHANGED <<stored, object, images, row, landed, drain, crowd, join, handed, setting>>
      /\ w \notin used /\ used' = used \union {w} /\ room # NoRoom
      /\ room' = [room EXCEPT !.doc = room.doc \union {w}]
      /\ drain = "none" \/ crowd = "in"
  BY DEF Type, Edit, stored, Counts, InTheRoom, Present
<1>3. room \in LiveRooms /\ room.doc \in SUBSET Words
  BY <1>2 DEF Types, RoomState, LiveRooms
<1>4. room' # NoRoom /\ room'.base = room.base /\ room'.doc = room.doc \union {w}
  <2>1. room.doc \union {w} \in SUBSET Words
    BY <1>3
  <2> QED  BY <1>2, <1>3, <2>1, AnotherText
<1>5. RowAt' = RowAt /\ RoomAt' = RoomAt /\ Reached' = Reached /\ ReachedAt' = ReachedAt
  BY <1>2, <1>4 DEF RowAt, RoomAt, ReachedAt, Reached
<1>6. w \notin object.body /\ w \notin ReachedAt /\ w \notin RoomAt
      /\ (row # NoRow => w \notin RowAt)
  BY <1>1, <1>2, AllUsed DEF Visible, Uses
<1>7. Saved' = Saved
  BY <1>1, <1>2, <1>5 DEF Views
<1>8. Text' = Text \union {w}
  BY <1>1, <1>2, <1>4, <1>5, <1>6 DEF Views, Merge
<1>9. Shared!TextStep
  <2>1. Shared!Put(w)
    <3>1. Deadly' = Deadly /\ Unflushed' = Unflushed
      BY <1>2 DEF Deadly, Unflushed
    <3>2. Volatile' \subseteq Volatile \union {w}
      BY <1>2, <1>7, <1>8, <3>1 DEF Volatile, Differ
    <3> QED  BY <1>2, <1>8, <3>2 DEF Shared!Put, Written, Handed, Takes
  <2> QED  BY <2>1 DEF Shared!TextStep
<1>10. Whole' /\ (NoCuts => NoCuts') /\ (NoDeaths => NoDeaths')
  BY <1>1, <1>2 DEF Whole, NoCuts, NoDeaths
<1>11. Uses'
  BY <1>1, <1>2, <1>4 DEF Uses, Visible
<1>12. Reads' /\ Lives'
  BY <1>4 DEF Reads, Lives, Told
<1>13. Stands'
  BY <1>1, <1>2, <1>4, <1>5, <1>6 DEF Stands, Visible, Apart
<1>14. NoCuts /\ Grows => Grows'
  BY <1>2, <1>4, <1>5, <1>6 DEF Grows, Told, NoCuts
<1> QED  BY <1>1, <1>2, <1>9, <1>10, <1>11, <1>12, <1>13, <1>14 DEF OInv, Visible

(***************************************************************************)
(* A word struck in a room is out of the text: either the room had added   *)
(* it, and the object does not have it, or both had it.                    *)
(***************************************************************************)
LEMMA StrikeSeen ==
  ASSUME Types, Counts, OInv, ~object.deleted, NEW u \in People, NEW w \in Words, Strike(u, w)
  PROVE  Shared!TextStep /\ OInv'
<1>1. Views /\ Views' /\ setting \in Setting /\ Whole /\ Visible
  BY ViewsNow, ViewsNext DEF OInv
<1>2. /\ UNCHANGED <<stored, object, images, row, landed, drain, crowd, join, handed, used>>
      /\ w \in room.doc /\ Spend("strikes") /\ room # NoRoom
      /\ room' = [room EXCEPT !.doc = room.doc \ {w}]
      /\ drain = "none" \/ crowd = "in"
  BY DEF Strike, Edit, stored, Counts, InTheRoom, Present
<1>3. room \in LiveRooms /\ room.doc \in SUBSET Words
  BY <1>2 DEF Types, RoomState, LiveRooms
<1>4. room' # NoRoom /\ room'.base = room.base /\ room'.doc = room.doc \ {w}
  <2>1. room.doc \ {w} \in SUBSET Words
    BY <1>3
  <2> QED  BY <1>2, <1>3, <2>1, AnotherText
<1>5. RowAt' = RowAt /\ RoomAt' = RoomAt /\ Reached' = Reached /\ ReachedAt' = ReachedAt
  BY <1>2, <1>4 DEF RowAt, RoomAt, ReachedAt, Reached
<1>6. Saved' = Saved
  BY <1>1, <1>2, <1>5 DEF Views
<1>7. Text' = Text \ {w}
  <2>1. w \in ReachedAt \/ w \notin object.body
    BY <1>1, <1>2 DEF Visible, Stands, Apart
  <2> QED  BY <1>1, <1>2, <1>4, <1>5, <2>1 DEF Views, Merge
<1>8. /\ setting' \in Setting /\ setting'.strikes = setting.strikes - 1 /\ setting.strikes > 0
      /\ setting'.cuts = setting.cuts /\ setting'.errors = setting.errors
      /\ setting'.crashes = setting.crashes /\ setting'.budgets = setting.budgets
      /\ setting'.offs = setting.offs
      /\ setting'.spans = setting.spans /\ setting'.fragile = setting.fragile
  BY <1>1, <1>2, SpendOne DEF Bounds
<1>9. Shared!TextStep
  <2>1. setting.strikes \in Nat /\ setting.cuts \in Nat
    BY <1>1 DEF Setting
  <2>2. Takes' = Takes - 1 /\ Takes > 0
    BY <1>2, <1>8, <2>1 DEF Takes
  <2>3. Shared!Take(w)
    <3>1. Deadly' = Deadly /\ Unflushed' = Unflushed
      BY <1>2, <1>8 DEF Deadly, Unflushed
    <3>2. Volatile' \subseteq Volatile \union {w}
      BY <1>2, <1>6, <1>7, <3>1 DEF Volatile, Differ
    <3> QED  BY <1>2, <1>7, <2>2, <3>2 DEF Shared!Take, Written, Handed
  <2> QED  BY <2>3 DEF Shared!TextStep
<1>10. Whole' /\ (NoCuts => NoCuts') /\ (NoDeaths => NoDeaths')
  BY <1>1, <1>2, <1>8 DEF Whole, NoCuts, NoDeaths
<1>11. Uses'
  BY <1>1, <1>2, <1>4 DEF Uses, Visible
<1>12. Reads' /\ Lives'
  BY <1>4 DEF Reads, Lives, Told
<1>13. Stands'
  BY <1>1, <1>2, <1>4, <1>5, <1>6, <1>8 DEF Stands, Visible, Apart
<1>14. NoCuts /\ Grows => Grows'
  BY <1>2, <1>4, <1>5, <1>6 DEF Grows, Told, NoCuts
<1> QED  BY <1>1, <1>8, <1>2, <1>9, <1>10, <1>11, <1>12, <1>13, <1>14 DEF OInv, Visible

\* A new body replaces none that is looked up.
LEMMA OlderBodies ==
  ASSUME Types, Uses, NEW text \in SUBSET Words, Commit(text)
  PROVE  /\ UNCHANGED row /\ row # NoRow => RowAt' = RowAt
         /\ room # NoRoom /\ room'.base = room.base => RoomAt' = RoomAt
         /\ room # NoRoom /\ Reached' = Reached => ReachedAt' = ReachedAt
         /\ UNCHANGED join => JoinAt' = JoinAt
         /\ object'.body = text /\ object'.deleted = object.deleted
         /\ object'.version = object.version + 1
         /\ \A i \in DOMAIN images' : i < object'.version /\
              (images'[i] = object.body \/ (i \in DOMAIN images /\ images'[i] = images[i]))
<1>1. Objects /\ \A i \in DOMAIN images : i < object.version
  BY DEF Types, Uses
<1>2. object'.body = text /\ \A v \in Nat : v <= object.version =>
        BodyIn(images', object'.body, v) = BodyIn(images, object.body, v)
  BY <1>1, BodyOfCommit
<1>3. row # NoRow => row.base \in Nat /\ row.base <= object.version
  BY DEF Types, Stored, Blobs, Version
<1>4. room # NoRoom => /\ room.base \in Nat /\ room.base <= object.version
                       /\ Reached \in Nat /\ Reached <= object.version
  BY DEF Types, RoomState, LiveRooms, Version, Reached
<1>5. join.version \in Nat /\ join.version <= object.version
  BY DEF Types, Waiting, Joins
<1> QED  BY <1>1, <1>2, <1>3, <1>4, <1>5, BodyOfCommit DEF RowAt, RoomAt, ReachedAt, JoinAt

(***************************************************************************)
(* A word put into the object from outside is in the text whether a room   *)
(* is open or not.                                                         *)
(***************************************************************************)
LEMMA AddsSeen ==
  ASSUME Types, OInv, ~object.deleted, NEW w \in Words, OutsideAdds(w)
  PROVE  Shared!TextStep /\ OInv'
<1>1. Views /\ Views' /\ setting \in Setting /\ Whole /\ Visible
  BY ViewsNow, ViewsNext DEF OInv
<1> DEFINE text == object.body \union {w}
<1>2. /\ UNCHANGED <<row, room, landed, drain, crowd, join, handed>>
      /\ w \notin used /\ used' = used \union {w} /\ Spend("adds") /\ Commit(text)
  BY DEF OutsideAdds, FromOutside
<1>3. text \in SUBSET Words
  BY DEF Types, Objects
<1>4. /\ row # NoRow => RowAt' = RowAt
      /\ room # NoRoom => RoomAt' = RoomAt /\ ReachedAt' = ReachedAt
      /\ JoinAt' = JoinAt /\ Reached' = Reached
      /\ object'.body = object.body \union {w} /\ ~object'.deleted
      /\ \A i \in DOMAIN images' : i < object'.version /\
           (images'[i] = object.body \/ (i \in DOMAIN images /\ images'[i] = images[i]))
  <2>1. Reached' = Reached /\ Uses
    BY <1>1, <1>2 DEF Reached, Visible
  <2> QED  BY <1>2, <1>3, <2>1, OlderBodies
<1>5. /\ room # NoRoom => w \notin ReachedAt /\ w \notin RoomAt /\ w \notin room.doc
      /\ row # NoRow => w \notin RowAt /\ w \notin row.blob
      /\ w \notin join.body
  BY <1>1, <1>2, AllUsed DEF Visible, Uses
<1>6. Saved' = Saved \union {w}
  BY <1>1, <1>2, <1>4, <1>5 DEF Views, Merge
<1>7. Text' = Text \union {w}
  BY <1>1, <1>2, <1>4, <1>5, <1>6 DEF Views, Merge
<1>8. /\ setting' \in Setting /\ setting'.strikes = setting.strikes
      /\ setting'.cuts = setting.cuts /\ setting'.errors = setting.errors
      /\ setting'.crashes = setting.crashes /\ setting'.budgets = setting.budgets
      /\ setting'.offs = setting.offs
      /\ setting'.spans = setting.spans /\ setting'.fragile = setting.fragile
  BY <1>1, <1>2, SpendOne DEF Bounds
<1>9. Shared!TextStep
  <2>1. Shared!Put(w)
    <3>1. Deadly' = Deadly /\ Unflushed' = Unflushed
      BY <1>2, <1>8 DEF Deadly, Unflushed
    <3>2. Volatile' \subseteq Volatile \union {w}
      BY <1>4, <1>6, <1>7, <3>1 DEF Volatile, Differ
    <3> QED  BY <1>2, <1>4, <1>7, <1>8, <3>2 DEF Shared!Put, Written, Handed, Takes
  <2> QED  BY <2>1 DEF Shared!TextStep
<1>10. Whole' /\ (NoCuts => NoCuts') /\ (NoDeaths => NoDeaths')
  BY <1>1, <1>2, <1>8 DEF Whole, NoCuts, NoDeaths
<1>11. Uses'
  BY <1>1, <1>2, <1>4 DEF Uses, Visible
<1>12. Reads'
  BY <1>1, <1>2, <1>4, <1>5 DEF Reads, Told, Visible
<1>13. Stands'
  <2>1. drain \in {"keep", "drop", "unwritten"} => landed = 0
    BY <1>1 DEF Visible, Stands
  <2>2. /\ landed' # 0 => room'.base < landed'
        /\ drain' = "keep" => setting'.errors = 0 \/ "save" \notin setting'.fragile
    BY <1>1, <1>2, <1>8 DEF Visible, Stands
  <2>3. /\ room' # NoRoom => Apart(room'.doc, ReachedAt', object'.body)
        /\ drain' = "drop" => row' # NoRow /\ Apart(row'.blob, RowAt', object'.body)
    BY <1>1, <1>2, <1>4, <1>5 DEF Visible, Stands, Apart
  <2>4. crowd' = "out" =>
          /\ drain' = "remove" => Text' = object'.body
          /\ drain' = "drop" => Text' = Saved'
          /\ drain' = "unwritten" => Differ(Text', object'.body) \subseteq handed'
    BY <1>1, <1>2, <1>4, <1>6, <1>7 DEF Visible, Stands, Differ
  <2> QED  BY <1>2, <2>1, <2>2, <2>3, <2>4 DEF Stands, Differ
<1>14. Grows => Grows'
  <2>1. landed # 0 => room # NoRoom
    BY DEF Types, RoomState
  <2>2. Synced => Synced'
    BY <1>6, <1>7, <1>8 DEF Synced
  <2> QED  BY <1>2, <1>4, <1>5, <2>1, <2>2 DEF Grows, Told
<1>15. Lives => Lives'
  BY <1>2, <1>4, <1>5 DEF Lives, Told, Apart
<1> QED  BY <1>1, <1>2, <1>4, <1>8, <1>9, <1>10, <1>11, <1>12, <1>13, <1>14, <1>15
         DEF OInv, Visible

(***************************************************************************)
(* A word taken out of the object from outside is out of the text: neither *)
(* an open room nor a row left behind holds it as a change of its own.     *)
(***************************************************************************)
LEMMA CutsSeen ==
  ASSUME Types, OInv, ~object.deleted, NEW w \in Words, OutsideCuts(w)
  PROVE  Shared!TextStep /\ OInv'
<1>1. Views /\ Views' /\ setting \in Setting /\ Whole /\ Visible
  BY ViewsNow, ViewsNext DEF OInv
<1> DEFINE text == object.body \ {w}
<1>2. /\ UNCHANGED <<row, room, landed, drain, crowd, join, handed, used>>
      /\ w \in object.body /\ Spend("cuts") /\ Commit(text)
  BY DEF OutsideCuts, FromOutside
<1>3. text \in SUBSET Words
  BY DEF Types, Objects
<1>4. /\ row # NoRow => RowAt' = RowAt
      /\ room # NoRoom => RoomAt' = RoomAt /\ ReachedAt' = ReachedAt
      /\ JoinAt' = JoinAt /\ Reached' = Reached
      /\ object'.body = object.body \ {w} /\ ~object'.deleted
      /\ \A i \in DOMAIN images' : i < object'.version /\
           (images'[i] = object.body \/ (i \in DOMAIN images /\ images'[i] = images[i]))
  <2>1. Reached' = Reached /\ Uses
    BY <1>1, <1>2 DEF Reached, Visible
  <2> QED  BY <1>2, <1>3, <2>1, OlderBodies
<1>5. /\ setting' \in Setting /\ setting'.strikes = setting.strikes
      /\ setting'.cuts = setting.cuts - 1 /\ setting.cuts > 0
      /\ setting'.errors = setting.errors /\ setting'.crashes = setting.crashes
      /\ setting'.budgets = setting.budgets /\ setting'.offs = setting.offs
      /\ setting'.spans = setting.spans /\ setting'.fragile = setting.fragile
  BY <1>1, <1>2, SpendOne DEF Bounds
<1>6. NoDeaths /\ Lives /\ setting.crashes = 0
  BY <1>1, <1>5 DEF Visible, NoCuts, NoDeaths, Setting
<1>7. Text' = Text \ {w}
  <2>1. CASE room = NoRoom
    <3>1. row # NoRow => w \in RowAt \/ w \notin row.blob
      BY <1>2, <1>6, <2>1 DEF Lives, Apart
    <3> QED  BY <1>1, <1>2, <1>4, <2>1, <3>1 DEF Views, Merge
  <2>2. CASE room # NoRoom
    <3>1. w \in ReachedAt \/ w \notin room.doc
      BY <1>1, <1>2, <2>2 DEF Visible, Stands, Apart
    <3> QED  BY <1>1, <1>2, <1>4, <2>2, <3>1 DEF Views, Merge
  <2> QED  BY <2>1, <2>2
<1>8. Shared!TextStep
  <2>1. setting.strikes \in Nat /\ setting.cuts \in Nat
    BY <1>1 DEF Setting
  <2>2. Takes' = Takes - 1 /\ Takes > 0
    BY <1>4, <1>5, <2>1 DEF Takes
  <2>3. Shared!Take(w)
    <3>1. Deadly' = Deadly /\ Unflushed' = Unflushed
      BY <1>2, <1>5 DEF Deadly, Unflushed
    <3>2. \A x : x # w => (x \in Saved' <=> x \in Saved)
      BY <1>1, <1>2, <1>4 DEF Views, Merge
    <3>3. Volatile' \subseteq Volatile \union {w}
      BY <1>4, <1>7, <3>1, <3>2 DEF Volatile, Differ
    <3> QED  BY <1>2, <1>4, <1>7, <2>2, <3>3 DEF Shared!Take, Written, Handed
  <2> QED  BY <2>3 DEF Shared!TextStep
<1>9. Whole' /\ NoDeaths'
  BY <1>1, <1>5, <1>6 DEF Whole, NoDeaths
<1>10. Uses'
  BY <1>1, <1>2, <1>4 DEF Uses, Visible
<1>11. Reads'
  BY <1>1, <1>2, <1>4 DEF Reads, Told, Visible
<1>12. Stands'
  <2>1. drain \in {"keep", "drop", "unwritten"} => landed = 0
    BY <1>1 DEF Visible, Stands
  <2>2. /\ landed' # 0 => room'.base < landed'
        /\ drain' = "keep" => setting'.errors = 0 \/ "save" \notin setting'.fragile
    BY <1>1, <1>2, <1>5 DEF Visible, Stands
  <2>3. /\ room' # NoRoom => Apart(room'.doc, ReachedAt', object'.body)
        /\ drain' = "drop" => row' # NoRow /\ Apart(row'.blob, RowAt', object'.body)
    BY <1>1, <1>2, <1>4 DEF Visible, Stands, Apart
  <2>4. drain = "drop" => Saved' = Saved \ {w}
    <3>1. drain = "drop" => row # NoRow /\ (w \in RowAt \/ w \notin row.blob)
      BY <1>1, <1>2 DEF Visible, Stands, Apart
    <3> QED  BY <1>1, <1>2, <1>4, <3>1 DEF Views, Merge
  <2>5. crowd' = "out" =>
          /\ drain' = "remove" => Text' = object'.body
          /\ drain' = "drop" => Text' = Saved'
          /\ drain' = "unwritten" => Differ(Text', object'.body) \subseteq handed'
    BY <1>1, <1>2, <1>4, <1>7, <2>4 DEF Visible, Stands, Differ
  <2> QED  BY <1>2, <2>1, <2>2, <2>3, <2>5 DEF Stands, Differ
<1>13. Lives'
  BY <1>2, <1>4, <1>6 DEF Lives, Told, Apart
<1> QED  BY <1>4, <1>5, <1>8, <1>9, <1>10, <1>11, <1>12, <1>13 DEF OInv, Visible

-----------------------------------------------------------------------------
\* A row write writes the room, or fails for the last time.
LEMMA SaveIs ==
  ASSUME setting \in Setting, Whole, NEW r \in LiveRooms, Save(r)
  PROVE  /\ Fewer /\ Steady
         /\ \/ row' # NoRow /\ row'.blob = r.doc /\ row'.base = r.base /\ setting' = setting
            \/ /\ row' = row /\ "save" \in setting.fragile
               /\ setting.errors > 0 /\ setting'.errors = 0
<1>1. CASE row' = RowOf(r) /\ UNCHANGED setting
  <2>1. RowOf(r) \in Blobs /\ RowOf(r).blob = r.doc /\ RowOf(r).base = r.base
    BY RoomType DEF RowOf
  <2> QED  BY <1>1, <2>1, NoRowAssumption DEF Fewer, Steady, Setting
<1>2. CASE Failing("save") /\ UNCHANGED row
  <2>1. Spend("errors") /\ "save" \in setting.fragile
    BY <1>2 DEF Failing
  <2>2. /\ setting' \in Setting /\ setting'.errors = setting.errors - 1 /\ setting.errors > 0
        /\ setting'.budgets = setting.budgets /\ Steady
        /\ setting'.spans = setting.spans /\ setting'.fragile = setting.fragile
    BY <2>1, SpendOne DEF Bounds, Steady
  <2> QED  BY <1>2, <2>1, <2>2 DEF Whole, Fewer, Steady, Setting
<1> QED  BY <1>1, <1>2 DEF Save

(***************************************************************************)
(* A step of an open room that writes its row: nobody sees it when the     *)
(* text stays, the row's text follows it, and what the room adds the       *)
(* object has not.                                                         *)
(***************************************************************************)
LEMMA OpenRoomHidden ==
  ASSUME Types, Types', OInv, ~object.deleted, UNCHANGED <<stored, join, used, handed>>,
         room # NoRoom, room' # NoRoom, room'.doc \subseteq used, Save(room'),
         Text' = Text, UNCHANGED crowd,
         Grows => Loose' \subseteq Loose,
         Apart(room'.doc, ReachedAt', object.body),
         landed' # 0 => room'.base < landed',
         drain' \in {"none", "mark", "flush"},
         Grows => Grows'
  PROVE  Shared!TextStep /\ OInv'
<1>1. setting \in Setting /\ Whole /\ Visible /\ room' \in LiveRooms
  BY DEF OInv, Types, RoomState
<1>2. /\ Fewer /\ Steady
      /\ (row' # NoRow /\ row'.blob = room'.doc) \/ row' = row
  BY <1>1, SaveIs
<1>3. object' = object /\ images' = images
  BY DEF stored
<1>4. Shared!TextStep
  <2>1. ~NoDeaths => Loose' \subseteq Loose
    BY <1>1 DEF Visible
  <2> QED  BY <1>1, <1>2, <1>3, <2>1, DeadlyIs, SettledIs
<1>5. Whole' /\ (NoCuts => NoCuts') /\ (NoDeaths => NoDeaths')
  BY <1>1, <1>2, WholeStays
<1>6. Uses'
  BY <1>1, <1>2, <1>3 DEF Uses, Visible
<1>7. Reads' /\ Lives'
  BY DEF Reads, Lives, Told
<1>8. Stands'
  BY <1>3 DEF Stands
<1> QED  BY <1>1, <1>2, <1>3, <1>4, <1>5, <1>6, <1>7, <1>8
         DEF OInv, Visible, Fewer

(***************************************************************************)
(* The row's timer, and the write at the start of a teardown, save the     *)
(* room as it is.  A flush that has landed and is not marked yet does not  *)
(* make the row lie: what it took out is in neither.                       *)
(***************************************************************************)
LEMMA PersistHidden ==
  ASSUME Types, Types', OInv, ~object.deleted, Persist \/ MarkDraining
  PROVE  Shared!TextStep /\ OInv'
<1>1. Views /\ Views' /\ setting \in Setting /\ Whole /\ Visible
  BY ViewsNow, ViewsNext DEF OInv
<1>2. /\ UNCHANGED <<stored, object, images, room, landed, crowd, join, used, handed>>
      /\ Save(room) /\ room # NoRoom /\ room \in LiveRooms
      /\ drain' \in {"none", "flush"}
  <2>1. CASE Persist
    <3>1. room # NoRoom
      BY <2>1, Zenon DEF Persist, Types, Timer
    <3> QED  BY <2>1, <3>1 DEF Persist, Types, RoomState, stored
  <2>2. CASE MarkDraining
    BY <2>2 DEF MarkDraining, Draining, Types, RoomState, stored
  <2> QED  BY <2>1, <2>2
<1>3. /\ Fewer
      /\ \/ row' # NoRow /\ row'.blob = room.doc /\ row'.base = room.base /\ setting' = setting
         \/ row' = row /\ setting'.errors = 0
  BY <1>1, <1>2, SaveIs
<1>4. /\ RoomAt' = RoomAt /\ Reached' = Reached /\ ReachedAt' = ReachedAt
      /\ row' = row => RowAt' = RowAt
      /\ row'.base = room.base => RowAt' = RoomAt
  BY <1>2 DEF RowAt, RoomAt, ReachedAt, Reached
<1>5. landed = 0 => ReachedAt = RoomAt
  BY DEF ReachedAt, RoomAt, Reached
<1>6. Text' = Text
  BY <1>1, <1>2, <1>4 DEF Views
<1>7. /\ room.doc \subseteq used /\ Apart(room.doc, ReachedAt, object.body)
      /\ landed # 0 => room.base < landed
  BY <1>1, <1>2 DEF Visible, Uses, Stands
<1>8. ASSUME Grows  PROVE Loose' \subseteq Loose /\ Grows'
  <2>1. CASE row' = row /\ setting'.errors = 0
    <3>1. Saved' = Saved
      BY <1>1, <1>2, <1>4, <2>1 DEF Views
    <3> QED  BY <1>2, <1>4, <1>6, <1>8, <2>1, <3>1 DEF Loose, Grows, Told, Synced
  <2>2. CASE row' # NoRow /\ row'.blob = room.doc /\ row'.base = room.base
    <3>1. Saved' = Merge(room.doc, RoomAt, object.body)
      BY <1>1, <1>2, <1>4, <2>2 DEF Views
    <3>2. Text = Merge(room.doc, ReachedAt, object.body)
      BY <1>1, <1>2 DEF Views
    <3>3. Saved = IF row = NoRow THEN object.body ELSE Merge(row.blob, RowAt, object.body)
      BY <1>1 DEF Views
    <3>4. Loose' \subseteq Loose
      BY <1>2, <1>5, <1>6, <1>8, <3>1, <3>2, <3>3 DEF Loose, Differ, Merge, Grows
    <3>5. landed = 0 => Synced'
      BY <1>5, <1>6, <3>1, <3>2 DEF Synced
    <3> QED  BY <1>2, <1>4, <1>5, <1>8, <2>2, <3>4, <3>5 DEF Grows, Told
  <2> QED  BY <1>3, <2>1, <2>2
<1> QED  BY <1>2, <1>4, <1>6, <1>7, <1>8, OpenRoomHidden

(***************************************************************************)
(* A flush that is marked moves the base to a version that has the room's  *)
(* text, and the row with it.                                              *)
(***************************************************************************)
LEMMA MarkHidden ==
  ASSUME Types, Types', OInv, ~object.deleted, MarkFlushed
  PROVE  Shared!TextStep /\ OInv'
<1>1. Views /\ Views' /\ setting \in Setting /\ Whole /\ Visible
  BY ViewsNow, ViewsNext DEF OInv
<1>2. /\ UNCHANGED <<stored, object, images, drain, crowd, join, used, handed>>
      /\ landed # 0 /\ landed \in Nat /\ landed' = 0 /\ room # NoRoom /\ room \in LiveRooms
      /\ drain' \in {"none", "mark", "flush"}
  BY DEF MarkFlushed, Types, RoomState, stored
<1>3. room.base < landed /\ room.base \in Nat
  BY <1>1, <1>2 DEF Visible, Stands, LiveRooms, Version
<1>4. room' = [room EXCEPT !.base = landed] /\ Save(room')
  <2>1. Max2(room.base, landed) = landed
    BY <1>2, <1>3 DEF Max2
  <2> QED  BY <2>1, Zenon DEF MarkFlushed, Marked
<1>5. room' # NoRoom /\ room'.doc = room.doc /\ room'.base = landed /\ room' \in LiveRooms
  BY <1>2, <1>4, AnotherBase
<1>6. /\ Fewer
      /\ \/ row' # NoRow /\ row'.blob = room.doc /\ row'.base = landed /\ setting' = setting
         \/ row' = row /\ setting'.errors = 0
  BY <1>1, <1>4, <1>5, SaveIs
<1>7. /\ RoomAt' = ReachedAt /\ ReachedAt' = ReachedAt
      /\ row' = row => RowAt' = RowAt
      /\ row'.base = landed => RowAt' = ReachedAt
  BY <1>2, <1>5 DEF RowAt, RoomAt, ReachedAt, Reached
<1>8. Text' = Text
  BY <1>1, <1>2, <1>5, <1>7 DEF Views
<1>9. room.doc \subseteq used /\ Apart(room.doc, ReachedAt, object.body)
  BY <1>1, <1>2 DEF Visible, Uses, Stands
<1>10. ASSUME Grows  PROVE Loose' \subseteq Loose /\ Grows'
  <2>1. CASE row' = row /\ setting'.errors = 0
    <3>1. Saved' = Saved
      BY <1>1, <1>2, <1>7, <2>1 DEF Views
    <3> QED  BY <1>2, <1>5, <1>7, <1>8, <1>10, <2>1, <3>1 DEF Loose, Grows, Told, Synced
  <2>2. CASE row' # NoRow /\ row'.blob = room.doc /\ row'.base = landed
    <3>1. Saved' = Text'
      BY <1>1, <1>2, <1>5, <1>7, <2>2 DEF Views
    <3> QED  BY <1>2, <1>5, <1>7, <1>10, <2>2, <3>1 DEF Grows, Told, Synced, Loose, Differ
  <2> QED  BY <1>6, <2>1, <2>2
<1> QED  BY <1>2, <1>4, <1>5, <1>7, <1>8, <1>9, <1>10, OpenRoomHidden

(***************************************************************************)
(* The watcher merges what was written outside into the room, where it was *)
(* seen already.                                                           *)
(***************************************************************************)
LEMMA IngestHidden ==
  ASSUME Types, Types', OInv, ~object.deleted, Ingest
  PROVE  Shared!TextStep /\ OInv'
<1>1. Views /\ Views' /\ setting \in Setting /\ Whole /\ Visible
  BY ViewsNow, ViewsNext DEF OInv
<1>2. /\ UNCHANGED <<stored, object, images, landed, drain, crowd, join, used, handed>>
      /\ landed = 0 /\ room # NoRoom /\ room \in LiveRooms /\ drain = "none"
      /\ object.version \in Nat
  BY DEF Ingest, Types, RoomState, Objects, stored
<1>3. ReachedAt = RoomAt
  BY <1>2 DEF ReachedAt, RoomAt, Reached
<1>4. Text = UpToDate(room.doc, room.base) /\ Text = Merge(room.doc, RoomAt, object.body)
  BY <1>1, <1>2, <1>3 DEF Views
<1>5. room' = [room EXCEPT !.doc = Text, !.base = object.version] /\ Save(room')
  BY <1>4, Zenon DEF Ingest
<1>6. Text \in SUBSET Words
  BY <1>2, <1>4, UpToDateType DEF Types, LiveRooms, Version
<1>7. room' # NoRoom /\ room'.doc = Text /\ room'.base = object.version /\ room' \in LiveRooms
  <2>1. \A text \in SUBSET Words :
          /\ [room EXCEPT !.doc = text, !.base = object.version] \in LiveRooms
          /\ [room EXCEPT !.doc = text, !.base = object.version] # NoRoom
          /\ [room EXCEPT !.doc = text, !.base = object.version].doc = text
          /\ [room EXCEPT !.doc = text, !.base = object.version].base = object.version
    BY <1>2, AnotherBase
  <2> QED  BY <1>5, <1>6, <2>1, Zenon
<1>8. /\ Fewer
      /\ \/ row' # NoRow /\ row'.blob = Text /\ row'.base = object.version /\ setting' = setting
         \/ row' = row /\ setting'.errors = 0
  BY <1>1, <1>5, <1>7, SaveIs
<1>9. /\ RoomAt' = object.body /\ ReachedAt' = object.body
      /\ row' = row => RowAt' = RowAt
      /\ row'.base = object.version => RowAt' = object.body
  <2>1. BodyIn(images, object.body, object.version) = object.body
    BY <1>1, NewestBody DEF Visible, Uses, Types
  <2> QED  BY <1>2, <1>7, <2>1 DEF RowAt, RoomAt, ReachedAt, Reached
<1>10. Text' = Text
  BY <1>1, <1>2, <1>7, <1>9 DEF Views, Merge
<1>11. Text \subseteq used /\ Apart(Text, object.body, object.body)
  <2>1. room.doc \subseteq used /\ object.body \subseteq used
    BY <1>1, <1>2 DEF Visible, Uses
  <2> QED  BY <1>4, <2>1 DEF Merge, Apart
<1>12. ASSUME Grows  PROVE Loose' \subseteq Loose /\ Grows'
  <2>1. CASE row' = row /\ setting'.errors = 0
    <3>1. Saved' = Saved
      BY <1>1, <1>2, <1>9, <2>1 DEF Views
    <3>2. row # NoRow => \A w \in RowAt : w \notin object.body => w \notin Text
      BY <1>2, <1>3, <1>4, <1>12 DEF Merge, Grows
    <3> QED  BY <1>2, <1>7, <1>9, <1>10, <2>1, <3>1, <3>2 DEF Loose, Grows, Told
  <2>2. CASE row' # NoRow /\ row'.blob = Text /\ row'.base = object.version
    <3>1. Saved' = Text'
      BY <1>1, <1>2, <1>9, <1>10, <2>2 DEF Views, Merge
    <3> QED  BY <1>2, <1>7, <1>9, <2>2, <3>1 DEF Grows, Told, Loose, Differ
  <2> QED  BY <1>8, <2>1, <2>2
<1> QED  BY <1>2, <1>5, <1>7, <1>9, <1>10, <1>11, <1>12, OpenRoomHidden

-----------------------------------------------------------------------------
\* A flush that lands writes what is seen, and nobody sees it.
LEMMA LandHidden ==
  ASSUME Types, Types', OInv, ~object.deleted, Land, landed = 0, room # NoRoom,
         UNCHANGED <<row, crowd, join, used, handed, setting>>,
         drain' \in {"none", "mark"} \/ (drain = "flush" /\ drain' = "remove")
  PROVE  Shared!TextStep /\ OInv'
<1>1. Views /\ Views' /\ setting \in Setting /\ Whole /\ Visible
  BY ViewsNow, ViewsNext DEF OInv
<1>2. room \in LiveRooms /\ object.version \in Nat
  BY DEF Types, RoomState, Objects
<1>3. ReachedAt = RoomAt
  BY DEF ReachedAt, RoomAt, Reached
<1>4. Text = UpToDate(room.doc, Reached) /\ Text = Merge(room.doc, ReachedAt, object.body)
  BY <1>1 DEF Views
<1>5. /\ Commit(Text) /\ landed' = object.version + 1
      /\ room' = [room EXCEPT !.doc = Text]
  BY <1>4, Zenon DEF Land
<1>6. Text \in SUBSET Words
  <2>1. room.doc \in SUBSET Words /\ Reached \in Nat
    BY <1>2 DEF LiveRooms, Version, Reached
  <2> QED  BY <1>4, <2>1, UpToDateType DEF Types
<1>7. room' # NoRoom /\ room'.doc = Text /\ room'.base = room.base
  BY <1>2, <1>5, <1>6, AnotherText
<1>8. /\ row # NoRow => RowAt' = RowAt
      /\ RoomAt' = RoomAt /\ JoinAt' = JoinAt
      /\ object'.body = Text /\ ~object'.deleted
      /\ object'.version = object.version + 1
      /\ \A i \in DOMAIN images' : i < object'.version /\
           (images'[i] = object.body \/ (i \in DOMAIN images /\ images'[i] = images[i]))
  <2>1. Uses
    BY <1>1 DEF Visible
  <2> QED  BY <1>5, <1>6, <1>7, <2>1, OlderBodies
<1>9. ReachedAt' = Text
  <2>1. Objects /\ \A i \in DOMAIN images : i < object.version
    BY <1>1 DEF Types, Visible, Uses
  <2>2. BodyIn(images', Text, object.version + 1) = Text
    BY <1>5, <1>6, <2>1, BodyOfCommit
  <2>3. Reached' = object.version + 1
    BY <1>2, <1>5 DEF Reached
  <2> QED  BY <1>8, <2>2, <2>3 DEF ReachedAt
<1>10. Text' = Text
  BY <1>1, <1>7, <1>8, <1>9 DEF Views, Merge
<1>11. Saved' = IF row = NoRow THEN Text ELSE Merge(row.blob, RowAt, Text)
  BY <1>1, <1>8 DEF Views
<1>12. Saved = IF row = NoRow THEN object.body ELSE Merge(row.blob, RowAt, object.body)
  BY <1>1 DEF Views
<1>13. Loose' \subseteq Loose
  BY <1>10, <1>11, <1>12 DEF Loose, Differ, Merge
<1>14. Shared!TextStep
  <2>1. Steady
    BY DEF Steady
  <2>2. Deadly' => Deadly
    BY DEF Deadly
  <2> QED  BY <1>1, <1>8, <1>10, <1>13, <2>1, <2>2, SettledIs
<1>15. Whole' /\ (NoCuts => NoCuts') /\ (NoDeaths => NoDeaths')
  BY <1>1 DEF Whole, NoCuts, NoDeaths
<1>16. Text \subseteq used
  BY <1>1, <1>4 DEF Merge, Visible, Uses
<1>17. Uses'
  BY <1>1, <1>7, <1>8, <1>16 DEF Uses, Visible
<1>18. Reads' /\ Lives'
  BY <1>7 DEF Reads, Lives, Told
<1>19. Stands'
  <2>1. room.base < landed'
    BY <1>2, <1>5 DEF Types, RoomState, LiveRooms, Version
  <2> QED  BY <1>7, <1>8, <1>9, <1>10, <2>1 DEF Stands, Apart
<1>20. ASSUME Grows  PROVE Grows'
  <2>1. row # NoRow => \A w \in RowAt :
          /\ w \notin RoomAt => w \notin Text
          /\ w \notin Text => w \notin room'.doc /\ w \notin object'.body
    BY <1>3, <1>4, <1>7, <1>8, <1>20 DEF Grows, Merge
  <2>2. drain' = "remove" => Synced'
    BY <1>10, <1>13, <1>20 DEF Grows, Synced, Loose, Differ
  <2> QED  BY <1>5, <1>7, <1>8, <1>9, <2>1, <2>2 DEF Grows, Told
<1> QED  BY <1>1, <1>8, <1>14, <1>15, <1>17, <1>18, <1>19, <1>20 DEF OInv, Visible

(***************************************************************************)
(* Every flush, the last one included, hides: it lands, or finds nothing   *)
(* to write, or leaves the row for the teardown's end to keep, or hands up *)
(* what it did not write.                                                  *)
(***************************************************************************)
LEMMA FlushHidden ==
  ASSUME Types, Types', OInv, ~object.deleted, Flush \/ LastFlush
  PROVE  Shared!TextStep /\ OInv'
<1>1. CASE Flush
  BY <1>1, LandHidden DEF Flush
<1>2. CASE LastFlush
  <2>1. room # NoRoom /\ room \in LiveRooms
    BY <1>2 DEF LastFlush, Types, RoomState
  <2>2. CASE Land /\ drain' = "remove" /\ UNCHANGED setting
    BY <1>2, <2>1, <2>2, LandHidden DEF LastFlush, Draining
  <2>3. CASE ~(Land /\ drain' = "remove" /\ UNCHANGED setting)
    <3>1. /\ UNCHANGED <<stored, object, images, row, room, landed, crowd, join, used>>
          /\ drain = "flush" /\ landed = 0
          /\ \/ UpToDate(room.doc, Reached) = object.body /\ drain' = "remove"
                /\ UNCHANGED <<handed, setting>>
             \/ Failing("flush") /\ drain' = "keep" /\ UNCHANGED handed
             \/ /\ Failing("quiet") /\ drain' = "unwritten"
                /\ handed' = handed \union (UpToDate(room.doc, Reached) \ object.body)
                                   \union (object.body \ UpToDate(room.doc, Reached))
      BY <1>2, <2>3, Zenon DEF LastFlush, Draining, stored
    <3>2. Views /\ Views' /\ setting \in Setting /\ Whole /\ Visible
      BY ViewsNow, ViewsNext DEF OInv
    <3>3. Failing("flush") \/ Failing("quiet") =>
            /\ setting' \in Setting /\ setting'.errors = setting.errors - 1
            /\ setting.errors > 0 /\ setting.errors \in Nat
            /\ setting'.budgets = setting.budgets /\ Steady
            /\ setting'.spans = setting.spans /\ setting'.fragile = setting.fragile
      BY <3>2, SpendOne DEF Failing, Bounds, Steady
    <3>4. /\ Fewer /\ Steady
          /\ drain' = "remove" => setting'.errors = setting.errors
          /\ drain' # "remove" => setting'.errors < setting.errors
      BY <3>1, <3>2, <3>3 DEF Fewer, Steady, Setting
    <3>5. RowAt' = RowAt /\ RoomAt' = RoomAt /\ Reached' = Reached /\ ReachedAt' = ReachedAt
      BY <3>1 DEF RowAt, RoomAt, ReachedAt, Reached
    <3>6. Text' = Text /\ Saved' = Saved
      BY <3>1, <3>2, <3>5 DEF Views
    <3>7. Shared!TextStep
      <4>1. UpToDate(room.doc, Reached) = Text
        BY <2>1, <3>1, <3>2 DEF Views
      <4>2. (Deadly' => Deadly) /\ Loose' = Loose
        BY <3>1, <3>4, <3>6 DEF Deadly, Steady, Loose
      <4>3. CASE drain' # "unwritten"
        <5>1. Unflushed' => Unflushed \/ Text' = object'.body
          BY <3>1, <3>4, <3>6, <4>1, <4>3 DEF Unflushed, Steady
        <5> QED  BY <3>1, <3>2, <3>4, <3>6, <4>2, <4>3, <5>1, SettledIs
      <4>4. CASE drain' = "unwritten"
        <5>1. handed' = handed \union Differ(Text, object.body)
          BY <3>1, <4>1, <4>4 DEF Differ
        <5>2. Volatile' \subseteq Volatile \union handed'
          BY <3>1, <3>6, <4>2, <5>1 DEF Volatile, Loose
        <5>3. Text' \subseteq Words
          <6>1. room.doc \in SUBSET Words /\ Reached \in Nat
            BY <2>1, <3>1 DEF LiveRooms, Version, Reached
          <6> QED  BY <3>6, <4>1, <6>1, UpToDateType DEF Types
        <5> QED  BY <3>1, <3>4, <3>6, <5>1, <5>2, <5>3
                 DEF Shared!TextStep, Shared!HandUp, Handed, Written, Takes, Steady
      <4> QED  BY <4>3, <4>4
    <3>8. Whole' /\ (NoCuts => NoCuts') /\ (NoDeaths => NoDeaths')
      BY <3>1, <3>2, <3>4, WholeStays
    <3>9. Uses'
      BY <3>1, <3>2 DEF Uses, Visible
    <3>10. Reads' /\ Lives'
      BY <2>1, <3>1 DEF Reads, Lives, Told
    <3>11. Stands'
      <4>1. /\ drain' = "remove" => Text = object.body
            /\ drain' = "unwritten" => Differ(Text, object.body) \subseteq handed'
        BY <2>1, <3>1, <3>2 DEF Views, Differ
      <4>2. drain' = "keep" => setting'.errors = 0 \/ "save" \notin setting'.fragile
        BY <3>2, <3>4 DEF Whole, Fewer, Setting
      <4> QED  BY <2>1, <3>1, <3>2, <3>5, <3>6, <4>1, <4>2 DEF Stands, Visible, Apart, Differ
    <3>12. Grows => Grows'
      <4>1. Grows => Synced'
        BY <3>1, <3>2, <3>4, <3>6 DEF Grows, Synced, Setting, Fewer
      <4> QED  BY <2>1, <3>1, <3>5, <4>1 DEF Grows, Told
    <3> QED  BY <3>1, <3>2, <3>4, <3>7, <3>8, <3>9, <3>10, <3>11, <3>12
             DEF OInv, Visible, Fewer
  <2> QED  BY <2>2, <2>3
<1> QED  BY <1>1, <1>2

-----------------------------------------------------------------------------
\* What a room is opened with: from a read that still stands, and nobody
\* sees a difference but where the blob is handed up.
LEMMA OpenHidden ==
  ASSUME Types, Types', OInv, ~object.deleted, Seeding,
         NEW text \in SUBSET Words, NEW base \in Nat, NEW epoch \in Nat, NEW line \in Lines,
         base <= object.version, Open(text, base, epoch, line),
         text \subseteq used,
         BodyIn(images, object.body, base) = join.body,
         row # NoRow =>
            \A w \in RowAt : w \notin join.body => w \notin text,
         Apart(text, join.body, object.body)
  PROVE  /\ OInv' /\ UNCHANGED <<object, used>> /\ setting \in Setting
         /\ Fewer /\ Steady /\ drain' = "none"
         /\ Text' = Merge(text, join.body, object.body)
         /\ Text = Saved /\ (Saved' = Text' \/ Saved' = Saved)
<1>1. Views /\ Views' /\ setting \in Setting /\ Whole /\ Visible
  BY ViewsNow, ViewsNext DEF OInv
<1>2. /\ UNCHANGED <<stored, object, images, landed, drain, crowd, used>>
      /\ Told /\ landed = 0 /\ drain = "none" /\ room = NoRoom
      /\ join' = [join EXCEPT !.pc = "opened"] /\ join \in Joins
  BY DEF Seeding, Types, RoomState, Waiting, Told, stored
<1>3. /\ room' = [doc |-> text, base |-> base, epoch |-> epoch, line |-> line, conns |-> 1]
      /\ room' \in LiveRooms
  BY <1>2, OpenTypes DEF Types
<1>4. room' # NoRoom /\ room'.doc = text /\ room'.base = base /\ Save(room')
  BY <1>3, NoRoomAssumption DEF Open
<1>5. /\ Fewer /\ Steady
      /\ \/ row' # NoRow /\ row'.blob = text /\ row'.base = base /\ setting' = setting
         \/ row' = row /\ setting'.errors = 0
  BY <1>1, <1>3, <1>4, SaveIs
<1>6. /\ RoomAt' = join.body /\ ReachedAt' = join.body /\ Reached' = base
      /\ row' = row => RowAt' = RowAt
      /\ row'.base = base => RowAt' = join.body
  BY <1>2, <1>4 DEF RowAt, RoomAt, ReachedAt, Reached
<1>7. Text' = Merge(text, join.body, object.body) /\ Text = Saved
  BY <1>1, <1>2, <1>4, <1>6 DEF Views
<1>8. Saved' = Text' \/ Saved' = Saved
  BY <1>1, <1>2, <1>4, <1>5, <1>6, <1>7 DEF Views
<1>9. Whole' /\ (NoCuts => NoCuts') /\ (NoDeaths => NoDeaths')
  BY <1>1, <1>2, <1>5, WholeStays
<1>10. Uses'
  BY <1>1, <1>2, <1>4, <1>5 DEF Uses, Visible, Joins
<1>11. Reads' /\ Lives'
  BY <1>4 DEF Reads, Lives, Told
<1>12. Stands'
  BY <1>2, <1>4, <1>6 DEF Stands
<1>13. Grows => Grows'
  <2>1. Grows => join.body \subseteq object.body
    BY <1>2 DEF Grows
  <2>2. row # NoRow => \A w \in RowAt : w \notin join.body => w \notin object.body
    BY <1>1, <1>2 DEF Visible, Reads
  <2> QED  BY <1>2, <1>4, <1>5, <1>6, <2>1, <2>2 DEF Grows, Told
<1> QED  BY <1>1, <1>2, <1>5, <1>7, <1>8, <1>9, <1>10, <1>11, <1>12, <1>13
         DEF OInv, Visible, Fewer

(***************************************************************************)
(* A join seeds a room from the object, resumes it from the row or rebases *)
(* the row's change, and what is seen stays; where the blob cannot be      *)
(* merged, what it changed is handed up.                                   *)
(***************************************************************************)
LEMMA SeedingHidden ==
  ASSUME Types, Types', OInv, ~object.deleted, Seed \/ Resume \/ Rebase \/ RebaseUnmerged
  PROVE  Shared!TextStep /\ OInv'
<1>1. Views /\ Views' /\ setting \in Setting /\ Whole /\ Visible /\ Uses
  BY ViewsNow, ViewsNext DEF OInv, Visible
<1>2. /\ Seeding /\ Told /\ room = NoRoom /\ join \in Joins
      /\ join.row = row /\ join.body = JoinAt
      /\ row # NoRow =>
              /\ row.base <= join.version
              /\ \A w \in object.body \ join.body : w \notin row.blob /\ w \notin RowAt
  <2>1. Seeding
    BY DEF Seed, Resume, Rebase, RebaseUnmerged
  <2>2. Told /\ room = NoRoom /\ join \in Joins
    BY <2>1 DEF Seeding, Told, Types, Waiting
  <2> QED  BY <1>1, <2>1, <2>2, Zenon DEF Visible, Reads
<1>3. /\ join.version \in Nat /\ join.version <= object.version
      /\ join.body \in SUBSET Words /\ join.body \subseteq used
      /\ BodyIn(images, object.body, join.version) = join.body
  BY <1>1, <1>2 DEF Types, Waiting, Joins, Uses, JoinAt
<1>4. row # NoRow =>
        /\ row.blob \in SUBSET Words /\ row.base \in Nat /\ row.epoch \in Nat
        /\ row.line \in Lines /\ row.blob \subseteq used
        /\ row.base <= object.version
        /\ RowAt \in SUBSET Words
        /\ BodyAt(row.base) = RowAt
        /\ Saved = Merge(row.blob, RowAt, object.body)
  <2>1. row # NoRow => row \in Blobs
    BY DEF Types, Stored
  <2>2. row # NoRow => RowAt \subseteq used
    BY <1>1, AllUsed
  <2> QED  BY <1>1, <1>2, <2>1, <2>2 DEF Blobs, Version, Types, Stored, Uses, Views, RowAt,
                                         Counting
<1>5. Text = Saved /\ (row = NoRow => Saved = object.body)
  BY <1>1, <1>2 DEF Views
<1> DEFINE merged == Merge(join.body, RowAt, row.blob)
<1>6. ASSUME NEW text \in SUBSET Words, Fresh(text), text \subseteq used,
             row # NoRow => \A w \in RowAt : w \notin join.body => w \notin text,
             Apart(text, join.body, object.body)
      PROVE  /\ OInv' /\ UNCHANGED <<object, used>>
             /\ Fewer /\ Steady /\ drain' = "none"
             /\ Text' = Merge(text, join.body, object.body)
             /\ (Saved' = Text' \/ Saved' = Saved)
  <2>1. PICK epoch : epoch = IF join.row = NoRow THEN clock
                             ELSE Max2(join.row.epoch + 1, clock)
    OBVIOUS
  <2>2. epoch \in Nat
    BY <1>2, <1>4, <2>1 DEF Max2, Types, Counting
  <2>3. Len(lines) + 1 \in Lines
    BY <1>2, RoomsAssumption DEF Types, Waiting, Counting, Lines, Told
  <2>4. Open(text, join.version, epoch, Len(lines) + 1)
    BY <1>6, <2>1 DEF Fresh
  <2> QED  BY <1>2, <1>3, <1>6, <2>2, <2>3, <2>4, OpenHidden
<1>7. ASSUME OInv', UNCHANGED <<object, used, handed>>,
             Fewer, Steady, drain' = "none",
             Text' = Text, Saved' = Text' \/ Saved' = Saved
      PROVE  Shared!TextStep /\ OInv'
  <2>1. Loose' = {}
    BY <1>5, <1>7 DEF Loose, Differ
  <2> QED  BY <1>1, <1>7, <2>1, DeadlyIs, SettledIs
<1>8. CASE Seed
  <2>1. Fresh(join.body) /\ UNCHANGED handed
    BY <1>8 DEF Seed
  <2>2. row = NoRow
    BY <1>2, <1>3, <1>4, <1>8 DEF Seed, Plan
  <2>3. Apart(join.body, join.body, object.body)
    BY DEF Apart
  <2>4. Merge(join.body, join.body, object.body) = object.body
    BY DEF Merge
  <2> QED  BY <1>3, <1>5, <1>6, <1>7, <2>1, <2>2, <2>3, <2>4
<1>9. CASE Resume
  <2>1. /\ row # NoRow /\ row.base = join.version /\ UNCHANGED handed
        /\ Open(row.blob, row.base, row.epoch, row.line)
    BY <1>2, <1>9, Zenon DEF Resume, Plan
  <2>2. RowAt = join.body
    BY <1>3, <2>1 DEF RowAt
  <2>3. Apart(row.blob, join.body, object.body)
    BY <1>2, <2>1 DEF Apart
  <2>4. /\ OInv' /\ UNCHANGED <<object, used>>
        /\ Fewer /\ Steady /\ drain' = "none"
        /\ Text' = Merge(row.blob, join.body, object.body)
        /\ (Saved' = Text' \/ Saved' = Saved)
    BY <1>2, <1>3, <1>4, <2>1, <2>2, <2>3, OpenHidden
  <2> QED  BY <1>4, <1>5, <1>7, <2>1, <2>2, <2>4
<1>10. CASE Rebase
  <2>1. row # NoRow /\ Fresh(merged) /\ UNCHANGED handed
    BY <1>2, <1>4, <1>10 DEF Rebase, Plan
  <2>2. /\ merged \in SUBSET Words /\ merged \subseteq used
        /\ \A w \in RowAt : w \notin join.body => w \notin merged
        /\ Apart(merged, join.body, object.body)
    BY <1>2, <1>3, <1>4, <2>1 DEF Merge, Apart
  <2>3. Merge(merged, join.body, object.body) = Saved
    <3>1. ASSUME NEW w \in join.body, w \notin object.body, w \in row.blob  PROVE w \in RowAt
      <4>1. CASE Grows
        BY <1>2, <3>1, <4>1 DEF Grows
      <4>2. CASE Lives
        BY <1>2, <2>1, <3>1, <4>2 DEF Lives, Apart
      <4> QED  BY <1>1, <4>1, <4>2 DEF Visible
    <3> QED  BY <1>2, <1>4, <2>1, <3>1 DEF Merge
  <2> HIDE DEF merged
  <2> QED  BY <1>5, <1>6, <1>7, <2>1, <2>2, <2>3
<1>11. CASE RebaseUnmerged
  <2>1. /\ row # NoRow /\ Fresh(join.body)
        /\ handed' = handed \union (merged \ join.body) \union (join.body \ merged)
    BY <1>2, <1>4, <1>11 DEF RebaseUnmerged, Plan
  <2>2. /\ \A w \in RowAt : w \notin join.body => w \notin join.body
        /\ Apart(join.body, join.body, object.body)
    BY DEF Apart
  <2>3. Merge(join.body, join.body, object.body) = object.body
    BY DEF Merge
  <2>4. /\ OInv' /\ UNCHANGED <<object, used>>
        /\ Fewer /\ Steady /\ drain' = "none"
        /\ Text' = object.body
        /\ (Saved' = Text' \/ Saved' = Saved)
    BY <1>3, <1>6, <2>1, <2>2, <2>3
  <2>5. \A w : ~(w \in Saved <=> w \in object.body) => w \in handed'
    <3>1. ASSUME NEW w \in join.body, w \notin object.body, w \in row.blob  PROVE w \in RowAt
      <4>1. CASE Grows
        BY <1>2, <3>1, <4>1 DEF Grows
      <4>2. CASE Lives
        BY <1>2, <2>1, <3>1, <4>2 DEF Lives, Apart
      <4> QED  BY <1>1, <4>1, <4>2 DEF Visible
    <3> QED  BY <1>2, <1>4, <2>1, <3>1 DEF Merge
  <2>6. Shared!HandUp
    <3>1. Text' \subseteq Words
      BY <2>4 DEF Types, Objects
    <3>2. handed \subseteq handed'
      BY <2>1
    <3>3. Text' = object'.body
      BY <2>4
    <3>4. Volatile' \subseteq handed'
      BY <2>4, <2>5, <3>3 DEF Volatile, Differ
    <3> QED  BY <1>1, <1>5, <2>4, <2>5, <3>1, <3>2, <3>4
             DEF Shared!HandUp, Handed, Written, Takes, Steady
  <2> QED  BY <2>4, <2>6 DEF Shared!TextStep
<1> QED  BY <1>8, <1>9, <1>10, <1>11

-----------------------------------------------------------------------------
\* A room that ends, with every join back: what is seen then is the row.
LEMMA EndHidden ==
  ASSUME Types, OInv, ~object.deleted, UNCHANGED <<stored, used>>,
         room' = NoRoom, drain' = "none", crowd' = "out", landed' = 0,
         ~Told', join'.body \subseteq used,
         row' # NoRow => row'.blob \subseteq used,
         Fewer,
         NoDeaths /\ row' # NoRow => Apart(row'.blob, RowAt', object.body)
  PROVE  /\ OInv' /\ Text' = Saved' /\ Loose' = {}
         /\ setting \in Setting /\ UNCHANGED object
<1>1. Views' /\ setting \in Setting /\ Whole /\ Visible
  BY ViewsNext DEF OInv
<1>2. object' = object /\ images' = images
  BY DEF stored
<1>3. Text' = Saved' /\ Loose' = {}
  BY <1>1, <1>2 DEF Views, Loose, Differ
<1>4. Whole' /\ (NoCuts => NoCuts') /\ (NoDeaths => NoDeaths')
  BY <1>1, WholeStays
<1>5. Uses'
  BY <1>1, <1>2 DEF Uses, Visible
<1>6. Reads' /\ Stands' /\ Grows'
  BY DEF Reads, Stands, Grows
<1>7. NoDeaths => Lives'
  BY <1>2 DEF Lives
<1> QED  BY <1>1, <1>2, <1>3, <1>4, <1>5, <1>6, <1>7 DEF OInv, Visible, Fewer

\* A room that ends with words in it that are nowhere else: what is seen goes
\* back to the row or to the object, and no word changes that was not volatile.
LEMMA EndDies ==
  ASSUME ~object.deleted, UNCHANGED <<object, used, handed>>, Fewer, setting \in Setting,
         setting'.strikes = setting.strikes, setting'.cuts = setting.cuts,
         drain' = "none", Loose' = {},
         NEW other, Text' = other, Differ(Text, other) \subseteq Volatile
  PROVE  Shared!TextStep
<1>1. Unflushed' => Unflushed
  BY DEF Unflushed, Fewer, Setting
<1>2. Volatile' \subseteq Volatile
  BY <1>1 DEF Volatile, Loose, Differ
<1>3. \E gone \in SUBSET Volatile : Text' = (Text \ gone) \union (gone \ Text)
  <2> WITNESS Differ(Text, other) \in SUBSET Volatile
  <2> QED  BY DEF Differ
<1> QED  BY <1>2, <1>3
         DEF Shared!TextStep, Shared!Die, Handed, Written, Takes

(***************************************************************************)
(* A teardown whose last flush returned removes the row, and what is seen  *)
(* is the object; a removal that fails leaves a row that says the same.    *)
(* What was not written was handed up, and what was changed under the      *)
(* teardown was volatile.                                                  *)
(***************************************************************************)
LEMMA RemoveHidden ==
  ASSUME Types, OInv, ~object.deleted, Remove
  PROVE  Shared!TextStep /\ OInv'
<1>1. Views /\ Views' /\ setting \in Setting /\ Whole /\ Visible
  BY ViewsNow, ViewsNext DEF OInv
<1>2. /\ UNCHANGED <<stored, object, images, join, used, handed>>
      /\ room' = NoRoom /\ drain' = "none" /\ crowd' = "out" /\ landed' = 0
      /\ join.pc # "loaded" /\ room # NoRoom /\ RemoveRow
      /\ drain \in {"remove", "unwritten"} /\ crowd \in {"out", "in"}
  BY <1>1 DEF Remove, DropRoom, Draining, Settling, Whole, Types, RoomState, stored
<1>3. /\ Fewer /\ Steady
      /\ \/ row' = NoRow
         \/ row' = row /\ "remove" \in setting.fragile /\ setting.errors > 0
  <2>1. CASE row' = NoRow /\ UNCHANGED setting
    BY <1>1, <2>1 DEF Fewer, Steady, Setting
  <2>2. CASE Failing("remove") /\ UNCHANGED row
    <3>1. Spend("errors") /\ "remove" \in setting.fragile
      BY <2>2 DEF Failing
    <3> QED  BY <1>1, <2>2, <3>1, SpendOne DEF Bounds, Fewer, Steady, Setting
  <2> QED  BY <1>2, <2>1, <2>2 DEF RemoveRow
<1>4. CASE row' # NoRow
  <2>1. row' = row /\ "remove" \in setting.fragile /\ setting.errors > 0
    BY <1>3, <1>4
  <2>2. ~NoDeaths /\ NoCuts /\ Grows /\ setting.offs = 0
    BY <1>1, <2>1 DEF Whole, Visible, NoDeaths
  <2>3. OInv' /\ Text' = Saved' /\ Loose' = {}
    BY <1>1, <1>2, <1>3, <2>1, <2>2, EndHidden DEF Visible, Uses, Told
  <2>4. Saved' = Saved
    BY <1>1, <1>2, <1>4, <2>1 DEF Views, RowAt
  <2>5. Text = Saved
    BY <1>1, <1>2, <2>1, <2>2 DEF Grows, Synced, Setting
  <2>6. ~Unflushed'
    BY <1>2, <1>3, <2>2 DEF Unflushed, Steady
  <2> QED  BY <1>1, <1>2, <1>3, <2>3, <2>4, <2>5, <2>6, SettledIs
<1>5. CASE row' = NoRow
  <2>1. OInv' /\ Text' = Saved' /\ Loose' = {}
    BY <1>1, <1>2, <1>3, <1>5, EndHidden DEF Visible, Uses, Told
  <2>2. Text' = object.body /\ object.body \subseteq Words
    BY <1>1, <1>2, <1>5, <2>1 DEF Views, Types, Objects
  <2>3. CASE crowd = "out" /\ drain = "remove"
    <3>1. Text = object.body
      BY <1>1, <2>3 DEF Visible, Stands
    <3> QED  BY <1>1, <1>2, <1>3, <2>1, <2>2, <3>1, SettledIs
  <2>4. CASE crowd = "out" /\ drain = "unwritten"
    <3>1. Differ(Text, object.body) \subseteq handed
      BY <1>1, <2>4 DEF Visible, Stands
    <3>2. Volatile' = {}
      BY <1>2, <2>1, <2>2 DEF Volatile, Loose, Differ
    <3> QED  BY <1>2, <1>3, <2>1, <2>2, <3>1, <3>2
             DEF Shared!TextStep, Shared!HandUp, Handed, Written, Takes, Differ, Steady
  <2>5. CASE crowd = "in"
    <3>1. Differ(Text, object.body) \subseteq Volatile
      BY <1>2, <2>5 DEF Volatile, Unflushed
    <3> QED  BY <1>1, <1>2, <1>3, <2>1, <2>2, <3>1, EndDies DEF Steady
  <2> QED  BY <1>2, <2>1, <2>3, <2>4, <2>5
<1> QED  BY <1>4, <1>5

\* A teardown whose flush threw keeps the room in the row,
LEMMA KeepHidden ==
  ASSUME Types, OInv, ~object.deleted, Keep
  PROVE  Shared!TextStep /\ OInv'
<1>1. Views /\ Views' /\ setting \in Setting /\ Whole /\ Visible
  BY ViewsNow, ViewsNext DEF OInv
<1>2. /\ UNCHANGED <<stored, object, images, room, landed, crowd, join, used, handed>>
      /\ drain = "keep" /\ drain' = "drop"
      /\ room # NoRoom /\ Save(room) /\ room \in LiveRooms
  BY DEF Keep, Draining, Types, RoomState, stored
<1>3. landed = 0 /\ (setting.errors = 0 \/ "save" \notin setting.fragile)
      /\ Apart(room.doc, ReachedAt, object.body)
  BY <1>1, <1>2 DEF Visible, Stands
<1>4. /\ row' # NoRow /\ row'.blob = room.doc /\ row'.base = room.base /\ setting' = setting
      /\ Fewer /\ Steady
  BY <1>1, <1>2, <1>3, SaveIs
<1>5. /\ RoomAt' = RoomAt /\ ReachedAt' = ReachedAt /\ ReachedAt = RoomAt /\ RowAt' = RoomAt
  BY <1>2, <1>3, <1>4 DEF RowAt, RoomAt, ReachedAt, Reached
<1>6. Text' = Text /\ Saved' = Text' /\ Loose' = {}
  BY <1>1, <1>2, <1>4, <1>5 DEF Views, Loose, Differ
<1>7. Shared!TextStep
  <2>1. Unflushed' => Unflushed
    BY <1>2, <1>4 DEF Unflushed
  <2> QED  BY <1>1, <1>2, <1>4, <1>6, <2>1, SettledIs
<1>8. Whole' /\ (NoCuts => NoCuts') /\ (NoDeaths => NoDeaths')
  BY <1>1, <1>2, <1>4, WholeStays
<1>9. Uses' /\ Reads' /\ Lives'
  BY <1>1, <1>2, <1>4 DEF Uses, Visible, Reads, Lives, Told
<1>10. Stands'
  BY <1>2, <1>3, <1>4, <1>5, <1>6 DEF Stands
<1>11. Grows => Grows'
  BY <1>2, <1>3, <1>4, <1>5, <1>6 DEF Grows, Told, Synced
<1> QED  BY <1>1, <1>2, <1>4, <1>7, <1>8, <1>9, <1>10, <1>11 DEF OInv, Visible

\* and what is seen once the room is dropped is that row.
LEMMA DropHidden ==
  ASSUME Types, OInv, ~object.deleted, Drop
  PROVE  Shared!TextStep /\ OInv'
<1>1. Views /\ Views' /\ setting \in Setting /\ Whole /\ Visible
  BY ViewsNow, ViewsNext DEF OInv
<1>2. /\ UNCHANGED <<stored, object, images, row, join, used, handed, setting>>
      /\ room' = NoRoom /\ drain' = "none" /\ crowd' = "out" /\ landed' = 0
      /\ join.pc # "loaded" /\ drain = "drop" /\ crowd \in {"out", "in"}
  BY <1>1 DEF Drop, DropRoom, Draining, Settling, Whole, Types, RoomState, stored
<1>3. Fewer /\ Steady
  BY <1>1, <1>2 DEF Fewer, Steady, Setting
<1>4. row # NoRow /\ Apart(row.blob, RowAt, object.body)
  BY <1>1, <1>2 DEF Visible, Stands
<1>5. RowAt' = RowAt /\ Saved' = Saved
  BY <1>1, <1>2 DEF Views, RowAt
<1>6. OInv' /\ Text' = Saved' /\ Loose' = {}
  BY <1>1, <1>2, <1>3, <1>4, <1>5, EndHidden DEF Visible, Uses, Told
<1>7. CASE crowd = "out"
  <2>1. Text = Saved
    BY <1>1, <1>2, <1>7 DEF Visible, Stands
  <2>2. Unflushed' => Unflushed
    BY <1>2 DEF Unflushed
  <2> QED  BY <1>1, <1>2, <1>3, <1>5, <1>6, <2>1, <2>2, SettledIs
<1>8. CASE crowd = "in"
  <2>1. Differ(Text, Saved) \subseteq Volatile
    BY <1>2, <1>8 DEF Volatile, Deadly
  <2> QED  BY <1>1, <1>2, <1>3, <1>5, <1>6, <2>1, EndDies DEF Steady
<1> QED  BY <1>2, <1>7, <1>8

\* A deletion discards the text, whatever room is open.
LEMMA TrashSeen ==
  ASSUME Types, OInv, ~object.deleted, Trash
  PROVE  Shared!TextStep /\ OInv'
<1>1. setting \in Setting /\ Whole /\ Spend("trashes")
  BY DEF OInv, Trash
<1>2. Fewer
  BY <1>1, SpendOne DEF Bounds, Fewer, Setting
<1>3. object'.deleted
  BY DEF Trash, Types, Objects
<1>4. Shared!Discard
  BY <1>3 DEF Shared!Discard, Text, Volatile, Handed, Written, Takes
<1>5. Whole'
  BY <1>1, <1>2 DEF Whole, Fewer, Setting
<1> QED  BY <1>2, <1>3, <1>4, <1>5 DEF OInv, Fewer, Shared!TextStep

\* A death takes the text back to what the row and the object say.
LEMMA CrashSeen ==
  ASSUME Types, OInv, ~object.deleted, Crash
  PROVE  Shared!TextStep /\ OInv'
<1>1. Views /\ Views' /\ setting \in Setting /\ Whole /\ Visible
  BY ViewsNow, ViewsNext DEF OInv
<1>2. /\ UNCHANGED <<stored, object, images, row, used, handed>>
      /\ room' = NoRoom /\ drain' = "none" /\ crowd' = "out" /\ landed' = 0
      /\ Spend("crashes")
      /\ join' = NotJoining
  BY DEF Crash, stored
<1>3. ~Told' /\ join'.body = {}
  BY <1>2 DEF Told, NotJoining
<1>4. /\ Fewer /\ setting'.strikes = setting.strikes /\ setting'.cuts = setting.cuts
      /\ setting.crashes > 0
  BY <1>1, <1>2, SpendOne DEF Bounds, Fewer, Setting
<1>5. ~NoDeaths
  BY <1>4 DEF NoDeaths
<1>6. OInv' /\ Text' = Saved' /\ Loose' = {}
  BY <1>1, <1>2, <1>3, <1>4, <1>5, EndHidden DEF Visible, Uses
<1>7. Saved' = Saved
  BY <1>1, <1>2 DEF Views, RowAt
<1>8. Differ(Text, Saved) \subseteq Volatile
  BY <1>4 DEF Volatile, Deadly
<1> QED  BY <1>1, <1>2, <1>4, <1>6, <1>7, <1>8, EndDies

\* A box that is switched off takes the text back to the object.
LEMMA BoxOffSeen ==
  ASSUME Types, OInv, ~object.deleted, BoxOff
  PROVE  Shared!TextStep /\ OInv'
<1>1. Views /\ Views' /\ setting \in Setting /\ Whole /\ Visible
  BY ViewsNow, ViewsNext DEF OInv
<1>2. /\ UNCHANGED <<stored, object, images, join, used, handed>>
      /\ room' = NoRoom /\ drain' = "none" /\ crowd' = "out" /\ landed' = 0
      /\ join.pc # "loaded" /\ Spend("offs")
      /\ row' \in {NoRow} \union (IF "remove" \in setting.fragile THEN {row} ELSE {})
  BY <1>1 DEF BoxOff, Purge, DropRoom, Settling, Whole, stored
<1>3. /\ Fewer /\ setting'.strikes = setting.strikes /\ setting'.cuts = setting.cuts
      /\ setting.offs > 0
  BY <1>1, <1>2, SpendOne DEF Bounds, Fewer, Setting
<1>4. row' = NoRow
  BY <1>1, <1>2, <1>3 DEF Whole
<1>5. OInv' /\ Text' = Saved' /\ Loose' = {}
  BY <1>1, <1>2, <1>3, <1>4, EndHidden DEF Visible, Uses, Told
<1>6. Text' = object.body
  BY <1>1, <1>2, <1>4, <1>5 DEF Views
<1>7. Differ(Text, object.body) \subseteq Volatile
  BY <1>3 DEF Volatile, Unflushed
<1> QED  BY <1>1, <1>2, <1>3, <1>5, <1>6, <1>7, EndDies

\* Of a document that was deleted nothing is seen, whatever still goes on.
LEMMA DeletedUnseen ==
  ASSUME Types, OInv, object.deleted, Next
  PROVE  Unseen /\ OInv'
<1>1. object'.deleted
  <2>1. ASSUME NEW text, Commit(text)  PROVE object'.deleted
    BY <2>1 DEF Commit, Types, Objects
  <2>2. ~Narrow /\ ~Trash /\ ~Flush /\ ~Land /\ (\A w \in Words : ~OutsideAdds(w) /\ ~OutsideCuts(w))
    BY DEF Narrow, Trash, Flush, Land, OutsideAdds, OutsideCuts, FromOutside
  <2>3. UNCHANGED object
    BY <2>2, Zenon
       DEF Next, Type, Strike, Edit, JoinBegin, Leave, Persist, MarkFlushed, Ingest, JoinStep,
           JoinLoads, JoinWaits, Attach, Seed, Resume, Rebase, RebaseUnmerged, Enter, Joining,
           Seeding, Disconnected, Sweep, Evict, DrainStep, MarkDraining, LastFlush, Keep,
           Remove, Drop, BoxOff, Crash, stored
  <2> QED  BY <2>3
<1>2. setting \in Setting /\ Whole
  BY DEF OInv
<1>3. Fewer \/ UNCHANGED setting
  <2>1. \A what \in Bounds : Spend(what) => Fewer
    BY <1>2, SpendOne DEF Bounds, Fewer, Setting
  <2>2. \A call : Failing(call) => Fewer
    BY <2>1 DEF Failing, Bounds
  <2>3. \/ UNCHANGED setting
        \/ \E what \in Bounds : Spend(what)
        \/ \E call : Failing(call)
    BY Zenon
       DEF Next, Type, Strike, JoinBegin, Leave, OutsideAdds, OutsideCuts, Persist, Flush,
           MarkFlushed, Marked, Ingest, Save, JoinStep,
           JoinLoads, JoinWaits, Attach, Seed, Resume, Rebase, RebaseUnmerged, Fresh, Open,
           Enter, Disconnected, Sweep, Evict, Narrow, DrainStep, MarkDraining, LastFlush, Keep,
           Remove, RemoveRow, Drop, Trash, BoxOff, Crash, Bounds
  <2> QED  BY <2>1, <2>2, <2>3
<1>4. OInv'
  BY <1>1, <1>2, <1>3 DEF OInv, Whole, Fewer, Setting
<1>5. Unseen
  BY <1>1 DEF Unseen, Text, Volatile, Handed, Written, Takes
<1> QED  BY <1>4, <1>5

-----------------------------------------------------------------------------
\* Before anybody has the document open, its text is the object.
LEMMA OneTextInit ==
  ASSUME Init, Whole
  PROVE  OInv /\ Shared!Start
<1>1. Views
  BY ViewsNow
<1>2. /\ setting \in Setting /\ Initial \subseteq Words
      /\ object.body = Initial /\ ~object.deleted /\ images = << >> /\ object.version = 1
      /\ room = NoRoom /\ row = NoRow /\ join.body = {} /\ join.pc = "none"
      /\ landed = 0 /\ drain = "none" /\ crowd = "out" /\ used = Initial /\ handed = {}
  BY RoomsAssumption DEF Init, NotJoining
<1>3. Text = Initial /\ Saved = Initial
  BY <1>1, <1>2 DEF Views
<1>4. Shared!Start
  BY <1>2, <1>3 DEF Shared!Start, Volatile, Differ, Handed, Written, Takes, Setting
<1>5. Uses /\ Reads /\ Stands /\ Lives
  BY <1>2 DEF Uses, Reads, Stands, Lives, Told
<1>6. Grows
  BY <1>2 DEF Grows, Told
<1> QED  BY <1>2, <1>4, <1>5, <1>6 DEF OInv, Visible, Whole, NoCuts, NoDeaths

\* Every step is one of the shared text, or is not seen.
LEMMA OneTextNext ==
  ASSUME RInv, RInv', OInv, [Next]_vars
  PROVE  OInv' /\ [Shared!TextStep]_(Shared!svars)
<1>1. Types /\ Types' /\ Counts
  BY DEF RInv
<1>2. CASE UNCHANGED vars
  <2>1. UNCHANGED <<object, images, row, room, landed, drain, crowd, join, used, handed,
                    setting>>
    BY <1>2 DEF vars, stored
  <2>2. UNCHANGED <<RowAt, RoomAt, Reached, ReachedAt, JoinAt>>
    BY <2>1 DEF RowAt, RoomAt, Reached, ReachedAt, JoinAt
  <2>3. Views /\ Views'
    BY ViewsNow, ViewsNext
  <2>4. UNCHANGED <<Text, Saved>>
    BY <2>1, <2>2, <2>3 DEF Views
  <2>5. UNCHANGED <<Volatile, Handed, Written, Takes>>
    BY <2>1, <2>4 DEF Volatile, Deadly, Unflushed, Differ, Handed, Written, Takes
  <2>6. OInv'
    BY <2>1, <2>2, <2>4
       DEF OInv, Visible, Whole, Uses, Reads, Stands, Grows, Lives, Told, Synced, NoCuts,
           NoDeaths, Apart, Differ
  <2> QED  BY <2>4, <2>5, <2>6 DEF Shared!svars
<1>3. CASE Next /\ object.deleted
  BY <1>1, <1>3, DeletedUnseen DEF Unseen, Shared!svars
<1>4. CASE Next /\ ~object.deleted
  <2>1. ASSUME NEW u \in People, NEW w \in Words, Type(u, w) \/ Strike(u, w)
        PROVE  OInv' /\ Shared!TextStep
    BY <1>1, <1>4, <2>1, TypeSeen, StrikeSeen
  <2>2. ASSUME NEW w \in Words, OutsideAdds(w) \/ OutsideCuts(w)
        PROVE  OInv' /\ Shared!TextStep
    BY <1>1, <1>4, <2>2, AddsSeen, CutsSeen
  <2>3. CASE \/ \E u \in People : JoinBegin(u) \/ Leave(u)
             \/ JoinWaits \/ Attach \/ Enter \/ Disconnected \/ Sweep \/ Evict \/ Narrow
    BY <1>1, <1>4, <2>3, QuietHidden
  <2>4. CASE JoinLoads
    BY <1>1, <1>4, <2>4, LoadsHidden
  <2>5. CASE Persist \/ MarkDraining
    BY <1>1, <1>4, <2>5, PersistHidden
  <2>6. CASE MarkFlushed \/ Ingest
    BY <1>1, <1>4, <2>6, MarkHidden, IngestHidden
  <2>7. CASE Flush \/ LastFlush
    BY <1>1, <1>4, <2>7, FlushHidden
  <2>8. CASE Seed \/ Resume \/ Rebase \/ RebaseUnmerged
    BY <1>1, <1>4, <2>8, SeedingHidden
  <2>9. CASE Keep \/ Remove \/ Drop
    BY <1>1, <1>4, <2>9, KeepHidden, RemoveHidden, DropHidden
  <2>10. CASE Trash \/ BoxOff \/ Crash
    BY <1>1, <1>4, <2>10, TrashSeen, BoxOffSeen, CrashSeen
  <2> QED  BY <1>4, <2>1, <2>2, <2>3, <2>4, <2>5, <2>6, <2>7, <2>8, <2>9, <2>10, Zenon
           DEF Next, JoinStep, DrainStep
<1> QED  BY <1>2, <1>3, <1>4

(***************************************************************************)
(* Opening, resuming, rebasing, flushing, closing and losing rooms         *)
(* implement one shared text: only people and writers outside put words in *)
(* and take them out, a death, a switched-off box or the eviction of a     *)
(* room with people in it takes back no more than was volatile, and what   *)
(* cannot be merged or written is handed up.                               *)
(***************************************************************************)
THEOREM RoomsAreOneText == Spec /\ Whole => OneText
<1>1. Init /\ Whole => OInv /\ Shared!Start
  BY OneTextInit
<1>2. RInv /\ RInv' /\ OInv /\ [Next]_vars => OInv' /\ [Shared!TextStep]_(Shared!svars)
  BY OneTextNext
<1> QED  BY <1>1, <1>2, RoomsInvariant, PTL DEF Spec, OneText, Shared!TextSpec
=============================================================================

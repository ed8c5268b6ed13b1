-------------------------- MODULE CollabFlushProofs ------------------------
(***************************************************************************)
(* What is proved of one open document, for every set of people, every set *)
(* of words and every setting.                                             *)
(*                                                                         *)
(* Second part: where an ingest and a flush come one after the other,      *)
(* nothing typed in the room is lost.  (The third part, below, is of one   *)
(* person and writers outside the room, the fourth of many people and no   *)
(* writer outside: what others wrote is kept, what was taken out stays     *)
(* out, and each version is written as the person whose words it adds.)    *)
(*                                                                         *)
(* The proof follows one word that nobody has taken out.  It is in the     *)
(* room as soon as it is typed or stored (InDoc), once in a contribution   *)
(* it is in all the later ones (Sorted), what the flush and the watcher    *)
(* take for the stored text has it only if the object has (Backed), the    *)
(* last contribution has it when no other is open (Latest), and so the     *)
(* last flush ends clean only once the object has it (Saved).              *)
(***************************************************************************)
EXTENDS CollabFlushTypes

\* Nobody has taken the word out, and the object did not bring it.
Safe(w) == author[w] \in Users \union {None} /\ striker[w] = None /\ w \notin reverted

InDoc(w) ==
    phase # "gone" =>
        /\ author[w] \in Users \/ w \in object.body \/ Held(w, room.runs) => w \in doc
        /\ Writing /\ Held(w, flush.runs) => w \in doc

Sorted(w) ==
    /\ Grows(w, room.runs)
    /\ w \in object.body => Carried(w, room.runs)
    /\ Writing => /\ Grows(w, flush.runs)
                  /\ w \in object.body => Carried(w, flush.runs)
                  /\ Held(w, flush.runs) => Carried(w, room.runs)

Backed(w) ==
    /\ room.baseMd # Unread /\ w \in room.baseMd => w \in object.body
    /\ Writing /\ w \in flush.prev => w \in object.body
    /\ \A v \in DOMAIN images : w \in images[v] => w \in object.body
    /\ flush.pc \in {"based", "rebase"} => (w \in flush.got.body <=> w \in object.body)
    /\ flush.pc = "written" /\ w \in Head(flush.runs).md => w \in object.body
    /\ watcher.pc \in {"base", "merge", "note"} => (w \in watcher.body <=> w \in object.body)
    /\ watcher.pc = "merge" /\ w \in watcher.from => w \in object.body

Latest(w) ==
    author[w] \in Users /\ room.open = None =>
        /\ room.runs # <<>> => w \in Final(room.runs)
        /\ Writing /\ room.runs = <<>> => w \in Final(flush.runs)

Saved(w) ==
    author[w] \in Users /\ ending = "clean" =>
        /\ phase = "flushing" /\ room.again # "last" /\ flush.pc \in {"idle", "after"}
              => w \in object.body
        /\ phase = "gone" => w \in object.body

Kept(w) == InDoc(w) /\ Sorted(w) /\ Backed(w) /\ Latest(w) /\ Saved(w)

\* Who runs while somebody else does, of the flush, the watcher and the end.
Turns ==
    /\ watcher.pc # "idle" => flush.pc = "idle" /\ phase # "flushing"
    /\ phase = "gone" => flush.pc = "idle"
    /\ flush.pc = "idle" => room.again = "no"
    /\ phase = "flushing" /\ room.again # "last" /\ Writing
          => room.runs = <<>> /\ room.open = None

\* The inductive invariant, but for the types.
NoneLost == Orderly /\ ~object.deleted => \A w \in Words : Safe(w) => Turns /\ Kept(w)

(* Where every proof of a step starts: one word nobody has taken out.      *)
Following(w) ==
    /\ Types /\ Orderly /\ ~object.deleted /\ Turns
    /\ w \in Words /\ Safe(w) /\ Kept(w)

-----------------------------------------------------------------------------
(* No contributions, and the first of some.                                *)

(* No contribution at all is consistent with any word.                     *)
LEMMA EmptyWord ==
    ASSUME NEW w
    PROVE  <<>> \in Runs /\ ~Held(w, <<>>) /\ Carried(w, <<>>) /\ Grows(w, <<>>)
<1>1. DOMAIN <<>> = {}
  OBVIOUS
<1> QED  BY <1>1 DEF Held, Carried, Grows, Runs

(* The first contribution tells whether a word is held.                    *)
LEMMA HeadWord ==
    ASSUME NEW runs \in Runs, runs # <<>>, NEW w
    PROVE  /\ Head(runs).md \in SUBSET Words
           /\ Carried(w, runs) => w \in Head(runs).md
           /\ w \in Head(runs).md => Held(w, runs)
           /\ w \in Head(runs).md /\ Grows(w, runs) => Carried(w, runs)
<1>1. /\ 1 \in DOMAIN runs /\ DOMAIN runs = 1 .. Len(runs) /\ Head(runs) = runs[1]
      /\ Len(runs) \in Nat /\ runs[1] \in Run
  BY RunsAreSequences
<1> QED  BY <1>1 DEF Carried, Held, Grows, Run

(* A word the last contribution has is in the one that is written last.    *)
LEMMA WrittenWord ==
    ASSUME NEW runs \in Runs, runs # <<>>, NEW w
    PROVE  LET md == Head(runs).md
               c == Changing(Tail(runs), md)
           IN  /\ c \in Runs
               /\ Grows(w, runs) => Grows(w, c)
               /\ Held(w, c) => Held(w, runs)
               /\ Carried(w, runs) => Carried(w, c)
               /\ c # <<>> => Final(c) = Final(runs)
               /\ c = <<>> => Final(runs) = md
<1> DEFINE md == Head(runs).md
           t == Tail(runs)
           c == Changing(t, md)
<1>1. /\ t \in Runs
      /\ Grows(w, runs) => Grows(w, t)
      /\ Held(w, t) => Held(w, runs)
      /\ Carried(w, runs) => Carried(w, t)
      /\ t # <<>> => Final(t) = Final(runs)
      /\ t = <<>> => Final(runs) = md
  BY TailWord
<1> HIDE DEF t
<1>2. /\ c \in Runs
      /\ Grows(w, t) => Grows(w, c)
      /\ Held(w, c) => Held(w, t)
      /\ Carried(w, t) => Carried(w, c)
      /\ c # <<>> => Final(c) = Final(t)
      /\ c = <<>> /\ t # <<>> => Final(t) = md
  BY <1>1, ChangingWord
<1>3. t = <<>> => c = <<>>
  <2>1. Changing(<<>>, md) = <<>>
    BY DEF Changing
  <2> QED  BY <2>1
<1> HIDE DEF c, md
<1> QED  BY <1>1, <1>2, <1>3 DEF c, t, md

(* What the types say of the room, the flush and the watcher.              *)
LEMMA Parts ==
    ASSUME Types
    PROVE  /\ room \in Rooms /\ room.runs \in Runs /\ room.open \in Users \union {None}
           /\ flush \in Calls /\ flush.runs \in Runs /\ flush.prev \in SUBSET Words
           /\ Writing => flush.runs # <<>>
           /\ watcher.from \in SUBSET Words /\ watcher.body \in SUBSET Words
           /\ doc \in SUBSET Words /\ object.body \in SUBSET Words /\ base \in Nat
           /\ None \notin Users
BY RoomAssumption DEF Types, FlushTypes, RowTypes, Rooms, Calls, Ingests, Rows

-----------------------------------------------------------------------------
(* The people in the room.                                                 *)

(* An edit keeps the word followed in the room.                            *)
LEMMA ContributionKeeps ==
    ASSUME NEW w, Following(w), NEW u \in Users, Contribution(u), phase = "open",
           w \in doc => w \in doc', author'[w] \in Users /\ author'[w] # author[w] => w \in doc',
           UNCHANGED <<object, images, flush, watcher, phase>>
    PROVE  Turns' /\ Kept(w)'
<1>1. /\ room' \in Rooms /\ room'.open = u /\ room'.baseMd = room.baseMd
      /\ room'.again = room.again
      /\ room'.runs = IF room.open = u THEN room.runs ELSE Closed(room.runs, room.open, doc)
  BY ContributionDoes DEF Following, Types
<1>2. /\ room.runs \in Runs /\ room.open \in Users \union {None} /\ doc \in SUBSET Words
      /\ None \notin Users
  BY Parts DEF Following
<1>3. Held(w, room.runs) => w \in doc
  BY DEF Following, Kept, InDoc
<1>4. Grows(w, room.runs) /\ (w \in object.body => w \in doc /\ Carried(w, room.runs))
  BY DEF Following, Kept, InDoc, Sorted
<1>5. /\ Grows(w, room'.runs)
      /\ Held(w, room'.runs) => w \in doc
      /\ w \in doc /\ Carried(w, room.runs) => Carried(w, room'.runs)
  BY <1>1, <1>2, <1>3, <1>4, ClosedWord
<1>6. InDoc(w)'
  BY <1>5 DEF Following, Kept, InDoc, Writing
<1>7. Sorted(w)'
  BY <1>4, <1>5 DEF Following, Kept, InDoc, Sorted, Writing
<1>8. Backed(w)'
  BY <1>1 DEF Following, Kept, Backed, Writing
<1>9. Latest(w)' /\ Saved(w)' /\ Turns'
  BY <1>1, <1>2 DEF Following, Kept, Latest, Saved, Turns, Writing
<1> QED  BY <1>6, <1>7, <1>8, <1>9 DEF Kept

(* So does typing.                                                         *)
LEMMA TypeKeeps ==
    ASSUME NEW w, Following(w), NEW u \in Users, NEW x \in Words, Type(u, x)
    PROVE  Turns' /\ Kept(w)'
<1>1. author'[w] # author[w] => w \in doc'
  BY DEF Following, Types, PeopleTypes, Type
<1> QED  BY <1>1, ContributionKeeps DEF Type, MayType, stored

(* So does striking another word.                                          *)
LEMMA StrikeKeeps ==
    ASSUME NEW w, Following(w), NEW u \in Users, NEW x \in Words, Strike(u, x), Safe(w)'
    PROVE  Turns' /\ Kept(w)'
<1>1. w # x
  BY RoomAssumption DEF Following, Types, PeopleTypes, Strike, Safe
<1> QED  BY <1>1, ContributionKeeps DEF Strike, MayType, stored

-----------------------------------------------------------------------------
(* The writers outside it, and the end of the room.                        *)

(* So does whatever is written outside.                                    *)
LEMMA OutsideKeeps ==
    ASSUME NEW w, Following(w), Safe(w)', ~object'.deleted,
           \/ \E x \in Words : OutsideAdds(x) \/ OutsideStrikes(x)
           \/ OutsideEditsProps \/ Trash
    PROVE  Turns' /\ Kept(w)'
<1>0. RowTypes /\ object.body \in SUBSET Words /\ object \in Rows
  BY DEF Following, Types, RowTypes, Rows
<1> DEFINE Same == /\ UNCHANGED <<doc, room, flush, watcher, phase, ending>>
                   /\ w \in object'.body <=> w \in object.body
                   /\ author'[w] = author[w]
                   /\ \A v \in DOMAIN images' : w \in images'[v] =>
                         w \in object.body \/ \E o \in DOMAIN images : w \in images[o]
<1>1. Same
  <2>1. ASSUME NEW x \in Words, OutsideAdds(x)
        PROVE  Same
    <3>1. Commit(object.body \union {x}) /\ x # w
      BY <2>1, RoomAssumption DEF OutsideAdds, Safe, Following, Types, PeopleTypes
    <3>2. object.body \union {x} \in SUBSET Words
      BY <1>0
    <3>3. /\ object'.body = object.body \union {x}
          /\ DOMAIN images' = DOMAIN images \union {object.version}
          /\ images'[object.version] = object.body
          /\ \A v \in DOMAIN images \ {object.version} : images'[v] = images[v]
      BY <1>0, <3>1, <3>2, CommitTypes
    <3>4. author'[w] = author[w]
      BY <2>1, <3>1 DEF OutsideAdds, Following, Types, PeopleTypes
    <3> QED  BY <2>1, <3>1, <3>3, <3>4 DEF OutsideAdds, FromOutside
  <2>2. ASSUME NEW x \in Words, OutsideStrikes(x)
        PROVE  Same
    <3>1. Commit(object.body \ {x}) /\ x # w
      BY <2>2, RoomAssumption DEF OutsideStrikes, Safe, Following, Types, PeopleTypes
    <3>2. object.body \ {x} \in SUBSET Words
      BY <1>0
    <3>3. /\ object'.body = object.body \ {x}
          /\ DOMAIN images' = DOMAIN images \union {object.version}
          /\ images'[object.version] = object.body
          /\ \A v \in DOMAIN images \ {object.version} : images'[v] = images[v]
      BY <1>0, <3>1, <3>2, CommitTypes
    <3> QED  BY <2>2, <3>1, <3>3 DEF OutsideStrikes, FromOutside
  <2>3. ASSUME OutsideEditsProps
        PROVE  Same
    <3>1. object'.body = object.body
      BY <1>0, <2>3 DEF OutsideEditsProps, Rows
    <3> QED  BY <2>3, <3>1 DEF OutsideEditsProps, FromOutside
  <2>4. ~Trash
    BY <1>0 DEF Trash, Rows
  <2> QED  BY <2>1, <2>2, <2>3, <2>4
<1>2. InDoc(w)' /\ Sorted(w)'
  BY <1>1 DEF Following, Kept, InDoc, Sorted, Writing
<1>3. Backed(w)'
  BY <1>1 DEF Following, Kept, Backed, Writing
<1>4. Latest(w)' /\ Saved(w)' /\ Turns'
  BY <1>1 DEF Following, Kept, Latest, Saved, Turns, Writing
<1> QED  BY <1>2, <1>3, <1>4 DEF Kept

(* So does revoking a right.                                               *)
LEMMA RevokeKeeps ==
    ASSUME NEW w, Following(w), NEW u \in Users, Revoke(u)
    PROVE  Turns' /\ Kept(w)'
<1>1. UNCHANGED <<object, images, author, doc, room, flush, watcher, phase, ending>>
  BY DEF Revoke, stored, history
<1> QED  BY <1>1 DEF Following, Kept, InDoc, Sorted, Backed, Latest, Saved, Turns, Writing

(* So does a teardown around its last flush.                               *)
LEMMA PhaseKeeps ==
    ASSUME NEW w, Following(w), Close \/ Drop
    PROVE  Turns' /\ Kept(w)'
<1>1. UNCHANGED <<object, images, author, doc, room, flush, watcher, ending>>
  BY DEF Close, Drop, stored, history
<1>2. \/ phase = "open" /\ phase' = "closing"
      \/ phase = "flushing" /\ flush.pc = "idle" /\ phase' = "gone"
  BY DEF Close, Drop
<1>3. InDoc(w)' /\ Sorted(w)' /\ Backed(w)' /\ Latest(w)'
  BY <1>1, <1>2 DEF Following, Kept, InDoc, Sorted, Backed, Latest, Writing
<1>4. Saved(w)' /\ Turns'
  BY <1>1, <1>2 DEF Following, Kept, Saved, Turns, Writing
<1> QED  BY <1>3, <1>4 DEF Kept

-----------------------------------------------------------------------------
(* A cycle is begun.                                                       *)

(* What is taken up has the word if the room has it, and is nothing only   *)
(* if the stored text has it too.                                          *)
LEMMA TakeUpKeeps ==
    ASSUME NEW w, Following(w), NEW call \in Calls, NEW r \in Rooms,
           NEW prev \in SUBSET Words, NEW at \in Nat, TakeUp(call, r, prev, at),
           r.runs = room.runs, r.open = room.open, w \in prev => w \in object.body,
           phase # "gone", watcher.pc = "idle", phase' \in {phase, "flushing"},
           UNCHANGED <<object, images, doc, author, watcher>>
    PROVE  Turns' /\ Kept(w)'
<1> DEFINE taken == Taken(r.runs, r.open, prev, doc)
<1>1. /\ room.runs \in Runs /\ room.open \in Users \union {None} /\ doc \in SUBSET Words
      /\ r.runs \in Runs /\ r.open \in Users \union {None}
  BY Parts DEF Following, Rooms
<1>2. /\ Grows(w, room.runs) /\ (Held(w, room.runs) => w \in doc)
      /\ author[w] \in Users => w \in doc
      /\ w \in object.body => w \in doc /\ Carried(w, room.runs)
      /\ author[w] \in Users /\ room.open = None /\ room.runs # <<>> => w \in Final(room.runs)
  BY DEF Following, Kept, InDoc, Sorted, Latest
<1>3. /\ taken \in Runs /\ Grows(w, taken) /\ (Held(w, taken) => w \in doc)
      /\ w \in doc /\ Carried(w, room.runs) => Carried(w, taken)
      /\ w \in doc /\ taken # <<>> /\ (room.open = None /\ room.runs # <<>> => w \in Final(room.runs))
            => w \in Final(taken)
      /\ taken = <<>> => doc = prev
  BY <1>1, <1>2, TakenWord
<1>4. /\ room'.runs = <<>> /\ room'.open = None /\ room'.baseMd = prev
      /\ flush'.runs = Changing(taken, prev) /\ flush'.prev = prev
      /\ \/ flush'.runs = <<>> /\ flush'.pc = "after"
         \/ flush'.runs # <<>> /\ flush'.pc = "check" /\ ending' = "running"
  BY <1>1, TakeUpDoes
<1> HIDE DEF taken
<1>5. /\ Grows(w, flush'.runs)
      /\ Held(w, flush'.runs) => w \in doc
      /\ w \in object.body => Carried(w, flush'.runs)
      /\ author[w] \in Users /\ flush'.runs # <<>> => w \in Final(flush'.runs)
      /\ author[w] \in Users /\ flush'.runs = <<>> => w \in prev
  <2>1. /\ Grows(w, taken) => Grows(w, flush'.runs)
        /\ Held(w, flush'.runs) => Held(w, taken)
        /\ Carried(w, taken) => Carried(w, flush'.runs)
        /\ flush'.runs # <<>> => Final(flush'.runs) = Final(taken)
        /\ flush'.runs = <<>> /\ taken # <<>> => Final(taken) = prev
    BY <1>3, <1>4, ChangingWord
  <2>2. flush'.runs # <<>> => taken # <<>>
    BY <1>4 DEF Changing
  <2> QED  BY <1>2, <1>3, <2>1, <2>2
<1>6. InDoc(w)'
  BY <1>2, <1>4, <1>5, EmptyWord DEF InDoc, Writing
<1>7. Sorted(w)'
  BY <1>4, <1>5, EmptyWord DEF Sorted, Writing
<1>8. Backed(w)'
  BY <1>4 DEF Following, Kept, Backed, Writing
<1>9. Latest(w)' /\ Saved(w)'
  BY <1>4, <1>5 DEF Latest, Saved, Writing
<1>10. Turns'
  BY <1>4 DEF Turns, Writing
<1> QED  BY <1>6, <1>7, <1>8, <1>9, <1>10 DEF Kept

(* So does the beginning of a cycle.                                       *)
LEMMA StartCycleKeeps ==
    ASSUME NEW w, Following(w), NEW call \in Calls, NEW r \in Rooms, StartCycle(call, r),
           r.runs = room.runs, r.open = room.open, r.baseMd = room.baseMd,
           phase # "gone", watcher.pc = "idle", phase' \in {phase, "flushing"},
           UNCHANGED <<object, images, doc, author, watcher, base>>
    PROVE  Turns' /\ Kept(w)'
<1>1. CASE flush'.pc = "read" /\ room' = r
  <2>1. ~Writing' /\ flush'.pc = "read"
    BY <1>1 DEF Writing
  <2>2. InDoc(w)' /\ Sorted(w)' /\ Backed(w)'
    BY <1>1, <2>1 DEF Following, Kept, InDoc, Sorted, Backed
  <2>3. Latest(w)' /\ Saved(w)' /\ Turns'
    BY <1>1, <2>1 DEF Following, Kept, Latest, Saved, Turns
  <2> QED  BY <2>2, <2>3 DEF Kept
<1>2. CASE /\ r.baseMd # Unread /\ r.baseMd \in SUBSET Words
           /\ TakeUp(call, r, r.baseMd, base)
  <2>1. w \in r.baseMd => w \in object.body
    BY <1>2 DEF Following, Kept, Backed
  <2>2. base \in Nat
    BY Parts DEF Following
  <2> QED  BY <1>2, <2>1, <2>2, TakeUpKeeps
<1>3. doc \in SUBSET Words /\ base \in Nat
  BY Parts DEF Following
<1> QED  BY <1>1, <1>2, <1>3, StartCycleDoes

(* So does a request of a flush.                                           *)
LEMMA RequestKeeps ==
    ASSUME NEW w, Following(w), NEW last \in BOOLEAN, Request(last), phase # "gone",
           \/ last /\ phase' = "flushing"
           \/ ~last /\ phase' = phase,
           UNCHANGED <<object, images, doc, author, watcher, base>>
    PROVE  Turns' /\ Kept(w)'
<1>0. watcher.pc = "idle"
  BY DEF Request, Following, Orderly
<1>1. CASE \E call \in Calls, r \in Rooms :
              /\ StartCycle(call, r)
              /\ r.runs = room.runs /\ r.open = room.open /\ r.baseMd = room.baseMd
  BY <1>0, <1>1, StartCycleKeeps
<1>2. CASE /\ flush.pc # "idle" /\ flush' = flush /\ ending' = ending
           /\ room'.runs = room.runs /\ room'.open = room.open /\ room'.baseMd = room.baseMd
           /\ room'.again = IF last THEN "last"
                            ELSE IF room.again = "no" THEN "yes" ELSE room.again
  <2>1. InDoc(w)' /\ Sorted(w)' /\ Backed(w)' /\ Latest(w)'
    BY <1>2 DEF Following, Kept, InDoc, Sorted, Backed, Latest, Writing
  <2>2. Saved(w)' /\ Turns'
    BY <1>0, <1>2 DEF Following, Kept, Saved, Turns, Writing
  <2> QED  BY <2>1, <2>2 DEF Kept
<1>3. flush \in Calls /\ room \in Rooms /\ doc \in SUBSET Words /\ base \in Nat /\ FlushTypes
  BY Parts DEF Following, Types
<1> QED  BY <1>1, <1>2, <1>3, RequestDoes

(* So do the timer and the teardown, which make one.                       *)
LEMMA BeginKeeps ==
    ASSUME NEW w, Following(w), Fire \/ LastFlush
    PROVE  Turns' /\ Kept(w)'
<1>1. CASE Fire
  BY <1>1, RequestKeeps DEF Fire, UnlessFlushing, stored
<1>2. CASE LastFlush
  BY <1>2, RequestKeeps DEF LastFlush, stored, history
<1> QED  BY <1>1, <1>2

-----------------------------------------------------------------------------
(* The flush's own steps.                                                  *)

(* What a step of the flush finds: the room is there, the watcher waits.   *)
LEMMA Flushing ==
    ASSUME NEW w, Following(w), flush.pc # "idle", UnlessFlushing
    PROVE  /\ phase # "gone" /\ watcher.pc = "idle"
           /\ phase' = phase /\ watcher' = watcher /\ author' = author
BY DEF Following, Turns, UnlessFlushing, Types

(* A cycle that ends without success with nothing pending in the room.     *)
LEMMA EmptyEndKeeps ==
    ASSUME NEW w, Following(w), flush.pc # "idle", UnlessFlushing,
           room'.runs = <<>>, room'.open = None, room'.again = room.again,
           room'.baseMd = room.baseMd \/ (room'.baseMd = flush.prev /\ Writing),
           flush'.pc = "after", ending' # "clean",
           w \in doc => w \in doc', UNCHANGED <<object, images>>
    PROVE  Turns' /\ Kept(w)'
<1>1. phase # "gone" /\ watcher.pc = "idle"
         /\ phase' = phase /\ watcher' = watcher /\ author' = author
  BY Flushing
<1>2. ~Writing' /\ flush'.pc = "after"
  BY DEF Writing
<1>3. InDoc(w)' /\ Sorted(w)'
  BY <1>1, <1>2, EmptyWord DEF Following, Kept, InDoc, Sorted
<1>4. Backed(w)'
  BY <1>1, <1>2 DEF Following, Kept, Backed
<1>5. Latest(w)' /\ Saved(w)' /\ Turns'
  BY <1>1, <1>2 DEF Following, Turns, Latest, Saved
<1> QED  BY <1>3, <1>4, <1>5 DEF Kept

(* What was not written is put back before what is pending by now.         *)
LEMMA PutBackKeeps ==
    ASSUME NEW w, Following(w), Writing, UnlessFlushing, NEW f \in Calls, f.runs # <<>>,
           Carried(w, flush.runs) => Carried(w, f.runs),
           Held(w, f.runs) => Held(w, flush.runs),
           Grows(w, f.runs),
           w \in Final(flush.runs) => w \in Final(f.runs),
           w \in f.prev => w \in object.body,
           NEW how \in {"transient", "exhausted"}, EndCycle(how, f, PutBack(f)),
           w \in doc => w \in doc', UNCHANGED <<object, images>>
    PROVE  Turns' /\ Kept(w)'
<1>0. room \in Rooms /\ room.runs \in Runs /\ f.runs \in Runs /\ base \in Nat
  BY Parts DEF Following, Calls
<1>1. phase # "gone" /\ watcher.pc = "idle"
         /\ phase' = phase /\ watcher' = watcher /\ author' = author
  BY Flushing DEF Writing
<1>2. /\ PutBack(f) \in Rooms /\ PutBack(f).runs = f.runs \o room.runs
      /\ PutBack(f).open = room.open /\ PutBack(f).again = room.again
  BY <1>0, PutBackRoom
<1>3. /\ room'.runs = f.runs \o room.runs /\ room'.open = room.open /\ room'.baseMd = f.prev
      /\ room'.again = room.again /\ ending' = how
      /\ flush'.pc = "after" /\ ~Writing'
  BY <1>0, <1>2, EndCycleDoes
<1>4. Grows(w, room.runs) /\ (Held(w, f.runs) => Carried(w, room.runs))
  BY DEF Following, Kept, Sorted
<1>5. /\ Grows(w, room'.runs)
      /\ Held(w, room'.runs) => Held(w, f.runs) \/ Held(w, room.runs)
      /\ Carried(w, f.runs) /\ Carried(w, room.runs) => Carried(w, room'.runs)
      /\ room.runs # <<>> => Final(room'.runs) = Final(room.runs)
      /\ room.runs = <<>> => room'.runs = f.runs
  <2>1. /\ Grows(w, f.runs) /\ Grows(w, room.runs)
        /\ Held(w, f.runs) => Carried(w, room.runs)
        /\ f.runs \in Runs /\ room.runs \in Runs
    BY <1>0, <1>4
  <2>2. LET all == f.runs \o room.runs
        IN  /\ Grows(w, all)
            /\ Held(w, all) => Held(w, f.runs) \/ Held(w, room.runs)
            /\ Carried(w, f.runs) /\ Carried(w, room.runs) => Carried(w, all)
            /\ room.runs # <<>> => Final(all) = Final(room.runs)
            /\ room.runs = <<>> => all = f.runs
    BY ONLY <2>1, PutBackWord
  <2> QED  BY ONLY <1>3, <2>2
<1>6. InDoc(w)' /\ Sorted(w)'
  BY <1>1, <1>3, <1>5 DEF Following, Kept, InDoc, Sorted
<1>7. Backed(w)'
  BY <1>1, <1>3 DEF Following, Kept, Backed, Writing
<1>8. Latest(w)'
  BY <1>1, <1>3, <1>5 DEF Following, Kept, Latest
<1>9. Saved(w)' /\ Turns'
  BY <1>1, <1>3 DEF Following, Saved, Turns
<1> QED  BY <1>6, <1>7, <1>8, <1>9 DEF Kept

(* So does the first read of the base.                                     *)
LEMMA ReadBaseKeeps ==
    ASSUME NEW w, Following(w), ReadBase
    PROVE  Turns' /\ Kept(w)'
<1>0. flush \in Calls /\ object \in Rows
  BY Parts DEF Following, Types, RowTypes
<1>1. /\ phase # "gone" /\ watcher.pc = "idle" /\ flush.pc = "read"
      /\ phase' = phase /\ watcher' = watcher /\ author' = author
      /\ UNCHANGED <<object, images, doc>>
  BY Flushing DEF ReadBase, stored
<1>2. /\ room' = room /\ ~Writing /\ ~Writing' /\ flush'.pc \in {"after", "based"}
      /\ flush'.pc = "based" => flush'.got = object
      /\ flush'.pc = "after" => ending' # "clean"
  BY <1>0, <1>1 DEF ReadBase, GiveUp, Writing, Calls, Following
<1>3. InDoc(w)' /\ Sorted(w)' /\ Backed(w)' /\ Latest(w)'
  BY <1>1, <1>2 DEF Following, Kept, InDoc, Sorted, Backed, Latest
<1>4. Saved(w)' /\ Turns'
  BY <1>1, <1>2 DEF Following, Kept, Saved, Turns
<1> QED  BY <1>3, <1>4 DEF Kept

(* So does its answer.                                                     *)
LEMMA BasedKeeps ==
    ASSUME NEW w, Following(w), Based
    PROVE  Turns' /\ Kept(w)'
<1>1. flush \in Calls /\ room \in Rooms /\ flush.got \in Rows
  BY Parts DEF Following, Types, FlushTypes, Based
<1>2. flush.got.body \in SUBSET Words /\ flush.got.version \in Nat
  BY <1>1 DEF Rows
<1>3. w \in flush.got.body => w \in object.body
  BY DEF Following, Kept, Backed, Based
<1>4. phase # "gone" /\ watcher.pc = "idle"
         /\ phase' = phase /\ watcher' = watcher /\ author' = author
  BY Flushing DEF Based
<1> QED  BY <1>1, <1>2, <1>3, <1>4, TakeUpKeeps DEF Based, stored

(* A refused contribution takes with it what is not in the stored text.    *)
LEMMA RefuseKeeps ==
    ASSUME NEW w, Following(w), Writing, UnlessFlushing, Refuse, Safe(w)',
           UNCHANGED <<object, images>>
    PROVE  Turns' /\ Kept(w)'
<1>1. /\ room'.runs = <<>> /\ room'.open = None
      /\ room'.baseMd = flush.prev /\ room'.again = room.again
      /\ ending' = "refused" /\ flush'.pc = "after" /\ doc' = flush.prev
  BY Parts, RefuseDoes DEF Following
<1>2. w \in doc => w \in doc'
  BY <1>1 DEF Refuse, Safe
<1> QED  BY <1>1, <1>2, EmptyEndKeeps DEF Writing

(* So does the query of rights, where it refuses nothing.                  *)
LEMMA CheckRightsKeeps ==
    ASSUME NEW w, Following(w), CheckRights, Safe(w)'
    PROVE  Turns' /\ Kept(w)'
<1>0. flush \in Calls /\ room \in Rooms /\ base \in Nat
  BY Parts DEF Following
<1>1. /\ phase # "gone" /\ watcher.pc = "idle" /\ flush.pc = "check" /\ UnlessFlushing
      /\ phase' = phase /\ watcher' = watcher /\ author' = author
      /\ UNCHANGED <<object, images>>
  BY Flushing DEF CheckRights, stored
<1>2. CASE /\ flush' = [flush EXCEPT !.pc = "write", !.attempt = 0]
           /\ UNCHANGED <<doc, room, ending>>
  <2>1. flush'.pc = "write" /\ flush'.runs = flush.runs /\ flush'.prev = flush.prev
    BY <1>0, <1>2 DEF Calls
  <2>2. InDoc(w)' /\ Sorted(w)' /\ Backed(w)' /\ Latest(w)'
    BY <1>1, <1>2, <2>1 DEF Following, Kept, InDoc, Sorted, Backed, Latest, Writing
  <2>3. Saved(w)' /\ Turns'
    BY <1>1, <1>2, <2>1 DEF Following, Kept, Saved, Turns, Writing
  <2> QED  BY <2>2, <2>3 DEF Kept
<1>3. CASE Refuse
  BY <1>1, <1>3, RefuseKeeps DEF Writing
<1>4. CASE EndCycle("refused", flush, Emptied(room)) /\ doc' = doc
  <2>1. /\ Emptied(room) \in Rooms
        /\ Emptied(room).runs = <<>> /\ Emptied(room).open = None
        /\ Emptied(room).again = room.again
    BY <1>0, EmptiedRoom
  <2>2. /\ room'.runs = <<>> /\ room'.open = None /\ room'.baseMd = flush.prev
        /\ room'.again = room.again /\ ending' = "refused" /\ flush'.pc = "after"
    BY <1>0, <1>4, <2>1, EndCycleDoes
  <2> QED  BY <1>1, <1>4, <2>2, EmptyEndKeeps DEF Writing
<1> QED  BY <1>2, <1>3, <1>4 DEF CheckRights

(* The write that commits: what the stored text had, the contribution has. *)
LEMMA CommitKeeps ==
    ASSUME NEW w, Following(w), flush.pc = "write", UnlessFlushing,
           Commit(Head(flush.runs).md),
           flush' = [flush EXCEPT !.pc = "written", !.got = [version |-> object.version + 1]],
           UNCHANGED <<doc, room, ending>>
    PROVE  Turns' /\ Kept(w)'
<1> DEFINE md == Head(flush.runs).md
<1>0. flush \in Calls /\ flush.runs \in Runs /\ flush.runs # <<>> /\ RowTypes
  BY Parts DEF Following, Writing, Types
<1>1. phase # "gone" /\ watcher.pc = "idle"
         /\ phase' = phase /\ watcher' = watcher /\ author' = author
  BY Flushing
<1>2. flush'.pc = "written" /\ flush'.runs = flush.runs /\ flush'.prev = flush.prev
  BY <1>0 DEF Calls
<1>3. /\ Grows(w, flush.runs)
      /\ w \in object.body => Carried(w, flush.runs)
      /\ Held(w, flush.runs) => w \in doc /\ Carried(w, room.runs)
  BY <1>1 DEF Following, Kept, InDoc, Sorted, Writing
<1>4. /\ md \in SUBSET Words
      /\ Carried(w, flush.runs) => w \in md
      /\ w \in md => Held(w, flush.runs)
      /\ w \in md /\ Grows(w, flush.runs) => Carried(w, flush.runs)
  BY <1>0, HeadWord
<1>5. /\ object'.body = md
      /\ DOMAIN images' = DOMAIN images \union {object.version}
      /\ images'[object.version] = object.body
      /\ \A v \in DOMAIN images \ {object.version} : images'[v] = images[v]
  BY <1>0, <1>4, CommitTypes
<1>6. /\ w \in object.body => w \in object'.body
      /\ w \in object'.body => /\ w \in doc /\ Carried(w, room.runs)
                               /\ Carried(w, flush.runs)
      /\ w \in Head(flush'.runs).md => w \in object'.body
  BY <1>2, <1>3, <1>4, <1>5
<1> HIDE DEF md
<1>7. InDoc(w)' /\ Sorted(w)' /\ Latest(w)'
  BY <1>1, <1>2, <1>6 DEF Following, Kept, InDoc, Sorted, Latest, Writing
<1>8. Backed(w)'
  <2>1. \A v \in DOMAIN images' : w \in images'[v] => w \in object'.body
    BY <1>5, <1>6 DEF Following, Kept, Backed
  <2> QED  BY <1>1, <1>2, <1>6, <2>1 DEF Following, Kept, Backed, Writing
<1>9. Saved(w)' /\ Turns'
  BY <1>1, <1>2 DEF Following, Kept, Saved, Turns, Writing
<1> QED  BY <1>7, <1>8, <1>9 DEF Kept

(* A write that commits puts the word into the object; one that does not puts *)
(* the contributions back.                                                 *)
LEMMA WriteRunKeeps ==
    ASSUME NEW w, Following(w), WriteRun, Safe(w)', ~object'.deleted
    PROVE  Turns' /\ Kept(w)'
<1>0. flush \in Calls /\ flush.runs \in Runs /\ flush.runs # <<>> /\ Writing
         /\ flush.pc = "write" /\ UnlessFlushing
  BY Parts DEF Following, Writing, WriteRun
<1>1. phase # "gone" /\ watcher.pc = "idle"
         /\ phase' = phase /\ watcher' = watcher /\ author' = author
  BY <1>0, Flushing
<1>2. CASE /\ flush' = [flush EXCEPT !.pc = "reread"]
           /\ UNCHANGED <<object, images, doc, room, ending>>
  <2>1. flush'.pc = "reread" /\ flush'.runs = flush.runs /\ flush'.prev = flush.prev
    BY <1>0, <1>2 DEF Calls
  <2>2. InDoc(w)' /\ Sorted(w)' /\ Backed(w)' /\ Latest(w)'
    BY <1>0, <1>1, <1>2, <2>1 DEF Following, Kept, InDoc, Sorted, Backed, Latest, Writing
  <2>3. Saved(w)' /\ Turns'
    BY <1>0, <1>1, <1>2, <2>1 DEF Following, Kept, Saved, Turns, Writing
  <2> QED  BY <2>2, <2>3 DEF Kept
<1>3. CASE /\ EndCycle("transient", flush, PutBack(flush))
           /\ UNCHANGED <<object, images, doc>>
  <2>1. Grows(w, flush.runs) /\ (w \in flush.prev => w \in object.body)
    BY <1>0 DEF Following, Kept, Sorted, Backed
  <2> QED  BY <1>0, <1>3, <2>1, PutBackKeeps
<1>4. CASE /\ Commit(Head(flush.runs).md)
           /\ flush' = [flush EXCEPT !.pc = "written",
                                     !.got = [version |-> object.version + 1]]
           /\ UNCHANGED <<doc, room, ending>>
  BY <1>0, <1>4, CommitKeeps
<1> QED  BY <1>2, <1>3, <1>4 DEF WriteRun, Following

(* Going on after a write keeps the word.                                  *)
LEMMA WrittenKeeps ==
    ASSUME NEW w, Following(w), Written
    PROVE  Turns' /\ Kept(w)'
<1> DEFINE md == Head(flush.runs).md
           f == [flush EXCEPT !.runs = Changing(Tail(@), md), !.prev = md,
                              !.at = flush.got.version, !.wrote = TRUE]
<1>0. /\ flush \in Calls /\ flush.runs \in Runs /\ flush.runs # <<>> /\ Writing
      /\ room \in Rooms /\ base \in Nat /\ flush.got \in [version : Nat]
      /\ flush.pc = "written" /\ UnlessFlushing /\ UNCHANGED <<object, images, doc>>
  BY Parts DEF Following, Writing, Written, Types, FlushTypes, stored
<1>1. phase # "gone" /\ watcher.pc = "idle"
         /\ phase' = phase /\ watcher' = watcher /\ author' = author
  BY <1>0, Flushing
<1>2. /\ Grows(w, flush.runs)
      /\ w \in object.body => Carried(w, flush.runs)
      /\ Held(w, flush.runs) => w \in doc /\ Carried(w, room.runs)
      /\ w \in md => w \in object.body
      /\ author[w] \in Users /\ room.open = None /\ room.runs = <<>> => w \in Final(flush.runs)
  BY <1>0, <1>1 DEF Following, Kept, InDoc, Sorted, Backed, Latest
<1>3. f \in Calls /\ f.runs = Changing(Tail(flush.runs), md) /\ f.prev = md
  BY <1>0, WrittenCall
<1>4. /\ Grows(w, flush.runs) => Grows(w, f.runs)
      /\ Held(w, f.runs) => Held(w, flush.runs)
      /\ Carried(w, flush.runs) => Carried(w, f.runs)
      /\ f.runs # <<>> => Final(f.runs) = Final(flush.runs)
      /\ f.runs = <<>> => Final(flush.runs) = md
  <2> HIDE DEF f
  <2> QED  BY <1>0, <1>3, WrittenWord
<1>5. \/ f.runs # <<>> /\ flush' = [f EXCEPT !.pc = "check"] /\ UNCHANGED <<base, room, ending>>
      \/ f.runs = <<>> /\ EndCycle("clean", f, room)
  BY DEF Written
<1> HIDE DEF f, md
<1>6. CASE f.runs # <<>> /\ flush' = [f EXCEPT !.pc = "check"] /\ UNCHANGED <<base, room, ending>>
  <2>1. flush'.pc = "check" /\ flush'.runs = f.runs /\ flush'.prev = md
    BY <1>3, <1>6 DEF Calls
  <2>2. InDoc(w)' /\ Sorted(w)'
    BY <1>0, <1>1, <1>2, <1>4, <1>6, <2>1 DEF Following, Kept, InDoc, Sorted, Writing
  <2>3. Backed(w)' /\ Latest(w)'
    BY <1>0, <1>1, <1>2, <1>4, <1>6, <2>1 DEF Following, Kept, Backed, Latest, Writing
  <2>4. Saved(w)' /\ Turns'
    BY <1>0, <1>1, <1>6, <2>1 DEF Following, Saved, Turns, Writing
  <2> QED  BY <2>2, <2>3, <2>4 DEF Kept
<1>7. CASE f.runs = <<>> /\ EndCycle("clean", f, room)
  <2>1. /\ room'.runs = room.runs /\ room'.open = room.open /\ room'.baseMd = md
        /\ room'.again = room.again
        /\ flush'.pc = "after" /\ ~Writing'
    BY <1>0, <1>3, <1>7, EndCycleDoes
  <2>2. InDoc(w)' /\ Sorted(w)' /\ Backed(w)' /\ Latest(w)'
    BY <1>0, <1>1, <1>2, <2>1 DEF Following, Kept, InDoc, Sorted, Backed, Latest
  <2>3. author[w] \in Users /\ phase = "flushing" /\ room.again # "last" => w \in object.body
    BY <1>0, <1>2, <1>4, <1>7 DEF Following, Turns
  <2>4. Saved(w)' /\ Turns'
    BY <1>0, <1>1, <2>1, <2>3 DEF Following, Saved, Turns
  <2> QED  BY <2>2, <2>4 DEF Kept
<1> QED  BY <1>5, <1>6, <1>7

(* So does the read after a lost compare-and-swap.                         *)
LEMMA RereadKeeps ==
    ASSUME NEW w, Following(w), Reread
    PROVE  Turns' /\ Kept(w)'
<1>0. /\ flush \in Calls /\ room \in Rooms /\ object \in Rows /\ Writing
      /\ flush.pc = "reread" /\ UnlessFlushing /\ UNCHANGED <<object, images, doc>>
  BY Parts DEF Following, Writing, Reread, Types, RowTypes, stored
<1>1. phase # "gone" /\ watcher.pc = "idle"
         /\ phase' = phase /\ watcher' = watcher /\ author' = author
  BY <1>0, Flushing
<1>2. CASE GiveUp("conflict", Emptied(room))
  <2>1. /\ Emptied(room) \in Rooms
        /\ Emptied(room).runs = <<>> /\ Emptied(room).open = None
        /\ Emptied(room).baseMd = room.baseMd /\ Emptied(room).again = room.again
    BY <1>0, EmptiedRoom
  <2>2. room' = Emptied(room) /\ ending' = "conflict" /\ flush'.pc = "after"
    BY <1>0, <1>2, <2>1, GiveUpDoes
  <2> QED  BY <1>0, <2>1, <2>2, EmptyEndKeeps
<1>3. CASE /\ flush' = [flush EXCEPT !.pc = "rebase", !.got = object]
           /\ UNCHANGED <<base, room, ending>>
  <2>1. flush'.pc = "rebase" /\ flush'.runs = flush.runs /\ flush'.prev = flush.prev
           /\ flush'.got = object
    BY <1>0, <1>3 DEF Calls
  <2>2. InDoc(w)' /\ Sorted(w)' /\ Backed(w)' /\ Latest(w)'
    BY <1>0, <1>1, <1>3, <2>1 DEF Following, Kept, InDoc, Sorted, Backed, Latest, Writing
  <2>3. Saved(w)' /\ Turns'
    BY <1>0, <1>1, <1>3, <2>1 DEF Following, Kept, Saved, Turns, Writing
  <2> QED  BY <2>2, <2>3 DEF Kept
<1> QED  BY <1>2, <1>3 DEF Reread

(* A rebase finds the word stored, if at all, in what it goes on from.     *)
LEMMA RebaseKeeps ==
    ASSUME NEW w, Following(w), Rebase
    PROVE  Turns' /\ Kept(w)'
<1>0. /\ flush \in Calls /\ flush.runs \in Runs /\ flush.runs # <<>> /\ Writing
      /\ flush.prev \in SUBSET Words /\ flush.got \in Rows /\ room \in Rooms
      /\ flush.pc = "rebase" /\ UnlessFlushing /\ UNCHANGED <<object, images>> /\ Types
  BY Parts, RebaseDoes DEF Following, Writing, Rebase, stored
<1>1. phase # "gone" /\ watcher.pc = "idle"
         /\ phase' = phase /\ watcher' = watcher /\ author' = author
  BY <1>0, Flushing
<1>2. /\ Grows(w, flush.runs)
      /\ w \in object.body => w \in doc /\ Carried(w, flush.runs)
      /\ Held(w, flush.runs) => w \in doc
      /\ w \in flush.prev => w \in object.body
      /\ w \in flush.got.body <=> w \in object.body
  BY <1>0, <1>1 DEF Following, Kept, InDoc, Sorted, Backed
<1>3. /\ Again \in Calls /\ Again.prev = flush.got.body /\ Again.runs # <<>>
      /\ Again.runs = Rebased(flush.runs, flush.prev, flush.got.body)
      /\ flush.got.body \in SUBSET Words
  BY <1>0, RebasedCall
<1>4. /\ Carried(w, Again.runs) <=> Carried(w, flush.runs)
      /\ Held(w, Again.runs) <=> Held(w, flush.runs)
      /\ Grows(w, Again.runs) <=> Grows(w, flush.runs)
      /\ w \in Final(Again.runs) <=> w \in Final(flush.runs)
  BY <1>0, <1>2, <1>3, RebasedWord DEF Following
<1>5. w \in doc' <=> w \in doc
  BY <1>0, <1>2, RebaseDoes DEF Merge
<1>6. CASE flush' = [Again EXCEPT !.pc = "write"] /\ UNCHANGED <<base, room, ending>>
  <2>1. flush'.pc = "write" /\ flush'.runs = Again.runs /\ flush'.prev = flush.got.body
    BY <1>3, <1>6 DEF Calls
  <2>2. InDoc(w)' /\ Sorted(w)'
    BY <1>0, <1>1, <1>4, <1>5, <1>6, <2>1 DEF Following, Kept, InDoc, Sorted, Writing
  <2>3. Backed(w)' /\ Latest(w)'
    BY <1>0, <1>1, <1>2, <1>4, <1>6, <2>1 DEF Following, Kept, Backed, Latest, Writing
  <2>4. Saved(w)' /\ Turns'
    BY <1>0, <1>1, <1>6, <2>1 DEF Following, Saved, Turns, Writing
  <2> QED  BY <2>2, <2>3, <2>4 DEF Kept
<1>7. CASE EndCycle("exhausted", Again, PutBack(Again))
  BY <1>0, <1>2, <1>3, <1>4, <1>5, <1>7, PutBackKeeps
<1>8. CASE GiveUp("conflict", Emptied(room))
  <2>1. /\ Emptied(room) \in Rooms
        /\ Emptied(room).runs = <<>> /\ Emptied(room).open = None
        /\ Emptied(room).baseMd = room.baseMd /\ Emptied(room).again = room.again
    BY <1>0, EmptiedRoom
  <2>2. room' = Emptied(room) /\ ending' = "conflict" /\ flush'.pc = "after"
    BY <1>0, <1>8, <2>1, GiveUpDoes
  <2> QED  BY <1>0, <1>5, <2>1, <2>2, EmptyEndKeeps
<1> QED  BY <1>0, <1>6, <1>7, <1>8, RebaseDoes

(* So does the cycle for what was asked meanwhile.                         *)
LEMMA NextCycleKeeps ==
    ASSUME NEW w, Following(w), NextCycle
    PROVE  Turns' /\ Kept(w)'
<1>0. /\ flush \in Calls /\ room \in Rooms /\ doc \in SUBSET Words /\ base \in Nat
      /\ flush.pc = "after" /\ UnlessFlushing /\ UNCHANGED <<object, images, doc, base>>
  BY Parts DEF Following, NextCycle, stored
<1>1. phase # "gone" /\ watcher.pc = "idle"
         /\ phase' = phase /\ watcher' = watcher /\ author' = author
  BY <1>0, Flushing
<1>2. PICK r \in Rooms :
         /\ r.runs = room.runs /\ r.open = room.open /\ r.baseMd = room.baseMd
         /\ r.again = "no"
         /\ \/ \E call \in Calls : StartCycle(call, r)
            \/ /\ flush' = Idle /\ room' = r
               /\ ending' = IF room.again = "last" THEN "skipped" ELSE ending
  BY <1>0, NextCycleDoes
<1>3. CASE \E call \in Calls : StartCycle(call, r)
  BY <1>0, <1>1, <1>2, <1>3, StartCycleKeeps
<1>4. CASE /\ flush' = Idle /\ room' = r
           /\ ending' = IF room.again = "last" THEN "skipped" ELSE ending
  <2>1. flush'.pc = "idle" /\ ~Writing'
    BY <1>4, IdleIsCall DEF Writing
  <2>2. InDoc(w)' /\ Sorted(w)' /\ Backed(w)' /\ Latest(w)'
    BY <1>0, <1>1, <1>2, <1>4, <2>1 DEF Following, Kept, InDoc, Sorted, Backed, Latest
  <2>3. Saved(w)' /\ Turns'
    BY <1>0, <1>1, <1>2, <1>4, <2>1 DEF Following, Kept, Saved, Turns
  <2> QED  BY <2>2, <2>3 DEF Kept
<1> QED  BY <1>2, <1>3, <1>4

-----------------------------------------------------------------------------
(* The watcher.                                                            *)

(* So does every step of the watcher.                                      *)
LEMMA WatcherKeeps ==
    ASSUME NEW w, Following(w), WatcherStep
    PROVE  Turns' /\ Kept(w)'
<1>0. /\ watcher \in Ingests /\ room \in Rooms /\ room.runs \in Runs /\ object \in Rows
      /\ Resting.pc = "idle" /\ watcher.body \in SUBSET Words
      /\ flush' = flush /\ UNCHANGED <<object, images, phase, author, ending>>
      /\ flush.pc = "idle" /\ ~Writing /\ ~Writing'
  BY Parts DEF Following, Types, RowTypes, Resting, WatcherStep, Poll, Load, BaseBody, MergeIn,
     NoteExternalWrite, WatcherOnly, history, Writing, Turns, Orderly
<1>1. watcher.pc # "idle" => phase # "flushing"
  BY DEF Following, Turns
<1>2. ASSUME room' = room, doc' = doc \/ phase = "gone" \/ (w \in doc => w \in doc'),
             watcher'.pc # "idle" => watcher.pc # "idle" \/ phase = "open",
             watcher'.pc \in {"base", "merge", "note"} => (w \in watcher'.body <=> w \in object.body),
             watcher'.pc = "merge" /\ w \in watcher'.from => w \in object.body
      PROVE  Turns' /\ Kept(w)'
  <2>1. InDoc(w)' /\ Sorted(w)' /\ Backed(w)' /\ Latest(w)'
    BY <1>0, <1>2 DEF Following, Kept, InDoc, Sorted, Backed, Latest
  <2>2. Saved(w)' /\ Turns'
    BY <1>0, <1>1, <1>2 DEF Following, Kept, Saved, Turns
  <2> QED  BY <2>1, <2>2 DEF Kept
<1>3. CASE Poll
  <2>1. room' = room /\ doc' = doc
    BY <1>3 DEF Poll
  <2>2. watcher' = watcher \/ (watcher'.pc = "load" /\ phase = "open")
    BY <1>0, <1>3 DEF Poll, Resting
  <2> QED  BY <1>2, <2>1, <2>2 DEF Following, Kept, Backed
<1>4. CASE Load
  <2>1. room' = room /\ doc' = doc /\ watcher.pc = "load"
    BY <1>4 DEF Load
  <2>2. watcher' = Resting \/ (watcher'.pc = "base" /\ watcher'.body = object.body)
    BY <1>0, <1>4 DEF Load, Ingests
  <2> QED  BY <1>0, <1>2, <2>1, <2>2
<1>5. CASE BaseBody
  <2>1. room' = room /\ doc' = doc /\ watcher.pc = "base"
    BY <1>5 DEF BaseBody
  <2>2. w \in watcher.body <=> w \in object.body
    BY <2>1 DEF Following, Kept, Backed
  <2> DEFINE later == {v \in DOMAIN images : v >= watcher.base}
             first == CHOOSE v \in later : \A o \in later : v <= o
  <2>3. \/ watcher' = Resting
        \/ /\ later # {} /\ watcher' = [watcher EXCEPT !.pc = "merge", !.from = images[first]]
    BY <1>5 DEF BaseBody
  <2>4. later # {} => first \in DOMAIN images
    <3>1. watcher.base \in Nat
      BY <1>0 DEF Ingests
    <3> QED  BY <3>1, FirstSince DEF Following, Types
  <2> HIDE DEF later, first
  <2>5. CASE later # {} /\ watcher' = [watcher EXCEPT !.pc = "merge", !.from = images[first]]
    <3>1. w \in images[first] => w \in object.body
      BY <2>4, <2>5 DEF Following, Kept, Backed
    <3>2. watcher'.pc = "merge" /\ watcher'.from = images[first] /\ watcher'.body = watcher.body
      BY <1>0, <2>5 DEF Ingests
    <3> QED  BY <1>2, <2>1, <2>2, <3>1, <3>2
  <2> QED  BY <1>0, <1>2, <2>1, <2>3, <2>5
<1>6. CASE MergeIn
  <2>1. room' = room /\ watcher.pc = "merge"
    BY <1>6 DEF MergeIn
  <2>2. /\ w \in watcher.body <=> w \in object.body
        /\ w \in watcher.from => w \in object.body
    BY <2>1 DEF Following, Kept, Backed
  <2>3. doc' = doc \/ doc' = Merge(doc, watcher.from, watcher.body)
    BY <1>6 DEF MergeIn
  <2>4. w \in doc => w \in doc'
    BY <2>2, <2>3 DEF Merge
  <2>5. watcher' = Resting \/ (watcher'.pc = "note" /\ watcher'.body = watcher.body)
    BY <1>0, <1>6 DEF MergeIn, Ingests
  <2> QED  BY <1>0, <1>2, <2>1, <2>2, <2>4, <2>5
<1>7. CASE NoteExternalWrite
  <2>1. doc' = doc /\ watcher.pc = "note" /\ watcher' = Resting
    BY <1>7 DEF NoteExternalWrite
  <2>2. w \in watcher.body <=> w \in object.body
    BY <2>1 DEF Following, Kept, Backed
  <2>3. CASE room' = room
    BY <1>0, <1>2, <2>1, <2>3
  <2>4. CASE /\ room.baseMd # Unread
             /\ room' = [room EXCEPT !.baseMd = watcher.body,
                                     !.runs = Rebased(@, room.baseMd, watcher.body)]
    <3> DEFINE runs == Rebased(room.runs, room.baseMd, watcher.body)
    <3>1. room.baseMd \in SUBSET Words
      BY <1>0, <2>4 DEF Rooms
    <3>2. /\ w \in room.baseMd => w \in object.body
          /\ w \in object.body => Carried(w, room.runs)
          /\ w \in Words
      BY <2>4 DEF Following, Kept, Backed, Sorted
    <3>3. /\ runs \in Runs
          /\ runs = <<>> <=> room.runs = <<>>
          /\ Carried(w, runs) <=> Carried(w, room.runs)
          /\ Held(w, runs) <=> Held(w, room.runs)
          /\ Grows(w, runs) <=> Grows(w, room.runs)
          /\ room.runs # <<>> => (w \in Final(runs) <=> w \in Final(room.runs))
      BY <1>0, <2>2, <3>1, <3>2, RebasedWord
    <3>4. room' = [room EXCEPT !.baseMd = watcher.body, !.runs = runs]
      BY <2>4
    <3> HIDE DEF runs
    <3>5. /\ room'.runs = runs /\ room'.baseMd = watcher.body /\ room'.open = room.open
          /\ room'.again = room.again
      BY <1>0, <3>4 DEF Rooms
    <3>6. InDoc(w)' /\ Sorted(w)'
      BY <1>0, <2>1, <3>3, <3>5 DEF Following, Kept, InDoc, Sorted
    <3>7. Backed(w)' /\ Latest(w)'
      BY <1>0, <2>1, <2>2, <3>3, <3>5 DEF Following, Kept, Backed, Latest
    <3>8. Saved(w)' /\ Turns'
      BY <1>0, <1>1, <2>1, <3>5 DEF Following, Kept, Saved, Turns
    <3> QED  BY <3>6, <3>7, <3>8 DEF Kept
  <2>5. CASE room' = [Emptied(room) EXCEPT !.baseMd = watcher.body]
    <3>1. /\ Emptied(room) \in Rooms
          /\ Emptied(room).runs = <<>> /\ Emptied(room).open = None
          /\ Emptied(room).again = room.again
      BY <1>0, EmptiedRoom
    <3>2. /\ room'.runs = <<>> /\ room'.baseMd = watcher.body /\ room'.open = None
          /\ room'.again = room.again
      BY <2>5, <3>1 DEF Rooms
    <3>3. InDoc(w)' /\ Sorted(w)' /\ Latest(w)'
      BY <1>0, <2>1, <3>2, EmptyWord DEF Following, Kept, InDoc, Sorted, Latest
    <3>4. Backed(w)'
      BY <1>0, <2>1, <2>2, <3>2 DEF Following, Kept, Backed
    <3>5. Saved(w)' /\ Turns'
      BY <1>0, <1>1, <2>1, <3>2 DEF Following, Kept, Saved, Turns
    <3> QED  BY <3>3, <3>4, <3>5 DEF Kept
  <2> QED  BY <1>7, <2>3, <2>4, <2>5 DEF NoteExternalWrite
<1> QED  BY <1>3, <1>4, <1>5, <1>6, <1>7 DEF WatcherStep

-----------------------------------------------------------------------------
(* The invariant.                                                          *)

(* A trashed object is written no more.                                    *)
LEMMA TrashedStays ==
    ASSUME [Next]_vars, object.deleted
    PROVE  object' = object
BY DEF Next, vars, stored, Type, Strike, OutsideAdds, OutsideStrikes, OutsideEditsProps, Trash,
   FromOutside, Revoke, Fire, FlushStep, ReadBase, Based, CheckRights, WriteRun, Written,
   Reread, Rebase, NextCycle, WatcherStep, Poll, Load, BaseBody, MergeIn, NoteExternalWrite,
   WatcherOnly, Close, LastFlush, Drop, Purge

(* A word that a step leaves alone was alone before it: nobody is taken    *)
(* off a word, and a refusal only where it puts the word back.             *)
LEMMA SafeBefore ==
    ASSUME Types, NEW w \in Words, [Next]_vars, Safe(w)'
    PROVE  Safe(w)
<1>0. /\ author \in [Words -> People] /\ striker \in [Words -> People]
      /\ None \notin Users /\ Outside \notin Users /\ Outside # None
  BY RoomAssumption DEF Types, PeopleTypes
<1>1. ASSUME author'[w] = author[w] \/ author[w] = None,
             striker'[w] = striker[w] \/ striker'[w] # None \/ w \in reverted',
             reverted \subseteq reverted'
      PROVE  Safe(w)
  BY <1>1 DEF Safe
<1>2. ASSUME UNCHANGED history
      PROVE  Safe(w)
  BY <1>1, <1>2 DEF history
<1>3. ASSUME NEW u \in Users, NEW x \in Words, Type(u, x)
      PROVE  Safe(w)
  BY <1>0, <1>1, <1>3 DEF Type
<1>4. ASSUME NEW u \in Users, NEW x \in Words, Strike(u, x)
      PROVE  Safe(w)
  <2>1. striker'[w] = striker[w] \/ striker'[w] # None
    BY <1>0, <1>4 DEF Strike
  <2> QED  BY <1>1, <1>4, <2>1 DEF Strike
<1>5. ASSUME NEW x \in Words, OutsideAdds(x) \/ OutsideStrikes(x)
      PROVE  Safe(w)
  <2>1. author'[w] = author[w] \/ author[w] = None
    BY <1>0, <1>5 DEF OutsideAdds, OutsideStrikes
  <2>2. striker'[w] = striker[w] \/ striker'[w] # None
    BY <1>0, <1>5 DEF OutsideAdds, OutsideStrikes
  <2> QED  BY <1>1, <1>5, <2>1, <2>2 DEF OutsideAdds, OutsideStrikes, FromOutside
<1>6. CASE OutsideEditsProps \/ Trash
  BY <1>1, <1>6 DEF OutsideEditsProps, Trash, FromOutside
<1>7. ASSUME Refuse, author' = author
      PROVE  Safe(w)
  <2>1. striker'[w] = striker[w] \/ w \in reverted'
    BY <1>7 DEF Refuse
  <2>2. reverted \subseteq reverted'
    BY <1>7 DEF Refuse
  <2> QED  BY <1>1, <1>7, <2>1, <2>2
<1>8. CASE CheckRights \/ WriteRun
  BY <1>2, <1>7, <1>8 DEF CheckRights, WriteRun, Steady, UnlessFlushing, history
<1>9. CASE Fire \/ ReadBase \/ Based \/ Written \/ Reread \/ Rebase \/ NextCycle
  BY <1>2, <1>9 DEF Fire, ReadBase, Based, Written, Reread, Rebase, NextCycle,
     Steady, UnlessFlushing, history
<1>10. CASE WatcherStep
  BY <1>2, <1>10 DEF WatcherStep, Poll, Load, BaseBody, MergeIn, NoteExternalWrite, WatcherOnly
<1>11. CASE (\E u \in Users : Revoke(u)) \/ Close \/ LastFlush \/ Drop \/ Purge \/ UNCHANGED vars
  BY <1>2, <1>11 DEF Revoke, Close, LastFlush, Drop, Purge, vars
<1> QED  BY <1>3, <1>4, <1>5, <1>6, <1>8, <1>9, <1>10, <1>11 DEF Next, FlushStep

(* Every step keeps a word nobody takes out.                               *)
LEMMA NextKeeps ==
    ASSUME NEW w, Following(w), [Next]_vars, Safe(w)', ~object'.deleted
    PROVE  Turns' /\ Kept(w)'
<1>1. CASE UNCHANGED vars
  BY <1>1 DEF vars, stored, history, Following, Kept, InDoc, Sorted, Backed, Latest, Saved,
     Turns, Writing
<1>2. CASE FlushStep
  BY <1>2, ReadBaseKeeps, BasedKeeps, CheckRightsKeeps, WriteRunKeeps, WrittenKeeps,
     RereadKeeps, RebaseKeeps, NextCycleKeeps DEF FlushStep
<1>3. ~Purge
  BY DEF Purge, Following, stored
<1> QED
  BY <1>1, <1>2, <1>3, TypeKeeps, StrikeKeeps, OutsideKeeps, RevokeKeeps, PhaseKeeps, BeginKeeps,
     WatcherKeeps DEF Next

(* No word is lost at the start.                                           *)
LEMMA InitKept == Init => NoneLost
<1> SUFFICES ASSUME Init PROVE NoneLost
  OBVIOUS
<1>1. /\ room.runs = <<>> /\ room.open = None /\ room.again = "no"
      /\ room.baseMd = (IF setting.known THEN Initial ELSE Unread)
      /\ flush.pc = "idle" /\ watcher.pc = "idle" /\ phase = "open"
      /\ object.body = Initial /\ doc = Initial \union setting.unsaved
  BY DEF Init, Idle, Resting
<1>2. DOMAIN images = {}
  BY DEF Init
<1>3. ~Writing
  BY <1>1 DEF Writing
<1>4. Turns
  BY <1>1, <1>3 DEF Turns
<1>5. ASSUME NEW w \in Words, Safe(w)
      PROVE  Kept(w)
  <2>1. author[w] \in Users => w \in doc
    BY <1>1, RoomAssumption DEF Init
  <2>2. InDoc(w) /\ Sorted(w)
    BY <1>1, <1>3, <2>1, EmptyWord DEF InDoc, Sorted
  <2>3. Backed(w) /\ Latest(w) /\ Saved(w)
    BY <1>1, <1>2, <1>3 DEF Backed, Latest, Saved
  <2> QED  BY <2>2, <2>3 DEF Kept
<1> QED  BY <1>4, <1>5 DEF NoneLost

(* The invariant says what the property asks.                              *)
LEMMA NoneLostGives == NoneLost => (Orderly => NothingLost)
<1> SUFFICES ASSUME NoneLost, Orderly, ~object.deleted, NEW w \in Words, Safe(w),
                    author[w] \in Users
             PROVE  \/ w \in object.body
                    \/ phase # "gone" /\ w \in doc
                    \/ phase = "gone" /\ ending # "clean"
  BY DEF NothingLost, Safe
<1>1. Kept(w)
  BY DEF NoneLost
<1>2. CASE phase # "gone"
  BY <1>1, <1>2 DEF Kept, InDoc
<1>3. CASE phase = "gone"
  BY <1>1, <1>3 DEF Kept, Saved
<1> QED  BY <1>2, <1>3

(* Every step keeps the invariant, for every word.                         *)
LEMMA NextNoneLost ==
    ASSUME Types, NoneLost, [Next]_vars
    PROVE  NoneLost'
<1> SUFFICES ASSUME Orderly', ~object'.deleted, NEW w \in Words, Safe(w)'
             PROVE  Turns' /\ Kept(w)'
  BY DEF NoneLost
<1>1. Orderly
  BY NextTypes DEF Orderly, Scene
<1>2. ~object.deleted
  BY TrashedStays
<1>3. Safe(w)
  BY SafeBefore
<1>4. Following(w)
  BY <1>1, <1>2, <1>3 DEF NoneLost, Following
<1> QED  BY <1>4, NextKeeps

(* A word typed in the room is in the room or in the object for as long as *)
(* nobody takes it out, no refusal takes it back and the object is not     *)
(* trashed, and a room is dropped without it only after a last flush that  *)
(* did not succeed: whoever else types, writes or is revoked, however      *)
(* often a flush loses its compare-and-swap, and whichever database call   *)
(* fails (flush.ts and bridge.ts, one at a time: Orderly).                 *)
THEOREM NothingIsLost == Spec => [](Orderly => NothingLost)
<1>1. Init => Types /\ NoneLost
  BY InitTypes, InitKept
<1>2. Types /\ NoneLost /\ [Next]_vars => Types' /\ NoneLost'
  BY NextTypes, NextNoneLost
<1>3. NoneLost => (Orderly => NothingLost)
  BY NoneLostGives
<1> QED  BY <1>1, <1>2, <1>3, PTL DEF Spec

-----------------------------------------------------------------------------
(***************************************************************************)
(* Third part: one person in the room and other writers outside it.  What  *)
(* they wrote is not taken back, what the person took out stays out, and   *)
(* every version the room writes holds new words of that person only.      *)
(***************************************************************************)

(***************************************************************************)
(* One person, an ingest and a flush one after the other, a base that was  *)
(* read, no merge refused, no failing write or read after a lost           *)
(* compare-and-swap, and fewer writes outside than a contribution has      *)
(* attempts.  README.md says what is seen without each of them.            *)
(***************************************************************************)
Sole ==
    /\ ~setting.crossing /\ ~setting.overlaps /\ setting.known
    /\ \A u, v \in setting.people : u = v
    /\ setting.errors = 0 \/ setting.fragile \cap {"write", "reread"} = {}
    /\ setting.outside < MaxAttempts

\* baseBody: the body as of a version, from what later changes have kept.
BodyIn(kept, body, v) ==
    LET later == {i \in DOMAIN kept : i >= v}
    IN  IF later = {} THEN body
        ELSE kept[CHOOSE i \in later : \A j \in later : i <= j]

BodyAt(v) == BodyIn(images, object.body, v)

\* What the room was last reconciled to,
Stem ==
    IF watcher.pc = "note" THEN watcher.body
    ELSE IF flush.pc = "written" THEN Head(flush.runs).md
    ELSE IF Writing THEN flush.prev
    ELSE room.baseMd

\* what it falls back to where the flush gives up,
Fallback == IF Writing /\ flush.pc # "written" THEN room.baseMd ELSE Stem

\* what is about to be written,
Draft == IF Writing THEN Head(flush.runs).md ELSE doc

\* and what was read and is not merged yet.
Heard ==
    IF flush.pc = "rebase" THEN flush.got.body
    ELSE IF watcher.pc \in {"base", "merge"} THEN watcher.body
    ELSE Stem

\* A word comes in once, and what came from outside is stored until it is
\* taken out there or here.
Rooted(w) ==
    /\ author[w] = None => striker[w] = None /\ w \notin object.body
    /\ author[w] = Outside /\ striker[w] = None => w \in object.body
    /\ striker[w] = Outside => w \notin object.body
    /\ author[w] \in Users => author[w] \in setting.people \/ w \in setting.unsaved

\* Where a word may be, even if the object is trashed.
Sure(w) ==
    /\ author[w] = None => w \notin Stem \union Fallback \union doc \union Heard
    /\ author[w] # None /\ striker[w] # Outside =>
          /\ w \in Stem \/ w \in Fallback \/ w \in Heard => w \in object.body
          /\ w \in Heard /\ (w \in doc \/ striker[w] \in Users) => w \in Stem
    /\ striker[w] \in Users => w \notin doc

\* A word of the person's, or one the person took out, is stored as the room
\* was reconciled to it; a new one of another writer is nowhere in the room
\* until it is merged; and one taken out outside stays only until then.
Exact(w) ==
    /\ author[w] = None => w \notin Draft
    /\ (author[w] \in Users /\ striker[w] = None) \/ striker[w] \in Users =>
          (w \in Stem <=> w \in object.body) /\ (w \in Heard <=> w \in Stem)
    /\ author[w] \in Users /\ striker[w] = None =>
          (w \in Stem => w \in Draft) /\ (w \in Draft => w \in doc)
    /\ author[w] = Outside /\ striker[w] = None =>
          /\ w \in doc <=> w \in Stem
          /\ w \in Draft <=> w \in Stem
          /\ w \in Stem => w \in Heard
    /\ author[w] = Outside /\ w \notin Stem => w \notin Draft
    /\ striker[w] = Outside /\ w \notin Stem => w \notin doc /\ w \notin Draft

Placed == \A w \in Words : Sure(w) /\ (~object.deleted => Exact(w))

\* Nothing waits in the room behind the one contribution of its one person.
Single ==
    /\ room.runs = <<>> /\ room.baseMd # Unread
    /\ room.open \in setting.people \union {None}
    /\ flush.pc \notin {"read", "based"}
    /\ Writing => /\ Len(flush.runs) = 1
                  /\ Head(flush.runs).carry \/ Head(flush.runs).actor \in setting.people
    /\ room.again = "last" => phase = "flushing"
    /\ Writing /\ flush.last =>
          phase = "flushing" /\ room.open = None /\ Head(flush.runs).md = doc
    /\ watcher.pc # "idle" => flush.pc = "idle" /\ phase # "flushing"

\* The last flush has nothing more to write.
Done == phase = "flushing" /\ room.open = None /\ doc = room.baseMd

\* What is still to come from outside does not use the attempts up.
Lag(v) == IF object.version = v THEN 0 ELSE 1
Ready(v) == setting.outside + Lag(v) < MaxAttempts

Enough ==
    /\ flush.pc = "rebase" =>
          flush.attempt + 1 + setting.outside + Lag(flush.got.version) < MaxAttempts
    /\ watcher.pc \in {"base", "merge"} => Ready(watcher.version)
    /\ ~object.deleted =>
          /\ flush.pc \in {"idle", "after"} => Done \/ Ready(base)
          /\ flush.pc = "check" => Ready(flush.at)
          /\ flush.pc = "write" => flush.attempt + setting.outside + Lag(flush.at) < MaxAttempts
          /\ flush.pc = "reread" => flush.attempt + 1 + setting.outside < MaxAttempts
          /\ flush.pc = "written" => Ready(flush.got.version)

\* The versions the room, the flush and the watcher name are those of the
\* bodies they were reconciled to.
FlushAt ==
    ~object.deleted =>
        /\ flush.pc \in {"idle", "after"} /\ watcher.pc # "note" =>
              Done \/ (base <= object.version /\ room.baseMd = BodyAt(base))
        /\ flush.pc \in {"check", "write", "reread", "rebase"} =>
              base <= flush.at /\ flush.at <= object.version /\ flush.prev = BodyAt(flush.at)
        /\ flush.pc = "check" => flush.at = base
        /\ flush.pc = "rebase" =>
              /\ base <= flush.got.version /\ flush.got.version <= object.version
              /\ flush.got.body = BodyAt(flush.got.version)
        /\ flush.pc = "written" =>
              /\ base < flush.got.version /\ flush.got.version <= object.version
              /\ Head(flush.runs).md = BodyAt(flush.got.version)

WatcherAt ==
    /\ watcher.pc = "load" => watcher.base = base
    /\ watcher.pc \in {"base", "merge"} =>
          /\ watcher.base = base /\ base < watcher.version /\ room.baseMd = BodyAt(base)
    /\ watcher.pc \in {"base", "merge", "note"} =>
          watcher.version <= object.version /\ watcher.body = BodyAt(watcher.version)
    /\ watcher.pc = "merge" => watcher.from = room.baseMd
    /\ watcher.pc = "note" => base = watcher.version

Reconciled == (\A i \in DOMAIN images : i < object.version) /\ FlushAt /\ WatcherAt

\* The inductive invariant, but for the types.
Live == Single /\ Enough /\ Reconciled /\ Placed

SoleInv ==
    /\ Sole
    /\ \A w \in Words : Rooted(w)
    /\ phase = "gone" => object.deleted \/ flush.pc = "idle"
    /\ phase = "gone" \/ Live

Alive == Types /\ Sole /\ (\A w \in Words : Rooted(w)) /\ phase # "gone" /\ Live

-----------------------------------------------------------------------------
(* The setting.                                                            *)

(* A step uses up at most one thing that may go wrong.                     *)
LEMMA OneBound ==
  ASSUME [Next]_vars
  PROVE  \/ setting' = setting
         \/ \E bound \in {"errors", "strikes", "outside", "revoked"} :
               setting[bound] > 0 /\ setting' = [setting EXCEPT ![bound] = @ - 1]
<1>1. CASE UNCHANGED vars
  BY <1>1 DEF vars
<1>2. ASSUME NEW call, Failing(call)
      PROVE  setting["errors"] > 0 /\ setting' = [setting EXCEPT !["errors"] = @ - 1]
  BY <1>2 DEF Failing
<1>3. ASSUME NEW u \in Users, NEW w \in Words, Type(u, w) \/ Strike(u, w)
      PROVE  \/ setting' = setting
             \/ setting["strikes"] > 0 /\ setting' = [setting EXCEPT !["strikes"] = @ - 1]
  BY <1>3 DEF Type, Strike
<1>4. ASSUME \/ \E w \in Words : OutsideAdds(w) \/ OutsideStrikes(w)
             \/ OutsideEditsProps \/ Trash
      PROVE  setting["outside"] > 0 /\ setting' = [setting EXCEPT !["outside"] = @ - 1]
  BY <1>4 DEF OutsideAdds, OutsideStrikes, OutsideEditsProps, Trash, FromOutside
<1>5. ASSUME NEW u \in Users, Revoke(u)
      PROVE  setting["revoked"] > 0 /\ setting' = [setting EXCEPT !["revoked"] = @ - 1]
  BY <1>5 DEF Revoke
<1>6. CASE Fire \/ Close \/ LastFlush \/ Drop \/ Purge \/ Based \/ Written \/ Rebase \/ NextCycle
              \/ Poll \/ MergeIn \/ NoteExternalWrite
  BY <1>6 DEF Fire, Close, LastFlush, Drop, Purge, Based, Written, Rebase, NextCycle,
     Poll, MergeIn, NoteExternalWrite
<1>7. CASE ReadBase \/ CheckRights \/ WriteRun \/ Reread \/ Load \/ BaseBody
  <2>1. setting' = setting \/ \E call \in {"read", "rights", "write", "reread", "watch"} : Failing(call)
    BY <1>7 DEF ReadBase, CheckRights, WriteRun, Reread, Load, BaseBody
  <2> QED  BY <1>2, <2>1
<1> QED  BY <1>1, <1>3, <1>4, <1>5, <1>6, <1>7 DEF Next, FlushStep, WatcherStep

(* So the rest of the setting stays, and what may go wrong gets less.      *)
LEMMA SoleStays ==
  ASSUME Types, [Next]_vars
  PROVE  /\ setting'.people = setting.people /\ setting'.unsaved = setting.unsaved
         /\ setting'.outside <= setting.outside /\ setting'.outside \in Nat
         /\ setting.outside \in Nat
         /\ Sole => Sole'
<1>1. setting \in Setting
  BY DEF Types, PeopleTypes
<1>2. /\ setting.errors \in Nat /\ setting.strikes \in Nat /\ setting.outside \in Nat
      /\ setting.revoked \in Nat
  BY <1>1 DEF Setting
<1>3. ASSUME setting' = setting
      PROVE  /\ setting'.fragile = setting.fragile /\ setting'.outside <= setting.outside
             /\ setting.errors = 0 => setting'.errors = 0
             /\ setting'.outside \in Nat
  BY <1>2, <1>3
<1>4. ASSUME NEW bound \in {"errors", "strikes", "outside", "revoked"}, setting[bound] > 0,
             setting' = [setting EXCEPT ![bound] = @ - 1]
      PROVE  /\ setting'.fragile = setting.fragile /\ setting'.outside <= setting.outside
             /\ setting.errors = 0 => setting'.errors = 0
             /\ setting'.outside \in Nat
  BY <1>1, <1>2, <1>4 DEF Setting
<1>5. Scene(setting') = Scene(setting)
  BY NextTypes
<1>6. /\ setting'.crossing = setting.crossing /\ setting'.people = setting.people
      /\ setting'.unsaved = setting.unsaved /\ setting'.known = setting.known
      /\ setting'.overlaps = setting.overlaps
  BY <1>5 DEF Scene
<1>7. MaxAttempts \in Nat
  BY RoomAssumption
<1> QED  BY <1>2, <1>3, <1>4, <1>6, <1>7, OneBound DEF Sole

-----------------------------------------------------------------------------
(* Versions and bodies.                                                    *)

(* A commit makes no version looked up before another body, and its own    *)
(* version is the body it put in.                                          *)
LEMMA BodyOfCommit ==
  ASSUME RowTypes, \A i \in DOMAIN images : i < object.version,
         NEW text \in SUBSET Words, Commit(text)
  PROVE  /\ \A i \in DOMAIN images' : i < object'.version
         /\ \A v \in Nat : v <= object.version =>
              BodyIn(images', text, v) = BodyIn(images, object.body, v)
         /\ BodyIn(images', text, object.version + 1) = text
<1>1. object.version \in Nat /\ DOMAIN images \subseteq Nat
  BY DEF RowTypes, Rows
<1>3. /\ DOMAIN images' = DOMAIN images \union {object.version}
      /\ images'[object.version] = object.body
      /\ \A i \in DOMAIN images : images'[i] = images[i]
      /\ object'.version = object.version + 1
  <2>1. object.version \notin DOMAIN images
    BY <1>1
  <2> QED  BY <2>1, CommitTypes
<1>4. ASSUME NEW v \in Nat, v <= object.version
      PROVE  BodyIn(images', text, v) = BodyIn(images, object.body, v)
  <2> DEFINE later == {i \in DOMAIN images : i >= v}
             newer == {i \in DOMAIN images' : i >= v}
  <2>1. newer = later \union {object.version}
    BY <1>1, <1>3, <1>4
  <2>2. CASE later = {}
    <3>1. newer = {object.version}
      BY <2>1, <2>2
    <3>2. (CHOOSE i \in newer : \A j \in newer : i <= j) = object.version
      BY <1>1, <3>1
    <3> QED  BY <1>3, <2>2, <3>1, <3>2 DEF BodyIn
  <2>3. CASE later # {}
    <3>1. later \in SUBSET Nat
      BY <1>1
    <3>2. PICK n \in later : \A m \in later : n <= m
      BY <2>3, <3>1, Least
    <3>3. (CHOOSE i \in later : \A j \in later : i <= j) = n
      <4>1. ASSUME NEW k \in later, \A j \in later : k <= j  PROVE k = n
        BY <3>1, <3>2, <4>1
      <4> HIDE DEF later
      <4> QED  BY <3>2, <4>1
    <3>4. n \in newer /\ \A m \in newer : n <= m
      BY <1>1, <2>1, <3>1, <3>2
    <3>5. (CHOOSE i \in newer : \A j \in newer : i <= j) = n
      <4>1. newer \in SUBSET Nat
        BY <1>1, <2>1, <3>1
      <4>2. ASSUME NEW k \in newer, \A j \in newer : k <= j  PROVE k = n
        BY <4>1, <3>4, <4>2
      <4> HIDE DEF newer
      <4> QED  BY <3>4, <4>2
    <3>6. n \in DOMAIN images /\ newer # {}
      BY <3>2, <3>4
    <3> QED  BY <1>3, <2>3, <3>3, <3>5, <3>6 DEF BodyIn
  <2> QED  BY <2>2, <2>3
<1>5. BodyIn(images', text, object.version + 1) = text
  <2>1. \A i \in DOMAIN images' : i \in Nat /\ i < object.version + 1
    BY <1>1, <1>3
  <2>2. {i \in DOMAIN images' : i >= object.version + 1} = {}
    BY <1>1, <2>1
  <2> QED  BY <2>2 DEF BodyIn
<1>6. \A i \in DOMAIN images' : i < object'.version
  BY <1>1, <1>3
<1> QED  BY <1>4, <1>5, <1>6

(* The newest version is the object as it is.                              *)
LEMMA NewestBody ==
  ASSUME RowTypes, \A i \in DOMAIN images : i < object.version
  PROVE  BodyAt(object.version) = object.body
<1>1. {i \in DOMAIN images : i >= object.version} = {}
  BY DEF RowTypes, Rows
<1> QED  BY <1>1 DEF BodyIn, BodyAt

-----------------------------------------------------------------------------
(* Where the texts are.                                                    *)

Views ==
    /\ watcher.pc = "note" => Stem = watcher.body
    /\ watcher.pc # "note" /\ flush.pc = "written" => Stem = Head(flush.runs).md
    /\ watcher.pc # "note" /\ flush.pc \in {"check", "write", "reread", "rebase"} =>
          Stem = flush.prev
    /\ watcher.pc # "note" /\ flush.pc \in {"idle", "after"} => Stem = room.baseMd
    /\ flush.pc \in {"check", "write", "reread", "rebase"} => Fallback = room.baseMd
    /\ flush.pc \in {"idle", "after", "written"} => Fallback = Stem
    /\ Writing => Draft = Head(flush.runs).md
    /\ ~Writing => Draft = doc
    /\ flush.pc = "rebase" => Heard = flush.got.body
    /\ flush.pc # "rebase" /\ watcher.pc \in {"base", "merge"} => Heard = watcher.body
    /\ flush.pc # "rebase" /\ watcher.pc \notin {"base", "merge"} => Heard = Stem

\* This is what the definitions say,
LEMMA ViewsNow == Views
BY DEF Views, Stem, Fallback, Draft, Heard, Writing

\* before a step and after it.
LEMMA ViewsNext == Views'
BY ViewsNow, PTL

(* A step that moves no word: what was heard may be let go, and what was   *)
(* about to be written may be, for the text as it is.                      *)
LEMMA Unmoved ==
  ASSUME Placed, PeopleTypes, doc' = doc, author' = author, striker' = striker,
         object'.body = object.body, ~object'.deleted => ~object.deleted,
         Stem' = Stem, Fallback' = Fallback \/ Fallback' = Stem,
         Heard' = Heard \/ Heard' = Stem, Draft' = Draft \/ Draft' = doc
  PROVE  Placed'
<1> SUFFICES ASSUME NEW w \in Words  PROVE Sure(w)' /\ (~object'.deleted => Exact(w)')
  BY DEF Placed
<1>1. Sure(w) /\ (~object.deleted => Exact(w))
  BY DEF Placed
<1>2. author[w] \in People /\ striker[w] \in People
  BY DEF PeopleTypes
<1>3. Sure(w)'
  BY <1>1 DEF Sure
<1>4. ASSUME ~object'.deleted  PROVE Exact(w)'
  BY <1>1, <1>2, <1>4, RoomAssumption DEF Sure, Exact, People
<1> QED  BY <1>3, <1>4

(* The object is read: what is heard is the object.                        *)
LEMMA Heeded ==
  ASSUME Placed, PeopleTypes, \A w \in Words : Rooted(w), ~object.deleted,
         doc' = doc, author' = author, striker' = striker, object' = object,
         Stem' = Stem, Fallback' = Fallback, Heard' = object.body, Draft' = Draft
  PROVE  Placed'
<1> SUFFICES ASSUME NEW w \in Words  PROVE Sure(w)' /\ Exact(w)'
  BY DEF Placed
<1>1. Sure(w) /\ Exact(w) /\ Rooted(w)
  BY DEF Placed
<1>2. author[w] \in People /\ striker[w] \in People
  BY DEF PeopleTypes
<1>3. Sure(w)'
  BY <1>1, <1>2, RoomAssumption DEF Sure, Exact, Rooted, People
<1>4. Exact(w)'
  BY <1>1, <1>2, RoomAssumption DEF Sure, Exact, Rooted, People
<1> QED  BY <1>3, <1>4

(* What was heard is merged into the text and under what waits.            *)
LEMMA Merged ==
  ASSUME Placed, PeopleTypes, author' = author, striker' = striker, object' = object,
         doc' = Merge(doc, Stem, Heard), Draft' = Merge(Draft, Stem, Heard),
         Stem' = Heard, Fallback' = Fallback \/ Fallback' = Heard, Heard' = Heard
  PROVE  Placed'
<1> SUFFICES ASSUME NEW w \in Words  PROVE Sure(w)' /\ (~object'.deleted => Exact(w)')
  BY DEF Placed
<1>1. Sure(w) /\ (~object.deleted => Exact(w))
  BY DEF Placed
<1>2. author[w] \in People /\ striker[w] \in People
  BY DEF PeopleTypes
<1>3. /\ w \in doc' <=> (w \in doc /\ ~(w \in Stem /\ w \notin Heard)) \/ (w \in Heard /\ w \notin Stem)
      /\ w \in Draft' <=>
            (w \in Draft /\ ~(w \in Stem /\ w \notin Heard)) \/ (w \in Heard /\ w \notin Stem)
  BY DEF Merge
<1>4. Sure(w)'
  BY <1>1, <1>2, <1>3, RoomAssumption DEF Sure, People
<1>5. ASSUME ~object'.deleted  PROVE Exact(w)'
  BY <1>1, <1>2, <1>3, <1>5, RoomAssumption DEF Sure, Exact, People
<1> QED  BY <1>4, <1>5

(* What was about to be written is.                                        *)
LEMMA Stored ==
  ASSUME Placed, PeopleTypes, \A w \in Words : Rooted(w), ~object.deleted,
         setting' = setting, doc' = doc, author' = author, striker' = striker, Stem = object.body,
         object'.body = Draft, Draft' = Draft, Stem' = Draft, Fallback' = Draft, Heard' = Draft
  PROVE  Placed' /\ \A w \in Words : Rooted(w)'
<1> SUFFICES ASSUME NEW w \in Words  PROVE Sure(w)' /\ Exact(w)' /\ Rooted(w)'
  BY DEF Placed
<1>1. Sure(w) /\ Exact(w) /\ Rooted(w)
  BY DEF Placed
<1>2. author[w] \in People /\ striker[w] \in People
  BY DEF PeopleTypes
<1>3. Sure(w)'
  BY <1>1, <1>2, RoomAssumption DEF Sure, Exact, Rooted, People
<1>4. Exact(w)'
  BY <1>1, <1>2, RoomAssumption DEF Sure, Exact, Rooted, People
<1>5. Rooted(w)'
  BY <1>1, <1>2, RoomAssumption DEF Sure, Exact, Rooted, People
<1> QED  BY <1>3, <1>4, <1>5

(* A new word of the person's is in the text, and in what is about to be   *)
(* written if nothing is being written.                                    *)
LEMMA Typed ==
  ASSUME Placed, PeopleTypes, \A w \in Words : Rooted(w),
         NEW u \in Users, NEW n \in Words, author[n] = None,
         author' = [author EXCEPT ![n] = u], striker' = striker, object' = object,
         doc' = doc \union {n}, Draft' = Draft \/ (Draft = doc /\ Draft' = doc'),
         Stem' = Stem, Fallback' = Fallback, Heard' = Heard
  PROVE  Placed'
<1> SUFFICES ASSUME NEW w \in Words  PROVE Sure(w)' /\ (~object'.deleted => Exact(w)')
  BY DEF Placed
<1>1. Sure(w) /\ (~object.deleted => Exact(w)) /\ Rooted(w)
  BY DEF Placed
<1>2. author[w] \in People /\ striker[w] \in People /\ author'[w] = IF w = n THEN u ELSE author[w]
  BY DEF PeopleTypes
<1>3. Sure(w)'
  BY <1>1, <1>2, RoomAssumption DEF Sure, Rooted, People
<1>4. ASSUME ~object'.deleted  PROVE Exact(w)'
  BY <1>1, <1>2, <1>4, RoomAssumption DEF Sure, Exact, Rooted, People
<1> QED  BY <1>3, <1>4

(* A word the person takes out was merged into the room before.            *)
LEMMA Struck ==
  ASSUME Placed, PeopleTypes, \A w \in Words : Rooted(w),
         NEW u \in Users, NEW n \in Words, n \in doc,
         striker' = [striker EXCEPT ![n] = IF @ = None THEN u ELSE @],
         author' = author, object' = object,
         doc' = doc \ {n}, Draft' = Draft \/ (Draft = doc /\ Draft' = doc'),
         Stem' = Stem, Fallback' = Fallback, Heard' = Heard
  PROVE  Placed'
<1> SUFFICES ASSUME NEW w \in Words  PROVE Sure(w)' /\ (~object'.deleted => Exact(w)')
  BY DEF Placed
<1>1. Sure(w) /\ (~object.deleted => Exact(w)) /\ Rooted(w)
  BY DEF Placed
<1>2. /\ author[w] \in People /\ striker[w] \in People
      /\ striker'[w] = IF w = n /\ striker[w] = None THEN u ELSE striker[w]
  BY DEF PeopleTypes
<1>3. Sure(w)'
  BY <1>1, <1>2, RoomAssumption DEF Sure, Rooted, People
<1>4. ASSUME ~object'.deleted  PROVE Exact(w)'
  BY <1>1, <1>2, <1>4, RoomAssumption DEF Sure, Exact, Rooted, People
<1> QED  BY <1>3, <1>4

(* A word put in or taken out outside is not in the room's texts, or stays *)
(* in them.                                                                *)
LEMMA FromOthers ==
  ASSUME Placed, PeopleTypes, \A w \in Words : Rooted(w), NEW n \in Words,
         \/ /\ author[n] = None /\ object'.body = object.body \union {n}
            /\ author' = [author EXCEPT ![n] = Outside] /\ striker' = striker
         \/ /\ n \in object.body /\ object'.body = object.body \ {n}
            /\ striker' = [striker EXCEPT ![n] = Outside] /\ author' = author,
         ~object.deleted,
         doc' = doc, Draft' = Draft, Stem' = Stem, Fallback' = Fallback, Heard' = Heard
  PROVE  Placed'
<1> SUFFICES ASSUME NEW w \in Words  PROVE Sure(w)' /\ Exact(w)'
  BY DEF Placed
<1>1. Sure(w) /\ Exact(w) /\ Rooted(w)
  BY DEF Placed
<1>2. author[w] \in People /\ striker[w] \in People
  BY DEF PeopleTypes
<1>3. CASE author[n] = None /\ object'.body = object.body \union {n}
              /\ author' = [author EXCEPT ![n] = Outside] /\ striker' = striker
  <2>1. author'[w] = IF w = n THEN Outside ELSE author[w]
    BY <1>3 DEF PeopleTypes
  <2>2. Sure(w)'
    BY <1>1, <1>2, <1>3, <2>1, RoomAssumption DEF Sure, Rooted, People
  <2>3. Exact(w)'
    BY <1>1, <1>2, <1>3, <2>1, RoomAssumption DEF Sure, Exact, Rooted, People
  <2> QED  BY <2>2, <2>3
<1>4. CASE n \in object.body /\ object'.body = object.body \ {n}
              /\ striker' = [striker EXCEPT ![n] = Outside] /\ author' = author
  <2>1. striker'[w] = IF w = n THEN Outside ELSE striker[w]
    BY <1>4 DEF PeopleTypes
  <2>2. Sure(w)'
    BY <1>1, <1>2, <1>4, <2>1, RoomAssumption DEF Sure, Rooted, People
  <2>3. Exact(w)'
    BY <1>1, <1>2, <1>4, <2>1, RoomAssumption DEF Sure, Exact, Rooted, People
  <2> QED  BY <2>2, <2>3
<1> QED  BY <1>3, <1>4

(* A refusal takes the room back to what it was reconciled to.             *)
LEMMA TakenBack ==
  ASSUME Placed, PeopleTypes, \A w \in Words : Rooted(w), Heard = Stem, doc' = Stem,
         striker' = [w \in Words |->
             IF w \in (Stem \ doc) \cap object.body /\ striker[w] \in Users
             THEN None ELSE striker[w]],
         author' = author, object' = object, setting' = setting \/ \E call : Failing(call),
         Stem' = Stem, Fallback' = Stem, Heard' = Stem, Draft' = Stem
  PROVE  Placed' /\ \A w \in Words : Rooted(w)'
<1> SUFFICES ASSUME NEW w \in Words
             PROVE Sure(w)' /\ (~object'.deleted => Exact(w)') /\ Rooted(w)'
  BY DEF Placed
<1>1. Sure(w) /\ (~object.deleted => Exact(w)) /\ Rooted(w)
  BY DEF Placed
<1>2. /\ author[w] \in People /\ striker[w] \in People
      /\ striker'[w] = IF w \in Stem /\ w \notin doc /\ w \in object.body /\ striker[w] \in Users
                       THEN None ELSE striker[w]
  BY DEF PeopleTypes
<1>3. setting'.people = setting.people /\ setting'.unsaved = setting.unsaved
  BY FailingCounts DEF Scene
<1>4. Sure(w)'
  BY <1>1, <1>2, RoomAssumption DEF Sure, Rooted, People
<1>5. ASSUME ~object'.deleted  PROVE Exact(w)'
  BY <1>1, <1>2, <1>5, RoomAssumption DEF Sure, Exact, Rooted, People
<1>6. Rooted(w)'
  BY <1>1, <1>2, <1>3, RoomAssumption DEF Sure, Rooted, People
<1> QED  BY <1>4, <1>5, <1>6

-----------------------------------------------------------------------------
(* What the steps of the person, of the writers outside and of the rights  *)
(* do to a live room.                                                      *)

\* The numbers the invariant compares.
LEMMA Counts ==
  ASSUME Types
  PROVE  /\ object.version \in Nat /\ base \in Nat /\ flush.at \in Nat /\ flush.attempt \in Nat
         /\ setting.outside \in Nat /\ watcher.version \in Nat /\ MaxAttempts \in Nat
         /\ flush.pc \in {"written", "rebase"} => flush.got.version \in Nat
         /\ object.deleted \in BOOLEAN /\ flush.last \in BOOLEAN
BY RoomAssumption DEF Types, RowTypes, Rows, FlushTypes, Calls, PeopleTypes, Setting, Ingests

\* Every version has the body it had.
LEMMA SameBodies ==
  ASSUME object' = object, images' = images
  PROVE  \A v : BodyAt(v)' = BodyAt(v) /\ Lag(v)' = Lag(v)
BY DEF BodyAt, BodyIn, Lag

(* A step that leaves the row, the flush and the watcher, and what they    *)
(* were reconciled to.                                                     *)
LEMMA Aside ==
  ASSUME Alive, object' = object, images' = images, base' = base, watcher' = watcher,
         flush' = flush, room'.baseMd = room.baseMd, setting'.outside = setting.outside,
         Done => Done'
  PROVE  Enough' /\ Reconciled'
<1>1. Enough /\ Reconciled
  BY DEF Alive, Live
<1>2. \A v : BodyAt(v)' = BodyAt(v) /\ Lag(v)' = Lag(v)
  BY SameBodies
<1>3. Enough'
  BY <1>1, <1>2 DEF Enough, Ready
<1>4. FlushAt'
  BY <1>1, <1>2 DEF Reconciled, FlushAt
<1>5. WatcherAt'
  BY <1>1, <1>2 DEF Reconciled, WatcherAt
<1> QED  BY <1>1, <1>3, <1>4, <1>5 DEF Reconciled

\* With the flush, the watcher and the base of the room as they were.
LEMMA SameViews ==
  ASSUME watcher' = watcher, flush' = flush, room'.baseMd = room.baseMd
  PROVE  /\ Stem' = Stem /\ Fallback' = Fallback /\ Heard' = Heard
         /\ Writing => Draft' = Draft
         /\ ~Writing => Draft = doc /\ Draft' = doc'
BY DEF Stem, Fallback, Heard, Draft, Writing

\* The person's own edits leave the room in one contribution.
LEMMA Contributes ==
  ASSUME Alive, NEW u \in Users, MayType(u), Contribution(u), flush' = flush,
         watcher' = watcher, phase' = phase, setting'.people = setting.people
  PROVE  Single' /\ room'.baseMd = room.baseMd /\ phase' = "open"
<1>1. room \in Rooms /\ doc \in SUBSET Words /\ None \notin Users
  BY RoomAssumption DEF Alive, Types
<1>2. /\ room'.open = u /\ room'.baseMd = room.baseMd /\ room'.again = room.again
      /\ room'.runs = IF room.open = u THEN room.runs ELSE Closed(room.runs, room.open, doc)
  BY <1>1, ContributionDoes
<1>3. u \in setting.people /\ phase = "open"
  BY DEF MayType
<1>4. Single /\ \A v \in setting.people : v = u
  BY <1>3 DEF Alive, Live, Sole
<1>5. room'.runs = <<>>
  BY <1>2, <1>4 DEF Single, Closed
<1> QED  BY <1>2, <1>3, <1>4, <1>5 DEF Single, Writing

(* The person types a word.                                                *)
LEMMA TypeLives ==
  ASSUME Alive, NEW u \in Users, NEW w \in Words, Type(u, w)
  PROVE  Live' /\ \A x \in Words : Rooted(x)'
<1>1. /\ MayType(u) /\ author[w] = None /\ Contribution(u)
      /\ author' = [author EXCEPT ![w] = u] /\ doc' = doc \union {w}
      /\ object' = object /\ images' = images /\ base' = base /\ flush' = flush
      /\ watcher' = watcher /\ phase' = phase /\ setting' = setting /\ striker' = striker
  BY DEF Type, stored
<1>2. Single' /\ room'.baseMd = room.baseMd /\ phase = "open"
  BY <1>1, Contributes
<1>3. Enough' /\ Reconciled'
  BY <1>1, <1>2, Aside DEF Done
<1>4. Placed /\ PeopleTypes /\ \A x \in Words : Rooted(x)
  BY DEF Alive, Live, Types
<1>5. Placed'
  BY <1>1, <1>2, <1>4, SameViews, Typed
<1>6. ASSUME NEW x \in Words  PROVE Rooted(x)'
  <2>1. Rooted(x) /\ author'[x] = IF x = w THEN u ELSE author[x]
    BY <1>1, <1>4 DEF PeopleTypes
  <2>2. u \in setting.people /\ u # None /\ u # Outside
    BY <1>1, RoomAssumption DEF MayType
  <2> QED  BY <1>1, <2>1, <2>2 DEF Rooted
<1> QED  BY <1>2, <1>3, <1>5, <1>6 DEF Live

(* The person takes a word out.                                            *)
LEMMA StrikeLives ==
  ASSUME Alive, NEW u \in Users, NEW w \in Words, Strike(u, w)
  PROVE  Live' /\ \A x \in Words : Rooted(x)'
<1>1. /\ MayType(u) /\ w \in doc /\ Contribution(u) /\ doc' = doc \ {w}
      /\ striker' = [striker EXCEPT ![w] = IF @ = None THEN u ELSE @]
      /\ object' = object /\ images' = images /\ base' = base /\ flush' = flush
      /\ watcher' = watcher /\ phase' = phase /\ author' = author
      /\ setting' = [setting EXCEPT !.strikes = @ - 1]
  BY DEF Strike, stored
<1>2. /\ setting'.outside = setting.outside /\ setting'.people = setting.people
      /\ setting'.unsaved = setting.unsaved
  BY <1>1 DEF Alive, Types, PeopleTypes, Setting
<1>3. Single' /\ room'.baseMd = room.baseMd /\ phase = "open"
  BY <1>1, <1>2, Contributes
<1>4. Enough' /\ Reconciled'
  BY <1>1, <1>2, <1>3, Aside DEF Done
<1>5. Placed /\ PeopleTypes /\ \A x \in Words : Rooted(x)
  BY DEF Alive, Live, Types
<1>6. Placed'
  BY <1>1, <1>3, <1>5, SameViews, Struck
<1>7. ASSUME NEW x \in Words  PROVE Rooted(x)'
  <2>1. Rooted(x) /\ Sure(x)
        /\ striker'[x] = IF x = w /\ striker[x] = None THEN u ELSE striker[x]
    BY <1>1, <1>5 DEF PeopleTypes, Placed
  <2>2. u # None /\ u # Outside
    BY RoomAssumption
  <2> QED  BY <1>1, <1>2, <2>1, <2>2 DEF Rooted, Sure
<1> QED  BY <1>3, <1>4, <1>6, <1>7 DEF Live

\* What is written outside comes with a version and takes one of the bound.
LEMMA OutsideAside ==
  ASSUME Alive, FromOutside, object'.version = object.version + 1,
         \A v \in Nat : v <= object.version => BodyAt(v)' = BodyAt(v),
         \A i \in DOMAIN images' : i < object'.version
  PROVE  /\ Single' /\ Enough' /\ Reconciled'
         /\ setting'.people = setting.people /\ setting'.unsaved = setting.unsaved
         /\ doc' = doc /\ Stem' = Stem /\ Fallback' = Fallback /\ Heard' = Heard /\ Draft' = Draft
         /\ ~object.deleted
<1>1. /\ setting.outside > 0 /\ setting' = [setting EXCEPT !.outside = @ - 1]
      /\ ~object.deleted /\ doc' = doc /\ base' = base /\ room' = room /\ flush' = flush
      /\ watcher' = watcher /\ phase' = phase
  BY DEF FromOutside
<1>2. /\ setting'.outside = setting.outside - 1 /\ setting'.people = setting.people
      /\ setting'.unsaved = setting.unsaved
  BY <1>1 DEF Alive, Types, PeopleTypes, Setting
<1>3. Single /\ Enough /\ Reconciled /\ Types
  BY DEF Alive, Live
<1>4. Single'
  BY <1>1, <1>2, <1>3 DEF Single, Writing
<1>5. \A v \in Nat : v <= object.version =>
        setting'.outside + Lag(v)' <= setting.outside + Lag(v) /\ Lag(v) \in Nat /\ Lag(v)' \in Nat
  BY <1>2, <1>3, Counts DEF Lag
<1>6. Done' <=> Done
  BY <1>1 DEF Done
<1>7. FlushAt'
  BY <1>1, <1>3, <1>6, Counts DEF Reconciled, FlushAt
<1>8. WatcherAt'
  BY <1>1, <1>3, Counts DEF Reconciled, WatcherAt
<1>9. Enough'
  BY <1>1, <1>2, <1>3, <1>6, Counts DEF Enough, Ready, Lag
<1> QED  BY <1>1, <1>2, <1>4, <1>7, <1>8, <1>9, SameViews DEF Reconciled, Draft, Writing

(* What is put in or taken out outside is so in the object.                *)
LEMMA OutsideRooted ==
  ASSUME Types, \A x \in Words : Rooted(x),
         \/ \E w \in Words : OutsideAdds(w) \/ OutsideStrikes(w)
         \/ OutsideEditsProps \/ Trash
  PROVE  \A x \in Words : Rooted(x)'
<1>0. RowTypes /\ PeopleTypes
  BY DEF Types
<1>1. setting'.people = setting.people /\ setting'.unsaved = setting.unsaved
  BY OutsideTypes DEF Scene
<1> SUFFICES ASSUME NEW x \in Words  PROVE Rooted(x)'
  OBVIOUS
<1>2. ASSUME NEW w \in Words, OutsideAdds(w)  PROVE Rooted(x)'
  <2>1. /\ author[w] = None /\ author' = [author EXCEPT ![w] = Outside] /\ striker' = striker
        /\ Commit(object.body \union {w}) /\ object.body \union {w} \in SUBSET Words
    BY <1>0, <1>2 DEF OutsideAdds, RowTypes, Rows
  <2>2. object'.body = object.body \union {w}
    BY <1>0, <2>1, CommitTypes
  <2>3. Rooted(x) /\ author'[x] = IF x = w THEN Outside ELSE author[x]
    BY <1>0, <2>1 DEF PeopleTypes
  <2> QED  BY <1>1, <2>1, <2>2, <2>3, RoomAssumption DEF Rooted
<1>3. ASSUME NEW w \in Words, OutsideStrikes(w)  PROVE Rooted(x)'
  <2>1. /\ w \in object.body /\ striker' = [striker EXCEPT ![w] = Outside] /\ author' = author
        /\ Commit(object.body \ {w}) /\ object.body \ {w} \in SUBSET Words
    BY <1>0, <1>3 DEF OutsideStrikes, RowTypes, Rows
  <2>2. object'.body = object.body \ {w}
    BY <1>0, <2>1, CommitTypes
  <2>3. Rooted(x) /\ striker'[x] = IF x = w THEN Outside ELSE striker[x]
    BY <1>0, <2>1 DEF PeopleTypes
  <2> QED  BY <1>1, <2>1, <2>2, <2>3, RoomAssumption DEF Rooted
<1>4. CASE OutsideEditsProps \/ Trash
  <2>1. object'.body = object.body /\ author' = author /\ striker' = striker
    BY <1>0, <1>4 DEF OutsideEditsProps, Trash, RowTypes, Rows
  <2> QED  BY <1>1, <2>1 DEF Rooted
<1> QED  BY <1>2, <1>3, <1>4

(* Another writer adds to the object, takes from it, edits what is not the *)
(* text, or trashes it.                                                    *)
LEMMA OutsideLives ==
  ASSUME Alive, \/ \E w \in Words : OutsideAdds(w) \/ OutsideStrikes(w)
                \/ OutsideEditsProps \/ Trash
  PROVE  Live' /\ \A x \in Words : Rooted(x)'
<1>0. /\ Types /\ RowTypes /\ PeopleTypes /\ Placed /\ \A x \in Words : Rooted(x)
      /\ \A i \in DOMAIN images : i < object.version
  BY DEF Alive, Types, Live, Reconciled
<1>1. \A x \in Words : Rooted(x)'
  BY <1>0, OutsideRooted
<1>2. ASSUME NEW w \in Words, NEW text \in SUBSET Words, Commit(text), FromOutside,
             \/ /\ author[w] = None /\ text = object.body \union {w}
                /\ author' = [author EXCEPT ![w] = Outside] /\ striker' = striker
             \/ /\ w \in object.body /\ text = object.body \ {w}
                /\ striker' = [striker EXCEPT ![w] = Outside] /\ author' = author
      PROVE  Live'
  <2>1. /\ object'.body = text /\ object'.version = object.version + 1
        /\ \A i \in DOMAIN images' : i < object'.version
        /\ \A v \in Nat : v <= object.version => BodyAt(v)' = BodyAt(v)
    BY <1>0, <1>2, CommitTypes, BodyOfCommit DEF BodyAt
  <2>2. /\ Single' /\ Enough' /\ Reconciled' /\ ~object.deleted
        /\ doc' = doc /\ Stem' = Stem /\ Fallback' = Fallback /\ Heard' = Heard /\ Draft' = Draft
    BY <1>2, <2>1, OutsideAside
  <2>3. Placed'
    BY <1>0, <1>2, <2>1, <2>2, FromOthers
  <2> QED  BY <2>2, <2>3 DEF Live
<1>3. ASSUME NEW w \in Words, OutsideAdds(w)  PROVE Live'
  <2>1. object.body \union {w} \in SUBSET Words
    BY <1>0 DEF RowTypes, Rows
  <2> QED  BY <1>2, <1>3, <2>1 DEF OutsideAdds
<1>4. ASSUME NEW w \in Words, OutsideStrikes(w)  PROVE Live'
  <2>1. object.body \ {w} \in SUBSET Words
    BY <1>0 DEF RowTypes, Rows
  <2> QED  BY <1>2, <1>4, <2>1 DEF OutsideStrikes
<1>5. ASSUME OutsideEditsProps \/ Trash  PROVE Live'
  <2>1. /\ FromOutside /\ images' = images /\ author' = author /\ striker' = striker
        /\ object'.version = object.version + 1 /\ object'.body = object.body
        /\ ~object'.deleted => ~object.deleted
    BY <1>0, <1>5 DEF OutsideEditsProps, Trash, RowTypes, Rows
  <2>2. /\ \A v \in Nat : v <= object.version => BodyAt(v)' = BodyAt(v)
        /\ \A i \in DOMAIN images' : i < object'.version
    <3>1. \A i \in DOMAIN images : i \in Nat /\ i < object.version
      BY <1>0 DEF RowTypes
    <3>2. object.version \in Nat
      BY <1>0 DEF RowTypes, Rows
    <3> QED  BY <2>1, <3>1, <3>2 DEF BodyAt, BodyIn
  <2>3. /\ Single' /\ Enough' /\ Reconciled'
        /\ doc' = doc /\ Stem' = Stem /\ Fallback' = Fallback /\ Heard' = Heard /\ Draft' = Draft
    BY <2>1, <2>2, OutsideAside
  <2>4. Placed'
    BY <1>0, <2>1, <2>3, Unmoved
  <2> QED  BY <2>3, <2>4 DEF Live
<1> QED  BY <1>1, <1>3, <1>4, <1>5

\* A step that changes neither a text nor what is reconciled with what.
LEMMA Elsewhere ==
  ASSUME Alive, stored' = stored \/ (object' = object /\ images' = images),
         doc' = doc, base' = base, room' = room, flush' = flush,
         watcher' = watcher, author' = author, striker' = striker,
         setting'.outside = setting.outside, setting'.people = setting.people,
         setting'.unsaved = setting.unsaved, phase' = phase \/ phase = "open"
  PROVE  (Single' => Live') /\ \A x \in Words : Rooted(x)'
<1>1. object' = object /\ images' = images
  BY DEF stored
<1>2. Placed /\ PeopleTypes /\ \A x \in Words : Rooted(x)
  BY DEF Alive, Live, Types
<1>3. Enough' /\ Reconciled'
  BY <1>1, Aside DEF Done
<1>4. Placed'
  BY <1>1, <1>2, SameViews, Unmoved
<1> QED  BY <1>1, <1>2, <1>3, <1>4 DEF Live, Rooted

\* A right is revoked.
LEMMA RevokeLives ==
  ASSUME Alive, NEW u \in Users, Revoke(u)
  PROVE  Live' /\ \A x \in Words : Rooted(x)'
<1>1. /\ stored' = stored /\ doc' = doc /\ base' = base /\ room' = room /\ flush' = flush
      /\ watcher' = watcher /\ author' = author /\ striker' = striker /\ phase' = phase
      /\ setting' = [setting EXCEPT !.revoked = @ - 1]
  BY DEF Revoke, history
<1>2. /\ setting'.outside = setting.outside /\ setting'.people = setting.people
      /\ setting'.unsaved = setting.unsaved
  BY <1>1 DEF Alive, Types, PeopleTypes, Setting
<1>3. Single'
  BY <1>1, <1>2 DEF Alive, Live, Single, Writing
<1> QED  BY <1>1, <1>2, <1>3, Elsewhere

\* The room begins to close.
LEMMA CloseLives ==
  ASSUME Alive, Close
  PROVE  Live' /\ \A x \in Words : Rooted(x)'
<1>1. /\ stored' = stored /\ doc' = doc /\ base' = base /\ room' = room /\ flush' = flush
      /\ watcher' = watcher /\ author' = author /\ striker' = striker
      /\ phase = "open" /\ phase' = "closing" /\ setting' = setting
  BY DEF Close, history
<1>2. Single'
  BY <1>1 DEF Alive, Live, Single, Writing
<1> QED  BY <1>1, <1>2, Elsewhere

-----------------------------------------------------------------------------
(* A flush: the one contribution of the one person.                        *)

(* What is taken up from a room where nothing waits is the text as it is,  *)
(* if it is not what is stored.                                            *)
LEMMA OneRun ==
  ASSUME NEW open \in Users \union {None}, NEW prev \in SUBSET Words, NEW text \in SUBSET Words
  PROVE  LET runs == Changing(Taken(<<>>, open, prev, text), prev)
         IN  /\ runs \in Runs
             /\ runs = <<>> => text = prev
             /\ runs # <<>> => /\ Len(runs) = 1 /\ Head(runs).md = text /\ text # prev
                               /\ Head(runs).carry \/ Head(runs).actor = open
<1> DEFINE t == Taken(<<>>, open, prev, text)
           c == Changing(t, prev)
<1>1. <<>> \in Runs
  BY DEF Runs
<1>2. ASSUME open = None /\ text = prev
      PROVE  t = <<>>
  BY <1>2 DEF Taken, Closed
<1>3. ASSUME ~(open = None /\ text = prev)
      PROVE  t \in Runs /\ Len(t) = 1 /\ t[1].md = text /\ (t[1].carry \/ t[1].actor = open)
  <2>1. CASE open = None
    <3> DEFINE one == [actor |-> Joiner, md |-> text, carry |-> TRUE]
    <3>1. t = <<one>>
      BY <1>3, <2>1 DEF Taken, Closed
    <3>2. one \in Run /\ one.md = text /\ one.carry
      BY RoomAssumption DEF Run
    <3> HIDE DEF one, t
    <3>3. t \in Seq(Run) /\ Len(t) = 1 /\ t[1] = one
      BY <3>1, <3>2
    <3> QED  BY <3>2, <3>3 DEF Runs, Run
  <2>2. CASE open # None
    <3> DEFINE one == [actor |-> open, md |-> text, carry |-> FALSE]
    <3>1. Closed(<<>>, open, text) = Append(<<>>, one)
      BY <2>2 DEF Closed
    <3>2. one \in Run /\ one.md = text /\ one.actor = open
      BY <2>2 DEF Run
    <3> HIDE DEF one
    <3>3. Append(<<>>, one) = <<one>> /\ <<one>> # <<>>
      OBVIOUS
    <3>4. t = <<one>>
      BY <3>1, <3>3 DEF Taken, t
    <3> HIDE DEF t
    <3>5. t \in Seq(Run) /\ Len(t) = 1 /\ t[1] = one
      BY <3>2, <3>4
    <3> QED  BY <3>2, <3>5 DEF Runs, Run
  <2> QED  BY <2>1, <2>2
<1>4. t \in Runs
  BY <1>1, <1>2, <1>3
<1> HIDE DEF t
<1>5. /\ c \in Runs
      /\ \E k \in 0 .. Len(t) : /\ Len(c) = Len(t) - k
                                /\ \A i \in 1 .. Len(c) : c[i] = t[i + k]
                                /\ \A i \in 1 .. k : t[i].md = prev
  BY <1>4, ChangingDrops
<1> HIDE DEF c
<1>6. PICK k \in 0 .. Len(t) : /\ Len(c) = Len(t) - k
                               /\ \A i \in 1 .. Len(c) : c[i] = t[i + k]
                               /\ \A i \in 1 .. k : t[i].md = prev
  BY <1>5
<1>7. Len(t) \in Nat /\ (t = <<>> <=> Len(t) = 0) /\ (c = <<>> <=> Len(c) = 0)
      /\ (c # <<>> => Head(c) = c[1])
  BY <1>4, <1>5, RunsAreSequences
<1>8. CASE open = None /\ text = prev
  <2>1. Len(c) = 0
    BY <1>2, <1>6, <1>7, <1>8
  <2> QED  BY <1>5, <1>7, <1>8, <2>1 DEF c, t
<1>9. CASE ~(open = None /\ text = prev)
  <2>0. Len(t) = 1 /\ t[1].md = text /\ (t[1].carry \/ t[1].actor = open)
    BY <1>3, <1>9
  <2>1. CASE k = 1
    <3>1. Len(c) = 0 /\ text = prev
      BY <1>6, <2>0, <2>1
    <3> QED  BY <1>5, <1>7, <3>1 DEF c, t
  <2>2. CASE k = 0
    <3>1. Len(c) = 1 /\ c[1] = t[1] /\ c # <<>>
      BY <1>6, <1>7, <2>0, <2>2
    <3>2. CASE text = prev
      <4>1. Changing(t, prev) = <<>>
        <5>1. DOMAIN t = 1 .. 1
          BY <1>4, <2>0, RunsAreSequences
        <5>2. {i \in DOMAIN t : t[i].md # prev} = {}
          BY <2>0, <3>2, <5>1
        <5> QED  BY <5>2 DEF Changing
      <4> QED  BY <3>1, <4>1 DEF c
    <3>3. CASE text # prev
      BY <1>5, <1>7, <2>0, <3>1, <3>3 DEF c, t
    <3> QED  BY <3>2, <3>3
  <2> QED  BY <1>6, <2>0, <2>1, <2>2
<1> QED  BY <1>8, <1>9

(* A cycle takes up the text from a room at rest.                          *)
LEMMA Begins ==
  ASSUME Alive, flush.pc \in {"idle", "after"}, watcher.pc = "idle",
         NEW call \in Calls, NEW r \in Rooms, StartCycle(call, r),
         r.runs = room.runs, r.open = room.open, r.baseMd = room.baseMd,
         r.again = room.again \/ r.again = "no",
         phase' = phase \/ phase' = "flushing", call.last => phase' = "flushing",
         object' = object, images' = images, doc' = doc, base' = base, watcher' = watcher,
         author' = author, striker' = striker, setting' = setting
  PROVE  Live' /\ \A x \in Words : Rooted(x)'
<1>0. /\ Types /\ Single /\ Enough /\ FlushAt /\ Placed /\ PeopleTypes
      /\ \A i \in DOMAIN images : i < object.version
      /\ \A x \in Words : Rooted(x)
  BY DEF Alive, Live, Types, Reconciled
<1>1. /\ room.runs = <<>> /\ room.baseMd \in SUBSET Words /\ room.baseMd # Unread
      /\ room.open \in Users \union {None}
  BY <1>0 DEF Types, Rooms, Single
<1>2. /\ doc \in SUBSET Words /\ base \in Nat
  BY <1>0 DEF Types
<1>3. TakeUp(call, r, r.baseMd, base)
  BY <1>1 DEF StartCycle
<1> DEFINE runs == Changing(Taken(<<>>, room.open, room.baseMd, doc), room.baseMd)
<1>4. /\ room'.runs = <<>> /\ room'.open = None /\ room'.baseMd = room.baseMd
      /\ room'.again = r.again
      /\ flush'.runs = runs
      /\ flush'.prev = room.baseMd /\ flush'.at = base
      /\ flush'.last = call.last
      /\ \/ flush'.runs = <<>> /\ flush'.pc = "after"
         \/ flush'.runs # <<>> /\ flush'.pc = "check"
  BY <1>1, <1>2, <1>3, TakeUpDoes
<1>5. /\ runs = <<>> => doc = room.baseMd
      /\ runs # <<>> => /\ Len(runs) = 1 /\ Head(runs).md = doc /\ doc # room.baseMd
                        /\ Head(runs).carry \/ Head(runs).actor = room.open
  BY <1>1, <1>2, OneRun
<1> HIDE DEF runs
<1>6. ~Writing
  BY DEF Writing
<1>7. room.open \in setting.people \/ (room.open = None /\ None \notin Users)
  BY <1>0, RoomAssumption DEF Single
<1>8. Single'
  <2>1. Len(runs) = 1 /\ runs # <<>> =>
           Head(runs).carry \/ Head(runs).actor \in setting.people
    <3>1. ASSUME runs # <<>>, ~Head(runs).carry  PROVE Head(runs).actor # None
      <4>1. flush' \in Calls
        BY <1>1, <1>2, <1>3, TakeUpDoes
      <4>2. Head(runs) \in Run
        BY <1>4, <3>1, <4>1, RunsAreSequences DEF Calls
      <4> QED  BY <4>2, RoomAssumption DEF Run
    <3> QED  BY <1>5, <1>7, <3>1
  <2> QED  BY <1>0, <1>1, <1>4, <1>5, <2>1 DEF Single, Writing
<1>9. \A v : BodyAt(v)' = BodyAt(v) /\ Lag(v)' = Lag(v)
  BY SameBodies
<1>10. Done => Done' /\ flush'.pc = "after"
  BY <1>1, <1>2, <1>4, <1>5, OneRun DEF Done
<1>11. Enough'
  BY <1>0, <1>4, <1>9, <1>10 DEF Enough, Ready
<1>12. Reconciled'
  <2>1. FlushAt'
    BY <1>0, <1>2, <1>4, <1>9, <1>10 DEF FlushAt
  <2>2. WatcherAt'
    BY DEF WatcherAt
  <2> QED  BY <1>0, <2>1, <2>2 DEF Reconciled
<1>13. Placed'
  <2>1. /\ Stem = room.baseMd /\ Fallback = Stem /\ Heard = Stem /\ Draft = doc
    BY <1>6, ViewsNow DEF Views
  <2>2. /\ Stem' = room.baseMd /\ Fallback' = room.baseMd /\ Heard' = Stem'
    BY <1>4, ViewsNext DEF Views
  <2>3. Draft' = doc
    BY <1>4, <1>5, ViewsNext DEF Views, Writing
  <2> QED  BY <1>0, <2>1, <2>2, <2>3, Unmoved
<1> QED  BY <1>0, <1>8, <1>11, <1>12, <1>13 DEF Live, Rooted

(* A flush is asked for: it begins, or is remembered.                      *)
LEMMA RequestLives ==
  ASSUME Alive, NEW last \in BOOLEAN, Request(last), last => phase' = "flushing",
         phase' = phase \/ phase' = "flushing", flush.pc # "after",
         object' = object, images' = images, doc' = doc, base' = base, watcher' = watcher,
         author' = author, striker' = striker, setting' = setting
  PROVE  Live' /\ \A x \in Words : Rooted(x)'
<1>0. /\ Types /\ Single /\ Enough /\ Reconciled /\ Placed /\ PeopleTypes
      /\ watcher.pc = "idle" /\ \A x \in Words : Rooted(x)
  BY RequestDoes DEF Alive, Live, Types, FlushTypes, Sole
<1>1. flush \in Calls /\ room \in Rooms /\ doc \in SUBSET Words /\ base \in Nat /\ FlushTypes
  BY <1>0 DEF Types, FlushTypes
<1>2. ASSUME flush.pc = "idle", NEW call \in Calls, NEW r \in Rooms, StartCycle(call, r),
             call.last = last, r.runs = room.runs, r.open = room.open,
             r.baseMd = room.baseMd, r.again = room.again
      PROVE  Live' /\ \A x \in Words : Rooted(x)'
  BY <1>0, <1>2, Begins
<1>3. ASSUME flush.pc # "idle", flush' = flush,
             room'.runs = room.runs, room'.open = room.open, room'.baseMd = room.baseMd,
             room'.again = IF last THEN "last" ELSE IF room.again = "no" THEN "yes" ELSE room.again
      PROVE  Live' /\ \A x \in Words : Rooted(x)'
  <2>1. Single'
    BY <1>0, <1>3 DEF Single, Writing
  <2>2. Done => Done'
    BY <1>3 DEF Done
  <2>3. Enough' /\ Reconciled'
    BY <1>3, <2>2, Aside
  <2>4. Placed'
    BY <1>0, <1>3, SameViews, Unmoved
  <2> QED  BY <1>0, <2>1, <2>3, <2>4 DEF Live, Rooted
<1> QED  BY <1>1, <1>2, <1>3, RequestDoes

\* By a timer,
LEMMA FireLives ==
  ASSUME Alive, Fire
  PROVE  Live' /\ \A x \in Words : Rooted(x)'
BY RequestLives DEF Fire, Awaiting, stored, UnlessFlushing, Steady

\* or as the room closes.
LEMMA LastFlushLives ==
  ASSUME Alive, LastFlush
  PROVE  Live' /\ \A x \in Words : Rooted(x)'
BY RequestLives DEF LastFlush, Awaiting, stored, history

(* The cycle remembered begins, or the call returns.                       *)
LEMMA NextCycleLives ==
  ASSUME Alive, NextCycle
  PROVE  Live' /\ \A x \in Words : Rooted(x)'
<1>0. /\ Types /\ Single /\ Enough /\ Reconciled /\ Placed /\ PeopleTypes
      /\ \A x \in Words : Rooted(x)
  BY DEF Alive, Live, Types
<1>1. /\ object' = object /\ images' = images /\ doc' = doc /\ base' = base /\ watcher' = watcher
      /\ author' = author /\ striker' = striker /\ setting' = setting /\ phase' = phase
  BY DEF NextCycle, stored, UnlessFlushing, Steady
<1>2. flush \in Calls /\ room \in Rooms /\ doc \in SUBSET Words /\ base \in Nat
  BY <1>0 DEF Types, FlushTypes
<1>3. flush.pc = "after" /\ room'.again = "no"
  BY <1>2, NextCycleDoes
<1>4. PICK r \in Rooms :
        /\ r.runs = room.runs /\ r.open = room.open /\ r.baseMd = room.baseMd
        /\ r.again = "no"
        /\ \/ /\ \E call \in Calls : /\ StartCycle(call, r)
                                     /\ call.last = (room.again = "last")
           \/ flush' = Idle /\ room' = r
  BY <1>2, NextCycleDoes
<1>5. watcher.pc = "idle"
  BY <1>0, <1>3 DEF Single
<1>6. ASSUME NEW call \in Calls, StartCycle(call, r), call.last = (room.again = "last")
      PROVE  Live' /\ \A x \in Words : Rooted(x)'
  <2>1. call.last => phase' = "flushing"
    BY <1>0, <1>1, <1>6 DEF Single
  <2> QED  BY <1>1, <1>3, <1>4, <1>5, <1>6, <2>1, Begins
<1>7. CASE flush' = Idle /\ room' = r
  <2>1. flush'.pc = "idle"
    BY <1>7, IdleIsCall DEF Idle
  <2>2. Single'
    BY <1>0, <1>1, <1>3, <1>4, <1>5, <1>7, <2>1 DEF Single, Writing
  <2>3. \A v : BodyAt(v)' = BodyAt(v) /\ Lag(v)' = Lag(v)
    BY <1>1, SameBodies
  <2>4. Done => Done'
    BY <1>1, <1>4, <1>7 DEF Done
  <2>5. Enough'
    BY <1>0, <1>1, <1>3, <1>5, <2>1, <2>3, <2>4 DEF Enough, Ready
  <2>6. FlushAt' /\ WatcherAt'
    BY <1>0, <1>1, <1>3, <1>4, <1>5, <1>7, <2>1, <2>3, <2>4 DEF Reconciled, FlushAt, WatcherAt
  <2>7. Placed'
    <3>1. Stem' = Stem /\ Fallback' = Fallback /\ Heard' = Heard /\ Draft' = Draft
      BY <1>1, <1>3, <1>4, <1>5, <1>7, <2>1 DEF Stem, Fallback, Heard, Draft, Writing
    <3> QED  BY <1>0, <1>1, <3>1, Unmoved
  <2> QED  BY <1>0, <1>1, <2>2, <2>5, <2>6, <2>7 DEF Live, Rooted, Reconciled
<1> QED  BY <1>4, <1>6, <1>7

(* The rights are read: the contribution is written, or refused and the    *)
(* room taken back to what it was reconciled to.                           *)
LEMMA CheckRightsLives ==
  ASSUME Alive, CheckRights
  PROVE  Live' /\ \A x \in Words : Rooted(x)'
<1>0. /\ Types /\ Single /\ Enough /\ Reconciled /\ Placed /\ PeopleTypes
      /\ \A x \in Words : Rooted(x)
  BY DEF Alive, Live, Types
<1>1. /\ flush.pc = "check" /\ Writing /\ object' = object /\ images' = images
      /\ watcher' = watcher /\ author' = author /\ phase' = phase
  BY DEF CheckRights, stored, UnlessFlushing, Writing
<1>2. watcher.pc = "idle" /\ flush.runs # <<>> /\ Len(flush.runs) = 1
  BY <1>0, <1>1 DEF Single
<1>3. setting' = setting \/ \E call : Failing(call)
  BY DEF CheckRights
<1>4. /\ setting'.people = setting.people /\ setting'.unsaved = setting.unsaved
      /\ setting'.outside = setting.outside
  <2>1. ASSUME NEW call, Failing(call)  PROVE setting'.outside = setting.outside
    BY <2>1, <1>0 DEF Failing, PeopleTypes, Setting
  <2> QED  BY <1>0, <1>3, <2>1, FailingCounts DEF Scene
<1>5. \A v : BodyAt(v)' = BodyAt(v) /\ Lag(v)' = Lag(v)
  BY <1>1, SameBodies
<1>6. /\ Stem = flush.prev /\ Fallback = room.baseMd /\ Heard = Stem
      /\ Draft = Head(flush.runs).md
  BY <1>1, <1>2, ViewsNow DEF Views
<1>7. base \in Nat /\ flush.at \in Nat /\ setting.outside \in Nat /\ MaxAttempts \in Nat
  BY <1>0, Counts
<1>8. CASE flush' = [flush EXCEPT !.pc = "write", !.attempt = 0]
           /\ UNCHANGED <<doc, base, room, ending, setting>> /\ Steady
  <2>1. /\ flush'.pc = "write" /\ flush'.attempt = 0 /\ flush'.runs = flush.runs
        /\ flush'.at = flush.at /\ flush'.prev = flush.prev /\ flush'.last = flush.last
    BY <1>0, <1>8 DEF Types, FlushTypes, Calls
  <2>2. Single'
    BY <1>0, <1>1, <1>8, <2>1 DEF Single, Writing
  <2>3. Enough'
    BY <1>0, <1>1, <1>2, <1>5, <1>7, <1>8, <2>1, Counts DEF Enough, Ready, Lag
  <2>4. FlushAt' /\ WatcherAt'
    BY <1>0, <1>1, <1>2, <1>5, <1>8, <2>1 DEF Reconciled, FlushAt, WatcherAt
  <2>5. Stem' = Stem /\ Fallback' = Fallback /\ Heard' = Heard /\ Draft' = Draft
    BY <1>1, <1>2, <1>6, <1>8, <2>1, ViewsNext DEF Views, Writing
  <2>6. Placed'
    BY <1>0, <1>1, <1>8, <2>5, Unmoved DEF Steady
  <2> QED  BY <1>0, <1>1, <1>8, <2>2, <2>3, <2>4, <2>6 DEF Live, Reconciled, Rooted, Steady
<1>9. ASSUME EndCycle("refused", flush, Emptied(room))
      PROVE  /\ Single' /\ Enough' /\ Reconciled'
             /\ Stem' = Stem /\ Fallback' = Stem /\ Heard' = Stem /\ Draft' = doc'
  <2>1. Emptied(room) \in Rooms /\ Emptied(room).runs = <<>> /\ Emptied(room).open = None
        /\ Emptied(room).again = room.again
    BY <1>0, EmptiedRoom DEF Types
  <2>2. /\ room'.runs = <<>> /\ room'.open = None /\ room'.baseMd = flush.prev
        /\ room'.again = room.again /\ flush'.pc = "after"
        /\ room' \in Rooms
    BY <1>0, <1>7, <1>9, <2>1, EndCycleDoes DEF Types, FlushTypes
  <2>3. ~object.deleted => base' = base /\ flush.at = base
    <3>1. ~object.deleted => flush.at = base
      BY <1>0, <1>1 DEF Reconciled, FlushAt
    <3> QED  BY <1>7, <1>9, <3>1 DEF EndCycle
  <2>4. flush.prev # Unread
    BY <1>0, RoomAssumption DEF Types, FlushTypes, Calls
  <2>5. Single'
    BY <1>0, <1>1, <1>2, <1>4, <2>2, <2>4 DEF Single, Writing
  <2>6. Enough'
    BY <1>0, <1>1, <1>2, <1>4, <1>5, <2>2, <2>3 DEF Enough, Ready
  <2>7. FlushAt' /\ WatcherAt'
    BY <1>0, <1>1, <1>2, <1>5, <2>2, <2>3 DEF Reconciled, FlushAt, WatcherAt
  <2>8. Stem' = Stem /\ Fallback' = Stem /\ Heard' = Stem /\ Draft' = doc'
    BY <1>1, <1>2, <1>6, <2>2, ViewsNext DEF Views, Writing
  <2> QED  BY <1>0, <1>1, <2>5, <2>6, <2>7, <2>8 DEF Reconciled
<1>10. CASE Refuse
  <2>1. /\ EndCycle("refused", flush, Emptied(room)) /\ doc' = Stem
        /\ striker' = [w \in Words |->
              IF w \in (Stem \ doc) \cap object.body /\ striker[w] \in Users
              THEN None ELSE striker[w]]
    BY <1>6, <1>10 DEF Refuse
  <2>2. Placed' /\ \A x \in Words : Rooted(x)'
    BY <1>0, <1>1, <1>3, <1>6, <1>9, <2>1, TakenBack
  <2> QED  BY <1>9, <2>1, <2>2 DEF Live
<1>11. CASE EndCycle("refused", flush, Emptied(room)) /\ doc' = doc /\ Steady
  <2>1. Placed'
    BY <1>0, <1>1, <1>9, <1>11, Unmoved DEF Steady
  <2> QED  BY <1>0, <1>1, <1>4, <1>9, <1>11, <2>1 DEF Live, Rooted, Steady
<1> QED  BY <1>8, <1>10, <1>11 DEF CheckRights

(* The write: over the text the flush was reconciled to, it loses the      *)
(* compare-and-swap, or the object is gone and it is refused.              *)
LEMMA WriteRunLives ==
  ASSUME Alive, WriteRun
  PROVE  Live' /\ \A x \in Words : Rooted(x)'
<1>0. /\ Types /\ Single /\ Enough /\ Reconciled /\ Placed /\ PeopleTypes /\ RowTypes
      /\ \A x \in Words : Rooted(x)
  BY DEF Alive, Live, Types
<1>1. /\ flush.pc = "write" /\ Writing /\ watcher' = watcher /\ author' = author
      /\ phase' = phase
  BY DEF WriteRun, UnlessFlushing, Writing
<1>2. watcher.pc = "idle" /\ flush.runs # <<>> /\ Len(flush.runs) = 1
  BY <1>0, <1>1 DEF Single
<1>3. ~Failing("write")
  BY <1>0 DEF Alive, Sole, Failing
<1>4. /\ Stem = flush.prev /\ Fallback = room.baseMd /\ Heard = Stem
      /\ Draft = Head(flush.runs).md
  BY <1>1, <1>2, ViewsNow DEF Views
<1>5. /\ base \in Nat /\ flush.at \in Nat /\ setting.outside \in Nat /\ MaxAttempts \in Nat
      /\ flush.attempt \in Nat /\ object.version \in Nat
  BY <1>0, Counts
<1>6. Head(flush.runs).md \in SUBSET Words
  <2>1. Head(flush.runs) \in Run
    BY <1>0, <1>2, RunsAreSequences DEF Types, FlushTypes, Calls
  <2> QED  BY <2>1 DEF Run
<1>7. CASE /\ ~object.deleted /\ object.version = flush.at /\ Commit(Head(flush.runs).md)
           /\ flush' = [flush EXCEPT !.pc = "written", !.got = [version |-> object.version + 1]]
           /\ UNCHANGED <<doc, base, room, ending, setting>> /\ Steady
  <2>1. /\ flush'.pc = "written" /\ flush'.got.version = object.version + 1
        /\ flush'.runs = flush.runs /\ flush'.last = flush.last
    <3>1. flush \in Calls
      BY <1>0 DEF Types, FlushTypes
    <3> QED  BY <1>7, <3>1 DEF Calls
  <2>2. /\ object'.body = Head(flush.runs).md /\ object'.version = object.version + 1
        /\ object'.deleted = object.deleted
    BY <1>0, <1>6, <1>7, CommitTypes
  <2>3. /\ \A i \in DOMAIN images' : i < object'.version
        /\ BodyIn(images', object'.body, object.version + 1) = Head(flush.runs).md
    <3>1. \A i \in DOMAIN images : i < object.version
      BY <1>0 DEF Reconciled
    <3>2. /\ \A i \in DOMAIN images' : i < object'.version
          /\ BodyIn(images', Head(flush.runs).md, object.version + 1) = Head(flush.runs).md
      BY <1>0, <1>6, <1>7, <3>1, BodyOfCommit
    <3> QED  BY <2>2, <3>2
  <2>4. Single'
    BY <1>0, <1>1, <1>2, <1>7, <2>1 DEF Single, Writing
  <2>5. Enough'
    <3>1. setting.outside < MaxAttempts
      BY <1>0, <1>1, <1>5, <1>7 DEF Enough, Lag
    <3>2. Ready(flush.got.version)'
      BY <1>5, <1>7, <2>1, <2>2, <3>1 DEF Ready, Lag
    <3> QED  BY <1>1, <1>2, <2>1, <3>2 DEF Enough
  <2>6. FlushAt' /\ WatcherAt'
    <3>1. base <= object.version
      BY <1>0, <1>1, <1>7 DEF Reconciled, FlushAt
    <3>2. base' < flush'.got.version /\ flush'.got.version <= object'.version
      BY <1>5, <1>7, <2>1, <2>2, <3>1
    <3>3. (Head(flush.runs).md = BodyAt(flush.got.version))'
      BY <2>1, <2>3 DEF BodyAt
    <3>4. FlushAt'
      BY <2>1, <3>2, <3>3 DEF FlushAt
    <3>5. WatcherAt'
      BY <1>1, <1>2 DEF WatcherAt
    <3> QED  BY <3>4, <3>5
  <2>7. Stem = object.body
    <3>1. BodyAt(object.version) = object.body
      BY <1>0, NewestBody DEF Reconciled
    <3> QED  BY <1>0, <1>1, <1>4, <1>7, <3>1 DEF Reconciled, FlushAt
  <2>8. Draft' = Draft /\ Stem' = Draft /\ Fallback' = Draft /\ Heard' = Draft
    BY <1>1, <1>2, <1>4, <2>1, ViewsNext DEF Views, Writing
  <2>9. Placed' /\ \A x \in Words : Rooted(x)'
    BY <1>0, <1>1, <1>4, <1>7, <2>2, <2>7, <2>8, Stored DEF Steady
  <2> QED  BY <2>3, <2>4, <2>5, <2>6, <2>9 DEF Live, Reconciled
<1>8. CASE /\ ~object.deleted /\ object.version # flush.at
           /\ flush' = [flush EXCEPT !.pc = "reread"]
           /\ UNCHANGED <<object, images, doc, base, room, ending, setting>> /\ Steady
  <2>1. /\ flush'.pc = "reread" /\ flush'.attempt = flush.attempt /\ flush'.runs = flush.runs
        /\ flush'.at = flush.at /\ flush'.prev = flush.prev /\ flush'.last = flush.last
    BY <1>0, <1>8 DEF Types, FlushTypes, Calls
  <2>2. \A v : BodyAt(v)' = BodyAt(v) /\ Lag(v)' = Lag(v)
    BY <1>8, SameBodies
  <2>3. Single'
    BY <1>0, <1>1, <1>8, <2>1 DEF Single, Writing
  <2>4. Enough'
    BY <1>0, <1>1, <1>2, <1>5, <1>8, <2>1 DEF Enough, Lag
  <2>5. FlushAt' /\ WatcherAt'
    BY <1>0, <1>1, <1>2, <1>8, <2>1, <2>2 DEF Reconciled, FlushAt, WatcherAt
  <2>6. Stem' = Stem /\ Fallback' = Fallback /\ Heard' = Heard /\ Draft' = Draft
    BY <1>1, <1>2, <1>4, <1>8, <2>1, ViewsNext DEF Views, Writing
  <2>7. Placed'
    BY <1>0, <1>1, <1>8, <2>6, Unmoved DEF Steady
  <2> QED  BY <1>0, <1>1, <1>8, <2>3, <2>5, <2>4, <2>7 DEF Live, Reconciled, Rooted, Steady
<1>9. CASE object.deleted /\ Refuse /\ UNCHANGED <<object, images, setting>>
  <2>1. /\ EndCycle("refused", flush, Emptied(room)) /\ doc' = Stem
        /\ striker' = [w \in Words |->
              IF w \in (Stem \ doc) \cap object.body /\ striker[w] \in Users
              THEN None ELSE striker[w]]
    BY <1>4, <1>9 DEF Refuse
  <2>2. /\ room'.runs = <<>> /\ room'.open = None /\ room'.baseMd = flush.prev
        /\ room'.again = room.again /\ flush'.pc = "after"
    BY <1>0, <1>2, <1>9, RefuseDoes
  <2>3. flush.prev # Unread
    BY <1>0, RoomAssumption DEF Types, FlushTypes, Calls
  <2>4. Single'
    BY <1>0, <1>1, <1>2, <1>9, <2>2, <2>3 DEF Single, Writing
  <2>5. Enough' /\ Reconciled'
    BY <1>0, <1>1, <1>2, <1>9, <2>2 DEF Enough, Reconciled, FlushAt, WatcherAt
  <2>6. Stem' = Stem /\ Fallback' = Stem /\ Heard' = Stem /\ Draft' = Stem
    BY <1>1, <1>2, <1>4, <2>1, <2>2, ViewsNext DEF Views, Writing
  <2>7. Placed' /\ \A x \in Words : Rooted(x)'
    BY <1>0, <1>1, <1>4, <1>9, <2>1, <2>6, TakenBack
  <2> QED  BY <2>4, <2>5, <2>7 DEF Live
<1> QED  BY <1>3, <1>7, <1>8, <1>9 DEF WriteRun

(* The one contribution is written: the cycle ends, and its text is the    *)
(* base unless this was the last flush.                                    *)
LEMMA WrittenLives ==
  ASSUME Alive, Written
  PROVE  Live' /\ \A x \in Words : Rooted(x)'
<1>0. /\ Types /\ Single /\ Enough /\ Reconciled /\ Placed /\ PeopleTypes
      /\ \A x \in Words : Rooted(x)
  BY DEF Alive, Live, Types
<1>1. /\ flush.pc = "written" /\ Writing /\ object' = object /\ images' = images
      /\ watcher' = watcher /\ author' = author /\ striker' = striker /\ phase' = phase
      /\ doc' = doc /\ setting' = setting
  BY DEF Written, stored, UnlessFlushing, Steady, Writing
<1>2. watcher.pc = "idle" /\ flush.runs # <<>> /\ Len(flush.runs) = 1
  BY <1>0, <1>1 DEF Single
<1> DEFINE md == Head(flush.runs).md
           f == [flush EXCEPT !.runs = Changing(Tail(@), md), !.prev = md,
                              !.at = flush.got.version, !.wrote = TRUE]
<1>3. /\ flush \in Calls /\ flush.got \in [version : Nat] /\ flush.runs \in Runs
      /\ room \in Rooms /\ base \in Nat /\ flush.got.version \in Nat
  BY <1>0, <1>1 DEF Types, FlushTypes, Calls
<1>4. f \in Calls /\ md \in SUBSET Words /\ f.runs = Changing(Tail(flush.runs), md) /\ f.prev = md
  BY <1>2, <1>3, WrittenCall
<1>5. f.runs = <<>>
  <2>1. Tail(flush.runs) \in Runs /\ Len(Tail(flush.runs)) = 0
    BY <1>2, <1>3, TailRuns
  <2>2. DOMAIN Tail(flush.runs) = 1 .. 0
    BY <2>1, RunsAreSequences
  <2>3. {i \in DOMAIN Tail(flush.runs) : Tail(flush.runs)[i].md # md} = {}
    BY <2>2
  <2> QED  BY <1>4, <2>3 DEF Changing
<1>6. f.at = flush.got.version /\ f.wrote /\ f.last = flush.last
  BY <1>3, <1>4 DEF Calls
<1>7. EndCycle("clean", f, room)
  BY <1>5 DEF Written
<1> HIDE DEF f, md
<1>8. /\ room'.runs = room.runs /\ room'.open = room.open /\ room'.baseMd = md
      /\ room'.again = room.again /\ flush'.pc = "after"
  BY <1>3, <1>4, <1>7, EndCycleDoes
<1>9. base' = IF ~flush.last /\ flush.got.version > base THEN flush.got.version ELSE base
  BY <1>6, <1>7 DEF EndCycle
<1>10. md # Unread
  BY <1>4, RoomAssumption
<1>11. \A v : BodyAt(v)' = BodyAt(v) /\ Lag(v)' = Lag(v)
  BY <1>1, SameBodies
<1>12. Single'
  BY <1>0, <1>1, <1>2, <1>8, <1>10 DEF Single, Writing
<1>13. flush.last => Done'
  BY <1>0, <1>1, <1>8 DEF Single, Done, md
<1>14. ~object.deleted /\ ~flush.last => base' = flush.got.version
  BY <1>0, <1>1, <1>3, <1>9 DEF Reconciled, FlushAt
<1>15. Enough'
  BY <1>0, <1>1, <1>2, <1>8, <1>11, <1>13, <1>14 DEF Enough, Ready
<1>16. FlushAt' /\ WatcherAt'
  BY <1>0, <1>1, <1>2, <1>8, <1>11, <1>13, <1>14 DEF Reconciled, FlushAt, WatcherAt, md
<1>17. Placed'
  <2>1. Stem = md /\ Heard = Stem
    BY <1>1, <1>2, ViewsNow DEF Views, md
  <2>2. Stem' = md /\ Fallback' = Stem' /\ Heard' = Stem' /\ Draft' = doc
    BY <1>1, <1>2, <1>8, ViewsNext DEF Views, Writing
  <2> QED  BY <1>0, <1>1, <2>1, <2>2, Unmoved
<1> QED  BY <1>0, <1>1, <1>12, <1>15, <1>16, <1>17 DEF Live, Reconciled, Rooted

(* After a lost compare-and-swap the object is read again, and heard.      *)
LEMMA RereadLives ==
  ASSUME Alive, Reread
  PROVE  Live' /\ \A x \in Words : Rooted(x)'
<1>0. /\ Types /\ Single /\ Enough /\ Reconciled /\ Placed /\ PeopleTypes
      /\ \A x \in Words : Rooted(x)
  BY DEF Alive, Live, Types
<1>1. /\ flush.pc = "reread" /\ Writing /\ object' = object /\ images' = images
      /\ watcher' = watcher /\ author' = author /\ striker' = striker /\ phase' = phase
      /\ doc' = doc
  BY DEF Reread, stored, UnlessFlushing, Steady, Writing
<1>2. watcher.pc = "idle" /\ flush.runs # <<>> /\ Len(flush.runs) = 1
  BY <1>0, <1>1 DEF Single
<1>3. ~Failing("reread")
  BY <1>0 DEF Alive, Sole, Failing
<1>4. /\ Stem = flush.prev /\ Fallback = room.baseMd /\ Heard = Stem
      /\ Draft = Head(flush.runs).md
  BY <1>1, <1>2, ViewsNow DEF Views
<1>5. flush \in Calls /\ room \in Rooms
  BY <1>0 DEF Types, FlushTypes
<1>6. CASE object.deleted /\ setting' = setting /\ GiveUp("conflict", Emptied(room))
  <2>1. /\ room'.runs = <<>> /\ room'.open = None /\ room'.baseMd = room.baseMd
        /\ room'.again = room.again /\ flush'.pc = "after"
    BY <1>5, <1>6, GiveUpDoes, EmptiedRoom
  <2>2. Single'
    BY <1>0, <1>1, <1>2, <1>6, <2>1 DEF Single, Writing
  <2>3. Enough' /\ Reconciled'
    BY <1>0, <1>1, <1>2, <1>6, <2>1 DEF Enough, Reconciled, FlushAt, WatcherAt
  <2>4. Stem' = Fallback /\ Fallback' = Fallback /\ Heard' = Fallback
    BY <1>1, <1>2, <1>4, <2>1, ViewsNext DEF Views
  <2>5. Placed'
    BY <1>0, <1>1, <1>6, <2>4 DEF Placed, Sure
  <2> QED  BY <1>0, <1>1, <1>6, <2>2, <2>3, <2>5 DEF Live, Rooted
<1>7. CASE /\ ~object.deleted
           /\ flush' = [flush EXCEPT !.pc = "rebase", !.got = object]
           /\ UNCHANGED <<base, room, ending, setting>>
  <2>1. /\ flush'.pc = "rebase" /\ flush'.attempt = flush.attempt /\ flush'.runs = flush.runs
        /\ flush'.at = flush.at /\ flush'.prev = flush.prev /\ flush'.last = flush.last
        /\ flush'.got = object
    BY <1>5, <1>7 DEF Calls
  <2>2. \A v : BodyAt(v)' = BodyAt(v) /\ Lag(v)' = Lag(v)
    BY <1>1, SameBodies
  <2>3. Single'
    BY <1>0, <1>1, <1>7, <2>1 DEF Single, Writing
  <2>4. Enough'
    BY <1>0, <1>1, <1>2, <1>7, <2>1, Counts DEF Enough, Lag
  <2>5. FlushAt' /\ WatcherAt'
    <3>1. BodyAt(object.version) = object.body
      BY <1>0, NewestBody DEF Reconciled, Types
    <3>2. base <= object.version
      BY <1>0, <1>1, <1>7, Counts DEF Reconciled, FlushAt
    <3>3. (flush.got.body = BodyAt(flush.got.version))'
      BY <1>1, <2>1, <3>1 DEF BodyAt
    <3>4. (base <= flush.got.version /\ flush.got.version <= object.version)'
      BY <1>0, <1>1, <1>7, <2>1, <3>2, Counts
    <3>5. base <= flush.at /\ flush.at <= object.version /\ flush.prev = BodyAt(flush.at)
      BY <1>0, <1>1, <1>7 DEF Reconciled, FlushAt
    <3>6. (base <= flush.at /\ flush.at <= object.version /\ flush.prev = BodyAt(flush.at))'
      BY <1>1, <1>7, <2>1, <2>2, <3>5
    <3>7. FlushAt'
      BY <2>1, <3>3, <3>4, <3>6 DEF FlushAt
    <3>8. WatcherAt'
      BY <1>1, <1>2 DEF WatcherAt
    <3> QED  BY <3>7, <3>8
  <2>6. Stem' = Stem /\ Fallback' = Fallback /\ Heard' = object.body /\ Draft' = Draft
    BY <1>1, <1>2, <1>4, <1>7, <2>1, ViewsNext DEF Views, Writing
  <2>7. Placed'
    BY <1>0, <1>1, <1>7, <2>6, Heeded
  <2> QED  BY <1>0, <1>1, <1>7, <2>3, <2>5, <2>4, <2>7 DEF Live, Reconciled, Rooted
<1> QED  BY <1>3, <1>6, <1>7 DEF Reread

(* What landed is merged into the room and under the contribution.         *)
LEMMA RebaseLives ==
  ASSUME Alive, Rebase
  PROVE  Live' /\ \A x \in Words : Rooted(x)'
<1>0. /\ Types /\ Single /\ Enough /\ Reconciled /\ Placed /\ PeopleTypes
      /\ ~setting.overlaps /\ \A x \in Words : Rooted(x)
  BY DEF Alive, Live, Types, Sole
<1>1. /\ flush.pc = "rebase" /\ Writing /\ object' = object /\ images' = images
      /\ watcher' = watcher /\ author' = author /\ striker' = striker /\ phase' = phase
      /\ setting' = setting
  BY DEF Rebase, stored, UnlessFlushing, Steady, Writing
<1>2. watcher.pc = "idle" /\ flush.runs # <<>> /\ Len(flush.runs) = 1
  BY <1>0, <1>1 DEF Single
<1>3. /\ flush \in Calls /\ flush.got \in Rows /\ flush.runs \in Runs /\ flush.prev \in SUBSET Words
      /\ flush.got.body \in SUBSET Words /\ flush.attempt \in Nat
  BY <1>0, <1>1 DEF Types, FlushTypes, Calls, Rows
<1>4. Again \in Calls /\ Again.prev = flush.got.body /\ Again.last = flush.last
      /\ Again.runs = Rebased(flush.runs, flush.prev, flush.got.body)
  BY <1>2, <1>3, RebasedCall
<1>5. Again.at = flush.got.version /\ Again.attempt = flush.attempt + 1
  BY <1>3 DEF Again, Calls
<1>6. Again.attempt < MaxAttempts
  BY <1>0, <1>1, <1>5, Counts DEF Enough, Lag
<1>7. /\ flush' = [Again EXCEPT !.pc = "write"] /\ UNCHANGED <<base, room, ending>>
      /\ \/ flush.got.body = flush.prev /\ doc' = doc
         \/ doc' = Merge(doc, flush.prev, flush.got.body)
  <2>1. \A text, from, to : ~MayOverlap(text, from, to)
    BY <1>0, Zenon DEF MayOverlap
  <2>2. Again.attempt # MaxAttempts
    BY <1>6, <1>4, Counts, <1>0
  <2> QED  BY <2>1, <2>2 DEF Rebase, Again, AnyOverlap
<1>8. /\ flush'.pc = "write" /\ flush'.prev = flush.got.body /\ flush'.last = flush.last
      /\ flush'.runs = Again.runs /\ flush'.at = flush.got.version
      /\ flush'.attempt = flush.attempt + 1
  BY <1>4, <1>5, <1>7 DEF Calls
<1>9. /\ Len(flush'.runs) = 1
      /\ Head(flush'.runs).md = Merge(Head(flush.runs).md, flush.prev, flush.got.body)
      /\ Head(flush'.runs).actor = Head(flush.runs).actor
      /\ Head(flush'.runs).carry = Head(flush.runs).carry
  <2> DEFINE r == Rebased(flush.runs, flush.prev, flush.got.body)
  <2>1. /\ r \in Runs /\ Len(r) = Len(flush.runs)
        /\ \A i \in DOMAIN flush.runs :
              /\ r[i].md = Merge(flush.runs[i].md, flush.prev, flush.got.body)
              /\ r[i].actor = flush.runs[i].actor
              /\ r[i].carry = flush.runs[i].carry
    BY <1>3, RebasedKeeps
  <2> HIDE DEF r
  <2>2. r # <<>> /\ Head(r) = r[1] /\ Head(flush.runs) = flush.runs[1] /\ 1 \in DOMAIN flush.runs
    BY <1>2, <1>3, <2>1, RunsAreSequences
  <2> QED  BY <1>2, <1>4, <1>8, <2>1, <2>2 DEF r
<1>10. doc' = Merge(doc, flush.prev, flush.got.body)
  BY <1>0, <1>7 DEF Merge, Types
<1>11. \A v : BodyAt(v)' = BodyAt(v) /\ Lag(v)' = Lag(v)
  BY <1>1, SameBodies
<1>12. Single'
  BY <1>0, <1>1, <1>7, <1>8, <1>9, <1>10 DEF Single, Writing
<1>13. Enough'
  BY <1>0, <1>1, <1>2, <1>8, <1>11 DEF Enough
<1>14. FlushAt' /\ WatcherAt'
  BY <1>0, <1>1, <1>2, <1>7, <1>8, <1>11 DEF Reconciled, FlushAt, WatcherAt
<1>15. Placed'
  <2>1. /\ Stem = flush.prev /\ Fallback = room.baseMd /\ Heard = flush.got.body
        /\ Draft = Head(flush.runs).md
    BY <1>1, <1>2, ViewsNow DEF Views
  <2>2. /\ Stem' = Heard /\ Fallback' = Fallback /\ Heard' = Heard
        /\ Draft' = Merge(Draft, Stem, Heard)
    BY <1>1, <1>2, <1>7, <1>8, <1>9, <2>1, ViewsNext DEF Views, Writing
  <2> QED  BY <1>0, <1>1, <1>10, <2>1, <2>2, Merged
<1> QED  BY <1>0, <1>1, <1>12, <1>13, <1>14, <1>15 DEF Live, Reconciled, Rooted

-----------------------------------------------------------------------------
(* The watcher, with no flush under way.                                   *)

\* A step of the watcher that leaves the room's texts and versions.
LEMMA IngestKeeps ==
  ASSUME Alive, flush.pc = "idle", phase # "flushing", WatcherAt', WatcherOnly,
         doc' = doc, base' = base, room' = room, flush' = flush,
         watcher.pc # "note", watcher'.pc # "note",
         watcher'.pc \in {"base", "merge"} => Ready(watcher'.version),
         setting'.outside = setting.outside, setting'.people = setting.people,
         setting'.unsaved = setting.unsaved
  PROVE  /\ Single' /\ Enough' /\ Reconciled' /\ \A x \in Words : Rooted(x)'
         /\ Stem' = Stem /\ Fallback' = Fallback /\ Draft' = Draft
         /\ Heard' = IF watcher'.pc \in {"base", "merge"} THEN watcher'.body ELSE Stem
<1>0. /\ Single /\ Enough /\ Reconciled /\ \A x \in Words : Rooted(x)
  BY DEF Alive, Live
<1>1. /\ object' = object /\ images' = images /\ author' = author /\ striker' = striker
      /\ phase' = phase
  BY DEF WatcherOnly, history
<1>2. \A v : BodyAt(v)' = BodyAt(v) /\ Lag(v)' = Lag(v)
  BY <1>1, SameBodies
<1>3. Single'
  BY <1>0, <1>1 DEF Single, Writing
<1>4. Done' <=> Done
  BY <1>1 DEF Done
<1>5. Enough'
  BY <1>0, <1>1, <1>2, <1>4 DEF Enough, Ready
<1>6. FlushAt'
  BY <1>0, <1>1, <1>2, <1>4 DEF Reconciled, FlushAt
<1>7. \A x \in Words : Rooted(x)'
  BY <1>0, <1>1 DEF Rooted
<1>8. /\ Stem' = Stem /\ Fallback' = Fallback /\ Draft' = Draft
      /\ Heard' = IF watcher'.pc \in {"base", "merge"} THEN watcher'.body ELSE Stem
  BY DEF Stem, Fallback, Draft, Heard, Writing
<1> QED  BY <1>0, <1>1, <1>3, <1>5, <1>6, <1>7, <1>8 DEF Reconciled

(* The watcher begins an ingest,                                           *)
LEMMA PollLives ==
  ASSUME Alive, Poll
  PROVE  Live' /\ \A x \in Words : Rooted(x)'
<1>0. /\ Types /\ Placed /\ PeopleTypes /\ ~setting.crossing
  BY DEF Alive, Live, Types, Sole
<1>1. /\ watcher.pc = "idle" /\ flush.pc = "idle" /\ WatcherOnly
      /\ doc' = doc /\ base' = base /\ room' = room /\ flush' = flush /\ setting' = setting
  BY <1>0 DEF Poll
<1>2. CASE watcher' = watcher
  <2>1. /\ object' = object /\ images' = images /\ author' = author /\ striker' = striker
        /\ phase' = phase
    BY <1>1 DEF WatcherOnly, history
  <2>2. Single'
    BY <1>1, <1>2, <2>1 DEF Alive, Live, Single, Writing
  <2> QED  BY <1>1, <1>2, <2>1, <2>2, Elsewhere
<1>3. CASE phase = "open" /\ watcher' = [Resting EXCEPT !.pc = "load", !.base = base]
  <2>1. watcher'.pc = "load" /\ watcher'.base = base
    BY <1>3 DEF Resting
  <2>2. WatcherAt'
    BY <1>1, <2>1 DEF WatcherAt
  <2>3. /\ Single' /\ Enough' /\ Reconciled' /\ \A x \in Words : Rooted(x)'
        /\ Stem' = Stem /\ Fallback' = Fallback /\ Draft' = Draft /\ Heard' = Stem
    BY <1>1, <1>3, <2>1, <2>2, IngestKeeps
  <2>4. Placed'
    BY <1>0, <1>1, <2>3, Unmoved DEF WatcherOnly, history
  <2> QED  BY <2>3, <2>4 DEF Live
<1> QED  BY <1>2, <1>3 DEF Poll

\* The watcher's query fails, or has nothing for it: the ingest ends.
LEMMA IngestEnds ==
  ASSUME Alive, watcher.pc \in {"load", "base"}, watcher' = Resting, WatcherOnly,
         doc' = doc, base' = base, room' = room, flush' = flush,
         setting' = setting \/ Failing("watch")
  PROVE  Live' /\ \A x \in Words : Rooted(x)'
<1>0. /\ Types /\ Placed /\ PeopleTypes /\ Single
  BY DEF Alive, Live, Types
<1>1. flush.pc = "idle" /\ phase # "flushing"
  BY <1>0 DEF Single
<1>2. watcher'.pc = "idle"
  BY DEF Resting
<1>3. /\ setting'.people = setting.people /\ setting'.unsaved = setting.unsaved
      /\ setting'.outside = setting.outside
  <2>1. ASSUME Failing("watch")  PROVE setting'.outside = setting.outside
    BY <2>1, <1>0 DEF Failing, PeopleTypes, Setting
  <2> QED  BY <1>0, <2>1, FailingCounts DEF Scene
<1>4. WatcherAt'
  BY <1>2 DEF WatcherAt
<1>5. /\ Single' /\ Enough' /\ Reconciled' /\ \A x \in Words : Rooted(x)'
      /\ Stem' = Stem /\ Fallback' = Fallback /\ Draft' = Draft /\ Heard' = Stem
  BY <1>1, <1>2, <1>3, <1>4, IngestKeeps
<1>6. Placed'
  BY <1>0, <1>5, Unmoved DEF WatcherOnly, history
<1> QED  BY <1>5, <1>6 DEF Live

(* reads the object,                                                       *)
LEMMA LoadLives ==
  ASSUME Alive, Load
  PROVE  Live' /\ \A x \in Words : Rooted(x)'
<1>0. /\ Types /\ Placed /\ PeopleTypes /\ Single /\ Reconciled /\ \A x \in Words : Rooted(x)
      /\ setting.outside < MaxAttempts
  BY DEF Alive, Live, Types, Sole
<1>1. /\ watcher.pc = "load" /\ WatcherOnly
      /\ doc' = doc /\ base' = base /\ room' = room /\ flush' = flush
  BY DEF Load
<1>2. flush.pc = "idle" /\ phase # "flushing"
  BY <1>0, <1>1 DEF Single
<1>3. CASE /\ ~object.deleted /\ ~(object.version <= watcher.base) /\ setting' = setting
           /\ watcher' = [watcher EXCEPT !.pc = "base", !.version = object.version,
                                         !.body = object.body]
  <2>1. /\ watcher'.pc = "base" /\ watcher'.version = object.version
        /\ watcher'.body = object.body /\ watcher'.base = watcher.base
    BY <1>0, <1>3 DEF Types, Ingests
  <2>2. object.version \in Nat /\ base \in Nat /\ setting.outside \in Nat /\ MaxAttempts \in Nat
    BY <1>0, Counts
  <2>3. base < object.version /\ watcher.base = base
    BY <1>0, <1>1, <1>3, <2>2 DEF Reconciled, WatcherAt
  <2>4. room.baseMd = BodyAt(base) /\ BodyAt(object.version) = object.body
    BY <1>0, <1>1, <1>2, <1>3, NewestBody DEF Reconciled, FlushAt, Done, Types
  <2>5. object' = object /\ images' = images /\ author' = author /\ striker' = striker
    BY <1>1 DEF WatcherOnly, history
  <2>6. BodyAt(base)' = BodyAt(base) /\ BodyAt(object.version)' = BodyAt(object.version)
    BY <1>1, <2>5 DEF BodyAt
  <2>7. WatcherAt'
    BY <1>1, <2>1, <2>2, <2>3, <2>4, <2>5, <2>6 DEF WatcherAt, BodyAt
  <2>8. Ready(watcher'.version)
    BY <1>0, <2>1, <2>2 DEF Ready, Lag
  <2>9. /\ Single' /\ Enough' /\ Reconciled' /\ \A x \in Words : Rooted(x)'
        /\ Stem' = Stem /\ Fallback' = Fallback /\ Draft' = Draft /\ Heard' = object.body
    BY <1>1, <1>2, <1>3, <2>1, <2>7, <2>8, IngestKeeps
  <2>10. Placed'
    BY <1>0, <1>1, <1>3, <2>5, <2>9, Heeded
  <2> QED  BY <2>9, <2>10 DEF Live
<1> QED  BY <1>1, <1>3, IngestEnds DEF Load

(* looks up the body the room was reconciled to,                           *)
LEMMA BaseBodyLives ==
  ASSUME Alive, BaseBody
  PROVE  Live' /\ \A x \in Words : Rooted(x)'
<1>0. /\ Types /\ Placed /\ PeopleTypes /\ Single /\ Reconciled /\ Enough
      /\ \A x \in Words : Rooted(x)
  BY DEF Alive, Live, Types
<1>1. /\ watcher.pc = "base" /\ WatcherOnly /\ doc' = doc /\ room' = room /\ flush' = flush
      /\ phase # "gone"
  BY DEF BaseBody, Alive
<1>2. /\ object' = object /\ images' = images /\ author' = author /\ striker' = striker
      /\ phase' = phase
  BY <1>1 DEF WatcherOnly, history
<1>3. flush.pc = "idle" /\ phase # "flushing"
  BY <1>0, <1>1 DEF Single
<1>4. /\ watcher.base = base /\ base < watcher.version /\ room.baseMd = BodyAt(base)
      /\ watcher.version <= object.version /\ watcher.body = BodyAt(watcher.version)
      /\ Ready(watcher.version)
  BY <1>0, <1>1 DEF Reconciled, WatcherAt, Enough
<1>5. object.version \in Nat /\ base \in Nat /\ watcher.version \in Nat
      /\ DOMAIN images \subseteq Nat
  BY <1>0, Counts DEF Types, RowTypes
<1> DEFINE later == {v \in DOMAIN images : v >= watcher.base}
<1>6. CASE Failing("watch") /\ watcher' = Resting /\ base' = base
  BY <1>1, <1>6, IngestEnds
<1>7. CASE /\ later = {} /\ watcher' = Resting /\ setting' = setting
           /\ base' = IF phase # "gone" /\ watcher.version > base
                      THEN watcher.version ELSE base
  <2>1. base' = watcher.version /\ watcher'.pc = "idle"
    BY <1>1, <1>4, <1>5, <1>7 DEF Resting
  <2>2. room.baseMd = object.body
    BY <1>4, <1>7 DEF BodyAt, BodyIn
  <2>3. BodyAt(watcher.version) = object.body
    <3>1. {v \in DOMAIN images : v >= watcher.version} = {}
      BY <1>4, <1>5, <1>7
    <3> QED  BY <3>1 DEF BodyAt, BodyIn
  <2>4. (room.baseMd = BodyAt(base) /\ base <= object.version)'
    BY <1>1, <1>2, <1>4, <2>1, <2>2, <2>3 DEF BodyAt
  <2>5. FlushAt' /\ WatcherAt'
    BY <1>1, <1>3, <2>1, <2>4 DEF FlushAt, WatcherAt
  <2>6. Enough'
    <3>1. Ready(base)'
      BY <1>2, <1>4, <1>7, <2>1 DEF Ready, Lag
    <3> QED  BY <1>1, <1>3, <2>1, <3>1 DEF Enough
  <2>7. Single'
    BY <1>0, <1>1, <1>2, <1>3, <1>7, <2>1 DEF Single, Writing
  <2>8. Stem' = Stem /\ Fallback' = Fallback /\ Draft' = Draft /\ Heard' = Stem
    BY <1>1, <1>3, <2>1 DEF Stem, Fallback, Draft, Heard, Writing
  <2>9. Placed'
    BY <1>0, <1>1, <1>2, <2>8, Unmoved
  <2> QED  BY <1>0, <1>2, <1>7, <2>5, <2>6, <2>7, <2>9 DEF Live, Reconciled, Rooted
<1>8. CASE /\ later # {} /\ UNCHANGED <<base, setting>>
           /\ watcher' = [watcher EXCEPT !.pc = "merge",
                 !.from = images[CHOOSE v \in later : \A o \in later : v <= o]]
  <2>1. /\ watcher'.pc = "merge" /\ watcher'.base = watcher.base
        /\ watcher'.version = watcher.version /\ watcher'.body = watcher.body
        /\ watcher'.from = images[CHOOSE v \in later : \A o \in later : v <= o]
    BY <1>0, <1>8 DEF Types, Ingests
  <2>2. watcher'.from = room.baseMd
    <3>1. BodyAt(watcher.base) = images[CHOOSE v \in later : \A o \in later : v <= o]
      BY <1>8 DEF BodyAt, BodyIn
    <3> QED  BY <1>4, <2>1, <3>1
  <2>3. WatcherAt'
    BY <1>1, <1>2, <1>4, <1>8, <2>1, <2>2, SameBodies DEF WatcherAt
  <2>4. /\ Single' /\ Enough' /\ Reconciled' /\ \A x \in Words : Rooted(x)'
        /\ Stem' = Stem /\ Fallback' = Fallback /\ Draft' = Draft /\ Heard' = watcher.body
    BY <1>1, <1>3, <1>4, <1>8, <2>1, <2>3, IngestKeeps
  <2>5. Heard = watcher.body
    BY <1>1, <1>3 DEF Heard
  <2>6. Placed'
    BY <1>0, <1>1, <1>2, <2>4, <2>5, Unmoved
  <2> QED  BY <2>4, <2>6 DEF Live
<1> QED  BY <1>6, <1>7, <1>8 DEF BaseBody

(* merges what is new,                                                     *)
LEMMA MergeInLives ==
  ASSUME Alive, MergeIn
  PROVE  Live' /\ \A x \in Words : Rooted(x)'
<1>0. /\ Types /\ Placed /\ PeopleTypes /\ Single /\ Reconciled /\ Enough
      /\ ~setting.overlaps /\ \A x \in Words : Rooted(x)
  BY DEF Alive, Live, Types, Sole
<1>1. /\ watcher.pc = "merge" /\ WatcherOnly /\ room' = room /\ flush' = flush
      /\ setting' = setting /\ phase # "gone"
  BY DEF MergeIn, Alive
<1>2. /\ object' = object /\ images' = images /\ author' = author /\ striker' = striker
      /\ phase' = phase
  BY <1>1 DEF WatcherOnly, history
<1>3. flush.pc = "idle" /\ phase # "flushing"
  BY <1>0, <1>1 DEF Single
<1>4. /\ watcher.base = base /\ base < watcher.version /\ watcher.from = room.baseMd
      /\ watcher.version <= object.version /\ watcher.body = BodyAt(watcher.version)
      /\ Ready(watcher.version)
  BY <1>0, <1>1 DEF Reconciled, WatcherAt, Enough
<1>5. base \in Nat /\ watcher.version \in Nat
  BY <1>0, Counts
<1>6. \A text, from, to : ~MayOverlap(text, from, to)
  BY <1>0, Zenon DEF MayOverlap
<1>7. /\ doc' = Merge(doc, watcher.from, watcher.body) /\ base' = watcher.version
      /\ watcher' = [watcher EXCEPT !.pc = "note"]
  BY <1>1, <1>4, <1>5, <1>6 DEF MergeIn
<1>8. /\ watcher'.pc = "note" /\ watcher'.version = watcher.version
      /\ watcher'.body = watcher.body
  BY <1>0, <1>7 DEF Types, Ingests
<1>9. Single'
  BY <1>0, <1>1, <1>2, <1>3 DEF Single, Writing
<1>10. Enough'
  <2>1. Ready(base)'
    BY <1>1, <1>2, <1>4, <1>7 DEF Ready, Lag
  <2> QED  BY <1>1, <1>3, <1>8, <2>1 DEF Enough
<1>11. FlushAt' /\ WatcherAt'
  <2>1. (watcher.version <= object.version /\ watcher.body = BodyAt(watcher.version))'
    BY <1>2, <1>4, <1>8 DEF BodyAt
  <2>2. base' = watcher'.version
    BY <1>7, <1>8
  <2> QED  BY <1>1, <1>3, <1>8, <2>1, <2>2 DEF FlushAt, WatcherAt
<1>12. Placed'
  <2>1. Stem = room.baseMd /\ Heard = watcher.body /\ Draft = doc
    BY <1>1, <1>3, ViewsNow DEF Views, Writing
  <2>2. Stem' = Heard /\ Fallback' = Heard /\ Heard' = Heard /\ Draft' = doc'
    BY <1>1, <1>3, <1>8, <2>1, ViewsNext DEF Views, Writing
  <2> QED  BY <1>0, <1>2, <1>4, <1>7, <2>1, <2>2, Merged
<1> QED  BY <1>0, <1>1, <1>2, <1>9, <1>10, <1>11, <1>12 DEF Live, Reconciled, Rooted

(* and tells the flush.                                                    *)
LEMMA NoteLives ==
  ASSUME Alive, NoteExternalWrite
  PROVE  Live' /\ \A x \in Words : Rooted(x)'
<1>0. /\ Types /\ Placed /\ PeopleTypes /\ Single /\ Reconciled /\ Enough
      /\ \A x \in Words : Rooted(x)
  BY DEF Alive, Live, Types
<1>1. /\ watcher.pc = "note" /\ watcher' = Resting /\ WatcherOnly /\ doc' = doc /\ base' = base
      /\ flush' = flush /\ setting' = setting /\ phase # "gone"
      /\ room.runs = <<>> /\ room.baseMd # Unread
  BY <1>0 DEF NoteExternalWrite, Alive, Single
<1>2. /\ object' = object /\ images' = images /\ author' = author /\ striker' = striker
      /\ phase' = phase
  BY <1>1 DEF WatcherOnly, history
<1>3. flush.pc = "idle" /\ phase # "flushing" /\ watcher'.pc = "idle"
  BY <1>0, <1>1 DEF Single, Resting
<1>4. room' = [room EXCEPT !.baseMd = watcher.body, !.runs = Rebased(@, room.baseMd, watcher.body)]
  BY <1>1 DEF NoteExternalWrite, AnyOverlap
<1>5. Rebased(room.runs, room.baseMd, watcher.body) = <<>>
  <2>1. room.baseMd \in SUBSET Words /\ watcher.body \in SUBSET Words /\ room.runs \in Runs
    BY <1>0, <1>1 DEF Types, Rooms, Ingests
  <2> DEFINE r == Rebased(room.runs, room.baseMd, watcher.body)
  <2>2. r \in Runs /\ Len(r) = Len(room.runs)
    BY <2>1, RebasedKeeps
  <2> HIDE DEF r
  <2>3. r = <<>>
    BY <1>1, <2>1, <2>2, RunsAreSequences
  <2> QED  BY <2>3 DEF r
<1>6. /\ room'.runs = <<>> /\ room'.baseMd = watcher.body /\ room'.open = room.open
      /\ room'.again = room.again
  BY <1>0, <1>4, <1>5 DEF Types, Rooms
<1>7. watcher.body # Unread
  BY <1>0, RoomAssumption DEF Types, Ingests
<1>8. Single'
  BY <1>0, <1>1, <1>2, <1>3, <1>6, <1>7 DEF Single, Writing
<1>9. /\ base = watcher.version /\ watcher.version <= object.version
      /\ watcher.body = BodyAt(watcher.version)
  BY <1>0, <1>1 DEF Reconciled, WatcherAt
<1>10. FlushAt' /\ WatcherAt'
  <2>1. base' <= object'.version /\ (room.baseMd = BodyAt(base))'
    BY <1>0, <1>1, <1>2, <1>6, <1>9, Counts DEF BodyAt
  <2> QED  BY <1>1, <1>3, <2>1 DEF FlushAt, WatcherAt
<1>11. Enough'
  <2>1. ~object.deleted => Ready(base)
    BY <1>0, <1>3 DEF Enough, Done
  <2>2. ~object'.deleted => Ready(base)'
    BY <1>1, <1>2, <2>1 DEF Ready, Lag
  <2> QED  BY <1>1, <1>3, <2>2 DEF Enough
<1>12. Placed'
  <2>1. Stem = watcher.body /\ Heard = Stem /\ Draft = doc
    BY <1>1, <1>3, ViewsNow DEF Views, Writing
  <2>2. Stem' = Stem /\ Fallback' = Stem /\ Heard' = Stem /\ Draft' = doc
    BY <1>1, <1>3, <1>6, <2>1, ViewsNext DEF Views, Writing
  <2> QED  BY <1>0, <1>1, <1>2, <2>1, <2>2, Unmoved
<1> QED  BY <1>0, <1>1, <1>2, <1>8, <1>10, <1>11, <1>12 DEF Live, Reconciled, Rooted

-----------------------------------------------------------------------------
(* Every step.                                                             *)

(* The room is dropped after its last flush, or with a trashed object.     *)
LEMMA PhaseNext ==
  ASSUME Next
  PROVE  \/ phase' = phase
         \/ phase # "gone" /\ phase' \in {"closing", "flushing"}
         \/ phase' = "gone" /\ (Drop \/ Purge)
<1>1. ASSUME \E u \in Users, w \in Words : Type(u, w) \/ Strike(u, w)  PROVE phase' = phase
  BY <1>1 DEF Type, Strike
<1>2. ASSUME \/ \E w \in Words : OutsideAdds(w) \/ OutsideStrikes(w)
             \/ OutsideEditsProps \/ Trash \/ \E u \in Users : Revoke(u)
      PROVE  phase' = phase
  BY <1>2 DEF OutsideAdds, OutsideStrikes, OutsideEditsProps, Trash, FromOutside, Revoke
<1>3. ASSUME Fire \/ FlushStep \/ WatcherStep  PROVE phase' = phase
  BY <1>3 DEF Fire, FlushStep, ReadBase, Based, CheckRights, WriteRun, Written, Reread, Rebase,
     NextCycle, UnlessFlushing, WatcherStep, Poll, Load, BaseBody, MergeIn, NoteExternalWrite,
     WatcherOnly
<1>4. ASSUME Close \/ LastFlush
      PROVE  phase # "gone" /\ phase' \in {"closing", "flushing"}
  BY <1>4 DEF Close, LastFlush
<1>5. ASSUME Drop \/ Purge  PROVE phase' = "gone"
  BY <1>5 DEF Drop, Purge
<1> QED  BY <1>1, <1>2, <1>3, <1>4, <1>5 DEF Next

(* Every step of a live room.                                              *)
LEMMA NextLives ==
  ASSUME Alive, Next
  PROVE  \/ Live' /\ \A x \in Words : Rooted(x)'
         \/ Drop \/ Purge
<1>1. ~ReadBase /\ ~Based
  BY DEF Alive, Live, Single, ReadBase, Based
<1> QED  BY <1>1, TypeLives, StrikeLives, OutsideLives, RevokeLives, FireLives,
   CheckRightsLives, WriteRunLives, WrittenLives, RereadLives, RebaseLives, NextCycleLives,
   PollLives, LoadLives, BaseBodyLives, MergeInLives, NoteLives, CloseLives, LastFlushLives
   DEF Next, FlushStep, WatcherStep

(* When the room is gone, the flush of a trashed object may be refused.    *)
LEMMA GoneStays ==
  ASSUME Types, Sole, \A x \in Words : Rooted(x), phase = "gone",
         object.deleted \/ flush.pc = "idle", Next
  PROVE  (\A x \in Words : Rooted(x)') /\ (object'.deleted \/ flush'.pc = "idle")
<1>0. RowTypes /\ PeopleTypes
  BY DEF Types
<1>1. setting'.people = setting.people /\ setting'.unsaved = setting.unsaved
  BY SoleStays
<1>2. CASE \/ \E w \in Words : OutsideAdds(w) \/ OutsideStrikes(w)
           \/ OutsideEditsProps \/ Trash
  <2>1. ~object.deleted /\ flush' = flush
    BY <1>2 DEF OutsideAdds, OutsideStrikes, OutsideEditsProps, Trash, FromOutside
  <2> QED  BY <1>2, <2>1, OutsideRooted
<1>3. ASSUME object' = object, author' = author, striker' = striker,
             flush' = flush \/ object.deleted
      PROVE  (\A x \in Words : Rooted(x)') /\ (object'.deleted \/ flush'.pc = "idle")
  BY <1>1, <1>3 DEF Rooted
<1>4. CASE \E u \in Users : Revoke(u)
  BY <1>3, <1>4 DEF Revoke, stored, history
<1>5. CASE WatcherStep
  BY <1>3, <1>5 DEF WatcherStep, Poll, Load, BaseBody, MergeIn, NoteExternalWrite,
     WatcherOnly, history
<1>6. CASE \/ Drop \/ Purge \/ Close \/ LastFlush \/ Fire
           \/ \E u \in Users, w \in Words : Type(u, w) \/ Strike(u, w)
  BY <1>6 DEF Drop, Purge, Close, LastFlush, Fire, Type, Strike, MayType
<1>7. CASE FlushStep
  <2>1. flush.pc # "idle" /\ author' = author
    BY <1>7 DEF FlushStep, ReadBase, Based, CheckRights, WriteRun, Written, Reread, Rebase,
       NextCycle, UnlessFlushing
  <2>2. object.deleted
    BY <2>1
  <2>3. object' = object
    BY <1>7, <2>2 DEF FlushStep, ReadBase, Based, CheckRights, WriteRun, Written, Reread, Rebase,
       NextCycle, stored
  <2>4. striker' = striker \/ Refuse
    BY <1>7, <2>2 DEF FlushStep, ReadBase, Based, CheckRights, WriteRun, Written, Reread, Rebase,
       NextCycle, Steady
  <2>5. CASE Refuse
    <3> SUFFICES ASSUME NEW x \in Words  PROVE Rooted(x)'
      BY <2>2, <2>3
    <3>1. striker'[x] = IF x \in (flush.prev \ doc) \cap object.body /\ striker[x] \in Users
                        THEN None ELSE striker[x]
      BY <2>5 DEF Refuse
    <3>2. Rooted(x)
      OBVIOUS
    <3> QED  BY <1>1, <2>1, <2>3, <3>1, <3>2, RoomAssumption DEF Rooted
  <2> QED  BY <1>3, <2>1, <2>2, <2>3, <2>4, <2>5
<1> QED  BY <1>2, <1>4, <1>5, <1>6, <1>7 DEF Next

(* The invariant is inductive.                                             *)
LEMMA NextSole ==
  ASSUME Types, SoleInv, [Next]_vars
  PROVE  SoleInv'
<1>0. Sole' /\ Sole /\ \A x \in Words : Rooted(x)
  BY SoleStays DEF SoleInv
<1>1. CASE UNCHANGED vars
  <2>1. /\ object' = object /\ images' = images /\ doc' = doc /\ base' = base /\ room' = room
        /\ flush' = flush /\ watcher' = watcher /\ author' = author /\ striker' = striker
        /\ setting' = setting /\ phase' = phase
    BY <1>1 DEF vars, stored, history
  <2>2. CASE phase = "gone"
    BY <1>0, <2>1, <2>2 DEF SoleInv, Rooted
  <2>3. CASE phase # "gone"
    <3>1. Alive
      BY <2>3 DEF Alive, SoleInv
    <3>2. Single'
      BY <2>1, <3>1 DEF Alive, Live, Single, Writing
    <3> QED  BY <1>0, <2>1, <2>3, <3>1, <3>2, Elsewhere DEF SoleInv
  <2> QED  BY <2>2, <2>3
<1>2. CASE Next /\ phase = "gone"
  <2>1. phase' = "gone"
    BY <1>2, PhaseNext
  <2> QED  BY <1>0, <1>2, <2>1, GoneStays DEF SoleInv
<1>3. CASE Next /\ phase # "gone"
  <2>1. Alive
    BY <1>3 DEF Alive, SoleInv
  <2>2. CASE Drop \/ Purge
    BY <1>0, <2>2 DEF SoleInv, Drop, Purge, stored, history, Rooted
  <2>3. CASE ~Drop /\ ~Purge
    BY <1>0, <1>3, <2>1, <2>3, NextLives, PhaseNext DEF SoleInv
  <2> QED  BY <2>2, <2>3
<1> QED  BY <1>1, <1>2, <1>3

(* It holds when the room opens.                                           *)
LEMMA InitSole == Init /\ Sole => SoleInv
<1> SUFFICES ASSUME Init, Sole PROVE SoleInv
  OBVIOUS
<1>0. Types
  BY InitTypes
<1>1. /\ object = [version |-> 1, body |-> Initial, deleted |-> FALSE] /\ images = << >>
      /\ doc = Initial \union setting.unsaved /\ base = 1 /\ flush = Idle /\ watcher = Resting
      /\ phase = "open" /\ setting.known
      /\ room.runs = <<>> /\ room.open = None /\ room.baseMd = Initial /\ room.again = "no"
  BY DEF Init, Sole
<1>2. flush.pc = "idle" /\ watcher.pc = "idle" /\ object.version = 1 /\ object.body = Initial
      /\ ~object.deleted
  BY <1>1 DEF Idle, Resting
<1>3. ASSUME NEW w \in Words
      PROVE  /\ striker[w] = None
             /\ author[w] = IF w \in Initial THEN Outside
                            ELSE IF w \in setting.unsaved THEN Joiner ELSE None
  BY DEF Init
<1>4. Joiner \in Users /\ None \notin Users /\ Outside \notin Users /\ None # Outside
      /\ Initial \in SUBSET Words /\ Initial # Unread
  BY RoomAssumption
<1>5. \A w \in Words : Rooted(w)
  BY <1>2, <1>3, <1>4 DEF Rooted
<1>6. Single
  BY <1>1, <1>2, <1>4 DEF Single, Writing
<1>7. Enough
  BY <1>0, <1>1, <1>2, Counts DEF Enough, Ready, Lag, Sole
<1>8. Reconciled
  <2>1. DOMAIN images = {}
    BY <1>1
  <2>2. BodyAt(1) = Initial
    BY <1>2, <2>1 DEF BodyAt, BodyIn
  <2> QED  BY <1>1, <1>2, <2>1, <2>2 DEF Reconciled, FlushAt, WatcherAt
<1>9. Placed
  <2>1. Stem = Initial /\ Fallback = Initial /\ Heard = Initial /\ Draft = doc
    BY <1>1, <1>2, ViewsNow DEF Views, Writing
  <2>2. ASSUME NEW w \in Words  PROVE Sure(w) /\ Exact(w)
    BY <1>1, <1>2, <1>3, <1>4, <2>1 DEF Sure, Exact
  <2> QED  BY <2>2 DEF Placed
<1> QED  BY <1>1, <1>5, <1>6, <1>7, <1>8, <1>9 DEF SoleInv, Live

(* It gives both properties.                                               *)
LEMMA SoleGives == Types /\ SoleInv => NothingTakenBack /\ StaysStruck
<1> SUFFICES ASSUME Types, SoleInv, NEW w \in Words
             PROVE  /\ author[w] = Outside /\ striker[w] = None => w \in object.body
                    /\ striker[w] = Outside => w \notin object.body
                    /\ phase # "gone" /\ striker[w] \in Users => w \notin doc
  BY DEF NothingTakenBack, StaysStruck
<1>1. Rooted(w) /\ (phase # "gone" => Sure(w))
  BY DEF SoleInv, Live, Placed
<1> QED  BY <1>1 DEF Rooted, Sure

(* Only the write of a run commits while the flush is at it.               *)
LEMMA OnlyWriteRun ==
  ASSUME [Next]_vars, flush.pc = "write", flush' # flush, object' # object
  PROVE  WriteRun
<1>1. Next
  BY DEF vars
<1>2. ~(\/ \E w \in Words : OutsideAdds(w) \/ OutsideStrikes(w)
        \/ OutsideEditsProps \/ Trash)
  BY DEF OutsideAdds, OutsideStrikes, OutsideEditsProps, Trash, FromOutside
<1>3. ~(\/ \E u \in Users, w \in Words : Type(u, w) \/ Strike(u, w)
        \/ \E u \in Users : Revoke(u)
        \/ Fire \/ WatcherStep \/ Close \/ LastFlush \/ Drop \/ Purge)
  BY DEF Type, Strike, Revoke, Fire, WatcherStep, Poll, Load, BaseBody, MergeIn,
     NoteExternalWrite, WatcherOnly, Close, LastFlush, Drop, Purge, stored
<1>4. ~(ReadBase \/ Based \/ CheckRights \/ Written \/ Reread \/ Rebase \/ NextCycle)
  BY DEF ReadBase, Based, CheckRights, Written, Reread, Rebase, NextCycle
<1> QED  BY <1>1, <1>2, <1>3, <1>4 DEF Next, FlushStep

(* What a write adds to the object is the person's.                        *)
LEMMA OwnWords ==
  ASSUME Types, SoleInv, [Next]_vars, flush.pc = "write", flush' # flush, object' # object
  PROVE  LET run == Head(flush.runs)
         IN  run.carry \/ \A w \in object'.body \ object.body :
                             author[w] = run.actor \/ w \in setting.unsaved
<1> DEFINE run == Head(flush.runs)
<1>0. RowTypes /\ PeopleTypes
  BY DEF Types
<1>1. WriteRun
  BY OnlyWriteRun
<1>2. ~object.deleted /\ object.version = flush.at /\ Commit(run.md)
  BY <1>1 DEF WriteRun
<1>3. Single /\ FlushAt /\ Placed /\ Sole /\ (\A w \in Words : Rooted(w))
         /\ \A i \in DOMAIN images : i < object.version
  BY <1>2 DEF SoleInv, Live, Reconciled
<1>4. flush.runs # <<>> /\ (run.carry \/ run.actor \in setting.people) /\ watcher.pc = "idle"
  BY <1>3 DEF Single, Writing, Types, FlushTypes
<1>5. run.md \in SUBSET Words
  <2>1. run \in Run
    BY <1>4, RunsAreSequences DEF Types, FlushTypes, Calls
  <2> QED  BY <2>1 DEF Run
<1>6. object'.body = run.md
  BY <1>0, <1>2, <1>5, CommitTypes
<1>7. Stem = object.body /\ Draft = run.md
  <2>1. Stem = flush.prev /\ Draft = run.md
    BY <1>4, ViewsNow DEF Views, Writing
  <2> QED  BY <1>0, <1>2, <1>3, <2>1, NewestBody DEF FlushAt
<1> HIDE DEF run
<1>8. ASSUME ~run.carry, NEW w \in object'.body \ object.body
      PROVE  author[w] = run.actor \/ w \in setting.unsaved
  <2>1. w \in Words /\ author[w] \in People
    BY <1>0, <1>5, <1>6 DEF PeopleTypes
  <2>2. Exact(w) /\ Rooted(w)
    BY <1>2, <1>3, <2>1 DEF Placed
  <2>3. author[w] \in Users
    BY <1>6, <1>7, <2>1, <2>2 DEF Exact, People
  <2>4. author[w] \in setting.people \/ w \in setting.unsaved
    BY <2>2, <2>3 DEF Rooted
  <2> QED  BY <1>3, <1>4, <1>8, <2>4 DEF Sole
<1> QED  BY <1>8 DEF run

-----------------------------------------------------------------------------
(***************************************************************************)
(* Fourth part: several people in the room and nobody writing outside it,  *)
(* whichever call fails and whoever loses the right to write.  The object  *)
(* has what the room was last reconciled to, so that a compare-and-swap    *)
(* lost to the room's own last flush brings nothing new; and each word     *)
(* first appears in a contribution of whoever put it in.                   *)
(***************************************************************************)

\* Nobody writes the object without the room.
Undisturbed == setting.outside = 0

\* What the room was last reconciled to,
Basis ==
    IF flush.pc = "written" THEN Head(flush.runs).md
    ELSE IF Writing THEN flush.prev
    ELSE IF room.baseMd = Unread THEN object.body
    ELSE room.baseMd

\* what is written before the contributions that wait in the room,
Latter == IF Writing THEN Final(flush.runs) ELSE Basis

\* and before what is typed next.
Newest == IF room.runs = <<>> THEN Latter ELSE Final(room.runs)

OnlyWriter ==
    /\ ~object.deleted /\ news = 0 /\ watcher.pc = "idle"
    /\ phase = "gone" => flush.pc = "idle"
    /\ Basis = object.body
    /\ Writing => room.baseMd # Unread
    /\ flush.pc \in {"based", "rebase"} => flush.got.body = object.body
    /\ flush.pc \in {"based", "rebase", "written"} => flush.got.version = object.version
    /\ flush.pc = "reread" => flush.at # object.version
    /\ flush.pc \in {"check", "write", "reread", "rebase"} /\ flush.at # object.version =>
          room.baseMd = flush.prev

\* A word not typed yet is nowhere, one that was there first and nobody took
\* out is everywhere, and one that somebody took out is not in the text.
Apart(w) ==
    /\ author[w] = None =>
          /\ striker[w] = None /\ w \notin doc /\ w \notin object.body
          /\ ~Held(w, room.runs) /\ (Writing => ~Held(w, flush.runs))
    /\ author[w] = Outside /\ striker[w] = None =>
          /\ w \in doc /\ w \in object.body
          /\ Carried(w, room.runs) /\ (Writing => Carried(w, flush.runs))
    /\ striker[w] # Outside
    /\ striker[w] \in Users /\ w \notin reverted => w \notin doc

\* Until the last flush no compare-and-swap is lost.
OnTime ==
    phase \in {"open", "closing"} =>
        /\ ~flush.last /\ room.again # "last"
        /\ ~Writing => base = object.version
        /\ Writing => base <= object.version /\ (flush.wrote \/ base = flush.at)
        /\ Writing /\ flush.pc # "written" => flush.at = object.version

\* A contribution that brings the word in is by who put it in, or carries over.
Begun(w, who, start, runs) ==
    \A i \in DOMAIN runs :
        w \in runs[i].md /\ w \notin (IF i = 1 THEN start ELSE runs[i - 1].md)
            => runs[i].carry \/ runs[i].actor = who

Own(w) ==
    /\ Writing => Begun(w, author[w], flush.prev, flush.runs)
    /\ Begun(w, author[w], Latter, room.runs)
    /\ w \in doc /\ w \notin Newest =>
          room.open = author[w] \/ (room.open = None /\ phase \notin {"open", "closing"})

\* Until the last flush nothing is carried over.
Carries(runs) == \E i \in DOMAIN runs : runs[i].carry

Even ==
    phase \in {"open", "closing"} =>
        /\ room.open = None => doc = Newest
        /\ ~Carries(room.runs) /\ (Writing => ~Carries(flush.runs))

\* The two inductive invariants, but for the types.
Lone == OnlyWriter /\ \A w \in Words : Apart(w)
Credited == OnTime /\ Even /\ \A w \in Words : Own(w)

-----------------------------------------------------------------------------
(* Who began, in a sequence of contributions.                              *)

(* What is closed begins the words that the open contribution did.         *)
LEMMA BegunClosed ==
  ASSUME NEW runs \in Runs, NEW open \in Users \union {None}, NEW text \in SUBSET Words,
         NEW w, NEW who, NEW start, Begun(w, who, start, runs),
         w \in text /\ w \notin (IF runs = <<>> THEN start ELSE Final(runs)) =>
            open = who \/ open = None
  PROVE  LET c == Closed(runs, open, text)
         IN  /\ c \in Runs /\ Begun(w, who, start, c)
             /\ open # None => c # <<>> /\ Final(c) = text
             /\ open = None => c = runs
             /\ Carries(c) => Carries(runs)
<1> DEFINE c == Closed(runs, open, text)
<1>0. c \in Runs /\ Len(runs) \in Nat /\ DOMAIN runs = 1 .. Len(runs)
      /\ (runs = <<>> <=> Len(runs) = 0)
  BY ClosedAdds, RunsAreSequences
<1>1. CASE open = None
  <2>1. c = runs
    BY <1>1 DEF Closed
  <2> QED  BY <1>0, <1>1, <2>1
<1>2. CASE open # None
  <2> DEFINE new == [actor |-> open, md |-> text, carry |-> FALSE]
  <2>1. c = Append(runs, new) /\ runs \in Seq(Run) /\ new \in Run
    BY <1>2, RunsAreSequences DEF Closed, Run
  <2>2. new.actor = open /\ new.md = text /\ new.carry = FALSE
    OBVIOUS
  <2> HIDE DEF new, c
  <2>3. /\ Len(c) = Len(runs) + 1
        /\ \A i \in 1 .. Len(runs) : c[i] = runs[i]
        /\ c[Len(runs) + 1] = new
    BY <2>1, AppendProperties
  <2>4. DOMAIN c = 1 .. Len(runs) + 1 /\ c # <<>> /\ Final(c) = text
    BY <1>0, <2>2, <2>3, RunsAreSequences DEF Final
  <2>5. ASSUME NEW i \in DOMAIN c, w \in c[i].md,
               w \notin (IF i = 1 THEN start ELSE c[i - 1].md)
        PROVE  c[i].carry \/ c[i].actor = who
    <3>1. CASE i \in DOMAIN runs
      <4>1. w \in runs[i].md /\ w \notin (IF i = 1 THEN start ELSE runs[i - 1].md)
        BY <1>0, <2>3, <2>5, <3>1
      <4> QED  BY <1>0, <2>3, <3>1, <4>1 DEF Begun
    <3>2. CASE i = Len(runs) + 1
      <4>1. w \in text /\ w \notin (IF runs = <<>> THEN start ELSE Final(runs))
        BY <1>0, <2>2, <2>3, <2>5, <3>2 DEF Final
      <4> QED  BY <1>2, <2>2, <2>3, <3>2, <4>1
    <3> QED  BY <1>0, <2>4, <3>1, <3>2
  <2>6. Carries(c) => Carries(runs)
    <3> SUFFICES ASSUME NEW i \in DOMAIN c, c[i].carry  PROVE Carries(runs)
      BY DEF Carries
    <3>1. i # Len(runs) + 1
      BY <2>2, <2>3
    <3> QED  BY <1>0, <2>3, <2>4, <3>1 DEF Carries
  <2> QED  BY <1>0, <1>2, <2>4, <2>5, <2>6 DEF Begun, c
<1> QED  BY <1>1, <1>2

(* Zero churn drops no beginning.                                          *)
LEMMA BegunChanging ==
  ASSUME NEW runs \in Runs, NEW prev, NEW w, NEW who, Begun(w, who, prev, runs)
  PROVE  LET c == Changing(runs, prev)
         IN  /\ c \in Runs /\ Begun(w, who, prev, c)
             /\ Carries(c) => Carries(runs)
<1> DEFINE c == Changing(runs, prev)
<1>1. PICK k \in 0 .. Len(runs) :
        /\ Len(c) = Len(runs) - k
        /\ \A i \in 1 .. Len(c) : c[i] = runs[i + k]
        /\ \A i \in 1 .. k : runs[i].md = prev
  BY ChangingDrops
<1>2. c \in Runs
  BY ChangingDrops
<1> HIDE DEF c
<1>3. Len(runs) \in Nat /\ DOMAIN runs = 1 .. Len(runs) /\ DOMAIN c = 1 .. Len(c)
  BY <1>2, RunsAreSequences
<1>4. ASSUME NEW i \in DOMAIN c, w \in c[i].md,
             w \notin (IF i = 1 THEN prev ELSE c[i - 1].md)
      PROVE  c[i].carry \/ c[i].actor = who
  <2>1. PICK j \in DOMAIN runs : j = i + k /\ c[i] = runs[j]
    BY <1>1, <1>3
  <2>2. w \notin (IF j = 1 THEN prev ELSE runs[j - 1].md)
    <3>1. CASE i = 1 /\ k = 0
      BY <1>4, <2>1, <3>1
    <3>2. CASE i = 1 /\ k # 0
      <4>1. k \in 1 .. k /\ j - 1 = k /\ j # 1
        BY <1>1, <1>3, <2>1, <3>2
      <4> QED  BY <1>1, <1>3, <1>4, <3>2, <4>1
    <3>3. CASE i # 1
      <4>1. i - 1 \in 1 .. Len(c) /\ (i - 1) + k = j - 1 /\ j # 1
        BY <1>1, <1>3, <2>1, <3>3
      <4>2. c[i - 1] = runs[(i - 1) + k]
        BY <1>1, <4>1
      <4> QED  BY <1>4, <3>3, <4>1, <4>2
    <3> QED  BY <1>1, <1>3, <3>1, <3>2, <3>3
  <2>3. w \in runs[j].md
    BY <1>4, <2>1
  <2> QED  BY <2>1, <2>2, <2>3 DEF Begun
<1>5. Carries(c) => Carries(runs)
  <2> SUFFICES ASSUME NEW i \in DOMAIN c, c[i].carry  PROVE Carries(runs)
    BY DEF Carries
  <2>1. i + k \in DOMAIN runs /\ c[i] = runs[i + k]
    BY <1>1, <1>3
  <2> QED  BY <2>1 DEF Carries
<1> QED  BY <1>2, <1>4, <1>5 DEF Begun, c

(* What is taken up begins what was to be begun, and ends with the text.   *)
LEMMA BegunTaken ==
  ASSUME NEW runs \in Runs, NEW open \in Users \union {None},
         NEW prev \in SUBSET Words, NEW text \in SUBSET Words,
         NEW w, NEW who, Begun(w, who, prev, runs),
         w \in text /\ w \notin (IF runs = <<>> THEN prev ELSE Final(runs)) =>
            open = who \/ open = None
  PROVE  LET t == Changing(Taken(runs, open, prev, text), prev)
         IN  /\ t \in Runs /\ Begun(w, who, prev, t)
             /\ open # None \/ text = (IF runs = <<>> THEN prev ELSE Final(runs)) =>
                   /\ text = (IF t = <<>> THEN prev ELSE Final(t))
                   /\ Carries(t) => Carries(runs)
<1> DEFINE c == Closed(runs, open, text)
           t == Taken(runs, open, prev, text)
<1>1. /\ c \in Runs /\ Begun(w, who, prev, c)
      /\ open # None => c # <<>> /\ Final(c) = text
      /\ open = None => c = runs
      /\ Carries(c) => Carries(runs)
  BY BegunClosed
<1>2. /\ t \in Runs
      /\ \/ t = c /\ (c # <<>> \/ text = prev)
         \/ /\ c = <<>> /\ Len(t) = 1 /\ t[1].md = text /\ t[1].carry
  BY TakenAdds
<1>3. c = <<>> => open = None /\ runs = <<>>
  BY <1>1
<1>4. text = prev /\ c = <<>> => t = <<>>
  BY DEF Taken
<1> HIDE DEF c, t
<1>5. Begun(w, who, prev, t)
  <2>1. CASE t = c
    BY <1>1, <2>1
  <2>2. CASE Len(t) = 1 /\ t[1].carry
    <3>1. DOMAIN t = {1}
      BY <1>2, <2>2, RunsAreSequences
    <3> QED  BY <2>2, <3>1 DEF Begun
  <2> QED  BY <1>2, <2>1, <2>2
<1>6. /\ Changing(t, prev) \in Runs /\ Begun(w, who, prev, Changing(t, prev))
      /\ Carries(Changing(t, prev)) => Carries(t)
  BY <1>2, <1>5, BegunChanging
<1>7. ASSUME open # None \/ text = (IF runs = <<>> THEN prev ELSE Final(runs))
      PROVE  /\ t = c
             /\ text = (IF t = <<>> THEN prev ELSE Final(t))
  <2>1. CASE c = <<>>
    <3>1. text = prev
      BY <1>3, <1>7, <2>1
    <3> QED  BY <1>4, <2>1, <3>1
  <2>2. CASE c # <<>>
    BY <1>1, <1>2, <1>7, <2>2
  <2> QED  BY <2>1, <2>2
<1>8. /\ Changing(t, prev) # <<>> => Final(Changing(t, prev)) = Final(t)
      /\ Changing(t, prev) = <<>> /\ t # <<>> => Final(t) = prev
      /\ t = <<>> => Changing(t, prev) = <<>>
  <2>1. t = <<>> => Changing(t, prev) = <<>>
    BY DEF Changing
  <2> QED  BY <1>2, <2>1, ChangingWord
<1> QED  BY <1>1, <1>6, <1>7, <1>8 DEF t

(* The rest of the contributions begin after the first of them.            *)
LEMMA BegunTail ==
  ASSUME NEW runs \in Runs, runs # <<>>, NEW w, NEW who, NEW start, Begun(w, who, start, runs)
  PROVE  LET md == Head(runs).md
             t == Changing(Tail(runs), md)
         IN  /\ t \in Runs /\ Begun(w, who, md, t)
             /\ Carries(t) => Carries(runs)
             /\ Final(runs) = (IF t = <<>> THEN md ELSE Final(t))
<1> DEFINE md == Head(runs).md
           t == Tail(runs)
<1>1. /\ t \in Runs /\ Len(t) = Len(runs) - 1
      /\ \A i \in DOMAIN t : t[i] = runs[i + 1]
  BY TailRuns
<1>2. /\ t # <<>> => Final(t) = Final(runs)
      /\ t = <<>> => Final(runs) = md
  BY TailWord
<1>3. Head(runs) = runs[1] /\ Len(runs) \in Nat /\ DOMAIN runs = 1 .. Len(runs)
  BY RunsAreSequences
<1> HIDE DEF t
<1>4. DOMAIN t = 1 .. Len(t)
  BY <1>1, RunsAreSequences
<1>5. Begun(w, who, md, t)
  <2> SUFFICES ASSUME NEW i \in DOMAIN t, w \in t[i].md,
                      w \notin (IF i = 1 THEN md ELSE t[i - 1].md)
               PROVE  t[i].carry \/ t[i].actor = who
    BY DEF Begun
  <2>1. i + 1 \in DOMAIN runs /\ t[i] = runs[i + 1] /\ i + 1 # 1
    BY <1>1, <1>3, <1>4
  <2>2. w \notin runs[(i + 1) - 1].md
    <3>1. CASE i = 1
      BY <1>3, <3>1
    <3>2. CASE i # 1
      <4>1. i - 1 \in DOMAIN t /\ (i - 1) + 1 = (i + 1) - 1
        BY <1>4, <3>2
      <4> QED  BY <1>1, <3>2, <4>1
    <3> QED  BY <3>1, <3>2
  <2> QED  BY <2>1, <2>2 DEF Begun
<1>6. Carries(t) => Carries(runs)
  <2> SUFFICES ASSUME NEW i \in DOMAIN t, t[i].carry  PROVE Carries(runs)
    BY DEF Carries
  <2>1. i + 1 \in DOMAIN runs /\ t[i] = runs[i + 1]
    BY <1>1, <1>3, <1>4
  <2> QED  BY <2>1 DEF Carries
<1>7. /\ Changing(t, md) \in Runs /\ Begun(w, who, md, Changing(t, md))
      /\ Carries(Changing(t, md)) => Carries(t)
  BY <1>1, <1>5, BegunChanging
<1>8. /\ Changing(t, md) # <<>> => Final(Changing(t, md)) = Final(t)
      /\ Changing(t, md) = <<>> /\ t # <<>> => Final(t) = md
      /\ t = <<>> => Changing(t, md) = <<>>
  <2>1. t = <<>> => Changing(t, md) = <<>>
    BY DEF Changing
  <2> QED  BY <1>1, <2>1, ChangingWord
<1> QED  BY <1>2, <1>6, <1>7, <1>8 DEF t

(* What is put back begins as it did.                                      *)
LEMMA BegunPutBack ==
  ASSUME NEW first \in Runs, NEW second \in Runs, first # <<>>, NEW w, NEW who, NEW start,
         Begun(w, who, start, first), Begun(w, who, Final(first), second)
  PROVE  LET all == first \o second
         IN  /\ all \in Runs /\ all # <<>> /\ Begun(w, who, start, all)
             /\ Carries(all) => Carries(first) \/ Carries(second)
             /\ Final(all) = (IF second = <<>> THEN Final(first) ELSE Final(second))
<1> DEFINE all == first \o second
<1>1. /\ all \in Runs /\ Len(all) = Len(first) + Len(second)
      /\ \A i \in DOMAIN first : all[i] = first[i]
      /\ \A i \in DOMAIN second : all[i + Len(first)] = second[i]
      /\ \A i \in DOMAIN all : \/ i \in DOMAIN first
                               \/ /\ i - Len(first) \in DOMAIN second
                                  /\ all[i] = second[i - Len(first)]
  BY PutBackJoins
<1> HIDE DEF all
<1>2. /\ Len(first) \in Nat \ {0} /\ DOMAIN first = 1 .. Len(first)
      /\ Len(second) \in Nat /\ DOMAIN second = 1 .. Len(second)
      /\ DOMAIN all = 1 .. Len(all) /\ (all = <<>> <=> Len(all) = 0)
      /\ (second = <<>> <=> Len(second) = 0)
  BY <1>1, RunsAreSequences
<1>3. Begun(w, who, start, all)
  <2> SUFFICES ASSUME NEW i \in DOMAIN all, w \in all[i].md,
                      w \notin (IF i = 1 THEN start ELSE all[i - 1].md)
               PROVE  all[i].carry \/ all[i].actor = who
    BY DEF Begun
  <2>1. CASE i \in DOMAIN first
    <3>1. i # 1 => i - 1 \in DOMAIN first
      BY <1>2, <2>1
    <3> QED  BY <1>1, <2>1, <3>1 DEF Begun
  <2>2. CASE i \notin DOMAIN first
    <3> DEFINE j == i - Len(first)
    <3>1. j \in DOMAIN second /\ all[i] = second[j] /\ i # 1
      BY <1>1, <1>2, <2>2
    <3>2. w \notin (IF j = 1 THEN Final(first) ELSE second[j - 1].md)
      <4>1. CASE j = 1
        <5>1. i - 1 = Len(first) /\ Len(first) \in DOMAIN first
          BY <1>2, <4>1
        <5> QED  BY <1>1, <3>1, <4>1, <5>1 DEF Final
      <4>2. CASE j # 1
        <5>1. j - 1 \in DOMAIN second /\ (j - 1) + Len(first) = i - 1
          BY <1>2, <3>1, <4>2
        <5> QED  BY <1>1, <3>1, <4>2, <5>1
      <4> QED  BY <4>1, <4>2
    <3> HIDE DEF j
    <3> QED  BY <3>1, <3>2 DEF Begun
  <2> QED  BY <2>1, <2>2
<1>4. Carries(all) => Carries(first) \/ Carries(second)
  BY <1>1 DEF Carries
<1>5. Final(all) = (IF second = <<>> THEN Final(first) ELSE Final(second))
  <2>1. CASE second = <<>>
    BY <1>1, <1>2, <2>1 DEF Final
  <2>2. CASE second # <<>>
    <3>1. Len(second) \in DOMAIN second /\ Len(second) + Len(first) = Len(all)
      BY <1>1, <1>2, <2>2
    <3> QED  BY <1>1, <2>2, <3>1 DEF Final
  <2> QED  BY <2>1, <2>2
<1> QED  BY <1>1, <1>2, <1>3, <1>4, <1>5 DEF all

\* A contribution that does not hold a word begins it for nobody.
LEMMA NoneBegun ==
  ASSUME NEW runs, NEW w, NEW who, NEW start, ~Held(w, runs)
  PROVE  Begun(w, who, start, runs)
BY DEF Begun, Held

(* Not everything is a word, and what is not is in no contribution.        *)
LEMMA NoWord ==
  \E w : w \notin Words /\ \A runs \in Runs : ~Held(w, runs)
<1> DEFINE odd == {x \in Words : x \notin x}
<1>1. odd \notin Words
  OBVIOUS
<1> HIDE DEF odd
<1>2. ASSUME NEW runs \in Runs  PROVE ~Held(odd, runs)
  <2>1. \A i \in DOMAIN runs : runs[i].md \in SUBSET Words
    BY RunsAreSequences DEF Run
  <2> QED  BY <1>1, <2>1 DEF Held
<1> QED  BY <1>1, <1>2

(* What is closed holds what was held, or what is in the text.             *)
LEMMA ClosedWhere ==
  ASSUME NEW runs \in Runs, NEW open \in Users \union {None}, NEW text \in SUBSET Words, NEW w
  PROVE  LET c == Closed(runs, open, text)
         IN  /\ Held(w, c) => Held(w, runs) \/ w \in text
             /\ w \in text /\ Carried(w, runs) => Carried(w, c)
<1> DEFINE c == Closed(runs, open, text)
<1>1. /\ c \in Runs
      /\ open = None => c = runs
      /\ open # None => /\ Len(c) = Len(runs) + 1
                        /\ c[Len(runs) + 1].md = text
                        /\ \A i \in DOMAIN runs : c[i] = runs[i]
  BY ClosedAdds
<1> HIDE DEF c
<1>2. Len(runs) \in Nat /\ DOMAIN runs = 1 .. Len(runs) /\ DOMAIN c = 1 .. Len(c)
  BY <1>1, RunsAreSequences
<1>3. CASE open = None
  BY <1>1, <1>3 DEF c
<1>4. CASE open # None
  <2>1. \A i \in DOMAIN c : (i \in DOMAIN runs /\ c[i] = runs[i]) \/ c[i].md = text
    BY <1>1, <1>2, <1>4
  <2> QED  BY <2>1 DEF Held, Carried, c
<1> QED  BY <1>3, <1>4

(* So does what is taken up.                                               *)
LEMMA TakenWhere ==
  ASSUME NEW runs \in Runs, NEW open \in Users \union {None},
         NEW prev \in SUBSET Words, NEW text \in SUBSET Words, NEW w
  PROVE  LET t == Changing(Taken(runs, open, prev, text), prev)
         IN  /\ t \in Runs
             /\ Held(w, t) => Held(w, runs) \/ w \in text
             /\ w \in text /\ Carried(w, runs) => Carried(w, t)
<1> DEFINE c == Closed(runs, open, text)
           t == Taken(runs, open, prev, text)
<1>1. /\ Held(w, c) => Held(w, runs) \/ w \in text
      /\ w \in text /\ Carried(w, runs) => Carried(w, c)
  BY ClosedWhere
<1>2. /\ t \in Runs
      /\ \/ t = c
         \/ Len(t) = 1 /\ t[1].md = text
  BY TakenAdds
<1> HIDE DEF c, t
<1>3. CASE t = c
  BY <1>1, <1>2, <1>3, ChangingWord DEF t
<1>4. CASE Len(t) = 1 /\ t[1].md = text
  <2>1. DOMAIN t = {1}
    BY <1>2, <1>4, RunsAreSequences
  <2>2. (Held(w, t) => w \in text) /\ (w \in text => Carried(w, t))
    BY <1>4, <2>1 DEF Held, Carried
  <2> QED  BY <1>2, <2>2, ChangingWord DEF t
<1> QED  BY <1>2, <1>3, <1>4

(* And what is put back.                                                   *)
LEMMA PutBackWhere ==
  ASSUME NEW first \in Runs, NEW second \in Runs, NEW w
  PROVE  /\ Held(w, first \o second) => Held(w, first) \/ Held(w, second)
         /\ Carried(w, first) /\ Carried(w, second) => Carried(w, first \o second)
<1> DEFINE all == first \o second
<1>1. \A i \in DOMAIN all : \/ i \in DOMAIN first /\ all[i] = first[i]
                            \/ /\ i - Len(first) \in DOMAIN second
                               /\ all[i] = second[i - Len(first)]
  BY PutBackJoins
<1> HIDE DEF all
<1>2. Held(w, all) => Held(w, first) \/ Held(w, second)
  BY <1>1 DEF Held
<1>3. Carried(w, first) /\ Carried(w, second) => Carried(w, all)
  BY <1>1 DEF Carried
<1> QED  BY <1>2, <1>3 DEF all

(* A rebase onto the same text changes nothing.                            *)
LEMMA RebasedSame ==
  ASSUME NEW runs \in Runs, NEW text \in SUBSET Words
  PROVE  Rebased(runs, text, text) = runs
<1>1. runs \in Seq(Run) /\ DOMAIN runs = 1 .. Len(runs) /\ \A i \in DOMAIN runs : runs[i] \in Run
  BY RunsAreSequences
<1>2. ASSUME NEW i \in DOMAIN runs
      PROVE  [runs[i] EXCEPT !.md = Merge(@, text, text)] = runs[i]
  <2>1. runs[i] \in Run /\ runs[i].md \in SUBSET Words
    BY <1>1 DEF Run
  <2>2. Merge(runs[i].md, text, text) = runs[i].md
    BY DEF Merge
  <2> QED  BY <2>1, <2>2 DEF Run
<1>3. Rebased(runs, text, text) = [i \in DOMAIN runs |-> runs[i]]
  BY <1>2 DEF Rebased
<1> QED  BY <1>1, <1>3

-----------------------------------------------------------------------------
(* What the parts of a step keep.                                          *)

(* The invariants look at a few variables only.                            *)
LEMMA StaysLone ==
  ASSUME Lone, object' = object, news' = news, watcher' = watcher, doc' = doc,
         author' = author, striker' = striker, reverted' = reverted,
         room'.runs = room.runs, room'.baseMd = room.baseMd,
         phase' = "gone" => flush'.pc = "idle",
         \/ flush' = flush
         \/ ~Writing /\ ~Writing' /\ (flush'.pc = "based" => flush'.got = object)
  PROVE  Lone' /\ Basis' = Basis /\ Latter' = Latter
<1>1. Basis' = Basis
  BY DEF Basis, Writing
<1>2. Latter' = Latter
  BY <1>1 DEF Latter, Writing
<1>3. OnlyWriter'
  BY <1>1 DEF Lone, OnlyWriter, Writing
<1>4. ASSUME NEW w \in Words  PROVE Apart(w)'
  <2>1. Apart(w)
    BY DEF Lone
  <2> QED  BY <2>1 DEF Apart, Writing
<1> QED  BY <1>1, <1>2, <1>3, <1>4 DEF Lone

(* So it is with who began what, but for the last flush.                   *)
LEMMA StaysCredited ==
  ASSUME Lone, Credited, object' = object, news' = news, watcher' = watcher, doc' = doc,
         author' = author, striker' = striker, reverted' = reverted, base' = base,
         room'.runs = room.runs, room'.baseMd = room.baseMd, room'.open = room.open,
         phase' = "gone" => flush'.pc = "idle",
         \/ flush' = flush
         \/ ~Writing /\ ~Writing' /\ (flush'.pc = "based" => flush'.got = object),
         phase' \in {"open", "closing"} =>
            phase \in {"open", "closing"} /\ ~flush'.last /\ room'.again # "last"
  PROVE  Credited'
<1>1. Basis' = Basis /\ Latter' = Latter
  BY StaysLone
<1>2. Newest' = Newest
  BY <1>1 DEF Newest
<1>3. OnTime'
  BY DEF Credited, OnTime, Writing
<1>4. Even'
  BY <1>2 DEF Credited, Even, Writing
<1>5. ASSUME NEW w \in Words  PROVE Own(w)'
  <2>1. Own(w)
    BY DEF Credited
  <2> QED  BY <1>1, <1>2, <2>1 DEF Own, Writing
<1> QED  BY <1>3, <1>4, <1>5 DEF Credited

(* A contribution goes from one await to the next.                         *)
LEMMA MovesOn ==
  ASSUME Lone, Writing, flush.pc # "written", Writing', flush'.pc # "written",
         object' = object, news' = news, watcher' = watcher, doc' = doc,
         author' = author, striker' = striker, reverted' = reverted, base' = base,
         room' = room, phase' = phase, phase # "gone",
         flush'.runs = flush.runs, flush'.prev = flush.prev, flush'.last = flush.last,
         flush'.wrote = flush.wrote,
         flush'.at = flush.at \/ (flush'.at = object.version /\ flush.at # object.version),
         flush'.pc = "rebase" => flush'.got = object,
         flush'.pc = "reread" => flush'.at # object.version
  PROVE  Lone' /\ (Credited => Credited')
<1>1. Basis' = Basis /\ Basis = flush.prev
  BY DEF Basis
<1>2. Latter' = Latter /\ Newest' = Newest
  BY <1>1 DEF Latter, Newest
<1>3. OnlyWriter'
  BY <1>1 DEF Lone, OnlyWriter, Writing
<1>4. ASSUME NEW w \in Words  PROVE Apart(w)'
  <2>1. Apart(w)
    BY DEF Lone
  <2> QED  BY <2>1 DEF Apart
<1>5. ASSUME Credited  PROVE Credited'
  <2>1. OnTime'
    BY <1>5 DEF Credited, OnTime
  <2>2. Even'
    BY <1>2, <1>5 DEF Credited, Even
  <2>3. ASSUME NEW w \in Words  PROVE Own(w)'
    <3>1. Own(w)
      BY <1>5 DEF Credited
    <3> QED  BY <1>2, <3>1 DEF Own
  <2> QED  BY <2>1, <2>2, <2>3 DEF Credited
<1> QED  BY <1>3, <1>4, <1>5 DEF Lone

(* A cycle ends and drops what it has not written.                         *)
LEMMA Emptying ==
  ASSUME Lone, Writing, flush.pc # "written", flush'.pc = "after",
         object' = object, news' = news, watcher' = watcher, doc' = doc,
         author' = author, striker' = striker, reverted' = reverted,
         room'.runs = <<>>, room'.open = None, room'.baseMd = flush.prev,
         phase' = phase, phase # "gone"
  PROVE  Lone' /\ (phase \notin {"open", "closing"} => Credited')
<1>0. ~Writing' /\ flush.prev = object.body
  BY DEF Writing, Basis, Lone, OnlyWriter
<1>1. Basis' = object.body
  BY <1>0 DEF Basis
<1>2. OnlyWriter'
  BY <1>0, <1>1 DEF Lone, OnlyWriter
<1>3. ASSUME NEW w \in Words  PROVE Apart(w)'
  <2>1. Apart(w) /\ ~Held(w, <<>>) /\ Carried(w, <<>>)
    BY EmptyWord DEF Lone
  <2> QED  BY <1>0, <2>1 DEF Apart
<1>4. ASSUME phase \notin {"open", "closing"}  PROVE Credited'
  <2>1. OnTime' /\ Even'
    BY <1>4 DEF OnTime, Even
  <2>2. ASSUME NEW w \in Words  PROVE Own(w)'
    <3>1. \A who, start : Begun(w, who, start, <<>>)
      BY EmptyWord, NoneBegun
    <3> QED  BY <1>0, <1>4, <3>1 DEF Own
  <2> QED  BY <2>1, <2>2 DEF Credited
<1> QED  BY <1>2, <1>3, <1>4 DEF Lone

(* A refusal puts the text back to what the object has.                    *)
LEMMA Refusing ==
  ASSUME Types, Lone, phase # "gone", flush.pc \in {"check", "write"}, Refuse, UNCHANGED <<stored, watcher, phase, author>>
  PROVE  Lone' /\ (Credited => Credited')
<1>0. flush.runs # <<>> /\ Writing /\ flush.prev = object.body /\ PeopleTypes
  BY DEF Types, FlushTypes, Writing, Basis, Lone, OnlyWriter
<1>1. /\ room'.runs = <<>> /\ room'.open = None
      /\ room'.baseMd = flush.prev /\ room'.again = room.again
      /\ flush'.pc = "after" /\ ~Writing' /\ doc' = flush.prev
  BY <1>0, RefuseDoes
<1>2. /\ reverted' = reverted \union (doc \ flush.prev) \union (flush.prev \ doc)
      /\ base' = IF flush.wrote /\ ~flush.last /\ flush.at > base THEN flush.at ELSE base
      /\ flush'.last = flush.last
  BY <1>0 DEF Refuse, EndCycle, Types, FlushTypes, Calls
<1>3. Basis' = object.body /\ object' = object /\ author' = author
  BY <1>0, <1>1 DEF Basis, stored
<1>4. OnlyWriter'
  <2>1. flush.prev # Unread
    BY <1>0, RoomAssumption DEF Types, FlushTypes, Calls
  <2> QED  BY <1>0, <1>1, <1>3, <2>1 DEF Lone, OnlyWriter, stored
<1>5. ASSUME NEW w \in Words  PROVE Apart(w)'
  <2>1. Apart(w) /\ ~Held(w, <<>>) /\ Carried(w, <<>>)
    BY EmptyWord DEF Lone
  <2>2. striker'[w] = IF w \in (flush.prev \ doc) \cap object.body /\ striker[w] \in Users
                      THEN None ELSE striker[w]
    BY DEF Refuse
  <2>3. author[w] = None => w \notin doc'
    BY <1>0, <1>1, <2>1 DEF Apart
  <2>4. author[w] = Outside /\ striker'[w] = None => w \in doc'
    BY <1>0, <1>1, <2>1, <2>2 DEF Apart
  <2>5. striker'[w] \in Users /\ w \notin reverted' => w \notin doc'
    BY <1>0, <1>1, <1>2, <2>1, <2>2, RoomAssumption DEF Apart
  <2>6. striker'[w] # Outside /\ (author[w] = None => striker'[w] = None)
    BY <2>1, <2>2, RoomAssumption DEF Apart
  <2> QED  BY <1>0, <1>1, <1>3, <2>1, <2>3, <2>4, <2>5, <2>6 DEF Apart
<1>6. ASSUME Credited  PROVE Credited'
  <2>1. OnTime'
    <3> SUFFICES ASSUME phase \in {"open", "closing"}
                 PROVE  ~flush.last /\ room.again # "last" /\ base' = object.version
      BY <1>1, <1>2, <1>3 DEF OnTime
    <3>1. /\ ~flush.last /\ room.again # "last" /\ flush.at = object.version
          /\ base <= object.version /\ (flush.wrote \/ base = flush.at)
      BY <1>0, <1>6 DEF Credited, OnTime
    <3>2. base \in Nat /\ object.version \in Nat
      BY DEF Types, RowTypes, Rows
    <3> QED  BY <1>2, <3>1, <3>2
  <2>2. Newest' = flush.prev /\ Latter' = flush.prev
    BY <1>0, <1>1, <1>3 DEF Newest, Latter
  <2>3. Even'
    <3>1. ~Carries(<<>>)
      BY DEF Carries
    <3> QED  BY <1>1, <2>2, <3>1 DEF Even
  <2>4. ASSUME NEW w \in Words  PROVE Own(w)'
    <3>1. \A who, start : Begun(w, who, start, <<>>)
      BY EmptyWord, NoneBegun
    <3> QED  BY <1>1, <2>2, <3>1 DEF Own
  <2> QED  BY <2>1, <2>3, <2>4 DEF Credited
<1> QED  BY <1>4, <1>5, <1>6 DEF Lone

(* A cycle takes up what was typed over what the object has.               *)
LEMMA TakesUp ==
  ASSUME Types, Lone, ~Writing, phase # "gone",
         NEW call \in Calls, NEW r \in Rooms, r.runs = room.runs, r.open = room.open,
         NEW prev \in SUBSET Words, NEW at \in Nat, TakeUp(call, r, prev, at),
         prev = object.body, r.baseMd = room.baseMd,
         object' = object, news' = news, watcher' = watcher, doc' = doc,
         author' = author, striker' = striker, reverted' = reverted, phase' # "gone"
  PROVE  /\ Lone'
         /\ /\ Credited /\ base' = base
            /\ phase' \in {"open", "closing"} =>
                  /\ phase \in {"open", "closing"} /\ ~call.last /\ r.again # "last"
                  /\ at = object.version
            => Credited'
<1> DEFINE t == Changing(Taken(r.runs, r.open, prev, doc), prev)
<1>0. /\ room.runs \in Runs /\ room.open \in Users \union {None} /\ doc \in SUBSET Words
      /\ prev # Unread
  BY Parts, RoomAssumption
<1>1. /\ room'.runs = <<>> /\ room'.open = None /\ room'.baseMd = prev /\ room'.again = r.again
      /\ flush'.runs = t /\ flush'.prev = prev /\ flush'.at = at /\ flush'.last = call.last
      /\ \/ flush'.runs = <<>> /\ flush'.pc = "after"
         \/ flush'.runs # <<>> /\ flush'.pc = "check"
  BY <1>0, TakeUpDoes
<1>2. t \in Runs /\ \A w : /\ Held(w, t) => Held(w, room.runs) \/ w \in doc
                           /\ w \in doc /\ Carried(w, room.runs) => Carried(w, t)
  BY <1>0, TakenWhere
<1> HIDE DEF t
<1>3. Basis' = prev /\ (Writing' <=> t # <<>>)
  BY <1>1 DEF Basis, Writing
<1>4. OnlyWriter'
  BY <1>0, <1>1, <1>3 DEF Lone, OnlyWriter, Writing
<1>5. ASSUME NEW w \in Words  PROVE Apart(w)'
  <2>1. Apart(w) /\ ~Held(w, <<>>) /\ Carried(w, <<>>)
    BY EmptyWord DEF Lone
  <2> QED  BY <1>1, <1>2, <2>1 DEF Apart
<1>6. ASSUME Credited, base' = base,
             phase' \in {"open", "closing"} =>
                /\ phase \in {"open", "closing"} /\ ~call.last /\ r.again # "last"
                /\ at = object.version
      PROVE  Credited'
  <2>0. Basis = prev /\ Latter = prev
    BY DEF Lone, OnlyWriter, Latter
  <2>1. OnTime'
    <3> SUFFICES ASSUME phase' \in {"open", "closing"}  PROVE OnTime'
      BY DEF OnTime
    <3>1. base = object.version /\ base \in Nat
      BY <1>6, Parts DEF Credited, OnTime
    <3> QED  BY <1>1, <1>6, <3>1 DEF OnTime
  <2>2. Newest' = (IF t = <<>> THEN prev ELSE Final(t)) /\ Latter' = Newest'
    BY <1>1, <1>3 DEF Newest, Latter
  <2>3. Newest = IF room.runs = <<>> THEN prev ELSE Final(room.runs)
    BY <2>0 DEF Newest
  <2>4. ASSUME NEW w, NEW who, Begun(w, who, prev, room.runs),
               w \in doc /\ w \notin Newest => room.open = who \/ room.open = None
        PROVE  /\ Begun(w, who, prev, t)
               /\ room.open # None \/ doc = Newest =>
                     /\ doc = (IF t = <<>> THEN prev ELSE Final(t))
                     /\ Carries(t) => Carries(room.runs)
    <3>1. w \in doc /\ w \notin (IF room.runs = <<>> THEN prev ELSE Final(room.runs)) =>
             room.open = who \/ room.open = None
      BY <2>3, <2>4
    <3>2. t = Changing(Taken(room.runs, room.open, prev, doc), prev)
      BY DEF t
    <3>3. LET u == Changing(Taken(room.runs, room.open, prev, doc), prev)
          IN  /\ u \in Runs /\ Begun(w, who, prev, u)
              /\ room.open # None \/ doc = (IF room.runs = <<>> THEN prev ELSE Final(room.runs)) =>
                    /\ doc = (IF u = <<>> THEN prev ELSE Final(u))
                    /\ Carries(u) => Carries(room.runs)
      BY <1>0, <2>4, <3>1, BegunTaken, ZenonT(60)
    <3> QED  BY <2>3, <3>2, <3>3
  <2>5. ASSUME phase \in {"open", "closing"}
        PROVE  doc = Newest' /\ ~Carries(t)
    <3>1. PICK w : w \notin Words /\ \A runs \in Runs : ~Held(w, runs)
      BY NoWord
    <3>2. Begun(w, None, prev, room.runs) /\ w \notin doc
      BY <1>0, <3>1, NoneBegun
    <3>3. room.open # None \/ doc = Newest
      BY <1>6, <2>5 DEF Credited, Even
    <3>4. doc = (IF t = <<>> THEN prev ELSE Final(t)) /\ (Carries(t) => Carries(room.runs))
      BY <2>4, <3>2, <3>3
    <3> QED  BY <1>6, <2>2, <2>5, <3>4 DEF Credited, Even
  <2>6. Even'
    <3>1. ~Carries(<<>>)
      BY DEF Carries
    <3> QED  BY <1>1, <1>6, <2>5, <3>1 DEF Even
  <2>7. ASSUME NEW w \in Words  PROVE Own(w)'
    <3>1. Own(w)
      BY <1>6 DEF Credited
    <3>2. Begun(w, author[w], prev, t)
      BY <2>0, <2>4, <3>1 DEF Own
    <3>3. \A start : Begun(w, author[w], start, <<>>)
      BY EmptyWord, NoneBegun
    <3>4. w \in doc /\ w \notin Newest' => phase' \notin {"open", "closing"}
      BY <1>6, <2>5
    <3> QED  BY <1>1, <3>2, <3>3, <3>4 DEF Own
  <2> QED  BY <2>1, <2>6, <2>7 DEF Credited
<1> QED  BY <1>4, <1>5, <1>6 DEF Lone

(* So does the start of a cycle.                                           *)
LEMMA Starts ==
  ASSUME Types, Lone, ~Writing, phase # "gone",
         NEW call \in Calls, NEW r \in Rooms, r.runs = room.runs, r.open = room.open,
         r.baseMd = room.baseMd, StartCycle(call, r),
         object' = object, news' = news, watcher' = watcher, doc' = doc,
         author' = author, striker' = striker, reverted' = reverted, phase' # "gone"
  PROVE  /\ Lone'
         /\ /\ Credited /\ base' = base
            /\ phase' \in {"open", "closing"} =>
                  phase \in {"open", "closing"} /\ ~call.last /\ r.again # "last"
            => Credited'
<1>0. base \in Nat /\ doc \in SUBSET Words
  BY Parts
<1>1. /\ room'.again = r.again /\ flush'.last = call.last
      /\ \/ flush'.pc = "read" /\ room' = r
         \/ /\ r.baseMd # Unread /\ r.baseMd \in SUBSET Words
            /\ TakeUp(call, r, r.baseMd, base)
  BY <1>0, StartCycleDoes
<1>2. CASE flush'.pc = "read" /\ room' = r
  <2>1. ~Writing' /\ phase' # "gone" /\ flush'.pc # "based"
    BY <1>2 DEF Writing
  <2> QED  BY <1>1, <1>2, <2>1, StaysLone, StaysCredited
<1>3. CASE /\ r.baseMd # Unread /\ r.baseMd \in SUBSET Words
           /\ TakeUp(call, r, r.baseMd, base)
  <2>1. r.baseMd = object.body
    BY <1>3 DEF Lone, OnlyWriter, Basis, Writing
  <2>2. Credited /\ phase \in {"open", "closing"} => base = object.version
    BY DEF Credited, OnTime
  <2> QED  BY <1>0, <1>3, <2>1, <2>2, TakesUp
<1> QED  BY <1>1, <1>2, <1>3

(* What a failing write leaves is put back as it was.                      *)
LEMMA PutsBack ==
  ASSUME Types, Lone, Writing, flush.pc # "written", phase # "gone",
         NEW f \in Calls, NEW how, EndCycle(how, f, PutBack(f)),
         f.runs = flush.runs, f.prev = flush.prev, f.last = flush.last,
         f.wrote = flush.wrote, f.at \in {flush.at, object.version},
         object' = object, news' = news, watcher' = watcher, doc' = doc,
         author' = author, striker' = striker, reverted' = reverted, phase' = phase
  PROVE  Lone' /\ (Credited => Credited')
<1> DEFINE all == flush.runs \o room.runs
<1>0. /\ room \in Rooms /\ room.runs \in Runs /\ flush.runs \in Runs /\ flush.runs # <<>>
      /\ base \in Nat /\ flush.prev \in SUBSET Words /\ flush.prev # Unread
  BY Parts, RoomAssumption
<1>1. /\ PutBack(f) \in Rooms /\ PutBack(f).runs = all /\ PutBack(f).open = room.open
      /\ PutBack(f).again = room.again
  BY <1>0, PutBackRoom
<1> HIDE DEF all
<1>2. /\ room'.runs = all /\ room'.open = room.open /\ room'.baseMd = flush.prev
      /\ room'.again = room.again /\ flush'.pc = "after" /\ ~Writing'
  BY <1>0, <1>1, EndCycleDoes
<1>3. /\ base' = IF flush.wrote /\ ~flush.last /\ f.at > base THEN f.at ELSE base
      /\ flush'.last = flush.last
  BY DEF EndCycle, Calls
<1>4. flush.prev = object.body /\ Basis' = object.body
  BY <1>2 DEF Lone, OnlyWriter, Basis
<1>5. OnlyWriter'
  BY <1>0, <1>2, <1>4 DEF Lone, OnlyWriter
<1>6. ASSUME NEW w \in Words  PROVE Apart(w)'
  <2>1. Apart(w)
    BY DEF Lone
  <2>2. /\ Held(w, all) => Held(w, flush.runs) \/ Held(w, room.runs)
        /\ Carried(w, flush.runs) /\ Carried(w, room.runs) => Carried(w, all)
    BY <1>0, PutBackWhere DEF all
  <2> QED  BY <1>2, <2>1, <2>2 DEF Apart
<1>7. ASSUME Credited  PROVE Credited'
  <2>1. OnTime'
    <3> SUFFICES ASSUME phase \in {"open", "closing"}
                 PROVE  ~flush.last /\ room.again # "last" /\ base' = object.version
      BY <1>2, <1>3 DEF OnTime
    <3>1. /\ ~flush.last /\ room.again # "last" /\ flush.at = object.version
          /\ base <= object.version /\ (flush.wrote \/ base = flush.at)
      BY <1>7 DEF Credited, OnTime
    <3>2. base \in Nat /\ object.version \in Nat
      BY DEF Types, RowTypes, Rows
    <3> QED  BY <1>3, <3>1, <3>2
  <2>2. Latter = Final(flush.runs) /\ Latter' = flush.prev
    BY <1>2, <1>4 DEF Latter
  <2>3. ASSUME NEW w, NEW who, Begun(w, who, flush.prev, flush.runs),
               Begun(w, who, Latter, room.runs)
        PROVE  /\ all # <<>> /\ Begun(w, who, flush.prev, all)
               /\ Carries(all) => Carries(flush.runs) \/ Carries(room.runs)
               /\ Final(all) = (IF room.runs = <<>> THEN Latter ELSE Final(room.runs))
    BY <1>0, <2>2, <2>3, BegunPutBack DEF all
  <2>4. /\ Newest' = Newest
        /\ Carries(all) => Carries(flush.runs) \/ Carries(room.runs)
    <3>1. PICK w : w \notin Words /\ \A runs \in Runs : ~Held(w, runs)
      BY NoWord
    <3>2. \A start : Begun(w, None, start, flush.runs) /\ Begun(w, None, start, room.runs)
      BY <1>0, <3>1, NoneBegun
    <3> QED  BY <1>2, <2>3, <3>2 DEF Newest
  <2>5. Even'
    BY <1>2, <1>7, <2>4 DEF Credited, Even
  <2>6. ASSUME NEW w \in Words  PROVE Own(w)'
    <3>1. Own(w)
      BY <1>7 DEF Credited
    <3>2. Begun(w, author[w], flush.prev, all)
      BY <2>3, <3>1 DEF Own
    <3> QED  BY <1>2, <2>2, <2>4, <3>1, <3>2 DEF Own
  <2> QED  BY <2>1, <2>5, <2>6 DEF Credited
<1> QED  BY <1>5, <1>6, <1>7 DEF Lone

-----------------------------------------------------------------------------
(* Every step keeps both.                                                  *)

\* The types, and nobody outside.
Serene == Types /\ Undisturbed /\ Lone

(* An edit continues its author's contribution, or closes another's.       *)
LEMMA ContributionServes ==
  ASSUME Serene, NEW u \in Users, Contribution(u), phase = "open", phase' = phase,
         object' = object, flush' = flush, base' = base,
         \A x \in Words : \/ author'[x] = author[x] /\ (x \in doc' => x \in doc)
                          \/ author[x] = None /\ author'[x] = u
  PROVE  /\ room'.baseMd = room.baseMd
         /\ \A x : /\ Held(x, room'.runs) => Held(x, room.runs) \/ x \in doc
                   /\ x \in doc /\ Carried(x, room.runs) => Carried(x, room'.runs)
         /\ Credited => Credited'
<1> DEFINE c == Closed(room.runs, room.open, doc)
<1>0. /\ room \in Rooms /\ room.runs \in Runs /\ room.open \in Users \union {None}
      /\ doc \in SUBSET Words
  BY Parts DEF Serene
<1>1. /\ room'.open = u /\ room'.baseMd = room.baseMd /\ room'.again = room.again
      /\ room'.runs = IF room.open = u THEN room.runs ELSE c
  BY <1>0, ContributionDoes
<1>2. \A x : /\ Held(x, c) => Held(x, room.runs) \/ x \in doc
             /\ x \in doc /\ Carried(x, room.runs) => Carried(x, c)
  BY <1>0, ClosedWhere
<1>3. ASSUME NEW x, NEW who, NEW start, Begun(x, who, start, room.runs),
             x \in doc /\ x \notin (IF room.runs = <<>> THEN start ELSE Final(room.runs)) =>
                room.open = who \/ room.open = None
      PROVE  /\ Begun(x, who, start, c)
             /\ room.open # None => c # <<>> /\ Final(c) = doc
             /\ room.open = None => c = room.runs
             /\ Carries(c) => Carries(room.runs)
  BY <1>0, <1>3, BegunClosed
<1> HIDE DEF c
<1>4. ASSUME Credited  PROVE Credited'
  <2>1. Latter' = Latter
    BY <1>1 DEF Latter, Basis, Writing
  <2>2. /\ room.open # None => c # <<>> /\ Final(c) = doc
        /\ room.open = None => c = room.runs
        /\ Carries(c) => Carries(room.runs)
    <3>1. PICK x : x \notin Words /\ \A runs \in Runs : ~Held(x, runs)
      BY NoWord
    <3>2. Begun(x, None, None, room.runs) /\ x \notin doc
      BY <1>0, <3>1, NoneBegun
    <3> QED  BY <1>3, <3>2
  <2>3. OnTime'
    BY <1>1, <1>4 DEF Credited, OnTime, Writing
  <2>4. Even'
    BY <1>0, <1>1, <1>4, <2>2, RoomAssumption DEF Credited, Even, Writing
  <2>5. ASSUME NEW x \in Words, author'[x] = author[x], x \in doc' => x \in doc
        PROVE  Own(x)'
    <3>1. Own(x)
      BY <1>4 DEF Credited
    <3>2. Begun(x, author[x], Latter, c)
      <4>1. Begun(x, author[x], Latter, room.runs)
        BY <3>1 DEF Own
      <4>2. x \in doc /\ x \notin (IF room.runs = <<>> THEN Latter ELSE Final(room.runs)) =>
               room.open = author[x] \/ room.open = None
        BY <3>1 DEF Own, Newest
      <4> QED  BY <1>3, <4>1, <4>2
    <3>3. Begun(x, author[x], Latter, room'.runs)
      BY <1>1, <3>1, <3>2 DEF Own
    <3>4. x \in doc' /\ x \notin Newest' => author[x] = u
      <4> SUFFICES ASSUME x \in doc', x \notin Newest'  PROVE author[x] = u
        OBVIOUS
      <4>1. CASE room.open = u
        <5>1. Newest' = Newest
          BY <1>1, <2>1, <4>1 DEF Newest
        <5> QED  BY <1>0, <2>5, <3>1, <4>1, <5>1, RoomAssumption DEF Own
      <4>2. CASE room.open # u /\ room.open # None
        <5>1. Newest' = doc
          BY <1>1, <2>1, <2>2, <4>2 DEF Newest
        <5> QED  BY <2>5, <5>1
      <4>3. CASE room.open # u /\ room.open = None
        <5>1. Newest' = Newest
          BY <1>1, <2>1, <2>2, <4>3 DEF Newest
        <5>2. doc = Newest
          BY <1>4, <4>3 DEF Credited, Even
        <5> QED  BY <2>5, <5>1, <5>2
      <4> QED  BY <4>1, <4>2, <4>3
    <3>5. Writing => Begun(x, author[x], flush.prev, flush.runs)
      BY <3>1 DEF Own
    <3> QED  BY <1>1, <2>1, <2>5, <3>3, <3>4, <3>5 DEF Own, Writing
  <2>6. ASSUME NEW x \in Words, author[x] = None, author'[x] = u
        PROVE  Own(x)'
    <3>1. ~Held(x, room.runs) /\ x \notin doc /\ (Writing => ~Held(x, flush.runs))
      BY <2>6 DEF Serene, Lone, Apart
    <3>2. ~Held(x, room'.runs)
      BY <1>1, <1>2, <3>1
    <3> QED  BY <1>1, <2>6, <3>1, <3>2, NoneBegun DEF Own, Writing
  <2>7. \A x \in Words : Own(x)'
    BY <2>5, <2>6
  <2> QED  BY <2>3, <2>4, <2>7 DEF Credited
<1>5. \A x : /\ Held(x, room'.runs) => Held(x, room.runs) \/ x \in doc
             /\ x \in doc /\ Carried(x, room.runs) => Carried(x, room'.runs)
  BY <1>1, <1>2
<1> QED  BY <1>1, <1>4, <1>5

(* A word typed.                                                           *)
LEMMA TypeServes ==
  ASSUME Serene, NEW u \in Users, NEW w \in Words, Type(u, w)
  PROVE  Lone' /\ (Credited => Credited')
<1>0. PeopleTypes /\ u # None /\ u # Outside
  BY RoomAssumption DEF Serene, Types
<1>1. /\ phase = "open" /\ phase' = phase /\ object' = object /\ flush' = flush /\ base' = base
      /\ Contribution(u) /\ author[w] = None /\ doc' = doc \union {w}
      /\ news' = news /\ watcher' = watcher /\ striker' = striker /\ reverted' = reverted
      /\ author' = [author EXCEPT ![w] = u]
  BY DEF Type, MayType, stored
<1>2. /\ author'[w] = u
      /\ \A x \in Words : x # w => author'[x] = author[x] /\ (x \in doc' <=> x \in doc)
  BY <1>0, <1>1 DEF PeopleTypes
<1>3. /\ room'.baseMd = room.baseMd
      /\ \A x : /\ Held(x, room'.runs) => Held(x, room.runs) \/ x \in doc
                /\ x \in doc /\ Carried(x, room.runs) => Carried(x, room'.runs)
      /\ Credited => Credited'
  <2>1. \A x \in Words : \/ author'[x] = author[x] /\ (x \in doc' => x \in doc)
                         \/ author[x] = None /\ author'[x] = u
    BY <1>1, <1>2
  <2> QED  BY <1>1, <2>1, ContributionServes
<1>4. OnlyWriter'
  BY <1>1, <1>3 DEF Serene, Lone, OnlyWriter, Basis, Writing
<1>5. ASSUME NEW x \in Words  PROVE Apart(x)'
  <2>1. Apart(x)
    BY DEF Serene, Lone
  <2>2. CASE x = w
    BY <1>0, <1>1, <1>2, <1>3, <2>1, <2>2, RoomAssumption DEF Apart, Writing
  <2>3. CASE x # w
    BY <1>0, <1>1, <1>2, <1>3, <2>1, <2>3 DEF Apart, Writing
  <2> QED  BY <2>2, <2>3
<1> QED  BY <1>3, <1>4, <1>5 DEF Lone

(* A word taken out.                                                       *)
LEMMA StrikeServes ==
  ASSUME Serene, NEW u \in Users, NEW w \in Words, Strike(u, w)
  PROVE  Lone' /\ (Credited => Credited')
<1>0. PeopleTypes /\ u # None /\ u # Outside
  BY RoomAssumption DEF Serene, Types
<1>1. /\ phase = "open" /\ phase' = phase /\ object' = object /\ flush' = flush /\ base' = base
      /\ Contribution(u) /\ w \in doc /\ doc' = doc \ {w}
      /\ news' = news /\ watcher' = watcher /\ author' = author /\ reverted' = reverted
      /\ striker' = [striker EXCEPT ![w] = IF @ = None THEN u ELSE @]
  BY DEF Strike, MayType, stored
<1>2. /\ striker'[w] = IF striker[w] = None THEN u ELSE striker[w]
      /\ \A x \in Words : x # w => striker'[x] = striker[x]
  BY <1>0, <1>1 DEF PeopleTypes
<1>3. /\ room'.baseMd = room.baseMd
      /\ \A x : /\ Held(x, room'.runs) => Held(x, room.runs) \/ x \in doc
                /\ x \in doc /\ Carried(x, room.runs) => Carried(x, room'.runs)
      /\ Credited => Credited'
  <2>1. \A x \in Words : author'[x] = author[x] /\ (x \in doc' => x \in doc)
    BY <1>1
  <2> QED  BY <1>1, <2>1, ContributionServes
<1>4. OnlyWriter'
  BY <1>1, <1>3 DEF Serene, Lone, OnlyWriter, Basis, Writing
<1>5. ASSUME NEW x \in Words  PROVE Apart(x)'
  <2>1. Apart(x)
    BY DEF Serene, Lone
  <2>2. CASE x = w
    BY <1>0, <1>1, <1>2, <1>3, <2>1, <2>2, RoomAssumption DEF Apart, Writing
  <2>3. CASE x # w
    BY <1>0, <1>1, <1>2, <1>3, <2>1, <2>3 DEF Apart, Writing
  <2> QED  BY <2>2, <2>3
<1> QED  BY <1>3, <1>4, <1>5 DEF Lone

(* A right taken away, a teardown begun, a room dropped.                   *)
LEMMA AsideServes ==
  ASSUME Serene, Close \/ Drop \/ \E u \in Users : Revoke(u)
  PROVE  Lone' /\ (Credited => Credited')
<1>1. /\ object' = object /\ news' = news /\ watcher' = watcher /\ doc' = doc
      /\ author' = author /\ striker' = striker /\ reverted' = reverted /\ base' = base
      /\ room' = room /\ flush' = flush
      /\ \/ phase' = phase
         \/ phase' = "closing" /\ phase = "open"
         \/ phase' = "gone" /\ flush.pc = "idle"
  <2>1. CASE Close
    BY <2>1 DEF Close, stored, history
  <2>2. CASE Drop
    BY <2>2 DEF Drop, stored, history
  <2>3. CASE \E u \in Users : Revoke(u)
    BY <2>3 DEF Revoke, stored, history
  <2> QED  BY <2>1, <2>2, <2>3
<1>2. phase' = "gone" => flush'.pc = "idle"
  BY <1>1 DEF Serene, Lone, OnlyWriter
<1>3. Lone'
  BY <1>1, <1>2, StaysLone DEF Serene
<1>4. ASSUME Credited  PROVE Credited'
  <2>1. phase' \in {"open", "closing"} =>
           phase \in {"open", "closing"} /\ ~flush'.last /\ room'.again # "last"
    BY <1>1, <1>4 DEF Credited, OnTime
  <2> QED  BY <1>1, <1>2, <1>4, <2>1, StaysCredited DEF Serene
<1> QED  BY <1>3, <1>4

(* A request for a flush.                                                  *)
LEMMA RequestServes ==
  ASSUME Serene, NEW last \in BOOLEAN, Request(last), phase # "gone", phase' # "gone",
         UNCHANGED <<stored, doc, base, watcher, author, striker, reverted>>,
         phase' \in {"open", "closing"} => phase \in {"open", "closing"} /\ ~last
  PROVE  Lone' /\ (Credited => Credited')
<1>0. /\ Types /\ Lone /\ flush \in Calls /\ room \in Rooms /\ doc \in SUBSET Words
      /\ base \in Nat /\ FlushTypes
  BY DEF Serene, Types, FlushTypes
<1>1. \/ /\ flush.pc = "idle"
         /\ \E call \in Calls, r \in Rooms :
               /\ StartCycle(call, r) /\ call.last = last
               /\ r.runs = room.runs /\ r.open = room.open /\ r.baseMd = room.baseMd
               /\ r.again = room.again
      \/ /\ flush.pc # "idle"
         /\ flush' = flush
         /\ room'.runs = room.runs /\ room'.open = room.open
         /\ room'.baseMd = room.baseMd
         /\ room'.again = IF last THEN "last"
                          ELSE IF room.again = "no" THEN "yes" ELSE room.again
  BY <1>0, RequestDoes
<1>2. /\ object' = object /\ news' = news /\ watcher' = watcher /\ doc' = doc
      /\ author' = author /\ striker' = striker /\ reverted' = reverted /\ base' = base
  BY DEF stored
<1>3. Credited /\ phase \in {"open", "closing"} => ~flush.last /\ room.again # "last"
  BY DEF Credited, OnTime
<1>4. CASE flush.pc = "idle"
  <2>1. ~Writing
    BY <1>4 DEF Writing
  <2>2. PICK call \in Calls, r \in Rooms :
               /\ StartCycle(call, r) /\ call.last = last
               /\ r.runs = room.runs /\ r.open = room.open /\ r.baseMd = room.baseMd
               /\ r.again = room.again
    BY <1>1, <1>4
  <2> QED  BY <1>0, <1>2, <1>3, <2>1, <2>2, Starts
<1>5. CASE flush.pc # "idle"
  <2>1. Lone'
    BY <1>0, <1>1, <1>2, <1>5, StaysLone
  <2>2. phase' \in {"open", "closing"} /\ Credited => ~flush'.last /\ room'.again # "last"
    BY <1>1, <1>3, <1>5
  <2> QED  BY <1>0, <1>1, <1>2, <1>5, <2>1, <2>2, StaysCredited
<1> QED  BY <1>4, <1>5

(* By a timer.                                                             *)
LEMMA FireServes ==
  ASSUME Serene, Fire
  PROVE  Lone' /\ (Credited => Credited')
BY RequestServes DEF Fire, UnlessFlushing, Steady

(* By the teardown.                                                        *)
LEMMA LastFlushServes ==
  ASSUME Serene, LastFlush
  PROVE  Lone' /\ (Credited => Credited')
BY RequestServes DEF LastFlush, history

(* The cycle for what was asked meanwhile.                                 *)
LEMMA NextCycleServes ==
  ASSUME Serene, NextCycle
  PROVE  Lone' /\ (Credited => Credited')
<1>0. /\ Types /\ Lone /\ flush \in Calls /\ room \in Rooms /\ doc \in SUBSET Words /\ base \in Nat
  BY DEF Serene, Types, FlushTypes
<1>1. /\ flush.pc = "after"
      /\ \E r \in Rooms :
            /\ r.runs = room.runs /\ r.open = room.open /\ r.baseMd = room.baseMd
            /\ r.again = "no"
            /\ \/ \E call \in Calls : StartCycle(call, r) /\ call.last = (room.again = "last")
               \/ flush' = Idle /\ room' = r
  BY <1>0, NextCycleDoes
<1>2. /\ object' = object /\ news' = news /\ watcher' = watcher /\ doc' = doc /\ phase' = phase
      /\ author' = author /\ striker' = striker /\ reverted' = reverted /\ base' = base
  BY DEF NextCycle, UnlessFlushing, Steady, stored
<1>3. ~Writing /\ phase # "gone"
  BY <1>0, <1>1 DEF Writing, Lone, OnlyWriter
<1>4. Credited /\ phase \in {"open", "closing"} => room.again # "last"
  BY DEF Credited, OnTime
<1>5. PICK r \in Rooms :
         /\ r.runs = room.runs /\ r.open = room.open /\ r.baseMd = room.baseMd /\ r.again = "no"
         /\ \/ \E call \in Calls : StartCycle(call, r) /\ call.last = (room.again = "last")
            \/ flush' = Idle /\ room' = r
  BY <1>1
<1>6. ASSUME NEW call \in Calls, StartCycle(call, r), call.last = (room.again = "last")
      PROVE  Lone' /\ (Credited => Credited')
  BY <1>0, <1>2, <1>3, <1>4, <1>5, <1>6, Starts
<1>7. CASE flush' = Idle /\ room' = r
  <2>1. flush'.pc = "idle" /\ ~flush'.last /\ ~Writing'
    BY <1>7 DEF Idle, Writing
  <2> QED  BY <1>0, <1>2, <1>3, <1>5, <1>7, <2>1, StaysLone, StaysCredited
<1> QED  BY <1>5, <1>6, <1>7

(* The flush reads the base and takes up what was typed over it.           *)
LEMMA ReadServes ==
  ASSUME Serene, ReadBase \/ Based
  PROVE  Lone' /\ (Credited => Credited')
<1>0. /\ Types /\ Lone /\ flush \in Calls /\ room \in Rooms /\ object \in Rows /\ ~object.deleted
      /\ (flush.pc = "based" => flush.got \in Rows)
  BY DEF Serene, Types, FlushTypes, RowTypes, Lone, OnlyWriter
<1>1. /\ object' = object /\ news' = news /\ watcher' = watcher /\ doc' = doc /\ phase' = phase
      /\ author' = author /\ striker' = striker /\ reverted' = reverted
      /\ flush.pc \in {"read", "based"} /\ base' = base
  BY DEF ReadBase, Based, UnlessFlushing, Steady, stored, GiveUp
<1>2. ~Writing /\ phase # "gone"
  BY <1>0, <1>1 DEF Writing, Lone, OnlyWriter
<1>3. Credited /\ phase \in {"open", "closing"} =>
         ~flush.last /\ room.again # "last" /\ base = object.version
  BY <1>2 DEF Credited, OnTime
<1>4. CASE ReadBase
  <2>1. /\ room' = room /\ ~Writing' /\ flush'.last = flush.last
        /\ flush'.pc = "based" => flush'.got = object
    BY <1>0, <1>4 DEF ReadBase, GiveUp, Calls, Writing
  <2> QED  BY <1>0, <1>1, <1>2, <1>3, <2>1, StaysLone, StaysCredited
<1>5. CASE Based
  <2>1. flush.got.body = object.body /\ flush.got.version = object.version
    BY <1>0, <1>5 DEF Based, Lone, OnlyWriter
  <2>2. flush.got.body \in SUBSET Words /\ flush.got.version \in Nat
    BY <1>0, <2>1 DEF Rows
  <2>3. TakeUp(flush, room, flush.got.body, flush.got.version)
    BY <1>5 DEF Based
  <2> QED  BY <1>0, <1>1, <1>2, <1>3, <2>1, <2>2, <2>3, TakesUp
<1> QED  BY <1>4, <1>5

(* The first contribution is written by somebody who may, or refused.      *)
LEMMA CheckRightsServes ==
  ASSUME Serene, CheckRights
  PROVE  Lone' /\ (Credited => Credited')
<1> DEFINE run == Head(flush.runs)
<1>0. /\ Types /\ Lone /\ flush \in Calls /\ room \in Rooms /\ flush.pc = "check" /\ Writing
      /\ flush.runs \in Runs /\ flush.runs # <<>> /\ flush.prev = object.body
  BY DEF Serene, Types, FlushTypes, CheckRights, Writing, Lone, OnlyWriter, Basis, Calls
<1>1. /\ object' = object /\ news' = news /\ watcher' = watcher /\ phase' = phase
      /\ author' = author /\ phase # "gone"
  BY <1>0 DEF CheckRights, UnlessFlushing, stored, Lone, OnlyWriter
<1>2. \/ /\ flush' = [flush EXCEPT !.pc = "write", !.attempt = 0]
         /\ UNCHANGED <<doc, base, room, striker, reverted>>
      \/ Refuse /\ UNCHANGED <<stored, watcher, phase, author>>
      \/ /\ run.carry /\ EndCycle("refused", flush, Emptied(room))
         /\ UNCHANGED <<doc, striker, reverted>>
  BY DEF CheckRights, UnlessFlushing, Steady
<1> HIDE DEF run
<1>3. CASE /\ flush' = [flush EXCEPT !.pc = "write", !.attempt = 0]
           /\ UNCHANGED <<doc, base, room, striker, reverted>>
  <2>1. /\ flush'.pc = "write" /\ flush'.runs = flush.runs /\ flush'.prev = flush.prev
        /\ flush'.last = flush.last /\ flush'.wrote = flush.wrote /\ flush'.at = flush.at
    BY <1>0, <1>3 DEF Calls
  <2>2. Writing'
    BY <2>1 DEF Writing
  <2> QED  BY <1>0, <1>1, <1>3, <2>1, <2>2, MovesOn
<1>4. CASE Refuse /\ UNCHANGED <<stored, watcher, phase, author>>
  BY <1>0, <1>1, <1>4, Refusing
<1>5. CASE /\ run.carry /\ EndCycle("refused", flush, Emptied(room))
           /\ UNCHANGED <<doc, striker, reverted>>
  <2>1. Emptied(room) \in Rooms /\ Emptied(room).runs = <<>> /\ Emptied(room).open = None
    BY <1>0, EmptiedRoom
  <2>2. /\ room'.runs = <<>> /\ room'.open = None /\ room'.baseMd = flush.prev
        /\ flush'.pc = "after"
    BY <1>0, <1>5, <2>1, EndCycleDoes, Parts
  <2>3. Lone' /\ (phase \notin {"open", "closing"} => Credited')
    BY <1>0, <1>1, <1>5, <2>2, Emptying
  <2>4. Credited => phase \notin {"open", "closing"}
    <3>1. Carries(flush.runs)
      BY <1>0, <1>5, RunsAreSequences DEF Carries, run
    <3> QED  BY <1>0, <3>1 DEF Credited, Even
  <2> QED  BY <2>3, <2>4
<1> QED  BY <1>2, <1>3, <1>4, <1>5

(* A write that wins makes the contribution what the object has.           *)
LEMMA Wins ==
  ASSUME Serene, flush.pc = "write", phase # "gone",
         object.version = flush.at, Commit(Head(flush.runs).md),
         flush' = [flush EXCEPT !.pc = "written", !.got = [version |-> object.version + 1]],
         UNCHANGED <<doc, base, room, striker, reverted, news, watcher, phase, author>>
  PROVE  Lone' /\ (Credited => Credited')
<1> DEFINE md == Head(flush.runs).md
<1>0. /\ Types /\ Lone /\ RowTypes /\ flush \in Calls /\ Writing
      /\ flush.runs \in Runs /\ flush.runs # <<>>
  BY DEF Serene, Types, FlushTypes, Writing, Calls
<1>1. md \in SUBSET Words /\ \A w : /\ Carried(w, flush.runs) => w \in md
                                    /\ w \in md => Held(w, flush.runs)
  BY <1>0, HeadWord
<1>2. object'.body = md /\ object'.version = object.version + 1 /\ object'.deleted = object.deleted
  BY <1>0, <1>1, CommitTypes
<1>3. /\ flush'.pc = "written" /\ flush'.runs = flush.runs /\ flush'.prev = flush.prev
      /\ flush'.last = flush.last /\ flush'.wrote = flush.wrote /\ flush'.at = flush.at
      /\ flush'.got = [version |-> object.version + 1]
  BY <1>0 DEF Calls
<1>4. Writing' /\ Basis' = md
  BY <1>3 DEF Writing, Basis
<1> HIDE DEF md
<1>5. OnlyWriter'
  BY <1>0, <1>2, <1>3, <1>4 DEF Lone, OnlyWriter
<1>6. ASSUME NEW w \in Words  PROVE Apart(w)'
  <2>1. Apart(w)
    BY <1>0 DEF Lone
  <2> QED  BY <1>0, <1>1, <1>2, <1>3, <1>4, <2>1 DEF Apart
<1>7. ASSUME Credited  PROVE Credited'
  <2>1. OnTime'
    <3>1. object.version \in Nat
      BY <1>0 DEF RowTypes, Rows
    <3>2. base <= object.version => base <= object.version + 1
      BY <1>0, <3>1, Parts
    <3> QED  BY <1>0, <1>2, <1>3, <1>4, <1>7, <3>2 DEF Credited, OnTime
  <2>2. Latter' = Latter /\ Newest' = Newest
    BY <1>0, <1>3, <1>4 DEF Latter, Newest
  <2>3. Even'
    BY <1>0, <1>3, <1>4, <1>7, <2>2 DEF Credited, Even
  <2>4. ASSUME NEW w \in Words  PROVE Own(w)'
    <3>1. Own(w)
      BY <1>7 DEF Credited
    <3> QED  BY <1>0, <1>3, <1>4, <2>2, <3>1 DEF Own
  <2> QED  BY <2>1, <2>3, <2>4 DEF Credited
<1> QED  BY <1>5, <1>6, <1>7 DEF Lone

(* A write wins, loses or fails.                                           *)
LEMMA WriteRunServes ==
  ASSUME Serene, WriteRun
  PROVE  Lone' /\ (Credited => Credited')
<1>0. /\ Types /\ Lone /\ flush \in Calls /\ room \in Rooms /\ flush.pc = "write" /\ Writing
      /\ ~object.deleted /\ phase # "gone"
  BY DEF Serene, Types, FlushTypes, WriteRun, Writing, Lone, OnlyWriter
<1>1. news' = news /\ watcher' = watcher /\ phase' = phase /\ author' = author
  BY DEF WriteRun, UnlessFlushing
<1>2. \/ /\ object.version = flush.at /\ Commit(Head(flush.runs).md)
         /\ flush' = [flush EXCEPT !.pc = "written", !.got = [version |-> object.version + 1]]
         /\ UNCHANGED <<doc, base, room, striker, reverted>>
      \/ /\ object.version # flush.at
         /\ flush' = [flush EXCEPT !.pc = "reread"]
         /\ object' = object /\ UNCHANGED <<doc, base, room, striker, reverted>>
      \/ /\ object' = object /\ EndCycle("transient", flush, PutBack(flush))
         /\ UNCHANGED <<doc, striker, reverted>>
  BY <1>0 DEF WriteRun, Steady
<1>3. CASE /\ object.version = flush.at /\ Commit(Head(flush.runs).md)
           /\ flush' = [flush EXCEPT !.pc = "written", !.got = [version |-> object.version + 1]]
           /\ UNCHANGED <<doc, base, room, striker, reverted>>
  BY <1>0, <1>1, <1>3, Wins
<1>4. CASE /\ object.version # flush.at
           /\ flush' = [flush EXCEPT !.pc = "reread"]
           /\ object' = object /\ UNCHANGED <<doc, base, room, striker, reverted>>
  <2>1. /\ flush'.pc = "reread" /\ flush'.runs = flush.runs /\ flush'.prev = flush.prev
        /\ flush'.last = flush.last /\ flush'.wrote = flush.wrote /\ flush'.at = flush.at
    BY <1>0, <1>4 DEF Calls
  <2>2. Writing'
    BY <2>1 DEF Writing
  <2> QED  BY <1>0, <1>1, <1>4, <2>1, <2>2, MovesOn
<1>5. CASE /\ object' = object /\ EndCycle("transient", flush, PutBack(flush))
           /\ UNCHANGED <<doc, striker, reverted>>
  BY <1>0, <1>1, <1>5, PutsBack
<1> QED  BY <1>2, <1>3, <1>4, <1>5

(* The loop goes on to the next contribution, or the cycle ends.           *)
LEMMA WrittenServes ==
  ASSUME Serene, Written
  PROVE  Lone' /\ (Credited => Credited')
<1> DEFINE md == Head(flush.runs).md
           t == Changing(Tail(flush.runs), md)
           f == [flush EXCEPT !.runs = Changing(Tail(@), md), !.prev = md,
                              !.at = flush.got.version, !.wrote = TRUE]
<1>0. /\ Types /\ Lone /\ flush \in Calls /\ room \in Rooms /\ flush.pc = "written" /\ Writing
      /\ flush.runs \in Runs /\ flush.runs # <<>> /\ flush.got \in [version : Nat]
      /\ base \in Nat /\ object.version \in Nat
  BY DEF Serene, Types, FlushTypes, RowTypes, Rows, Written, Writing, Calls
<1>1. /\ object' = object /\ news' = news /\ watcher' = watcher /\ phase' = phase /\ doc' = doc
      /\ author' = author /\ striker' = striker /\ reverted' = reverted /\ phase # "gone"
  BY <1>0 DEF Written, UnlessFlushing, Steady, stored, Lone, OnlyWriter
<1>2. /\ f \in Calls /\ md \in SUBSET Words /\ f.runs = t /\ f.prev = md
      /\ f.at = flush.got.version /\ f.wrote /\ f.last = flush.last
  BY <1>0, WrittenCall DEF Calls
<1>3. \/ f.runs # <<>> /\ flush' = [f EXCEPT !.pc = "check"] /\ UNCHANGED <<base, room>>
      \/ f.runs = <<>> /\ EndCycle("clean", f, room)
  BY DEF Written
<1>4. t \in Runs /\ \A w : /\ Held(w, t) => Held(w, flush.runs)
                           /\ Carried(w, flush.runs) => Carried(w, t)
  BY <1>0, WrittenWord
<1>5. ASSUME NEW w, NEW who, NEW start, Begun(w, who, start, flush.runs)
      PROVE  /\ Begun(w, who, md, t)
             /\ Carries(t) => Carries(flush.runs)
             /\ Final(flush.runs) = (IF t = <<>> THEN md ELSE Final(t))
  BY <1>0, <1>5, BegunTail
<1>6. md = object.body /\ flush.got.version = object.version /\ md # Unread
  BY <1>0, <1>2, RoomAssumption DEF Lone, OnlyWriter, Basis
<1> HIDE DEF md, t, f
<1>7. /\ Carries(t) => Carries(flush.runs)
      /\ Final(flush.runs) = (IF t = <<>> THEN md ELSE Final(t))
  <2>1. PICK w : w \notin Words /\ \A runs \in Runs : ~Held(w, runs)
    BY NoWord
  <2>2. Begun(w, None, None, flush.runs)
    BY <1>0, <2>1, NoneBegun
  <2> QED  BY <1>5, <2>2
<1>8. CASE f.runs # <<>> /\ flush' = [f EXCEPT !.pc = "check"] /\ UNCHANGED <<base, room>>
  <2>1. /\ flush'.pc = "check" /\ flush'.runs = t /\ flush'.prev = md /\ flush'.wrote
        /\ flush'.last = flush.last /\ flush'.at = object.version
    BY <1>2, <1>6, <1>8 DEF Calls
  <2>2. Writing' /\ Basis' = md /\ Latter' = Latter
    BY <1>0, <1>2, <1>7, <1>8, <2>1 DEF Writing, Basis, Latter
  <2>3. OnlyWriter'
    BY <1>0, <1>1, <1>6, <1>8, <2>1, <2>2 DEF Lone, OnlyWriter
  <2>4. ASSUME NEW w \in Words  PROVE Apart(w)'
    <3>1. Apart(w)
      BY <1>0 DEF Lone
    <3> QED  BY <1>0, <1>1, <1>4, <1>8, <2>1, <2>2, <3>1 DEF Apart
  <2>5. ASSUME Credited  PROVE Credited'
    <3>1. OnTime'
      BY <1>0, <1>1, <1>8, <2>1, <2>2, <2>5 DEF Credited, OnTime
    <3>2. Newest' = Newest
      BY <1>8, <2>2 DEF Newest
    <3>3. Even'
      BY <1>0, <1>1, <1>7, <1>8, <2>1, <2>2, <2>5, <3>2 DEF Credited, Even
    <3>4. ASSUME NEW w \in Words  PROVE Own(w)'
      <4>1. Own(w)
        BY <2>5 DEF Credited
      <4>2. Begun(w, author[w], md, t)
        BY <1>0, <1>5, <4>1 DEF Own
      <4> QED  BY <1>1, <1>8, <2>1, <2>2, <3>2, <4>1, <4>2 DEF Own
    <3> QED  BY <3>1, <3>3, <3>4 DEF Credited
  <2> QED  BY <2>3, <2>4, <2>5 DEF Lone
<1>9. CASE f.runs = <<>> /\ EndCycle("clean", f, room)
  <2>1. /\ room'.runs = room.runs /\ room'.open = room.open /\ room'.baseMd = md
        /\ room'.again = room.again /\ flush'.pc = "after" /\ ~Writing'
    BY <1>0, <1>2, <1>9, EndCycleDoes
  <2>2. /\ base' = IF ~flush.last /\ object.version > base THEN object.version ELSE base
        /\ flush'.last = flush.last
    BY <1>2, <1>6, <1>9 DEF EndCycle, Calls
  <2>3. Basis' = md /\ Latter' = Latter
    BY <1>0, <1>2, <1>6, <1>7, <1>9, <2>1 DEF Basis, Latter
  <2>4. OnlyWriter'
    BY <1>0, <1>1, <1>6, <2>1, <2>3 DEF Lone, OnlyWriter
  <2>5. ASSUME NEW w \in Words  PROVE Apart(w)'
    <3>1. Apart(w)
      BY <1>0 DEF Lone
    <3> QED  BY <1>1, <2>1, <3>1 DEF Apart
  <2>6. ASSUME Credited  PROVE Credited'
    <3>1. OnTime'
      <4> SUFFICES ASSUME phase \in {"open", "closing"}
                   PROVE  ~flush.last /\ room.again # "last" /\ base' = object.version
        BY <1>1, <2>1, <2>2 DEF OnTime
      <4>1. ~flush.last /\ room.again # "last" /\ base <= object.version
        BY <1>0, <2>6 DEF Credited, OnTime
      <4> QED  BY <1>0, <2>2, <4>1
    <3>2. Newest' = Newest
      BY <2>1, <2>3 DEF Newest
    <3>3. Even'
      BY <1>1, <2>1, <2>6, <3>2 DEF Credited, Even
    <3>4. ASSUME NEW w \in Words  PROVE Own(w)'
      <4>1. Own(w)
        BY <2>6 DEF Credited
      <4> QED  BY <1>1, <2>1, <2>3, <3>2, <4>1 DEF Own
    <3> QED  BY <3>1, <3>3, <3>4 DEF Credited
  <2> QED  BY <2>4, <2>5, <2>6 DEF Lone
<1> QED  BY <1>3, <1>8, <1>9

(* Only the last flush, with a base that lags, loses and reads again.      *)
LEMMA RereadServes ==
  ASSUME Serene, Reread
  PROVE  Lone' /\ (Credited => Credited')
<1>0. /\ Types /\ Lone /\ flush \in Calls /\ room \in Rooms /\ flush.pc = "reread" /\ Writing
      /\ flush.runs \in Runs /\ flush.runs # <<>> /\ ~object.deleted
      /\ room.baseMd = flush.prev /\ flush.at # object.version
  BY DEF Serene, Types, FlushTypes, Reread, Writing, Lone, OnlyWriter, Calls
<1>1. /\ object' = object /\ news' = news /\ watcher' = watcher /\ phase' = phase /\ doc' = doc
      /\ author' = author /\ striker' = striker /\ reverted' = reverted /\ phase # "gone"
  BY <1>0 DEF Reread, UnlessFlushing, Steady, stored, Lone, OnlyWriter
<1>2. \/ GiveUp("conflict", Emptied(room))
      \/ /\ flush' = [flush EXCEPT !.pc = "rebase", !.got = object]
         /\ UNCHANGED <<base, room>>
  BY <1>0 DEF Reread
<1>3. CASE GiveUp("conflict", Emptied(room))
  <2>1. /\ Emptied(room) \in Rooms /\ Emptied(room).runs = <<>> /\ Emptied(room).open = None
        /\ Emptied(room).baseMd = room.baseMd
    BY <1>0, EmptiedRoom
  <2>2. room' = Emptied(room) /\ flush'.pc = "after"
    BY <1>0, <1>3, <2>1, GiveUpDoes
  <2>3. Lone' /\ (phase \notin {"open", "closing"} => Credited')
    BY <1>0, <1>1, <2>1, <2>2, Emptying
  <2>4. Credited => phase \notin {"open", "closing"}
    BY <1>0 DEF Credited, OnTime
  <2> QED  BY <2>3, <2>4
<1>4. CASE /\ flush' = [flush EXCEPT !.pc = "rebase", !.got = object]
           /\ UNCHANGED <<base, room>>
  <2>1. /\ flush'.pc = "rebase" /\ flush'.runs = flush.runs /\ flush'.prev = flush.prev
        /\ flush'.last = flush.last /\ flush'.wrote = flush.wrote /\ flush'.at = flush.at
        /\ flush'.got = object
    BY <1>0, <1>4 DEF Calls
  <2>2. Writing'
    BY <2>1 DEF Writing
  <2> QED  BY <1>0, <1>1, <1>4, <2>1, <2>2, MovesOn
<1> QED  BY <1>2, <1>3, <1>4

(* The text that is read again is the one the flush had, so nothing is     *)
(* merged.                                                                 *)
LEMMA RebaseServes ==
  ASSUME Serene, Rebase
  PROVE  Lone' /\ (Credited => Credited')
<1>0. /\ Types /\ Lone /\ flush \in Calls /\ room \in Rooms /\ flush.pc = "rebase" /\ Writing
      /\ flush.runs \in Runs /\ flush.runs # <<>> /\ flush.prev \in SUBSET Words
      /\ flush.got \in Rows
  BY DEF Serene, Types, FlushTypes, Rebase, Writing, Calls
<1>1. /\ object' = object /\ news' = news /\ watcher' = watcher /\ phase' = phase
      /\ author' = author /\ striker' = striker /\ reverted' = reverted /\ phase # "gone"
  BY <1>0 DEF Rebase, UnlessFlushing, Steady, stored, Lone, OnlyWriter
<1>2. flush.got.body = flush.prev /\ flush.got.version = object.version
  BY <1>0 DEF Lone, OnlyWriter, Basis
<1>3. /\ Again \in Calls /\ Again.runs = flush.runs /\ Again.prev = flush.prev
      /\ Again.last = flush.last
    BY <1>0, <1>2, RebasedCall, RebasedSame
<1>4. Again.wrote = flush.wrote /\ Again.at = object.version
  BY <1>0, <1>2 DEF Again, Calls
<1>5. /\ doc' = doc
      /\ \/ flush' = [Again EXCEPT !.pc = "write"] /\ UNCHANGED <<base, room>>
         \/ EndCycle("exhausted", Again, PutBack(Again))
  BY <1>2 DEF Rebase, Again, MayOverlap
<1>6. CASE flush' = [Again EXCEPT !.pc = "write"] /\ UNCHANGED <<base, room>>
  <2>1. /\ flush'.pc = "write" /\ flush'.runs = flush.runs /\ flush'.prev = flush.prev
        /\ flush'.last = flush.last /\ flush'.wrote = flush.wrote /\ flush'.at = object.version
    BY <1>3, <1>4, <1>6 DEF Calls
  <2>2. Writing'
    BY <2>1 DEF Writing
  <2> QED  BY <1>0, <1>1, <1>5, <1>6, <2>1, <2>2, MovesOn
<1>7. CASE EndCycle("exhausted", Again, PutBack(Again))
  BY <1>0, <1>1, <1>3, <1>4, <1>5, <1>7, PutsBack
<1> QED  BY <1>5, <1>6, <1>7

(* Every step keeps the invariants: nobody writes outside the room, so the *)
(* watcher has nothing to do and nothing is trashed.                       *)
LEMMA NextServes ==
  ASSUME Serene, [Next]_vars
  PROVE  Serene' /\ (Credited => Credited')
<1>0. Types /\ Lone /\ ~object.deleted /\ news = 0 /\ watcher.pc = "idle" /\ setting.outside = 0
  BY DEF Serene, Undisturbed, Lone, OnlyWriter
<1>1. Types' /\ setting'.outside <= setting.outside /\ setting'.outside \in Nat
  BY <1>0, NextTypes, SoleStays
<1>2. Undisturbed'
  BY <1>0, <1>1 DEF Undisturbed
<1>3. CASE UNCHANGED vars
  <2>1. /\ object' = object /\ news' = news /\ watcher' = watcher /\ doc' = doc
        /\ author' = author /\ striker' = striker /\ reverted' = reverted /\ base' = base
        /\ room' = room /\ flush' = flush /\ phase' = phase
    BY <1>3 DEF vars, stored, history
  <2>2. phase' = "gone" => flush'.pc = "idle"
    BY <1>0, <2>1 DEF Lone, OnlyWriter
  <2>3. Credited => (phase \in {"open", "closing"} => ~flush'.last /\ room'.again # "last")
    BY <2>1 DEF Credited, OnTime
  <2>4. Lone'
    BY <1>0, <2>1, <2>2, StaysLone
  <2>5. Credited => Credited'
    BY <1>0, <2>1, <2>2, <2>3, StaysCredited
  <2> QED  BY <1>1, <1>2, <2>4, <2>5 DEF Serene
<1>4. ASSUME Next  PROVE Lone' /\ (Credited => Credited')
  <2>1. ~(\/ \E w \in Words : OutsideAdds(w) \/ OutsideStrikes(w)
          \/ OutsideEditsProps \/ Trash \/ Purge)
    BY <1>0 DEF OutsideAdds, OutsideStrikes, OutsideEditsProps, Trash, FromOutside, Purge
  <2>2. ~WatcherStep
    BY <1>0 DEF WatcherStep, Poll, Load, BaseBody, MergeIn, NoteExternalWrite
  <2>3. CASE \E u \in Users, w \in Words : Type(u, w) \/ Strike(u, w)
    BY <2>3, TypeServes, StrikeServes
  <2>4. CASE Fire \/ LastFlush \/ NextCycle
    BY <2>4, FireServes, LastFlushServes, NextCycleServes
  <2>5. CASE Close \/ Drop \/ \E u \in Users : Revoke(u)
    BY <2>5, AsideServes
  <2>6. CASE ReadBase \/ Based \/ CheckRights \/ WriteRun \/ Written \/ Reread \/ Rebase
    BY <2>6, ReadServes, CheckRightsServes, WriteRunServes, WrittenServes, RereadServes,
       RebaseServes
  <2> QED  BY <1>4, <2>1, <2>2, <2>3, <2>4, <2>5, <2>6 DEF Next, FlushStep
<1> QED  BY <1>1, <1>2, <1>3, <1>4 DEF Serene

(* They hold when the room opens; whose a word of an earlier session is    *)
(* only the blob could say.                                                *)
LEMMA InitServes ==
  ASSUME Init, Undisturbed
  PROVE  Serene /\ (setting.unsaved = {} => Credited)
<1>0. Types
  BY InitTypes
<1>1. /\ object = [version |-> 1, body |-> Initial, deleted |-> FALSE] /\ news = 0
      /\ doc = Initial \union setting.unsaved /\ base = 1 /\ flush = Idle /\ watcher = Resting
      /\ phase = "open"
      /\ room.runs = <<>> /\ room.open = None /\ room.again = "no"
      /\ room.baseMd = IF setting.known THEN Initial ELSE Unread
  BY DEF Init
<1>2. flush.pc = "idle" /\ ~flush.last /\ watcher.pc = "idle" /\ object.version = 1
      /\ object.body = Initial /\ ~object.deleted /\ ~Writing
  BY <1>1 DEF Idle, Resting, Writing
<1>3. ASSUME NEW w \in Words
      PROVE  /\ striker[w] = None
             /\ author[w] = IF w \in Initial THEN Outside
                            ELSE IF w \in setting.unsaved THEN Joiner ELSE None
  BY DEF Init
<1>4. Joiner \in Users /\ None \notin Users /\ Outside \notin Users /\ None # Outside
      /\ Initial # Unread
  BY RoomAssumption
<1>5. Basis = Initial /\ Latter = Initial /\ Newest = Initial
  BY <1>1, <1>2, <1>4 DEF Basis, Latter, Newest
<1>6. OnlyWriter
  BY <1>1, <1>2, <1>5 DEF OnlyWriter
<1>7. ASSUME NEW w \in Words  PROVE Apart(w)
  <2>1. ~Held(w, <<>>) /\ Carried(w, <<>>)
    BY EmptyWord
  <2> QED  BY <1>1, <1>2, <1>3, <1>4, <2>1 DEF Apart
<1>8. ASSUME setting.unsaved = {}  PROVE Credited
  <2>1. OnTime
    BY <1>1, <1>2 DEF OnTime
  <2>2. doc = Newest
    BY <1>1, <1>5, <1>8
  <2>3. Even
    <3>1. ~Carries(<<>>)
      BY DEF Carries
    <3> QED  BY <1>1, <1>2, <2>2, <3>1 DEF Even
  <2>4. ASSUME NEW w \in Words  PROVE Own(w)
    <3>1. \A who, start : Begun(w, who, start, <<>>)
      BY EmptyWord, NoneBegun
    <3> QED  BY <1>1, <1>2, <2>2, <3>1 DEF Own
  <2> QED  BY <2>1, <2>3, <2>4 DEF Credited
<1> QED  BY <1>0, <1>6, <1>7, <1>8 DEF Serene, Lone

(* They give the properties.                                               *)
LEMMA SereneGives == Serene => NothingTakenBack /\ StaysStruck
<1> SUFFICES ASSUME Serene, NEW w \in Words
             PROVE  /\ author[w] = Outside /\ striker[w] = None => w \in object.body
                    /\ striker[w] = Outside => w \notin object.body
                    /\ striker[w] \in Users /\ w \notin reverted => w \notin doc
  BY DEF NothingTakenBack, StaysStruck
<1>1. Apart(w)
  BY DEF Serene, Lone
<1> QED  BY <1>1 DEF Apart

(* What a write adds to the object is its author's, of several people.     *)
LEMMA OwnWordsOfMany ==
  ASSUME Serene, Credited, [Next]_vars, flush.pc = "write", flush' # flush, object' # object
  PROVE  LET run == Head(flush.runs)
         IN  run.carry \/ \A w \in object'.body \ object.body :
                             author[w] = run.actor \/ w \in setting.unsaved
<1> DEFINE run == Head(flush.runs)
<1>0. /\ RowTypes /\ flush.runs \in Runs /\ flush.runs # <<>> /\ Writing
      /\ flush.prev = object.body /\ ~object.deleted
  BY DEF Serene, Types, FlushTypes, Writing, Calls, Lone, OnlyWriter, Basis
<1>1. Commit(run.md)
  BY <1>0, OnlyWriteRun DEF WriteRun
<1>2. run = flush.runs[1] /\ 1 \in DOMAIN flush.runs /\ run.md \in SUBSET Words
  BY <1>0, RunsAreSequences, HeadWord
<1>3. object'.body = run.md
  BY <1>0, <1>1, <1>2, CommitTypes
<1> HIDE DEF run
<1>4. ASSUME NEW w \in object'.body \ object.body
      PROVE  run.carry \/ run.actor = author[w]
  <2>1. Begun(w, author[w], flush.prev, flush.runs)
    BY <1>0, <1>2, <1>3 DEF Credited, Own
  <2> QED  BY <1>0, <1>2, <1>3, <2>1 DEF Begun
<1> QED  BY <1>4 DEF run

-----------------------------------------------------------------------------
(* The theorems of both parts.                                             *)

\* Either regime, with its invariant.
Settled == Types /\ (SoleInv \/ Serene)

(* The two regimes' invariants together.                                   *)
LEMMA InitSettled == Init /\ (Sole \/ Undisturbed) => Settled
BY InitTypes, InitSole, InitServes DEF Settled

(* They are inductive.                                                     *)
LEMMA NextSettled == Settled /\ [Next]_vars => Settled'
BY NextTypes, NextSole, NextServes DEF Settled

(* With one person in the room and, between its flushes and ingests, other *)
(* writers outside fewer times than a contribution has attempts; or with   *)
(* any number of people, failures and lost rights and no other writer:     *)
(* what others wrote stays in the object and what they took out stays out, *)
(* however contributions, rebases, refusals and ingests are ordered        *)
(* (flush.ts: a lost compare-and-swap is rebased, never a blind retry).    *)
THEOREM OthersAreKept == Spec /\ (Sole \/ Undisturbed) => []NothingTakenBack
<1>1. Init /\ (Sole \/ Undisturbed) => Settled
  BY InitSettled
<1>2. Settled /\ [Next]_vars => Settled'
  BY NextSettled
<1>3. Settled => NothingTakenBack
  BY SoleGives, SereneGives DEF Settled
<1> QED  BY <1>1, <1>2, <1>3, PTL DEF Spec

(* And what somebody in the room takes out is not typed in again, by the   *)
(* watcher, a rebase or a refusal (flush.ts, the echo loop).               *)
THEOREM StruckStaysOut == Spec /\ (Sole \/ Undisturbed) => []StaysStruck
<1>1. Init /\ (Sole \/ Undisturbed) => Settled
  BY InitSettled
<1>2. Settled /\ [Next]_vars => Settled'
  BY NextSettled
<1>3. Settled => StaysStruck
  BY SoleGives, SereneGives DEF Settled
<1> QED  BY <1>1, <1>2, <1>3, PTL DEF Spec

\* Either regime, where each word is begun by who put it in.
Signed == Types /\ (SoleInv \/ (Serene /\ Credited))

(* And every version the room writes as a person holds new words of theirs *)
(* only, or of an earlier session: of nobody else in the room, put back    *)
(* after a failing write or not, and of no outside writer.  With several   *)
(* people this is for a room without text of an earlier session (flush.ts, *)
(* one write, one actor).                                                  *)
THEOREM WrittenAsTheirOwn ==
    Spec /\ (Sole \/ (Undisturbed /\ setting.unsaved = {})) => OwnWordsOnly
<1>1. Init /\ (Sole \/ (Undisturbed /\ setting.unsaved = {})) => Signed
  BY InitTypes, InitSole, InitServes DEF Signed
<1>2. Signed /\ [Next]_vars => Signed'
  BY NextTypes, NextSole, NextServes DEF Signed
<1>3. Signed /\ [Next]_vars =>
        [Orderly /\ flush.pc = "write" /\ flush' # flush /\ object' # object =>
           LET run == Head(flush.runs)
           IN  run.carry \/ \A w \in object'.body \ object.body :
                               author[w] = run.actor \/ w \in setting.unsaved]_vars
  BY OwnWords, OwnWordsOfMany DEF Signed
<1> QED  BY <1>1, <1>2, <1>3, PTL DEF Spec, OwnWordsOnly
=============================================================================

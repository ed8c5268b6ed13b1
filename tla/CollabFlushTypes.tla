-------------------------- MODULE CollabFlushTypes -------------------------
(***************************************************************************)
(* What is proved of one open document, first part: what the operators on  *)
(* a sequence of contributions return, what the parts of a flush do, and   *)
(* the types, for every set of people, every set of words, every setting.  *)
(***************************************************************************)
EXTENDS CollabFlush, SequenceTheorems, WellFoundedInduction, TLAPS

Run == [actor : Users, md : SUBSET Words, carry : BOOLEAN]

Final(runs) == runs[Len(runs)].md

-----------------------------------------------------------------------------
(* Contributions: what the operators on a sequence of them make of it.     *)

(* What SMT needs to know of a sequence of contributions.                  *)
LEMMA RunsAreSequences ==
    ASSUME NEW runs \in Runs
    PROVE  /\ runs \in Seq(Run) /\ Len(runs) \in Nat /\ DOMAIN runs = 1 .. Len(runs)
           /\ \A i \in DOMAIN runs : runs[i] \in Run
           /\ runs = <<>> <=> Len(runs) = 0
           /\ runs # <<>> => 1 \in DOMAIN runs /\ Len(runs) \in DOMAIN runs /\ Head(runs) = runs[1]
<1>1. runs \in Seq(Run)
  BY DEF Runs, Run
<1>2. Len(runs) \in Nat /\ DOMAIN runs = 1 .. Len(runs)
  BY <1>1, LenProperties
<1>3. \A i \in DOMAIN runs : runs[i] \in Run
  BY <1>1, <1>2, ElementOfSeq
<1>4. runs = <<>> <=> Len(runs) = 0
  BY <1>1, <1>2, EmptySeq
<1>5. runs # <<>> => 1 \in DOMAIN runs /\ Len(runs) \in DOMAIN runs
  BY <1>2, <1>4
<1> QED  BY <1>1, <1>2, <1>3, <1>4, <1>5

(* A contribution that is closed is the last of them, with the text as it is.*)
LEMMA ClosedAdds ==
    ASSUME NEW runs \in Runs, NEW open \in Users \union {None}, NEW text \in SUBSET Words
    PROVE  LET c == Closed(runs, open, text)
           IN  /\ c \in Runs
               /\ open = None => c = runs
               /\ open # None => /\ Len(c) = Len(runs) + 1
                                 /\ c[Len(runs) + 1].md = text
                                 /\ \A i \in DOMAIN runs : c[i] = runs[i]
<1>1. CASE open = None
  BY <1>1 DEF Closed
<1>2. CASE open # None
  <2> DEFINE new == [actor |-> open, md |-> text, carry |-> FALSE]
  <2>1. new \in Run
    BY <1>2 DEF Run
  <2>2. Closed(runs, open, text) = Append(runs, new)
    BY <1>2 DEF Closed
  <2>3. runs \in Seq(Run)
    BY RunsAreSequences
  <2> HIDE DEF new
  <2>4. /\ Append(runs, new) \in Seq(Run)
        /\ Len(Append(runs, new)) = Len(runs) + 1
        /\ \A i \in 1 .. Len(runs) : Append(runs, new)[i] = runs[i]
        /\ Append(runs, new)[Len(runs) + 1] = new
    BY <2>1, <2>3, AppendProperties
  <2>5. new.md = text
    BY DEF new
  <2> QED  BY <1>2, <2>2, <2>4, <2>5, RunsAreSequences DEF Runs, Run
<1> QED  BY <1>1, <1>2

(* What is taken up is what was pending, or one carry-over of the text.    *)
LEMMA TakenAdds ==
    ASSUME NEW runs \in Runs, NEW open \in Users \union {None},
           NEW prev, NEW text \in SUBSET Words
    PROVE  LET t == Taken(runs, open, prev, text)
               c == Closed(runs, open, text)
           IN  /\ t \in Runs
               /\ \/ t = c /\ (c # <<>> \/ text = prev)
                  \/ /\ c = <<>> /\ Len(t) = 1 /\ t[1].md = text /\ t[1].carry
<1> DEFINE c == Closed(runs, open, text)
           one == [actor |-> Joiner, md |-> text, carry |-> TRUE]
<1>1. c \in Runs
  BY ClosedAdds
<1>2. one \in Run /\ one.md = text /\ one.carry
  BY RoomAssumption DEF Run
<1> HIDE DEF c
<1>3. CASE c = <<>> /\ text # prev
  <2>1. Taken(runs, open, prev, text) = <<one>>
    BY <1>3 DEF Taken, c
  <2> HIDE DEF one
  <2>2. <<one>> \in Seq(Run) /\ Len(<<one>>) = 1 /\ <<one>>[1] = one
    BY <1>2
  <2> QED  BY <1>2, <1>3, <2>1, <2>2 DEF Runs, Run, c
<1>4. CASE ~(c = <<>> /\ text # prev)
  <2>1. Taken(runs, open, prev, text) = c
    BY <1>4 DEF Taken, c
  <2> QED  BY <1>1, <1>4, <2>1 DEF c
<1> QED  BY <1>3, <1>4

(* A set of naturals has a least element. *)
LEMMA Least ==
    ASSUME NEW S \in SUBSET Nat, S # {}
    PROVE  LET m == CHOOSE i \in S : \A j \in S : i <= j
           IN  m \in S /\ \A j \in S : m <= j
<1> DEFINE Below == {p \in Nat \X Nat : p[1] < p[2]}
<1>1. IsWellFoundedOn(Below, Nat)
  BY NatLessThanWellFounded, Zenon DEF OpToRel
<1>2. PICK x \in S : \A y \in S : ~(<<y, x>> \in Below)
  <2> HIDE DEF Below
  <2> QED  BY <1>1, WFMin
<1>3. \A y \in S : y < x => <<y, x>> \in Below
  OBVIOUS
<1>4. ASSUME NEW y \in S
      PROVE  x <= y
  <2> HIDE DEF Below
  <2>1. ~(y < x)
    BY <1>2, <1>3
  <2>2. x \in Nat /\ y \in Nat
    OBVIOUS
  <2> QED  BY <2>1, <2>2
<1> QED  BY <1>4

(* Zero churn drops leading contributions that are the stored text.        *)
LEMMA ChangingDrops ==
    ASSUME NEW runs \in Runs, NEW prev
    PROVE  LET c == Changing(runs, prev)
           IN  /\ c \in Runs
               /\ \E k \in 0 .. Len(runs) :
                    /\ Len(c) = Len(runs) - k
                    /\ \A i \in 1 .. Len(c) : c[i] = runs[i + k]
                    /\ \A i \in 1 .. k : runs[i].md = prev
<1> DEFINE changes == {i \in DOMAIN runs : runs[i].md # prev}
<1>0. runs \in Seq(Run) /\ Len(runs) \in Nat /\ DOMAIN runs = 1 .. Len(runs)
  BY RunsAreSequences
<1>1. CASE changes = {}
  <2>1. Changing(runs, prev) = <<>>
    BY <1>1 DEF Changing
  <2>2. <<>> \in Runs /\ Len(<<>>) = 0
    BY DEF Runs
  <2>3. \A i \in 1 .. Len(runs) : runs[i].md = prev
    BY <1>0, <1>1
  <2> HIDE DEF changes
  <2>4. Len(runs) \in 0 .. Len(runs) /\ 0 = Len(runs) - Len(runs) /\ 1 .. 0 = {}
    BY <1>0
  <2>5. \A i \in 1 .. Len(Changing(runs, prev)) : Changing(runs, prev)[i] = runs[i + Len(runs)]
    BY <2>1, <2>2, <2>4
  <2> QED  BY <2>1, <2>2, <2>3, <2>4, <2>5
<1>2. CASE changes # {}
  <2> DEFINE m == CHOOSE i \in changes : \A j \in changes : i <= j
  <2>1. m \in changes /\ \A j \in changes : m <= j
    <3>1. changes \in SUBSET Nat
      BY <1>0
    <3> HIDE DEF changes
    <3> QED  BY <1>2, <3>1, Least
  <2>2. Changing(runs, prev) = SubSeq(runs, m, Len(runs))
    BY <1>2 DEF Changing
  <2>3. m \in 1 .. Len(runs)
    BY <1>0, <2>1
  <2>4. \A i \in 1 .. (m - 1) : runs[i].md = prev
    BY <1>0, <2>1, <2>3
  <2> HIDE DEF m, changes
  <2>5. /\ SubSeq(runs, m, Len(runs)) \in Seq(Run)
        /\ Len(SubSeq(runs, m, Len(runs))) = Len(runs) - m + 1
        /\ \A i \in 1 .. Len(runs) - m + 1 : SubSeq(runs, m, Len(runs))[i] = runs[m + i - 1]
    BY <1>0, <2>3, SubSeqProperties
  <2>6. m - 1 \in 0 .. Len(runs) /\ Len(runs) - m + 1 = Len(runs) - (m - 1)
    BY <1>0, <2>3
  <2>7. \A i \in 1 .. Len(runs) - m + 1 : m + i - 1 = i + (m - 1)
    BY <1>0, <2>3
  <2> DEFINE c == Changing(runs, prev)
             k == m - 1
  <2>8. /\ c \in Runs /\ k \in 0 .. Len(runs) /\ Len(c) = Len(runs) - k
        /\ \A i \in 1 .. k : runs[i].md = prev
    BY <2>2, <2>4, <2>5, <2>6 DEF Runs, Run
  <2>9. \A i \in 1 .. Len(c) : c[i] = runs[i + k]
    <3>1. ASSUME NEW i \in 1 .. Len(c) PROVE c[i] = runs[i + k]
      <4>1. i \in 1 .. Len(runs) - m + 1 /\ c[i] = runs[m + i - 1]
        BY <2>2, <2>5, <3>1
      <4> QED  BY <2>7, <4>1
    <3> QED  BY <3>1
  <2> HIDE DEF k, c
  <2>10. \E j \in 0 .. Len(runs) :
            /\ Len(c) = Len(runs) - j
            /\ \A i \in 1 .. Len(c) : c[i] = runs[i + j]
            /\ \A i \in 1 .. j : runs[i].md = prev
    BY <2>8, <2>9
  <2> QED  BY <2>8, <2>10 DEF c
<1> QED  BY <1>1, <1>2

(* A rebase changes the texts of the contributions and nothing else of them. *)
LEMMA RebasedKeeps ==
    ASSUME NEW runs \in Runs, NEW from \in SUBSET Words, NEW to \in SUBSET Words
    PROVE  LET r == Rebased(runs, from, to)
           IN  /\ r \in Runs /\ Len(r) = Len(runs) /\ DOMAIN r = DOMAIN runs
               /\ \A i \in DOMAIN runs : /\ r[i].md = Merge(runs[i].md, from, to)
                                         /\ r[i].actor = runs[i].actor
                                         /\ r[i].carry = runs[i].carry
<1> DEFINE r == Rebased(runs, from, to)
<1>1. /\ Len(runs) \in Nat /\ DOMAIN runs = 1 .. Len(runs)
      /\ \A i \in DOMAIN runs : runs[i] \in Run
  BY RunsAreSequences
<1>2. \A i \in DOMAIN runs : r[i] = [runs[i] EXCEPT !.md = Merge(runs[i].md, from, to)]
  BY DEF Rebased
<1>3. \A i \in DOMAIN runs : /\ r[i] \in Run
                             /\ r[i].md = Merge(runs[i].md, from, to)
                             /\ r[i].actor = runs[i].actor
                             /\ r[i].carry = runs[i].carry
  <2> SUFFICES ASSUME NEW i \in DOMAIN runs
               PROVE  /\ r[i] \in Run
                      /\ r[i].md = Merge(runs[i].md, from, to)
                      /\ r[i].actor = runs[i].actor
                      /\ r[i].carry = runs[i].carry
    OBVIOUS
  <2>1. runs[i] \in Run /\ Merge(runs[i].md, from, to) \in SUBSET Words
    BY <1>1 DEF Run, Merge
  <2> QED  BY <1>2, <2>1 DEF Run
<1>4. r \in [1 .. Len(runs) -> Run]
  <2>1. DOMAIN r = 1 .. Len(runs) /\ r = [i \in 1 .. Len(runs) |-> r[i]]
    BY <1>1 DEF Rebased
  <2> HIDE DEF r
  <2> QED  BY <1>1, <1>3, <2>1
<1>5. r \in Seq(Run)
  <2> HIDE DEF r
  <2> QED  BY <1>1, <1>4, SeqDef
<1> HIDE DEF r
<1>6. r \in Runs
  BY <1>5 DEF Runs, Run
<1>7. DOMAIN r = 1 .. Len(runs) /\ Len(r) = Len(runs)
  BY <1>1, <1>4, <1>6, RunsAreSequences
<1> QED  BY <1>1, <1>3, <1>6, <1>7 DEF r

(* What is put back comes before what has been closed since. *)
LEMMA PutBackJoins ==
    ASSUME NEW first \in Runs, NEW second \in Runs
    PROVE  LET all == first \o second
           IN  /\ all \in Runs /\ Len(all) = Len(first) + Len(second)
               /\ \A i \in DOMAIN first : all[i] = first[i]
               /\ \A i \in DOMAIN second : all[i + Len(first)] = second[i]
               /\ \A i \in DOMAIN all : \/ i \in DOMAIN first
                                        \/ /\ i - Len(first) \in DOMAIN second
                                           /\ all[i] = second[i - Len(first)]
<1> DEFINE all == first \o second
<1>1. /\ first \in Seq(Run) /\ Len(first) \in Nat /\ DOMAIN first = 1 .. Len(first)
      /\ second \in Seq(Run) /\ Len(second) \in Nat /\ DOMAIN second = 1 .. Len(second)
  BY RunsAreSequences
<1>2. /\ all \in Seq(Run) /\ Len(all) = Len(first) + Len(second)
      /\ \A i \in 1 .. Len(first) + Len(second) :
            all[i] = IF i <= Len(first) THEN first[i] ELSE second[i - Len(first)]
  BY <1>1, ConcatProperties
<1> HIDE DEF all
<1>3. all \in Runs /\ DOMAIN all = 1 .. Len(first) + Len(second)
  BY <1>1, <1>2, LenProperties DEF Runs, Run
<1>4. \A i \in DOMAIN first : all[i] = first[i]
  BY <1>1, <1>2
<1>5. ASSUME NEW i \in DOMAIN second
      PROVE  all[i + Len(first)] = second[i]
  <2>1. /\ i + Len(first) \in 1 .. Len(first) + Len(second)
        /\ ~(i + Len(first) <= Len(first))
        /\ i + Len(first) - Len(first) = i
    BY <1>1
  <2> QED  BY <1>2, <2>1
<1>6. ASSUME NEW i \in DOMAIN all, i \notin DOMAIN first
      PROVE  i - Len(first) \in DOMAIN second /\ all[i] = second[i - Len(first)]
  BY <1>1, <1>2, <1>3, <1>6
<1> QED  BY <1>2, <1>3, <1>4, <1>5, <1>6 DEF all

(* The contributions left once the first is written.                       *)
LEMMA TailRuns ==
    ASSUME NEW runs \in Runs, runs # <<>>
    PROVE  /\ Tail(runs) \in Runs /\ Len(Tail(runs)) = Len(runs) - 1
           /\ \A i \in DOMAIN Tail(runs) : Tail(runs)[i] = runs[i + 1]
<1>1. runs \in Seq(Run)
  BY RunsAreSequences
<1>2. /\ Tail(runs) \in Seq(Run) /\ Len(Tail(runs)) = Len(runs) - 1
      /\ \A i \in 1 .. Len(Tail(runs)) : Tail(runs)[i] = runs[i + 1]
  BY <1>1, HeadTailProperties
<1> QED  BY <1>2, LenProperties DEF Runs, Run

-----------------------------------------------------------------------------
(* A word in a sequence of contributions: in some of them, in all of them, *)
(* or, once in one, in all that follow.                                    *)

Held(w, runs) == \E i \in DOMAIN runs : w \in runs[i].md

Carried(w, runs) == \A i \in DOMAIN runs : w \in runs[i].md

Grows(w, runs) ==
    \A i, j \in DOMAIN runs : i <= j /\ w \in runs[i].md => w \in runs[j].md

(* Closing a contribution takes a word from none before it.                *)
LEMMA ClosedWord ==
    ASSUME NEW runs \in Runs, NEW open \in Users \union {None}, NEW text \in SUBSET Words,
           NEW w, Grows(w, runs), Held(w, runs) => w \in text
    PROVE  LET c == Closed(runs, open, text)
           IN  /\ c \in Runs
               /\ Grows(w, c)
               /\ Held(w, c) => w \in text
               /\ w \in text /\ Carried(w, runs) => Carried(w, c)
               /\ w \in text /\ c # <<>> /\ (open = None => w \in Final(runs)) => w \in Final(c)
<1> DEFINE c == Closed(runs, open, text)
<1>1. CASE open = None
  <2>1. c = runs
    BY <1>1, ClosedAdds
  <2> QED  BY <1>1, <2>1
<1>2. CASE open # None
  <2>1. c \in Runs /\ Len(c) = Len(runs) + 1 /\ c[Len(runs) + 1].md = text
        /\ \A i \in DOMAIN runs : c[i] = runs[i]
    BY <1>2, ClosedAdds
  <2> HIDE DEF c
  <2>2. Len(runs) \in Nat /\ DOMAIN runs = 1 .. Len(runs) /\ DOMAIN c = 1 .. Len(runs) + 1
    BY <2>1, RunsAreSequences
  <2>3. \A i \in DOMAIN c : i \in DOMAIN runs \/ i = Len(runs) + 1
    BY <2>2
  <2>4. Held(w, c) => w \in text
    BY <2>1, <2>3 DEF Held
  <2>5. Grows(w, c)
    <3> SUFFICES ASSUME NEW i \in DOMAIN c, NEW j \in DOMAIN c, i <= j, w \in c[i].md
                 PROVE  w \in c[j].md
      BY DEF Grows
    <3>1. CASE j = Len(runs) + 1
      BY <2>1, <2>4, <3>1 DEF Held
    <3>2. CASE j \in DOMAIN runs
      <4>1. i \in DOMAIN runs
        BY <2>2, <3>2
      <4> QED  BY <2>1, <3>2, <4>1 DEF Grows
    <3> QED  BY <2>3, <3>1, <3>2
  <2>6. w \in text /\ Carried(w, runs) => Carried(w, c)
    BY <2>1, <2>3 DEF Carried
  <2>7. Final(c) = text
    BY <2>1 DEF Final
  <2> QED  BY <2>1, <2>4, <2>5, <2>6, <2>7 DEF c
<1> QED  BY <1>1, <1>2

(* Nor does taking the contributions up.                                   *)
LEMMA TakenWord ==
    ASSUME NEW runs \in Runs, NEW open \in Users \union {None},
           NEW prev, NEW text \in SUBSET Words,
           NEW w, Grows(w, runs), Held(w, runs) => w \in text
    PROVE  LET t == Taken(runs, open, prev, text)
           IN  /\ t \in Runs
               /\ Grows(w, t)
               /\ Held(w, t) => w \in text
               /\ w \in text /\ Carried(w, runs) => Carried(w, t)
               /\ w \in text /\ t # <<>> /\ (open = None /\ runs # <<>> => w \in Final(runs))
                    => w \in Final(t)
               /\ t = <<>> => text = prev
<1> DEFINE t == Taken(runs, open, prev, text)
           c == Closed(runs, open, text)
<1>1. t \in Runs /\ c \in Runs
  BY TakenAdds, ClosedAdds
<1>2. CASE t = c /\ (c # <<>> \/ text = prev)
  <2>1. c # <<>> /\ open = None => runs # <<>>
    BY ClosedAdds
  <2>2. /\ Grows(w, c)
        /\ Held(w, c) => w \in text
        /\ w \in text /\ Carried(w, runs) => Carried(w, c)
        /\ w \in text /\ c # <<>> /\ (open = None => w \in Final(runs)) => w \in Final(c)
    BY ClosedWord
  <2>3. t = c /\ (t = <<>> => text = prev)
    BY <1>2
  <2> HIDE DEF t, c
  <2>4. t # <<>> /\ w \in text /\ (open = None /\ runs # <<>> => w \in Final(runs)) => w \in Final(t)
    BY <2>1, <2>2, <2>3
  <2> QED  BY <1>1, <2>2, <2>3, <2>4 DEF t
<1>3. CASE Len(t) = 1 /\ t[1].md = text
  <2> HIDE DEF t
  <2>1. DOMAIN t = {1} /\ t # <<>>
    BY <1>1, <1>3, RunsAreSequences
  <2> QED  BY <1>1, <1>3, <2>1 DEF Grows, Held, Carried, Final, t
<1> QED  BY <1>2, <1>3, TakenAdds

(* Nor does leaving out those that change nothing.                         *)
LEMMA ChangingWord ==
    ASSUME NEW runs \in Runs, NEW prev, NEW w
    PROVE  LET c == Changing(runs, prev)
           IN  /\ c \in Runs
               /\ Grows(w, runs) => Grows(w, c)
               /\ Held(w, c) => Held(w, runs)
               /\ Carried(w, runs) => Carried(w, c)
               /\ c # <<>> => Final(c) = Final(runs)
               /\ c = <<>> /\ runs # <<>> => Final(runs) = prev
<1> DEFINE c == Changing(runs, prev)
<1>1. c \in Runs
  BY ChangingDrops
<1>2. PICK k \in 0 .. Len(runs) :
          /\ Len(c) = Len(runs) - k
          /\ \A i \in 1 .. Len(c) : c[i] = runs[i + k]
          /\ \A i \in 1 .. k : runs[i].md = prev
  BY ChangingDrops
<1> HIDE DEF c
<1>3. Len(runs) \in Nat /\ DOMAIN runs = 1 .. Len(runs) /\ Len(c) \in Nat /\ DOMAIN c = 1 .. Len(c)
  BY <1>1, RunsAreSequences
<1>4. \A i \in DOMAIN c : i + k \in DOMAIN runs /\ c[i] = runs[i + k]
  BY <1>2, <1>3
<1>5. ASSUME Grows(w, runs)
      PROVE  Grows(w, c)
  <2> SUFFICES ASSUME NEW i \in DOMAIN c, NEW j \in DOMAIN c, i <= j, w \in c[i].md
               PROVE  w \in c[j].md
    BY DEF Grows
  <2>1. i + k <= j + k
    BY <1>2, <1>3
  <2> QED  BY <1>4, <1>5, <2>1 DEF Grows
<1>6. Held(w, c) => Held(w, runs)
  BY <1>4 DEF Held
<1>7. Carried(w, runs) => Carried(w, c)
  BY <1>4 DEF Carried
<1>8. c # <<>> => Final(c) = Final(runs)
  <2> SUFFICES ASSUME c # <<>> PROVE Final(c) = Final(runs)
    OBVIOUS
  <2>1. Len(c) \in DOMAIN c
    BY <1>1, RunsAreSequences
  <2>2. Len(c) + k = Len(runs)
    BY <1>2, <1>3
  <2> QED  BY <1>4, <2>1, <2>2 DEF Final
<1>9. c = <<>> /\ runs # <<>> => Final(runs) = prev
  <2> SUFFICES ASSUME c = <<>>, runs # <<>> PROVE Final(runs) = prev
    OBVIOUS
  <2>1. Len(c) = 0 /\ Len(runs) \in DOMAIN runs
    BY <1>1, RunsAreSequences
  <2>2. k = Len(runs) /\ Len(runs) \in 1 .. k
    BY <1>2, <1>3, <2>1
  <2> QED  BY <1>2, <2>2 DEF Final
<1> QED  BY <1>1, <1>5, <1>6, <1>7, <1>8, <1>9 DEF c

(* A rebase that does not take the word out may put it into all of them.   *)
LEMMA RebasedWord ==
    ASSUME NEW runs \in Runs, NEW from \in SUBSET Words, NEW to \in SUBSET Words,
           NEW w \in Words, w \in from => w \in to, w \in to => Carried(w, runs)
    PROVE  LET r == Rebased(runs, from, to)
           IN  /\ r \in Runs
               /\ r = <<>> <=> runs = <<>>
               /\ Carried(w, r) <=> Carried(w, runs)
               /\ Held(w, r) <=> Held(w, runs)
               /\ Grows(w, r) <=> Grows(w, runs)
               /\ runs # <<>> => (w \in Final(r) <=> w \in Final(runs))
<1> DEFINE r == Rebased(runs, from, to)
<1>1. /\ r \in Runs /\ Len(r) = Len(runs) /\ DOMAIN r = DOMAIN runs
      /\ \A i \in DOMAIN runs : r[i].md = Merge(runs[i].md, from, to)
  BY RebasedKeeps
<1> HIDE DEF r
<1>2. \A i \in DOMAIN runs : w \in r[i].md <=> w \in runs[i].md
  BY <1>1 DEF Merge, Carried
<1>3. r = <<>> <=> runs = <<>>
  BY <1>1, RunsAreSequences
<1>4. runs # <<>> => (w \in Final(r) <=> w \in Final(runs))
  BY <1>1, <1>2, RunsAreSequences DEF Final
<1> QED  BY <1>1, <1>2, <1>3, <1>4 DEF Carried, Held, Grows, r

(* Nor does putting the unwritten ones back before those that came since.  *)
LEMMA PutBackWord ==
    ASSUME NEW first \in Runs, NEW second \in Runs, NEW w,
           Grows(w, first), Grows(w, second), Held(w, first) => Carried(w, second)
    PROVE  LET all == first \o second
           IN  /\ all \in Runs
               /\ Grows(w, all)
               /\ Held(w, all) => Held(w, first) \/ Held(w, second)
               /\ Carried(w, first) /\ Carried(w, second) => Carried(w, all)
               /\ second # <<>> => Final(all) = Final(second)
               /\ second = <<>> => all = first
<1> DEFINE all == first \o second
<1>1. /\ all \in Runs /\ Len(all) = Len(first) + Len(second)
      /\ \A i \in DOMAIN first : all[i] = first[i]
      /\ \A i \in DOMAIN second : all[i + Len(first)] = second[i]
      /\ \A i \in DOMAIN all : \/ i \in DOMAIN first
                               \/ /\ i - Len(first) \in DOMAIN second
                                  /\ all[i] = second[i - Len(first)]
  BY PutBackJoins
<1>2. second = <<>> => all = first
  BY RunsAreSequences, ConcatEmptySeq
<1> HIDE DEF all
<1>3. /\ Len(first) \in Nat /\ DOMAIN first = 1 .. Len(first)
      /\ Len(second) \in Nat /\ DOMAIN second = 1 .. Len(second)
      /\ DOMAIN all = 1 .. Len(all)
      /\ second # <<>> => Len(second) \in DOMAIN second
  BY <1>1, RunsAreSequences
<1>4. Grows(w, all)
  <2> SUFFICES ASSUME NEW i \in DOMAIN all, NEW j \in DOMAIN all, i <= j, w \in all[i].md
               PROVE  w \in all[j].md
    BY DEF Grows
  <2>1. CASE i \in DOMAIN first /\ j \in DOMAIN first
    BY <1>1, <2>1 DEF Grows
  <2>2. CASE i \in DOMAIN first /\ j \notin DOMAIN first
    <3>1. Held(w, first)
      BY <1>1, <2>2 DEF Held
    <3> QED  BY <1>1, <2>2, <3>1 DEF Carried
  <2>3. CASE i \notin DOMAIN first
    <3>1. j \notin DOMAIN first
      BY <1>3, <2>3
    <3>2. i - Len(first) <= j - Len(first)
      BY <1>3
    <3> QED  BY <1>1, <2>3, <3>1, <3>2 DEF Grows
  <2> QED  BY <2>1, <2>2, <2>3
<1>5. Held(w, all) => Held(w, first) \/ Held(w, second)
  BY <1>1 DEF Held
<1>6. Carried(w, first) /\ Carried(w, second) => Carried(w, all)
  BY <1>1 DEF Carried
<1>7. second # <<>> => Final(all) = Final(second)
  BY <1>1, <1>3 DEF Final
<1> QED  BY <1>1, <1>2, <1>4, <1>5, <1>6, <1>7 DEF all

(* Nor does going on to the next.                                          *)
LEMMA TailWord ==
    ASSUME NEW runs \in Runs, runs # <<>>, NEW w
    PROVE  /\ Tail(runs) \in Runs
           /\ Grows(w, runs) => Grows(w, Tail(runs))
           /\ Held(w, Tail(runs)) => Held(w, runs)
           /\ Carried(w, runs) => Carried(w, Tail(runs))
           /\ Tail(runs) # <<>> => Final(Tail(runs)) = Final(runs)
           /\ Tail(runs) = <<>> => Final(runs) = Head(runs).md
<1> DEFINE t == Tail(runs)
<1>1. /\ t \in Runs /\ Len(t) = Len(runs) - 1 /\ \A i \in DOMAIN t : t[i] = runs[i + 1]
  BY TailRuns
<1> HIDE DEF t
<1>2. /\ Len(runs) \in Nat /\ DOMAIN runs = 1 .. Len(runs) /\ Len(t) \in Nat /\ DOMAIN t = 1 .. Len(t)
      /\ t = <<>> <=> Len(t) = 0
      /\ t # <<>> => Len(t) \in DOMAIN t
      /\ Head(runs) = runs[1]
  BY <1>1, RunsAreSequences
<1>3. \A i \in DOMAIN t : i + 1 \in DOMAIN runs /\ t[i] = runs[i + 1]
  BY <1>1, <1>2
<1>4. ASSUME Grows(w, runs)
      PROVE  Grows(w, t)
  <2> SUFFICES ASSUME NEW i \in DOMAIN t, NEW j \in DOMAIN t, i <= j, w \in t[i].md
               PROVE  w \in t[j].md
    BY DEF Grows
  <2>1. i + 1 <= j + 1
    BY <1>2
  <2> QED  BY <1>3, <1>4, <2>1 DEF Grows
<1>5. t # <<>> => Final(t) = Final(runs)
  <2> SUFFICES ASSUME t # <<>> PROVE Final(t) = Final(runs)
    OBVIOUS
  <2>1. Len(t) + 1 = Len(runs) /\ Len(t) \in DOMAIN t
    BY <1>1, <1>2
  <2> QED  BY <1>3, <2>1 DEF Final
<1>6. t = <<>> => Final(runs) = Head(runs).md
  <2> SUFFICES ASSUME t = <<>> PROVE Final(runs) = Head(runs).md
    OBVIOUS
  <2>1. Len(runs) = 1
    BY <1>1, <1>2
  <2> QED  BY <1>2, <2>1 DEF Final
<1> QED  BY <1>1, <1>3, <1>4, <1>5, <1>6 DEF Held, Carried, t

-----------------------------------------------------------------------------
(* The types, in full: also of the room's and the flush's own records, and *)
(* of what a query has brought where the code is about to use it.          *)

Rows == [version : Nat, body : SUBSET Words, deleted : BOOLEAN]

Rooms ==
    [runs : Runs, open : Users \union {None}, baseMd : (SUBSET Words) \union {Unread},
     armed : BOOLEAN, again : {"no", "yes", "last"}]

Answers == {[kind |-> "none"]} \union Rows \union [version : Nat]

Calls ==
    [pc : {"idle", "read", "based", "check", "write", "written", "reread", "rebase", "after"},
     last : BOOLEAN, rerun : Nat, runs : Runs, prev : SUBSET Words, at : Nat,
     attempt : Nat, wrote : BOOLEAN, got : Answers]

Ingests ==
    [pc : {"idle", "load", "base", "merge", "note"}, base : Nat, version : Nat,
     body : SUBSET Words, from : SUBSET Words]

\* The flush is in a cycle that has contributions to write.
Writing == flush.pc \in {"check", "write", "written", "reread", "rebase"}

RowTypes ==
    /\ object \in Rows
    /\ DOMAIN images \subseteq Nat
    /\ \A v \in DOMAIN images : images[v] \in SUBSET Words
    /\ news \in Nat

FlushTypes ==
    /\ flush \in Calls
    /\ Writing => flush.runs # <<>>
    /\ flush.pc = "written" => flush.got \in [version : Nat]
    /\ flush.pc \in {"based", "rebase"} => flush.got \in Rows

PeopleTypes ==
    /\ setting \in Setting
    /\ rights \in SUBSET Users
    /\ evicted \in SUBSET Users
    /\ author \in [Words -> People]
    /\ striker \in [Words -> People]

Types ==
    /\ RowTypes /\ FlushTypes /\ PeopleTypes
    /\ room \in Rooms
    /\ watcher \in Ingests
    /\ doc \in SUBSET Words
    /\ base \in Nat
    /\ phase \in {"open", "closing", "flushing", "gone"}

(* The layers of types give the type invariant.                            *)
LEMMA TypesGiveTypeOK == Types => TypeOK
<1> SUFFICES ASSUME Types PROVE TypeOK
  OBVIOUS
<1>1. object \in [version : Nat, body : SUBSET Words, deleted : BOOLEAN]
  BY DEF Types, RowTypes, Rows
<1>2. room.runs \in Runs /\ room.open \in Users \union {None}
         /\ (room.baseMd = Unread \/ room.baseMd \subseteq Words)
  BY DEF Types, Rooms
<1>3. flush.runs \in Runs /\ flush.prev \subseteq Words /\ flush.at \in Nat
  BY DEF Types, FlushTypes, Calls
<1>4. /\ rights \subseteq Users /\ evicted \subseteq Users
      /\ author \in [Words -> People] /\ striker \in [Words -> People]
      /\ doc \subseteq Words /\ base \in Nat /\ news \in Nat
      /\ phase \in {"open", "closing", "flushing", "gone"}
  BY DEF Types, RowTypes, PeopleTypes
<1> QED  BY <1>1, <1>2, <1>3, <1>4 DEF TypeOK

(* The types hold when the document is opened.                             *)
LEMMA InitTypes == Init => Types
<1> SUFFICES ASSUME Init PROVE Types
  OBVIOUS
<1> USE RoomAssumption DEF Init
<1>1. setting \in Setting
  OBVIOUS
<1>2. <<>> \in Runs
  BY DEF Runs
<1>3. setting.unsaved \in SUBSET Words /\ setting.people \in SUBSET Users
  BY <1>1 DEF Setting
<1>4. object \in Rows /\ room \in Rooms
  <2>1. object \in Rows
    BY DEF Rows
  <2>2. (IF setting.known THEN Initial ELSE Unread) \in (SUBSET Words) \union {Unread}
    BY ONLY RoomAssumption
  <2>3. room \in Rooms
    BY <1>2, <2>2 DEF Rooms
  <2> QED  BY <2>1, <2>3
<1>5. flush \in Calls /\ ~Writing /\ flush.pc = "idle"
  BY <1>2 DEF Calls, Idle, Writing, Answers
<1>6. watcher \in Ingests
  BY DEF Ingests, Resting
<1>7. DOMAIN images = {}
  OBVIOUS
<1>8. author \in [Words -> People] /\ striker \in [Words -> People]
  BY DEF People
<1> QED  BY <1>1, <1>3, <1>4, <1>5, <1>6, <1>7, <1>8 DEF Types, RowTypes, FlushTypes, PeopleTypes

(* A bound that is counted down leaves the rest of the setting alone.      *)
LEMMA SettingCounts ==
    ASSUME PeopleTypes, NEW bound \in {"errors", "strikes", "outside", "revoked"},
           setting[bound] > 0, setting' = [setting EXCEPT ![bound] = @ - 1]
    PROVE  /\ setting' \in Setting
           /\ setting'.crossing = setting.crossing
           /\ setting'.people = setting.people
           /\ setting'.unsaved = setting.unsaved
           /\ setting'.known = setting.known
           /\ setting'.overlaps = setting.overlaps
<1>1. setting \in Setting /\ setting[bound] - 1 \in Nat
  BY DEF PeopleTypes, Setting
<1> QED  BY <1>1 DEF Setting

(* What stays of the setting, whatever is counted down. *)
Scene(s) == <<s.crossing, s.people, s.unsaved, s.known, s.overlaps>>

(* A call that fails uses up an error of the setting, and nothing else.    *)
LEMMA FailingCounts ==
    ASSUME PeopleTypes, NEW call, Failing(call)
    PROVE  setting' \in Setting /\ Scene(setting') = Scene(setting)
<1>1. setting.errors > 0 /\ setting' = [setting EXCEPT !["errors"] = @ - 1]
  BY DEF Failing
<1> QED  BY <1>1, SettingCounts DEF Scene

(* A commit makes one more version, and an image of the one it replaces.   *)
LEMMA CommitTypes ==
    ASSUME RowTypes, NEW text \in SUBSET Words, Commit(text)
    PROVE  /\ object' \in Rows
           /\ object'.body = text /\ object'.version = object.version + 1
           /\ object'.deleted = object.deleted
           /\ DOMAIN images' = DOMAIN images \union {object.version}
           /\ DOMAIN images' \subseteq Nat
           /\ images'[object.version] = object.body
           /\ \A v \in DOMAIN images \ {object.version} : images'[v] = images[v]
           /\ \A v \in DOMAIN images' : images'[v] \in SUBSET Words
<1>1. object \in Rows /\ object.version \in Nat /\ object.body \in SUBSET Words
  BY DEF RowTypes, Rows
<1>2. object' \in Rows /\ object'.body = text /\ object'.version = object.version + 1
         /\ object'.deleted = object.deleted
  <2>1. object' = [version |-> object.version + 1, body |-> text, deleted |-> object.deleted]
    BY <1>1 DEF Commit, Rows
  <2> QED  BY <1>1, <2>1 DEF Rows, RowTypes
<1> QED  BY <1>1, <1>2 DEF Commit, RowTypes

-----------------------------------------------------------------------------
(* The parts the flush's steps are made of.                                *)

(* What taking the contributions up leaves of the room.                    *)
LEMMA EmptiedRoom ==
    ASSUME NEW r \in Rooms
    PROVE  /\ Emptied(r) \in Rooms
           /\ Emptied(r).runs = <<>> /\ Emptied(r).open = None
           /\ Emptied(r).baseMd = r.baseMd /\ Emptied(r).again = r.again
<1>1. <<>> \in Runs
  BY DEF Runs
<1> DEFINE s == [r EXCEPT !.runs = <<>>]
<1>2. s \in Rooms /\ s.runs = <<>> /\ s.baseMd = r.baseMd /\ s.again = r.again
  BY <1>1 DEF Rooms
<1>3. Emptied(r) = [s EXCEPT !.open = None]
  BY DEF Emptied
<1> HIDE DEF s
<1> QED  BY <1>2, <1>3 DEF Rooms

(* What a cycle begins with.                                               *)
LEMMA TakeUpDoes ==
    ASSUME NEW call \in Calls, NEW r \in Rooms, doc \in SUBSET Words,
           NEW prev \in SUBSET Words, NEW at \in Nat, TakeUp(call, r, prev, at)
    PROVE  /\ room' \in Rooms /\ flush' \in Calls /\ FlushTypes'
           /\ room'.runs = <<>> /\ room'.open = None /\ room'.baseMd = prev
           /\ room'.again = r.again
           /\ flush'.runs = Changing(Taken(r.runs, r.open, prev, doc), prev)
           /\ flush'.prev = prev /\ flush'.at = at
           /\ flush'.last = call.last
           /\ \/ flush'.runs = <<>> /\ flush'.pc = "after" /\ ending' = "clean"
              \/ flush'.runs # <<>> /\ flush'.pc = "check" /\ ending' = "running"
<1> DEFINE runs == Changing(Taken(r.runs, r.open, prev, doc), prev)
<1>1. r.runs \in Runs /\ r.open \in Users \union {None}
  BY DEF Rooms
<1>2. runs \in Runs
  BY <1>1, TakenAdds, ChangingDrops
<1>3. /\ room' = [Emptied(r) EXCEPT !.baseMd = prev]
      /\ flush' = [call EXCEPT !.pc = IF runs = <<>> THEN "after" ELSE "check",
                               !.runs = runs, !.prev = prev, !.at = at]
      /\ ending' = IF runs = <<>> THEN "clean" ELSE "running"
  BY DEF TakeUp
<1> HIDE DEF runs
<1>4. room' \in Rooms /\ room'.runs = <<>> /\ room'.open = None /\ room'.baseMd = prev
         /\ room'.again = r.again
  <2>1. /\ Emptied(r) \in Rooms /\ Emptied(r).runs = <<>> /\ Emptied(r).open = None
        /\ Emptied(r).again = r.again
    BY EmptiedRoom
  <2> QED  BY <1>3, <2>1 DEF Rooms
<1>5. flush' \in Calls /\ flush'.runs = runs /\ flush'.prev = prev /\ flush'.at = at
         /\ flush'.last = call.last
         /\ flush'.pc = (IF runs = <<>> THEN "after" ELSE "check")
  BY <1>2, <1>3 DEF Calls
<1>6. FlushTypes'
  BY <1>5 DEF FlushTypes, Writing
<1> QED  BY <1>3, <1>4, <1>5, <1>6 DEF runs

(* A cycle first reads the base where none was read yet.                   *)
LEMMA StartCycleDoes ==
    ASSUME NEW call \in Calls, NEW r \in Rooms, doc \in SUBSET Words, base \in Nat,
           StartCycle(call, r)
    PROVE  /\ room' \in Rooms /\ flush' \in Calls /\ FlushTypes'
           /\ room'.again = r.again /\ flush'.last = call.last
           /\ \/ /\ flush'.pc = "read" /\ room' = r /\ ending' = "running"
              \/ /\ r.baseMd # Unread /\ r.baseMd \in SUBSET Words
                 /\ TakeUp(call, r, r.baseMd, base)
<1>1. CASE r.baseMd = Unread
  <2>1. flush' = [call EXCEPT !.pc = "read"] /\ room' = r /\ ending' = "running"
    BY <1>1 DEF StartCycle
  <2>2. flush' \in Calls /\ flush'.pc = "read" /\ flush'.last = call.last
    BY <2>1 DEF Calls
  <2> QED  BY <2>1, <2>2 DEF FlushTypes, Writing
<1>2. CASE r.baseMd # Unread
  <2>1. r.baseMd \in SUBSET Words /\ TakeUp(call, r, r.baseMd, base)
    BY <1>2 DEF StartCycle, Rooms
  <2> QED  BY <1>2, <2>1, TakeUpDoes
<1> QED  BY <1>1, <1>2

(* A call of flush that has ended is a call.                               *)
LEMMA IdleIsCall ==
    ASSUME NEW last \in BOOLEAN
    PROVE  /\ Idle \in Calls /\ Idle.pc = "idle"
           /\ [Idle EXCEPT !.last = last] \in Calls
           /\ [Idle EXCEPT !.last = last].last = last
           /\ \A n \in Nat : /\ [Idle EXCEPT !.last = last, !.rerun = n] \in Calls
                             /\ [Idle EXCEPT !.last = last, !.rerun = n].last = last
<1>1. <<>> \in Runs
  BY DEF Runs
<1>2. Idle \in Calls /\ Idle.pc = "idle"
  BY <1>1 DEF Idle, Calls, Answers
<1> HIDE DEF Idle
<1> QED  BY <1>2 DEF Calls

(* A cycle that gives up leaves the room to the caller.                    *)
LEMMA GiveUpDoes ==
    ASSUME flush \in Calls, NEW how, NEW r \in Rooms, GiveUp(how, r)
    PROVE  /\ room' = r /\ ending' = how /\ base' = base
           /\ flush' \in Calls /\ flush'.pc = "after" /\ FlushTypes' /\ ~Writing'
BY DEF GiveUp, Calls, FlushTypes, Writing

(* A cycle that ends moves the base on and leaves the contributions alone. *)
LEMMA EndCycleDoes ==
    ASSUME base \in Nat, NEW how, NEW f \in Calls, NEW r \in Rooms, EndCycle(how, f, r)
    PROVE  /\ room' \in Rooms
           /\ room'.runs = r.runs /\ room'.open = r.open /\ room'.baseMd = f.prev
           /\ room'.again = r.again
           /\ base' \in Nat /\ ending' = how
           /\ flush' \in Calls /\ flush'.pc = "after" /\ FlushTypes' /\ ~Writing'
<1>1. f.prev \in SUBSET Words /\ f.at \in Nat
  BY DEF Calls
<1>2. base' \in Nat /\ ending' = how
  BY <1>1 DEF EndCycle
<1>3. flush' \in Calls /\ flush'.pc = "after"
  BY DEF EndCycle, Calls
<1>4. room' \in Rooms /\ room'.runs = r.runs /\ room'.open = r.open /\ room'.baseMd = f.prev
         /\ room'.again = r.again
  <2>1. room' = [r EXCEPT !.baseMd = f.prev, !.armed = @ \/ (r.runs # <<>> /\ ~f.last)]
    BY DEF EndCycle
  <2>2. (r.armed \/ (r.runs # <<>> /\ ~f.last)) \in BOOLEAN
    OBVIOUS
  <2> QED  BY <1>1, <2>1, <2>2 DEF Rooms
<1> QED  BY <1>2, <1>3, <1>4 DEF FlushTypes, Writing

(* A request starts a cycle, or asks the one under way for another.        *)
LEMMA RequestDoes ==
    ASSUME flush \in Calls, room \in Rooms, doc \in SUBSET Words, base \in Nat, FlushTypes,
           NEW last \in BOOLEAN, Request(last)
    PROVE  /\ setting.crossing \/ watcher.pc = "idle"
           /\ room' \in Rooms /\ FlushTypes'
           /\ \/ /\ flush.pc = "idle"
                 /\ \E call \in Calls, r \in Rooms :
                       /\ StartCycle(call, r) /\ call.last = last
                       /\ r.runs = room.runs /\ r.open = room.open /\ r.baseMd = room.baseMd
                       /\ r.again = room.again
              \/ /\ flush.pc # "idle"
                 /\ flush' = flush /\ ending' = ending
                 /\ room'.runs = room.runs /\ room'.open = room.open
                 /\ room'.baseMd = room.baseMd
                 /\ room'.again = IF last THEN "last"
                                  ELSE IF room.again = "no" THEN "yes" ELSE room.again
<1>1. CASE flush.pc = "idle"
  <2> DEFINE r == [room EXCEPT !.armed = FALSE]
             call == [Idle EXCEPT !.last = last]
  <2>1. r \in Rooms /\ r.runs = room.runs /\ r.open = room.open /\ r.baseMd = room.baseMd
           /\ r.again = room.again
    BY DEF Rooms
  <2>2. call \in Calls /\ call.last = last
    BY IdleIsCall
  <2>3. StartCycle(call, r)
    BY <1>1 DEF Request
  <2> HIDE DEF r, call
  <2>4. room' \in Rooms /\ FlushTypes'
    BY <2>1, <2>2, <2>3, StartCycleDoes
  <2> QED  BY <1>1, <2>1, <2>2, <2>3, <2>4 DEF Request
<1>2. CASE flush.pc # "idle"
  <2> DEFINE again == IF last THEN "last" ELSE IF room.again = "no" THEN "yes" ELSE room.again
  <2>1. room' = [room EXCEPT !.again = again, !.armed = FALSE] /\ flush' = flush /\ ending' = ending
    BY <1>2 DEF Request
  <2>2. again \in {"no", "yes", "last"}
    BY DEF Rooms
  <2> HIDE DEF again
  <2>3. /\ room' \in Rooms /\ room'.runs = room.runs /\ room'.open = room.open
        /\ room'.baseMd = room.baseMd /\ room'.again = again
    BY <2>1, <2>2 DEF Rooms
  <2> QED  BY <1>2, <2>1, <2>3 DEF again, Request, FlushTypes, Writing
<1> QED  BY <1>1, <1>2

(* What a failed write puts back.                                          *)
LEMMA PutBackRoom ==
    ASSUME room \in Rooms, NEW f \in Calls
    PROVE  /\ PutBack(f) \in Rooms
           /\ PutBack(f).runs = f.runs \o room.runs
           /\ PutBack(f).open = room.open
           /\ PutBack(f).again = room.again
<1>1. f.runs \o room.runs \in Runs
  BY PutBackJoins DEF Rooms, Calls
<1> QED  BY <1>1 DEF PutBack, Rooms

(* An edit opens its author's contribution, and closes another's.          *)
LEMMA ContributionDoes ==
    ASSUME room \in Rooms, doc \in SUBSET Words, NEW u \in Users, Contribution(u)
    PROVE  /\ room' \in Rooms /\ room'.open = u
           /\ room'.runs = IF room.open = u THEN room.runs
                           ELSE Closed(room.runs, room.open, doc)
           /\ room'.baseMd = room.baseMd /\ room'.again = room.again
<1> DEFINE runs == IF room.open = u THEN room.runs ELSE Closed(room.runs, room.open, doc)
<1>1. runs \in Runs
  BY ClosedAdds DEF Rooms
<1>2. room' = [room EXCEPT !.runs = runs, !.open = u, !.armed = TRUE]
  BY DEF Contribution
<1> HIDE DEF runs
<1>3. /\ room' \in Rooms /\ room'.open = u /\ room'.runs = runs
      /\ room'.baseMd = room.baseMd /\ room'.again = room.again
  BY <1>1, <1>2 DEF Rooms
<1> QED  BY <1>3 DEF runs

(* A refusal empties the room and puts the text back to the last one written. *)
LEMMA RefuseDoes ==
    ASSUME Types, flush.runs # <<>>, Refuse
    PROVE  /\ room' \in Rooms /\ room'.runs = <<>> /\ room'.open = None
           /\ room'.baseMd = flush.prev /\ room'.again = room.again
           /\ base' \in Nat /\ ending' = "refused"
           /\ flush'.pc = "after" /\ FlushTypes' /\ ~Writing'
           /\ doc' = flush.prev /\ doc' \in SUBSET Words
           /\ evicted' \in SUBSET Users /\ striker' \in [Words -> People]
<1>1. flush \in Calls /\ room \in Rooms /\ base \in Nat /\ EndCycle("refused", flush, Emptied(room))
  BY DEF Types, FlushTypes, Refuse
<1>2. Emptied(room) \in Rooms /\ Emptied(room).runs = <<>> /\ Emptied(room).open = None
         /\ Emptied(room).again = room.again
  BY <1>1, EmptiedRoom
<1>3. /\ room' \in Rooms
      /\ room'.runs = <<>> /\ room'.open = None /\ room'.baseMd = flush.prev
      /\ room'.again = room.again
      /\ base' \in Nat /\ ending' = "refused"
      /\ flush' \in Calls /\ flush'.pc = "after" /\ FlushTypes' /\ ~Writing'
  BY <1>1, <1>2, EndCycleDoes
<1>4. doc' = flush.prev /\ doc' \in SUBSET Words
  BY <1>1 DEF Refuse, Calls
<1>5. Head(flush.runs).actor \in Users
  BY <1>1, RunsAreSequences DEF Calls, Run
<1>6. evicted' \in SUBSET Users
  BY <1>5 DEF Refuse, Types, PeopleTypes
<1>7. striker' \in [Words -> People]
  BY DEF Refuse, Types, PeopleTypes, People
<1> QED  BY <1>3, <1>4, <1>6, <1>7

-----------------------------------------------------------------------------
(* Every step keeps the types.                                             *)

(* A word typed keeps the types.                                           *)
LEMMA TypeTypes ==
    ASSUME Types, NEW u \in Users, NEW w \in Words, Type(u, w)
    PROVE  Types'
<1>1. room' \in Rooms
  BY ContributionDoes DEF Types, Type
<1>2. doc' \in SUBSET Words
  BY DEF Types, Type
<1>3. PeopleTypes'
  BY DEF Types, PeopleTypes, People, Type
<1> QED  BY <1>1, <1>2, <1>3 DEF Types, Type, RowTypes, FlushTypes, Writing, stored

(* A word struck keeps the types.                                          *)
LEMMA StrikeTypes ==
    ASSUME Types, NEW u \in Users, NEW w \in Words, Strike(u, w)
    PROVE  Types'
<1>1. room' \in Rooms
  BY ContributionDoes DEF Types, Strike
<1>2. doc' \in SUBSET Words
  BY DEF Types, Strike
<1>3. setting' \in Setting
  <2>1. setting["strikes"] > 0 /\ setting' = [setting EXCEPT !["strikes"] = @ - 1]
    BY DEF Strike
  <2> QED  BY <2>1, SettingCounts DEF Types
<1>4. striker' \in [Words -> People]
  <2>1. \A x \in Words : striker[x] \in People /\ u \in People
    BY DEF Types, PeopleTypes, People
  <2> QED  BY <2>1 DEF Strike, Types, PeopleTypes
<1>5. PeopleTypes'
  BY <1>3, <1>4 DEF Types, PeopleTypes, Strike
<1> QED  BY <1>1, <1>2, <1>5 DEF Types, Strike, RowTypes, FlushTypes, Writing, stored

(* Any write from outside keeps the types.                                 *)
LEMMA FromOutsideTypes ==
    ASSUME Types, FromOutside, RowTypes', author' \in [Words -> People],
           striker' \in [Words -> People]
    PROVE  Types' /\ Scene(setting') = Scene(setting)
<1>1. setting' \in Setting /\ Scene(setting') = Scene(setting)
  <2>1. setting["outside"] > 0 /\ setting' = [setting EXCEPT !["outside"] = @ - 1]
    BY DEF FromOutside
  <2> QED  BY <2>1, SettingCounts DEF Types, Scene
<1> QED  BY <1>1 DEF Types, FromOutside, PeopleTypes, FlushTypes, Writing

(* So does each of them.                                                   *)
LEMMA OutsideTypes ==
    ASSUME Types,
           \/ \E w \in Words : OutsideAdds(w) \/ OutsideStrikes(w)
           \/ OutsideEditsProps \/ Trash
    PROVE  Types' /\ Scene(setting') = Scene(setting)
<1>0. RowTypes /\ Outside \in People /\ author \in [Words -> People] /\ striker \in [Words -> People]
         /\ object.body \in SUBSET Words
  BY DEF Types, PeopleTypes, People, RowTypes, Rows
<1>1. ASSUME NEW w \in Words, OutsideAdds(w)
      PROVE  Types' /\ Scene(setting') = Scene(setting)
  <2>1. FromOutside /\ Commit(object.body \union {w}) /\ news' = object'.version
           /\ author' = [author EXCEPT ![w] = Outside] /\ striker' = striker
    BY <1>1 DEF OutsideAdds
  <2>2. object.body \union {w} \in SUBSET Words
    BY <1>0
  <2>3. RowTypes'
    BY <1>0, <2>1, <2>2, CommitTypes DEF RowTypes, Rows
  <2> QED  BY <1>0, <2>1, <2>3, FromOutsideTypes
<1>2. ASSUME NEW w \in Words, OutsideStrikes(w)
      PROVE  Types' /\ Scene(setting') = Scene(setting)
  <2>1. FromOutside /\ Commit(object.body \ {w}) /\ news' = object'.version
           /\ striker' = [striker EXCEPT ![w] = Outside] /\ author' = author
    BY <1>2 DEF OutsideStrikes
  <2>2. object.body \ {w} \in SUBSET Words
    BY <1>0
  <2>3. RowTypes'
    BY <1>0, <2>1, <2>2, CommitTypes DEF RowTypes, Rows
  <2> QED  BY <1>0, <2>1, <2>3, FromOutsideTypes
<1>3. ASSUME OutsideEditsProps \/ Trash
      PROVE  Types' /\ Scene(setting') = Scene(setting)
  <2>1. /\ FromOutside /\ images' = images /\ author' = author /\ striker' = striker
        /\ \/ object' = [object EXCEPT !.version = @ + 1] /\ news' = object'.version
           \/ object' = [object EXCEPT !.version = @ + 1, !.deleted = TRUE] /\ news' = news
    BY <1>3 DEF OutsideEditsProps, Trash
  <2>2. object \in Rows /\ object.version + 1 \in Nat
    BY <1>0 DEF RowTypes, Rows
  <2>3. ASSUME object' = [object EXCEPT !.version = @ + 1] /\ news' = object'.version
        PROVE  RowTypes'
    <3>1. object' \in Rows /\ object'.version \in Nat
      BY <2>2, <2>3 DEF Rows
    <3> QED  BY <1>0, <2>1, <2>3, <3>1 DEF RowTypes
  <2>4. ASSUME object' = [object EXCEPT !.version = @ + 1, !.deleted = TRUE] /\ news' = news
        PROVE  RowTypes'
    <3>1. object' = [version |-> object.version + 1, body |-> object.body, deleted |-> TRUE]
      BY <2>2, <2>4 DEF Rows
    <3>2. object' \in Rows
      BY <2>2, <3>1 DEF Rows
    <3> QED  BY <1>0, <2>1, <2>4, <3>2 DEF RowTypes
  <2>5. RowTypes'
    BY <2>1, <2>3, <2>4
  <2> QED  BY <1>0, <2>1, <2>5, FromOutsideTypes
<1> QED  BY <1>1, <1>2, <1>3

(* Revoking a right keeps the types.                                       *)
LEMMA RevokeTypes ==
    ASSUME Types, NEW u \in Users, Revoke(u)
    PROVE  Types' /\ Scene(setting') = Scene(setting)
<1>1. setting' \in Setting /\ Scene(setting') = Scene(setting)
  <2>1. setting["revoked"] > 0 /\ setting' = [setting EXCEPT !["revoked"] = @ - 1]
    BY DEF Revoke
  <2> QED  BY <2>1, SettingCounts DEF Types, Scene
<1>2. PeopleTypes'
  BY <1>1 DEF Types, PeopleTypes, Revoke, history
<1> QED  BY <1>1, <1>2 DEF Types, Revoke, RowTypes, FlushTypes, Writing, stored

(* A request of a flush keeps the types.                                   *)
LEMMA RequestTypes ==
    ASSUME Types, NEW last \in BOOLEAN, Request(last),
           UNCHANGED <<stored, rights, doc, base, watcher, evicted, author, striker, setting>>,
           phase' \in {phase, "flushing"}
    PROVE  Types'
<1>1. room' \in Rooms /\ FlushTypes'
  BY RequestDoes DEF Types, FlushTypes
<1> QED  BY <1>1 DEF Types, RowTypes, PeopleTypes, stored

(* So does the timer that makes one.                                       *)
LEMMA FireTypes ==
    ASSUME Types, Fire
    PROVE  Types'
<1>1. Request(FALSE) /\ phase' \in {phase, "flushing"}
  BY DEF Fire, UnlessFlushing
<1> QED  BY <1>1, RequestTypes DEF Fire, UnlessFlushing, Steady, stored

(* So does the teardown's last one.                                        *)
LEMMA LastFlushTypes ==
    ASSUME Types, LastFlush
    PROVE  Types'
<1>1. Request(TRUE) /\ phase' \in {phase, "flushing"}
  BY DEF LastFlush
<1> QED  BY <1>1, RequestTypes DEF LastFlush, stored, history

(* What a step of the flush has to say for itself to keep the types.       *)
LEMMA FlushStepTypes ==
    ASSUME Types, UnlessFlushing, RowTypes', FlushTypes', room' \in Rooms,
           setting' \in Setting, evicted' \in SUBSET Users, striker' \in [Words -> People],
           doc' \in SUBSET Words, base' \in Nat
    PROVE  Types'
BY DEF Types, UnlessFlushing, PeopleTypes

(* The first read of the base keeps the types.                             *)
LEMMA ReadBaseTypes ==
    ASSUME Types, ReadBase
    PROVE  Types' /\ Scene(setting') = Scene(setting)
<1>0. RowTypes' /\ doc' \in SUBSET Words /\ evicted' \in SUBSET Users
         /\ striker' \in [Words -> People] /\ UnlessFlushing /\ flush \in Calls /\ room \in Rooms
  BY DEF Types, RowTypes, PeopleTypes, FlushTypes, ReadBase, Steady, stored
<1>1. setting' \in Setting /\ Scene(setting') = Scene(setting)
  BY FailingCounts DEF ReadBase, Types, PeopleTypes
<1>2. CASE \E how \in {"unread", "conflict"} : GiveUp(how, room)
  BY <1>0, <1>1, <1>2, GiveUpDoes, FlushStepTypes DEF Types
<1>3. CASE /\ flush' = [flush EXCEPT !.pc = "based", !.got = object]
           /\ UNCHANGED <<base, room>>
  <2>1. object \in Rows /\ object \in Answers
    BY DEF Types, RowTypes, Answers
  <2>2. flush' \in Calls /\ flush'.pc = "based" /\ flush'.got = object
    BY <1>0, <1>3, <2>1 DEF Calls
  <2>3. FlushTypes'
    BY <2>1, <2>2 DEF FlushTypes, Writing
  <2> QED  BY <1>0, <1>1, <1>3, <2>3, FlushStepTypes DEF Types
<1> QED  BY <1>2, <1>3 DEF ReadBase

(* So does its answer.                                                     *)
LEMMA BasedTypes ==
    ASSUME Types, Based
    PROVE  Types'
<1>1. flush.got \in Rows
  BY DEF Types, FlushTypes, Based
<1>2. flush.got.body \in SUBSET Words /\ flush.got.version \in Nat
  BY <1>1 DEF Rows
<1>3. TakeUp(flush, room, flush.got.body, flush.got.version)
  BY DEF Based
<1>4. room' \in Rooms /\ FlushTypes'
  BY <1>2, <1>3, TakeUpDoes DEF Types, FlushTypes
<1>5. RowTypes' /\ doc' \in SUBSET Words /\ evicted' \in SUBSET Users /\ base' \in Nat
         /\ striker' \in [Words -> People] /\ UnlessFlushing /\ setting' \in Setting
  BY DEF Types, RowTypes, PeopleTypes, Based, Steady, stored
<1> QED  BY <1>4, <1>5, FlushStepTypes

(* So does the query of rights.                                            *)
LEMMA CheckRightsTypes ==
    ASSUME Types, CheckRights
    PROVE  Types' /\ Scene(setting') = Scene(setting)
<1>0. RowTypes' /\ UnlessFlushing /\ flush \in Calls /\ room \in Rooms /\ flush.runs # <<>>
         /\ base \in Nat
  BY DEF Types, RowTypes, FlushTypes, Writing, CheckRights, stored
<1>1. setting' \in Setting /\ Scene(setting') = Scene(setting)
  BY FailingCounts DEF CheckRights, Types, PeopleTypes
<1>2. CASE /\ flush' = [flush EXCEPT !.pc = "write", !.attempt = 0]
           /\ UNCHANGED <<doc, base, room>> /\ Steady
  <2>1. flush' \in Calls /\ flush'.pc = "write" /\ flush'.runs = flush.runs
    BY <1>0, <1>2 DEF Calls
  <2>2. FlushTypes'
    BY <1>0, <2>1 DEF FlushTypes, Writing
  <2> QED  BY <1>0, <1>1, <1>2, <2>2, FlushStepTypes DEF Types, PeopleTypes, Steady
<1>3. CASE Refuse
  BY <1>0, <1>1, <1>3, RefuseDoes, FlushStepTypes
<1>4. CASE EndCycle("refused", flush, Emptied(room)) /\ doc' = doc /\ Steady
  <2>1. Emptied(room) \in Rooms
    BY <1>0, EmptiedRoom
  <2>2. room' \in Rooms /\ base' \in Nat /\ FlushTypes'
    BY <1>0, <1>4, <2>1, EndCycleDoes
  <2> QED  BY <1>0, <1>1, <1>4, <2>2, FlushStepTypes DEF Types, PeopleTypes, Steady
<1> QED  BY <1>2, <1>3, <1>4 DEF CheckRights

(* So does a write, whatever comes of it.                                  *)
LEMMA WriteRunTypes ==
    ASSUME Types, WriteRun
    PROVE  Types' /\ Scene(setting') = Scene(setting)
<1>0. /\ RowTypes /\ UnlessFlushing /\ flush \in Calls /\ room \in Rooms /\ flush.runs # <<>>
      /\ base \in Nat /\ news' = news
  BY DEF Types, FlushTypes, Writing, WriteRun
<1>1. setting' \in Setting /\ Scene(setting') = Scene(setting)
  BY FailingCounts DEF WriteRun, Types, PeopleTypes
<1>2. CASE /\ Commit(Head(flush.runs).md)
           /\ flush' = [flush EXCEPT !.pc = "written",
                                     !.got = [version |-> object.version + 1]]
           /\ UNCHANGED <<doc, base, room>> /\ Steady
  <2>1. Head(flush.runs).md \in SUBSET Words
    BY <1>0, RunsAreSequences DEF Calls, Run
  <2>2. RowTypes'
    BY <1>0, <1>2, <2>1, CommitTypes DEF RowTypes
  <2>3. [version |-> object.version + 1] \in [version : Nat]
    BY <1>0 DEF RowTypes, Rows
  <2>4. flush' \in Calls /\ flush'.pc = "written" /\ flush'.runs = flush.runs
           /\ flush'.got \in [version : Nat]
    BY <1>0, <1>2, <2>3 DEF Calls, Answers
  <2>5. FlushTypes'
    BY <1>0, <2>4 DEF FlushTypes, Writing
  <2> QED  BY <1>0, <1>1, <1>2, <2>2, <2>5, FlushStepTypes DEF Types, PeopleTypes, Steady
<1>3. CASE /\ flush' = [flush EXCEPT !.pc = "reread"]
           /\ UNCHANGED <<object, images, doc, base, room>> /\ Steady
  <2>1. flush' \in Calls /\ flush'.pc = "reread" /\ flush'.runs = flush.runs
    BY <1>0, <1>3 DEF Calls
  <2>2. FlushTypes' /\ RowTypes'
    BY <1>0, <1>3, <2>1 DEF FlushTypes, Writing, RowTypes
  <2> QED  BY <1>0, <1>1, <1>3, <2>2, FlushStepTypes DEF Types, PeopleTypes, Steady
<1>4. CASE Refuse /\ UNCHANGED <<object, images>>
  <2>1. RowTypes'
    BY <1>0, <1>4 DEF RowTypes
  <2> QED  BY <1>0, <1>1, <1>4, <2>1, RefuseDoes, FlushStepTypes
<1>5. CASE /\ EndCycle("transient", flush, PutBack(flush)) /\ doc' = doc /\ Steady
           /\ UNCHANGED <<object, images>>
  <2>1. RowTypes' /\ PutBack(flush) \in Rooms
    BY <1>0, <1>5, PutBackRoom DEF RowTypes
  <2>2. room' \in Rooms /\ base' \in Nat /\ FlushTypes'
    BY <1>0, <1>5, <2>1, EndCycleDoes
  <2> QED  BY <1>0, <1>1, <1>5, <2>1, <2>2, FlushStepTypes DEF Types, PeopleTypes, Steady
<1> QED  BY <1>2, <1>3, <1>4, <1>5 DEF WriteRun

(* What is left once the first contribution is written.                    *)
LEMMA WrittenCall ==
    ASSUME flush \in Calls, flush.runs # <<>>, flush.got \in [version : Nat]
    PROVE  LET md == Head(flush.runs).md
               f == [flush EXCEPT !.runs = Changing(Tail(@), md), !.prev = md,
                                  !.at = flush.got.version, !.wrote = TRUE]
           IN  /\ f \in Calls /\ md \in SUBSET Words
               /\ f.runs = Changing(Tail(flush.runs), md) /\ f.prev = md
<1> DEFINE md == Head(flush.runs).md
           runs == Changing(Tail(flush.runs), md)
<1>1. md \in SUBSET Words /\ runs \in Runs
  BY RunsAreSequences, TailRuns, ChangingDrops DEF Calls, Run
<1>2. flush.got.version \in Nat
  OBVIOUS
<1> HIDE DEF md, runs
<1>3. LET f == [flush EXCEPT !.runs = runs, !.prev = md, !.at = flush.got.version, !.wrote = TRUE]
      IN  f \in Calls /\ f.runs = runs /\ f.prev = md
  BY <1>1, <1>2 DEF Calls
<1> QED  BY <1>1, <1>3 DEF md, runs

(* So does going on after a write.                                         *)
LEMMA WrittenTypes ==
    ASSUME Types, Written
    PROVE  Types'
<1> DEFINE md == Head(flush.runs).md
           f == [flush EXCEPT !.runs = Changing(Tail(@), md), !.prev = md,
                              !.at = flush.got.version, !.wrote = TRUE]
<1>0. RowTypes' /\ doc' \in SUBSET Words /\ evicted' \in SUBSET Users
         /\ striker' \in [Words -> People] /\ UnlessFlushing /\ setting' \in Setting
         /\ room \in Rooms /\ base \in Nat
  BY DEF Types, RowTypes, PeopleTypes, Written, Steady, stored
<1>1. f \in Calls
  BY WrittenCall DEF Types, FlushTypes, Writing, Written
<1>2. \/ f.runs # <<>> /\ flush' = [f EXCEPT !.pc = "check"] /\ UNCHANGED <<base, room>>
      \/ f.runs = <<>> /\ EndCycle("clean", f, room)
  BY DEF Written
<1> HIDE DEF f
<1>3. CASE f.runs # <<>> /\ flush' = [f EXCEPT !.pc = "check"] /\ UNCHANGED <<base, room>>
  <2>1. flush' \in Calls /\ flush'.pc = "check" /\ flush'.runs = f.runs
    BY <1>1, <1>3 DEF Calls
  <2>2. FlushTypes'
    BY <1>3, <2>1 DEF FlushTypes, Writing
  <2> QED  BY <1>0, <1>3, <2>2, FlushStepTypes
<1>4. CASE EndCycle("clean", f, room)
  BY <1>0, <1>1, <1>4, EndCycleDoes, FlushStepTypes
<1> QED  BY <1>2, <1>3, <1>4

(* So does the read after a lost compare-and-swap.                         *)
LEMMA RereadTypes ==
    ASSUME Types, Reread
    PROVE  Types' /\ Scene(setting') = Scene(setting)
<1>0. RowTypes' /\ doc' \in SUBSET Words /\ evicted' \in SUBSET Users /\ flush.runs # <<>>
         /\ striker' \in [Words -> People] /\ UnlessFlushing /\ flush \in Calls /\ room \in Rooms
  BY DEF Types, RowTypes, PeopleTypes, FlushTypes, Writing, Reread, Steady, stored
<1>1. setting' \in Setting /\ Scene(setting') = Scene(setting)
  BY FailingCounts DEF Reread, Types, PeopleTypes
<1>2. CASE GiveUp("conflict", Emptied(room))
  <2>1. Emptied(room) \in Rooms
    BY <1>0, EmptiedRoom
  <2> QED  BY <1>0, <1>1, <1>2, <2>1, GiveUpDoes, FlushStepTypes DEF Types
<1>3. CASE /\ flush' = [flush EXCEPT !.pc = "rebase", !.got = object]
           /\ UNCHANGED <<base, room>>
  <2>1. object \in Rows /\ object \in Answers
    BY DEF Types, RowTypes, Answers
  <2>2. flush' \in Calls /\ flush'.pc = "rebase" /\ flush'.got = object /\ flush'.runs = flush.runs
    BY <1>0, <1>3, <2>1 DEF Calls
  <2>3. FlushTypes'
    BY <1>0, <2>1, <2>2 DEF FlushTypes, Writing
  <2> QED  BY <1>0, <1>1, <1>3, <2>3, FlushStepTypes DEF Types
<1> QED  BY <1>2, <1>3 DEF Reread

\* The call as a rebase leaves it, before it writes again or gives up.
Again == [flush EXCEPT !.at = flush.got.version, !.prev = flush.got.body,
                       !.runs = Rebased(@, flush.prev, flush.got.body),
                       !.attempt = @ + 1]

(* What a rebase makes of the call.                                        *)
LEMMA RebasedCall ==
    ASSUME flush \in Calls, flush.runs # <<>>, flush.got \in Rows
    PROVE  /\ Again \in Calls /\ Again.prev = flush.got.body /\ Again.last = flush.last
           /\ Again.runs = Rebased(flush.runs, flush.prev, flush.got.body)
           /\ Again.runs # <<>>
           /\ flush.got.body \in SUBSET Words
<1> DEFINE runs == Rebased(flush.runs, flush.prev, flush.got.body)
<1>1. flush.got.body \in SUBSET Words /\ flush.got.version \in Nat
  BY DEF Rows
<1>2. runs \in Runs /\ runs # <<>>
  <2>1. flush.runs \in Runs /\ flush.prev \in SUBSET Words
    BY DEF Calls
  <2>2. runs \in Runs /\ Len(runs) = Len(flush.runs)
    BY <1>1, <2>1, RebasedKeeps
  <2> HIDE DEF runs
  <2> QED  BY <2>1, <2>2, RunsAreSequences
<1>3. flush.attempt + 1 \in Nat
  BY DEF Calls
<1>4. Again = [flush EXCEPT !.at = flush.got.version, !.prev = flush.got.body,
                            !.runs = runs, !.attempt = flush.attempt + 1]
  BY DEF Again
<1> HIDE DEF runs
<1>5. Again \in Calls /\ Again.prev = flush.got.body /\ Again.runs = runs /\ Again.last = flush.last
  BY <1>1, <1>2, <1>3, <1>4 DEF Calls
<1> QED  BY <1>1, <1>2, <1>5 DEF runs

(* The ways a rebase ends: the contributions written again, put back into  *)
(* the room, or left.                                                      *)
LEMMA RebaseDoes ==
    ASSUME Types, Rebase
    PROVE  /\ flush.got \in Rows
           /\ \/ /\ flush' = [Again EXCEPT !.pc = "write"]
                 /\ UNCHANGED <<base, room, ending>>
              \/ EndCycle("exhausted", Again, PutBack(Again))
              \/ GiveUp("conflict", Emptied(room))
           /\ \/ doc' = doc /\ (GiveUp("conflict", Emptied(room)) \/ flush.got.body = flush.prev)
              \/ doc' = Merge(doc, flush.prev, flush.got.body)
BY DEF Rebase, Again, Types, FlushTypes

(* A rebase keeps the types.                                               *)
LEMMA RebaseTypes ==
    ASSUME Types, Rebase
    PROVE  Types'
<1>0. RowTypes' /\ evicted' \in SUBSET Users /\ flush.runs # <<>> /\ doc \in SUBSET Words
         /\ striker' \in [Words -> People] /\ UnlessFlushing /\ flush \in Calls /\ room \in Rooms
         /\ base \in Nat /\ setting' \in Setting
  BY DEF Types, RowTypes, PeopleTypes, FlushTypes, Writing, Rebase, Steady, stored
<1>1. /\ Again \in Calls /\ Again.runs # <<>> /\ flush.got.body \in SUBSET Words
  BY <1>0, RebaseDoes, RebasedCall
<1>2. doc' \in SUBSET Words
  BY <1>0, <1>1, RebaseDoes DEF Merge
<1>3. CASE flush' = [Again EXCEPT !.pc = "write"] /\ UNCHANGED <<base, room>>
  <2>1. flush' \in Calls /\ flush'.pc = "write" /\ flush'.runs = Again.runs
    BY <1>1, <1>3 DEF Calls
  <2>2. FlushTypes'
    BY <1>1, <2>1 DEF FlushTypes, Writing
  <2> QED  BY <1>0, <1>2, <1>3, <2>2, FlushStepTypes
<1>4. CASE EndCycle("exhausted", Again, PutBack(Again))
  <2>1. PutBack(Again) \in Rooms
    BY <1>0, <1>1, PutBackRoom
  <2> QED  BY <1>0, <1>1, <1>2, <1>4, <2>1, EndCycleDoes, FlushStepTypes
<1>5. CASE GiveUp("conflict", Emptied(room))
  <2>1. Emptied(room) \in Rooms
    BY <1>0, EmptiedRoom
  <2> QED  BY <1>0, <1>2, <1>5, <2>1, GiveUpDoes, FlushStepTypes
<1> QED  BY <1>3, <1>4, <1>5, RebaseDoes

(* Behind a call, the next cycle is started or the flush rests.            *)
LEMMA NextCycleDoes ==
    ASSUME flush \in Calls, room \in Rooms, doc \in SUBSET Words, base \in Nat, NextCycle
    PROVE  /\ flush.pc = "after" /\ room' \in Rooms /\ FlushTypes'
           /\ room'.again = "no"
           /\ \E r \in Rooms :
                 /\ r.runs = room.runs /\ r.open = room.open /\ r.baseMd = room.baseMd
                 /\ r.again = "no"
                 /\ \/ /\ \E call \in Calls : /\ StartCycle(call, r)
                                              /\ call.last = (room.again = "last")
                    \/ /\ flush' = Idle /\ room' = r
                       /\ ending' = IF room.again = "last" THEN "skipped" ELSE ending
<1> DEFINE r == [room EXCEPT !.again = "no"]
<1>1. /\ r \in Rooms /\ r.runs = room.runs /\ r.open = room.open /\ r.baseMd = room.baseMd
      /\ r.again = "no"
  BY DEF Rooms
<1>2. flush.pc = "after"
  BY DEF NextCycle
<1>3. \/ StartCycle([Idle EXCEPT !.last = room.again = "last", !.rerun = flush.rerun + 1], r)
      \/ /\ flush' = Idle /\ room' = r
         /\ ending' = IF room.again = "last" THEN "skipped" ELSE ending
  BY DEF NextCycle
<1> HIDE DEF r
<1>4. CASE StartCycle([Idle EXCEPT !.last = room.again = "last", !.rerun = flush.rerun + 1], r)
  <2> DEFINE last == room.again = "last"
             call == [Idle EXCEPT !.last = last, !.rerun = flush.rerun + 1]
  <2>1. flush.rerun + 1 \in Nat /\ last \in BOOLEAN
    BY DEF Calls
  <2> HIDE DEF last
  <2>2. call \in Calls /\ call.last = last
    BY <2>1, IdleIsCall
  <2>3. StartCycle(call, r)
    BY <1>4 DEF last
  <2> HIDE DEF call
  <2>4. room' \in Rooms /\ FlushTypes' /\ room'.again = "no"
    BY <1>1, <2>2, <2>3, StartCycleDoes
  <2> QED  BY <1>1, <1>2, <2>2, <2>3, <2>4 DEF last
<1>5. CASE /\ flush' = Idle /\ room' = r
           /\ ending' = IF room.again = "last" THEN "skipped" ELSE ending
  <2>1. FlushTypes'
    BY <1>5, IdleIsCall DEF FlushTypes, Writing
  <2> QED  BY <1>1, <1>2, <1>5, <2>1
<1> QED  BY <1>3, <1>4, <1>5

(* So does the cycle for what was asked meanwhile.                         *)
LEMMA NextCycleTypes ==
    ASSUME Types, NextCycle
    PROVE  Types'
<1>1. room' \in Rooms /\ FlushTypes'
  BY NextCycleDoes DEF Types, FlushTypes
<1>2. RowTypes' /\ doc' \in SUBSET Words /\ evicted' \in SUBSET Users /\ base' \in Nat
         /\ striker' \in [Words -> People] /\ UnlessFlushing /\ setting' \in Setting
  BY DEF Types, RowTypes, PeopleTypes, NextCycle, Steady, stored
<1> QED  BY <1>1, <1>2, FlushStepTypes

(* What a step of the watcher has to say for itself.                       *)
LEMMA WatcherStepTypes ==
    ASSUME Types, WatcherOnly, news' \in Nat, flush' = flush, room' \in Rooms,
           setting' \in Setting, watcher' \in Ingests,
           doc' \in SUBSET Words, base' \in Nat
    PROVE  Types'
BY DEF Types, WatcherOnly, PeopleTypes, RowTypes, FlushTypes, Writing, history

(* Of the versions kept since the base, the first is one of them.          *)
LEMMA FirstSince ==
    ASSUME RowTypes, NEW b \in Nat
    PROVE  LET later == {v \in DOMAIN images : v >= b}
               first == CHOOSE v \in later : \A o \in later : v <= o
           IN  later # {} => first \in DOMAIN images /\ images[first] \in SUBSET Words
<1> DEFINE later == {v \in DOMAIN images : v >= b}
<1>1. later \in SUBSET Nat /\ later \subseteq DOMAIN images
  BY DEF RowTypes
<1> HIDE DEF later
<1>2. later # {} => (CHOOSE v \in later : \A o \in later : v <= o) \in later
  BY <1>1, Least
<1> QED  BY <1>1, <1>2 DEF later, RowTypes

(* So does every step of the watcher.                                      *)
LEMMA WatcherTypes ==
    ASSUME Types, WatcherStep
    PROVE  Types' /\ Scene(setting') = Scene(setting)
<1>0. /\ room \in Rooms /\ watcher \in Ingests /\ doc \in SUBSET Words /\ base \in Nat
      /\ object \in Rows /\ news \in Nat /\ setting \in Setting /\ Resting \in Ingests
  BY DEF Types, RowTypes, PeopleTypes, Resting, Ingests
<1>1. ASSUME Poll
      PROVE  Types' /\ Scene(setting') = Scene(setting)
  <2>1. watcher' \in Ingests
    BY <1>0, <1>1 DEF Poll, Ingests
  <2> QED  BY <1>0, <1>1, <2>1, WatcherStepTypes DEF Poll
<1>2. ASSUME Load
      PROVE  Types' /\ Scene(setting') = Scene(setting)
  <2>1. setting' \in Setting /\ Scene(setting') = Scene(setting)
    BY <1>0, <1>2, FailingCounts DEF Load, Types
  <2>2. watcher' \in Ingests
    BY <1>0, <1>2 DEF Load, Ingests, Rows
  <2> QED  BY <1>0, <1>2, <2>1, <2>2, WatcherStepTypes DEF Load
<1>3. ASSUME BaseBody
      PROVE  Types' /\ Scene(setting') = Scene(setting)
  <2>1. setting' \in Setting /\ Scene(setting') = Scene(setting)
    BY <1>0, <1>3, FailingCounts DEF BaseBody, Types
  <2>2. watcher.base \in Nat /\ watcher.version \in Nat
    BY <1>0 DEF Ingests
  <2>3. base' \in Nat
    BY <1>0, <1>3, <2>2 DEF BaseBody
  <2>4. watcher' \in Ingests
    <3> DEFINE later == {v \in DOMAIN images : v >= watcher.base}
               first == images[CHOOSE v \in later : \A o \in later : v <= o]
    <3>1. later # {} => first \in SUBSET Words
      BY <2>2, FirstSince DEF Types
    <3>2. watcher' = Resting \/ (later # {} /\ watcher' = [watcher EXCEPT !.pc = "merge", !.from = first])
      BY <1>3 DEF BaseBody
    <3> HIDE DEF first
    <3> QED  BY <1>0, <3>1, <3>2 DEF Ingests
  <2> QED  BY <1>0, <1>3, <2>1, <2>3, <2>4, WatcherStepTypes DEF BaseBody
<1>4. ASSUME MergeIn
      PROVE  Types' /\ Scene(setting') = Scene(setting)
  <2>1. watcher' \in Ingests
    BY <1>0, <1>4 DEF MergeIn, Ingests
  <2>2. doc' \in SUBSET Words /\ base' \in Nat
    BY <1>0, <1>4 DEF MergeIn, Ingests, Merge
  <2> QED  BY <1>0, <1>4, <2>1, <2>2, WatcherStepTypes DEF MergeIn
<1>5. ASSUME NoteExternalWrite
      PROVE  Types' /\ Scene(setting') = Scene(setting)
  <2>1. room' \in Rooms
    <3>1. CASE room' = room
      BY <1>0, <3>1
    <3>2. CASE /\ room.baseMd # Unread
               /\ room' = [room EXCEPT !.baseMd = watcher.body,
                                       !.runs = Rebased(@, room.baseMd, watcher.body)]
      <4> DEFINE runs == Rebased(room.runs, room.baseMd, watcher.body)
      <4>1. runs \in Runs /\ watcher.body \in SUBSET Words
        BY <1>0, <3>2, RebasedKeeps DEF Rooms, Ingests
      <4>2. room' = [room EXCEPT !.baseMd = watcher.body, !.runs = runs]
        BY <3>2
      <4> HIDE DEF runs
      <4> QED  BY <1>0, <4>1, <4>2 DEF Rooms
    <3>3. CASE room' = [Emptied(room) EXCEPT !.baseMd = watcher.body]
      <4>1. Emptied(room) \in Rooms /\ watcher.body \in SUBSET Words
        BY <1>0, EmptiedRoom DEF Ingests
      <4> QED  BY <3>3, <4>1 DEF Rooms
    <3> QED  BY <1>5, <3>1, <3>2, <3>3 DEF NoteExternalWrite
  <2> QED  BY <1>0, <1>5, <2>1, WatcherStepTypes DEF NoteExternalWrite
<1> QED  BY <1>1, <1>2, <1>3, <1>4, <1>5 DEF WatcherStep

(* So does every step of the teardown.                                     *)
LEMMA PhaseTypes ==
    ASSUME Types, Close \/ Drop \/ Purge
    PROVE  Types'
BY DEF Types, Close, Drop, Purge, stored, history, RowTypes, PeopleTypes, FlushTypes, Writing

(* Every step keeps the types, and what a setting allows.                  *)
LEMMA NextTypes ==
    ASSUME Types, [Next]_vars
    PROVE  Types' /\ Scene(setting') = Scene(setting)
<1>1. CASE UNCHANGED vars
  BY <1>1 DEF vars, stored, history, Types, RowTypes, PeopleTypes, FlushTypes, Writing
<1>2. ASSUME NEW u \in Users, NEW w \in Words, Strike(u, w)
      PROVE  Types' /\ Scene(setting') = Scene(setting)
  <2>1. setting["strikes"] > 0 /\ setting' = [setting EXCEPT !["strikes"] = @ - 1]
    BY <1>2 DEF Strike
  <2> QED  BY <1>2, <2>1, StrikeTypes, SettingCounts DEF Types, Scene
<1>3. ASSUME NEW u \in Users, NEW w \in Words, Type(u, w)
      PROVE  Types' /\ Scene(setting') = Scene(setting)
  BY <1>3, TypeTypes DEF Type
<1>4. CASE FlushStep
  BY <1>4, ReadBaseTypes, BasedTypes, CheckRightsTypes, WriteRunTypes, WrittenTypes,
     RereadTypes, RebaseTypes, NextCycleTypes DEF FlushStep, Based, Written, Rebase, NextCycle
<1>5. CASE Fire \/ LastFlush \/ Close \/ Drop \/ Purge
  BY <1>5, FireTypes, LastFlushTypes, PhaseTypes DEF Fire, LastFlush, Close, Drop, Purge
<1> QED  BY <1>1, <1>2, <1>3, <1>4, <1>5, OutsideTypes, RevokeTypes, WatcherTypes DEF Next

(* Every step of one document keeps every field within its type: no write  *)
(* commits, no query brings and no rebase makes anything but a text of the *)
(* words there are, and no contribution is anybody's but a person's        *)
(* (flush.ts and bridge.ts as a whole).                                    *)
THEOREM TypesHold == Spec => []TypeOK
<1>1. Init => Types
  BY InitTypes
<1>2. Types /\ [Next]_vars => Types'
  BY NextTypes
<1>3. Types => TypeOK
  BY TypesGiveTypeOK
<1> QED  BY <1>1, <1>2, <1>3, PTL DEF Spec
=============================================================================

----------------------------- MODULE SharedText -----------------------------
(***************************************************************************)
(* What a live document promises whoever looks at it: one text, which only *)
(* the people in it and the writers outside it change.  Rooms that open,   *)
(* resume, rebase, flush and close underneath are not seen: they put in no *)
(* word and take none out, and what was taken out does not come back.      *)
(* Edits of the last seconds may go back when the box dies, is switched    *)
(* off or runs out of room, and text that cannot be merged or written is   *)
(* handed up, never dropped in silence                                     *)
(* (apps/box/src/collab/docStore.ts, header).                              *)
(***************************************************************************)
EXTENDS Naturals

CONSTANT Words

VARIABLES
    text,       \* the document
    volatile,   \* words whose newest edit a death or an eviction may undo
    handed,     \* words whose newest edit was handed up instead of kept
    written,    \* words ever put in
    takes       \* how often somebody may still take a word out

svars == <<text, volatile, handed, written, takes>>

Start ==
    /\ text \subseteq Words /\ text \subseteq written
    /\ volatile = {}
    /\ handed = {}
    /\ takes \in Nat

\* A word is put in once.
Put(w) ==
    /\ w \notin written
    /\ written' = written \union {w}
    /\ text' = text \union {w}
    /\ volatile' \subseteq volatile \union {w}
    /\ UNCHANGED <<handed, takes>>

Take(w) ==
    /\ takes > 0
    /\ takes' = takes - 1
    /\ text' = text \ {w}
    /\ volatile' \subseteq volatile \union {w}
    /\ UNCHANGED <<handed, written>>

\* Saving, flushing, opening and closing settle edits and change nothing.
Settle ==
    /\ volatile' \subseteq volatile
    /\ UNCHANGED <<text, handed, written, takes>>

\* A death, a switched-off box, or an eviction: some edits are undone.
Die ==
    /\ \E gone \in SUBSET volatile : text' = (text \ gone) \union (gone \ text)
    /\ volatile' \subseteq volatile
    /\ UNCHANGED <<handed, written, takes>>

\* Whatever is changed is handed up, and may yet change back.
HandUp ==
    LET changed == (text \ text') \union (text' \ text)
    IN  /\ text' \subseteq Words
        /\ handed \union changed \subseteq handed'
        /\ volatile' \subseteq volatile \union handed'
        /\ UNCHANGED <<written, takes>>

\* The document is deleted, and nothing is put in or taken out any more.
Discard ==
    /\ text' = {} /\ volatile' = {} /\ handed' = {}
    /\ written' = Words /\ takes' = 0

TextStep ==
    \/ \E w \in Words : Put(w) \/ Take(w)
    \/ Settle \/ Die \/ HandUp \/ Discard

TextSpec == Start /\ [][TextStep]_svars
=============================================================================

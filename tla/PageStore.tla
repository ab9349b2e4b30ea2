----------------------------- MODULE PageStore -----------------------------
(* What the buffer manager promises to the code above it: a store of pages.   *)
(* Every page has a current content, which is what getPage shows, and a       *)
(* durable content, which is what the file holds.  A page of the file that    *)
(* was never written is Absent there, and a read of it shows anything.        *)
(*                                                                            *)
(* In one step of the store every page makes a move of its own: one call of   *)
(* the buffer manager may write one page to the file, forget another and      *)
(* bring in a third.                                                          *)
CONSTANTS Keys, Contents, Absent

VARIABLES cur,       \* what a reader of the page sees
          durable,   \* what the file holds
          unsaved    \* the pages whose current content is still to be written

vars == <<cur, durable, unsaved>>

TypeOK ==
    /\ cur     \in [Keys -> Contents \cup {Absent}]
    /\ durable \in [Keys -> Contents \cup {Absent}]
    /\ unsaved \subseteq Keys

Init ==
    /\ durable \in [Keys -> Contents \cup {Absent}]
    /\ cur = durable
    /\ unsaved = {}
-----------------------------------------------------------------------------
Same(k) == cur'[k] = cur[k]
Kept(k) == durable'[k] = durable[k]

Stay(k) == Same(k) /\ Kept(k) /\ (k \in unsaved' <=> k \in unsaved)

\* The current content reaches the file; readers see no change.
Save(k) ==
    /\ k \in unsaved
    /\ k \notin unsaved'
    /\ durable'[k] = cur[k]
    /\ Same(k)

\* A page with nothing to save goes back to what the file holds.
Forget(k) ==
    /\ k \notin unsaved
    /\ k \notin unsaved'
    /\ Kept(k)
    /\ cur'[k] = durable[k]

\* A page that the file does not hold shows some content.
Fill(k) ==
    /\ k \notin unsaved
    /\ k \notin unsaved'
    /\ durable[k] = Absent
    /\ Kept(k)
    /\ cur'[k] \in Contents

Move(k) == Stay(k) \/ Save(k) \/ Forget(k) \/ Fill(k)

\* A client stores into a page: only this makes a page unsaved.
Write(k) ==
    /\ k \in unsaved'
    /\ Kept(k)
    /\ cur'[k] \in Contents

\* A page taken for overwriting, without a read of the file.
Scratch(k) ==
    /\ k \notin unsaved
    /\ k \notin unsaved'
    /\ Kept(k)
    /\ cur'[k] \in Contents

\* The caller gives the page back and its stores with it.
Discard(k) ==
    /\ k \notin unsaved'
    /\ Kept(k)
    /\ cur'[k] = durable[k]

OneMove(k) == Write(k) \/ Scratch(k) \/ Discard(k)

\* The process ends: what was not saved is lost, what was is not.
Crash ==
    /\ cur' = durable
    /\ unsaved' = {}
    /\ UNCHANGED durable

Next ==
    \/ \A k \in Keys : Move(k)
    \/ \E k \in Keys : OneMove(k) /\ \A j \in Keys \ {k} : Move(j)
    \/ Crash

Spec == Init /\ [][Next]_vars
=============================================================================

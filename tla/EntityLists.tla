---------------------------- MODULE EntityLists ----------------------------
(* What IndexEntityLists promises: lists of entities, each known by its head, *)
(* with the newest entity first.  Work on one list leaves the others alone.   *)
EXTENDS SequencesExt

CONSTANTS Heads, Entities

VARIABLE lists   \* head -> its entities, the newest first

Init == lists = [h \in {} |-> <<>>]

Create(h) ==
    /\ h \notin DOMAIN lists
    /\ lists' = [g \in DOMAIN lists \cup {h} |-> IF g = h THEN <<>> ELSE lists[g]]

Delete(h) == lists' = Restrict(lists, DOMAIN lists \ {h})

Insert(e, h) == lists' = [lists EXCEPT ![h] = <<e>> \o @]

\* The newest entity equal to e.
RemoveNewest(e, h) ==
    /\ Contains(lists[h], e)
    /\ lists' = [lists EXCEPT ![h] = RemoveFirst(@, e)]

Next ==
    \/ \E h \in Heads : Create(h)
    \/ \E h \in DOMAIN lists :
           Delete(h) \/ \E e \in Entities : Insert(e, h) \/ RemoveNewest(e, h)

Spec == Init /\ [][Next]_lists
=============================================================================

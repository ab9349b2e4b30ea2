------------------------------- MODULE IndexSet -------------------------------
(* What an index promises to the tables: a set of entries (data, rid).        *)
EXTENDS Naturals

CONSTANT Entries

VARIABLE entries

TypeOK == entries \subseteq Entries

Init == entries = {}

Insert(e) == entries' = entries \cup {e}
Delete(e) == entries' = entries \ {e}

Next == \/ \E e \in Entries \ entries : Insert(e)
        \/ \E e \in entries : Delete(e)

Spec == Init /\ [][Next]_entries
=============================================================================

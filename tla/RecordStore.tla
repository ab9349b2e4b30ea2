----------------------------- MODULE RecordStore -----------------------------
(* What the record layer promises to the tables: named sets of records, each  *)
(* found under the RID its insertion returned until it is removed, whatever   *)
(* happens to the other records and the other sets.                           *)
EXTENDS Functions

CONSTANTS Names, RIDs, Values

VARIABLES sets,    \* the sets that exist
          rows     \* set -> its records, RID -> value

vars == <<sets, rows>>

NoRows == [r \in {} |-> r]

TypeOK ==
    /\ sets \subseteq Names
    /\ \A n \in Names : IsInjective([r \in DOMAIN rows[n] |-> r])
    /\ \A n \in Names : DOMAIN rows[n] \subseteq RIDs
    /\ \A n \in Names : Range(rows[n]) \subseteq Values

Init ==
    /\ sets = {}
    /\ rows = [n \in Names |-> NoRows]

Create(n) ==
    /\ n \notin sets
    /\ sets' = sets \cup {n}
    /\ UNCHANGED rows

Drop(n) ==
    /\ n \in sets
    /\ sets' = sets \ {n}
    /\ rows' = [rows EXCEPT ![n] = NoRows]

\* What a step may do to the rows of one set.
Gains(old, new) ==      \* one record more, under a RID that no other record has
    \E r \in DOMAIN new :
        /\ r \in RIDs /\ new[r] \in Values
        /\ r \notin UNION {DOMAIN rows[m] : m \in Names}
        /\ DOMAIN old = DOMAIN new \ {r}
        /\ old = Restrict(new, DOMAIN old)

Loses(old, new) ==      \* one record less
    \E r \in DOMAIN old : new = Restrict(old, DOMAIN old \ {r})

Changes(old, new) ==    \* another value of one record
    \E r \in DOMAIN old :
        /\ DOMAIN new = DOMAIN old
        /\ new = [old EXCEPT ![r] = new[r]]
        /\ new[r] \in Values

Modify(n) ==
    /\ n \in sets
    /\ UNCHANGED sets
    /\ \/ Gains(rows[n], rows'[n])
       \/ Loses(rows[n], rows'[n])
       \/ Changes(rows[n], rows'[n])
    /\ \A m \in Names \ {n} : rows'[m] = rows[m]

Next == \E n \in Names : Create(n) \/ Drop(n) \/ Modify(n)

Spec == Init /\ [][Next]_vars
=============================================================================

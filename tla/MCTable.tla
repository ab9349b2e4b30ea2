------------------------------- MODULE MCTable -------------------------------
(* The tables of small schemas, after those of test/query/TestQueryBase.h.    *)
EXTENDS Table

Column(key, nullable, unique, ref) ==
    [primaryKey |-> key, nullable |-> nullable, unique |-> unique, ref |-> ref]
Key == Column(TRUE, FALSE, FALSE, NoRef)

\* A primary key, a composite one with a foreign key in it, and a unique column
\* that may have no value.
Keys == [people |-> <<Key, Column(FALSE, TRUE, TRUE, NoRef)>>,
         borrow |-> <<Column(TRUE, FALSE, FALSE, <<"people", 1>>), Key>>]

\* A foreign key that may have no value, in a table without a primary key.
References == [people |-> <<Key>>,
               orders |-> <<Column(FALSE, TRUE, FALSE, <<"people", 1>>)>>]

\* States after a statement that makes columns stale are left only while few
\* columns are stale.
InStep   == stale = {}
FewStale == Cardinality(stale) <= 1

\* The entries of an index that no column names are never looked at again.
Visible ==
    <<order, id, rows, ix, fk, dirty, unsaved, alive, stale,
      [i \in IndexIds |-> [indexes[i] EXCEPT
                              !.entries = IF Named(i) = {} THEN {} ELSE @]]>>
=============================================================================

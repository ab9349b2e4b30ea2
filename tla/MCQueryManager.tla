--------------------------- MODULE MCQueryManager ---------------------------
(* SELECT on the rows of three small tables, after those of                   *)
(* test/query/TestQueryBase.h: people with an INT key, borrow that refers to  *)
(* people, and book with a VARCHAR key.                                       *)
EXTENDS QueryManager

Small ==
    [people |-> [key |-> {"id"}, type |-> [id |-> "INT", name |-> "VARCHAR"]],
     borrow |-> [key |-> {"book_id"}, type |-> [book_id |-> "INT", people_id |-> "INT"]],
     book   |-> [key |-> {"title"}, type |-> [title |-> "VARCHAR"]]]

SmallData == [id |-> {1, 2}, name |-> {11, Null}, book_id |-> {1, 2},
              people_id |-> {1, Null}, title |-> {11, 12}]

\* The pattern 19 stands for one that texts up to 11 match.
Prefix(v, pattern) == v <= 11 /\ pattern = 19

Cond(name, op, value) == [name |-> name, op |-> op, rhsValue |-> value, rhsAttr |-> NoAttr]
Both(name, op, attr)  == [name |-> name, op |-> op, rhsValue |-> 0, rhsAttr |-> attr]

Id    == <<"people", "id">>
Name  == <<"people", "name">>
Book  == <<"borrow", "book_id">>
Who   == <<"borrow", "people_id">>
Title == <<"book", "title">>

Crosses == {Both(Id, "=", Who), Both(Who, "=", Id), Both(Id, "<", Book),
            Both(Id, "<>", Who), Both(Name, "=", Title), Both(Title, "=", Name),
            Both(Id, "=", Title), Both(Id, "=", Name)}
Owns    == {Cond(Id, "=", 1), Cond(Id, ">=", 2), Cond(Who, "<>", 2), Cond(Book, "<=", 1),
            Cond(Who, "IS NULL", 0), Cond(Name, "IS NOT NULL", 0),
            Cond(Name, "LIKE", 19), Cond(Id, "=", 12), Cond(<<NoTable, "id">>, "=", 1)}

Ask(selects, froms, ands) == [selects |-> selects, froms |-> froms, ands |-> ands]

SmallQueries ==
    {Ask(s, <<"people">>, a) : s \in {<<Star>>, <<Name>>, <<<<NoTable, "name">>, Id>>},
                               a \in {<< >>} \cup {<<e>> : e \in Owns \cup {Both(Id, "=", Who)}}}
    \cup {Ask(<<Id, Book>>, f, a) :
              f \in {<<"people", "borrow">>, <<"borrow", "people">>},
              a \in {<< >>} \cup {<<e>> : e \in Crosses \cup Owns}
                    \cup {<<e, o>> : e \in Crosses, o \in Owns}}
    \cup {Ask(<<Id, Book, Id>>, <<"people", "borrow">>, <<e>>) : e \in Crosses}
    \cup {Ask(<<Name, Name>>, <<"people">>, << >>)}
    \cup {Ask(<<Name, Title>>, <<"people", "borrow", "book">>, a) :
              a \in {<<e>> : e \in Crosses \cup Owns} \cup {<<e, o>> : e, o \in Crosses}}
    \cup {Ask(<<Id, Title>>, <<"people", "book">>, <<e>>) : e \in Crosses}
    \cup {Ask(<<Id, Star>>, f, << >>) :
              f \in {<< >>, <<"people">>, <<"people", "borrow">>, <<"loan", "people">>}}
=============================================================================

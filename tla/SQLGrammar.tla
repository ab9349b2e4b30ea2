----------------------------- MODULE SQLGrammar -----------------------------
(* The language that docs/SQLSpec.md:23-92 describes, as its rules have it:   *)
(* a name stands for one of several sequences of names and tokens.  A star or *)
(* a question mark in a rule is a name of its own here (Statements, Fields,   *)
(* ...); in "Select" and "TableList" (SQLSpec.md:67-73) the star that the     *)
(* other lists have is missing, and meant.                                    *)
EXTENDS Sequences, FiniteSets

Identifier   == "IDENTIFIER"
ColumnSpec   == {<<Identifier>>, <<Identifier, "P_DOT", Identifier>>}
Value        == {<<"INT">>, <<"FLOAT">>, <<"STRING">>}
InParents(s) == <<"P_LPARENT">> \o s \o <<"P_RPARENT">>

Rules == [
    Program    |-> {<<"Statement?", "Statements">>},
    Statements |-> {<< >>, <<"P_SEMICOLON", "Statement?", "Statements">>},
    Statement  |->
        {<<"K_SHOW", "K_DATABASES">>, <<"K_SHOW", "K_TABLES">>,
         <<"K_CREATE", "K_DATABASE", Identifier>>, <<"K_DROP", "K_DATABASE", Identifier>>,
         <<"K_USE", Identifier>>, <<"K_USE", "K_DATABASE", Identifier>>,
         <<"K_SHOW", "K_TABLE", Identifier>>, <<"K_DESC", Identifier>>,
         <<"K_CREATE", "K_TABLE", Identifier>> \o InParents(<<"Field", "Fields">>),
         <<"K_DROP", "K_TABLE", Identifier>>,
         <<"K_CREATE", "K_INDEX", Identifier>> \o InParents(<<Identifier>>),
         <<"K_DROP", "K_INDEX", Identifier>> \o InParents(<<Identifier>>),
         <<"K_INSERT", "K_INTO", Identifier, "K_VALUES", "ValueList", "ValueLists">>,
         <<"K_DELETE", "K_FROM", Identifier, "Where?">>,
         <<"K_UPDATE", Identifier, "K_SET", "Assign", "Assigns", "Where?">>,
         <<"K_SELECT", "Select", "K_FROM", Identifier, "Tables", "Where?", "GroupBy?">>},
    Fields     |-> {<< >>, <<"P_COMMA", "Field", "Fields">>},
    Field      |->
        {<<Identifier, "Type", "Constraints">>,
         <<"K_PRIMARY", "K_KEY">> \o InParents(<<Identifier, "Names">>),
         <<"K_FOREIGN", "K_KEY">> \o InParents(<<Identifier>>)
             \o <<"K_REFERENCES", Identifier>> \o InParents(<<Identifier>>)},
    Names      |-> {<< >>, <<"P_COMMA", Identifier, "Names">>},
    Type       |-> {<<"K_INT">> \o InParents(<<"INT">>), <<"K_FLOAT">>, <<"K_DATE">>,
                    <<"K_VARCHAR">> \o InParents(<<"INT">>)},
    Constraints |-> {<< >>, <<"K_NOT", "K_NULL", "Constraints">>,
                     <<"K_UNIQUE", "Constraints">>},
    Condition  |->
        {c \o <<"Op">> \o v : c \in ColumnSpec, v \in Value \cup ColumnSpec}
        \cup {c \o n : c \in ColumnSpec,
                       n \in {<<"K_IS", "K_NULL">>, <<"K_IS", "K_NOT", "K_NULL">>}},
    Op         |-> {<<o>> : o \in {"P_EQ", "P_G", "P_L", "P_GE", "P_LE", "P_NE", "K_LIKE"}},
    Conditions |-> {<< >>, <<"K_AND", "Condition", "Conditions">>},
    Assign     |-> {<<Identifier, "P_EQ">> \o v : v \in Value},
    Assigns    |-> {<< >>, <<"P_COMMA", "Assign", "Assigns">>},
    Select     |-> {<<"P_STAR">>} \cup {c \o <<"Columns">> : c \in ColumnSpec},
    Columns    |-> {<< >>} \cup {<<"P_COMMA">> \o c \o <<"Columns">> : c \in ColumnSpec},
    Tables     |-> {<< >>, <<"P_COMMA", Identifier, "Tables">>},
    ValueList  |-> {InParents(<<"NullableValue", "NullableValues">>)},
    ValueLists |-> {<< >>, <<"P_COMMA", "ValueList", "ValueLists">>},
    NullableValue  |-> {<<"K_NULL">>} \cup Value,
    NullableValues |-> {<< >>, <<"P_COMMA", "NullableValue", "NullableValues">>}]

Optional == [s \in {"Statement?", "Where?", "GroupBy?"} |->
    CASE s = "Statement?" -> {<< >>, <<"Statement">>}
      [] s = "Where?"     -> {<< >>, <<"K_WHERE", "Condition", "Conditions">>}
      [] s = "GroupBy?"   -> {<< >>} \cup {<<"K_GROUPBY">> \o c : c \in ColumnSpec}]

\* What the sequences of names s may begin with: s itself, if it is empty or
\* begins with a token, or what its first name stands for.
RECURSIVE Starts(_)
Starts(s) ==
    IF s = << >> THEN {s}
    ELSE IF Head(s) \in DOMAIN Rules
    THEN UNION {Starts(alt \o Tail(s)) : alt \in Rules[Head(s)]}
    ELSE IF Head(s) \in DOMAIN Optional
    THEN UNION {Starts(alt \o Tail(s)) : alt \in Optional[Head(s)]}
    ELSE {s}

\* What may follow behind a token, of what may follow before it.
After(starts, token) ==
    UNION {Starts(Tail(s)) : s \in {r \in starts : r # << >> /\ Head(r) = token}}
=============================================================================

------------------------------ MODULE Parser ------------------------------
(* The parser: one token of look-ahead, and the calls that are still to be    *)
(* made.  Each parse method is the record of the tokens it decides by, with   *)
(* what it eats and calls after each of them; a name that starts with a       *)
(* capital letter and is no token is such a method or one of its loops.  The  *)
(* statements that it builds are left out, but for the flags that it tests.   *)
(*                                                                            *)
(* The text is whatever the tokenizer makes of it: any token may come next.   *)
EXTENDS SQLGrammar, TokenType

VARIABLES ahead,     \* Parser::lookahead
          calls,     \* what is still to be parsed, innermost first
          keyed,     \* primaryKeySetted
          column,    \* nullable and unique of the column that is defined
          status,    \* "parsing", or how parseString ended
          astray,    \* history: parseUpdateSet ended without a value
          expected   \* history: what SQLSpec.md has behind the tokens before ahead

vars == <<ahead, calls, keyed, column, status, astray, expected>>

Parents(s)    == <<"P_LPARENT">> \o s \o <<"P_RPARENT">>
ColumnName    == <<"IDENTIFIER", "Dot">>
ConditionCalls == ColumnName \o <<"Op">>
Assignment    == <<"IDENTIFIER", "P_EQ", "SetValue">>
RecordCalls   == Parents(<<"RecordValue", "RecordValues">>)

\* The methods that throw a ParseError for a token they do not know.
Show   == [K_DATABASES |-> << >>, K_TABLES |-> << >>, K_TABLE |-> <<"IDENTIFIER">>]
Create == [K_DATABASE |-> <<"IDENTIFIER">>,
           K_INDEX    |-> <<"IDENTIFIER">> \o Parents(<<"IDENTIFIER">>),
           K_TABLE    |-> <<"NewTable", "IDENTIFIER">> \o Parents(<<"Field", "Fields">>)]
Drop   == [K_DATABASE |-> <<"IDENTIFIER">>, K_TABLE |-> <<"IDENTIFIER">>,
           K_INDEX    |-> <<"IDENTIFIER">> \o Parents(<<"IDENTIFIER">>)]
Desc   == <<"IDENTIFIER">>
Use    == <<"UseDatabase", "IDENTIFIER">>
\* Operators named Faulty... are wrong variants of the definition after them.
\* Faulty: one record for each INSERT.
FaultyInsert == <<"K_INTO", "IDENTIFIER", "K_VALUES">> \o RecordCalls
Insert == <<"K_INTO", "IDENTIFIER", "K_VALUES">> \o RecordCalls \o <<"Records">>
Delete == <<"K_FROM", "IDENTIFIER", "Where">>
Select == <<"SelectList", "K_FROM", "IDENTIFIER", "Tables", "Where", "GroupBy">>
Update == <<"IDENTIFIER", "K_SET">> \o Assignment \o <<"Assignments", "Where">>
ParseStatement == [K_CREATE |-> <<"Create">>, K_DELETE |-> Delete, K_DESC |-> Desc,
                   K_DROP |-> <<"Drop">>, K_INSERT |-> Insert, K_SELECT |-> Select,
                   K_SHOW |-> <<"Show">>, K_UPDATE |-> Update, K_USE |-> Use]
SelectList == [P_STAR |-> << >>, IDENTIFIER |-> <<"Dot", "Columns">>]
TableDefineField ==
    [IDENTIFIER |-> <<"TypeDefine", "NewColumn", "Constraints">>,
     K_PRIMARY  |-> <<"SetKey", "K_KEY">> \o Parents(<<"IDENTIFIER", "KeyNames">>),
     K_FOREIGN  |-> <<"K_KEY">> \o Parents(<<"IDENTIFIER">>)
                    \o <<"K_REFERENCES", "IDENTIFIER">> \o Parents(<<"IDENTIFIER">>)]
TypeDefine == [K_INT |-> Parents(<<"INT">>), K_FLOAT |-> << >>, K_DATE |-> << >>,
               K_VARCHAR |-> Parents(<<"INT">>)]
ColumnConstraint == [K_NOT    |-> <<"K_NULL", "SetNotNull", "Constraints">>,
                     K_UNIQUE |-> <<"SetUnique", "Constraints">>]
RecordValue == [K_NULL |-> << >>, INT |-> << >>, FLOAT |-> << >>, STRING |-> << >>]
Operand     == [IDENTIFIER |-> <<"Dot">>, INT |-> << >>, FLOAT |-> << >>, STRING |-> << >>]
Op == [P_EQ |-> <<"Operand">>, P_NE |-> <<"Operand">>, P_L |-> <<"Operand">>,
       P_G |-> <<"Operand">>, P_LE |-> <<"Operand">>, P_GE |-> <<"Operand">>,
       K_LIKE |-> <<"Operand">>, K_IS |-> <<"NotNull", "K_NULL">>]
SetValue == [INT |-> << >>, FLOAT |-> << >>, STRING |-> << >>]

\* The ifs and loops that pass on for a token they do not know.
Loops ==
    [Fields       |-> [P_COMMA |-> <<"Field", "Fields">>],
     KeyNames     |-> [P_COMMA |-> <<"IDENTIFIER", "KeyNames">>],
     UseDatabase  |-> [K_DATABASE |-> << >>],
     Records      |-> [P_COMMA |-> RecordCalls \o <<"Records">>],
     RecordValues |-> [P_COMMA |-> <<"RecordValue", "RecordValues">>],
     Columns      |-> [P_COMMA |-> ColumnName \o <<"Columns">>],
     Tables       |-> [P_COMMA |-> <<"IDENTIFIER", "Tables">>],
     Assignments  |-> [P_COMMA |-> Assignment \o <<"Assignments">>],
     Where        |-> [K_WHERE |-> ConditionCalls \o <<"Conditions">>],
     Conditions   |-> [K_AND |-> ConditionCalls \o <<"Conditions">>],
     GroupBy      |-> [K_GROUPBY |-> ColumnName],
     Semicolons   |-> [P_SEMICOLON |-> <<"Semicolons">>],
     Dot          |-> [P_DOT |-> <<"IDENTIFIER">>],
     NotNull      |-> [K_NOT |-> << >>]]

Methods ==
    [Statement |-> ParseStatement, Show |-> Show, Create |-> Create, Drop |-> Drop,
     SelectList |-> SelectList, Field |-> TableDefineField, TypeDefine |-> TypeDefine,
     ColumnConstraint |-> ColumnConstraint, RecordValue |-> RecordValue,
     Operand |-> Operand, Op |-> Op, SetValue |-> SetValue]
-----------------------------------------------------------------------------
NoColumn == [nullable |-> TRUE, unique |-> FALSE]
Top      == Head(calls)
Parsing  == status = "parsing" /\ calls # << >>

\* How the parser goes on when the tokenizer returns t, or throws it.
Outcome(t) == CASE t = "ParseError"   -> "rejected"
               [] t = "out_of_range" -> "died"
               [] OTHER              -> "parsing"

Start == /\ ahead' \in TokenTypes \cup {"EOS"} \cup Exceptions
         /\ calls' = <<"Semicolons", "StatementLoop">>
         /\ status' = Outcome(ahead')
         /\ expected' = Starts(<<"Program">>)
         /\ keyed' = FALSE /\ column' = NoColumn /\ astray' = FALSE

Init == /\ ahead \in TokenTypes \cup {"EOS"} \cup Exceptions
        /\ calls = <<"Semicolons", "StatementLoop">>
        /\ status = Outcome(ahead)
        /\ expected = Starts(<<"Program">>)
        /\ keyed = FALSE /\ column = NoColumn /\ astray = FALSE

\* nextToken: behind the end of the text is the end of the text.
NextTokenThen(next) ==
    /\ ahead' \in IF ahead = "EOS" THEN {"EOS"}
                  ELSE TokenTypes \cup {"EOS"} \cup Exceptions
    /\ status' = Outcome(ahead')
    /\ calls' = next
    /\ expected' = After(expected, ahead)

Throw(how) == /\ status' = how
              /\ UNCHANGED <<ahead, calls, keyed, column, astray, expected>>

GoOn(next) == /\ calls' = next
              /\ UNCHANGED <<ahead, status, expected>>

EatToken ==
    /\ Parsing /\ Top \in TokenTypes
    /\ IF ahead = Top
       THEN NextTokenThen(Tail(calls)) /\ UNCHANGED <<keyed, column, astray>>
       ELSE Throw("rejected")

Decide ==
    /\ Parsing /\ Top \in DOMAIN Methods
    /\ IF Top = "Field" /\ ahead = "K_PRIMARY" /\ keyed THEN Throw("repeated")
       ELSE IF ahead \in DOMAIN Methods[Top]
       THEN /\ NextTokenThen(Methods[Top][ahead] \o Tail(calls))
            /\ UNCHANGED <<keyed, column, astray>>
       ELSE Top # "SetValue" /\ Throw("rejected")

\* parseUpdateSet ends without a return statement when no value follows: the
\* caller goes on with an empty value, or, where the compiler takes the last if
\* for one that always holds, as behind a string.
NoReturn ==
    /\ Parsing /\ Top = "SetValue" /\ ahead \notin DOMAIN SetValue
    /\ GoOn(Tail(calls)) \/ NextTokenThen(Tail(calls))
    /\ astray' = TRUE
    /\ UNCHANGED <<keyed, column>>

Pass ==
    /\ Parsing /\ Top \in DOMAIN Loops
    /\ IF ahead \in DOMAIN Loops[Top]
       THEN NextTokenThen(Loops[Top][ahead] \o Tail(calls))
       ELSE GoOn(Tail(calls))
    /\ UNCHANGED <<keyed, column, astray>>

\* What the loop of parseTableDefineField calls next.
ConstraintLoop == IF ahead \in {"P_COMMA", "P_RPARENT"} THEN << >>
                  ELSE <<"ColumnConstraint">>

\* Faulty: what is no constraint is passed over, as it is between statements.
FaultyConstraints ==
    /\ Parsing /\ Top = "Constraints"
    /\ IF ConstraintLoop # << >> /\ ahead \notin DOMAIN ColumnConstraint
       THEN NextTokenThen(calls)
       ELSE GoOn(ConstraintLoop \o Tail(calls))
    /\ UNCHANGED <<keyed, column, astray>>

Constraints ==
    /\ Parsing /\ Top = "Constraints"
    /\ GoOn(ConstraintLoop \o Tail(calls))
    /\ UNCHANGED <<keyed, column, astray>>

\* The assignments to the flags, and the tests of those that are set twice.
SetFlags ==
    /\ Parsing
    /\ \/ /\ Top = "NewTable"
          /\ keyed' = FALSE /\ UNCHANGED column
       \/ /\ Top = "SetKey"
          /\ keyed' = TRUE /\ UNCHANGED column
       \/ /\ Top = "NewColumn"
          /\ column' = NoColumn /\ UNCHANGED keyed
       \/ /\ Top = "SetNotNull" /\ column.nullable
          /\ column' = [column EXCEPT !.nullable = FALSE] /\ UNCHANGED keyed
       \/ /\ Top = "SetUnique" /\ ~column.unique
          /\ column' = [column EXCEPT !.unique = TRUE] /\ UNCHANGED keyed
    /\ GoOn(Tail(calls))
    /\ UNCHANGED astray

SetTwice ==
    /\ Parsing
    /\ \/ Top = "SetNotNull" /\ ~column.nullable
       \/ Top = "SetUnique" /\ column.unique
    /\ Throw("repeated")

Statements ==
    /\ Parsing
    /\ \/ /\ Top = "StatementLoop"
          /\ GoOn(IF ahead = "EOS" THEN Tail(calls)
                  ELSE <<"Statement", "MoreStatements">> \o Tail(calls))
          /\ UNCHANGED <<keyed, column, astray>>
       \/ /\ Top = "MoreStatements"
          /\ IF ahead \in {"EOS", "P_SEMICOLON"}
             THEN /\ GoOn(IF ahead = "EOS" THEN Tail(calls)
                          ELSE <<"Semicolons", "StatementLoop">> \o Tail(calls))
                  /\ UNCHANGED <<keyed, column, astray>>
             ELSE Throw("rejected")

Parse ==
    /\ status = "parsing" /\ calls = << >>
    /\ Throw(IF ahead = "EOS" THEN "accepted" ELSE "rejected")

Step == \/ EatToken \/ Decide \/ NoReturn \/ Pass \/ Constraints
        \/ SetFlags \/ SetTwice \/ Statements \/ Parse

\* InteractiveDriver reads the next command.
NextCommand == status # "parsing" /\ Start

Next == Step \/ NextCommand

\* The parser runs in one thread: it does not stop before it returns or throws.
Spec == Init /\ [][Next]_vars /\ WF_vars(Step)
-----------------------------------------------------------------------------
\* The parser accepts what SQLSpec.md describes and nothing else, and rejects a
\* text at the first token that no statement has there; but for constraints and
\* keys that are declared twice, and for SET without a value (AcceptsOnlySQL).
SameLanguage ==
    ~astray =>
        /\ status = "parsing"  => expected # {}
        /\ status = "accepted" => << >> \in expected
        /\ status = "rejected" => IF ahead = "EOS" THEN << >> \notin expected
                                  ELSE After(expected, ahead) = {}

\* Every loop of the parser ends at the end of the text: it is read again and
\* again, and eaten by nothing but the undefined end of parseUpdateSet.
ParseEnds == (ahead = "EOS") ~> (status # "parsing")

\* "Assign: identifier '=' Value" (SQLSpec.md:65-66): no other text is accepted.
AcceptsOnlySQL == status = "accepted" => << >> \in expected
=============================================================================

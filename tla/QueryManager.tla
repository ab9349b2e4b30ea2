---------------------------- MODULE QueryManager ----------------------------
(* SELECT: QueryManager with the part of Table and SelectResult that it       *)
(* calls.  The methods are operators on the rows of the tables; a statement   *)
(* ends with a result, with an ExecuteError ("error") or, for any other       *)
(* exception or a read through a null pointer, with the process ("dies").     *)
(*                                                                            *)
(* A full column name is <<table, column>>, with NoTable before an            *)
(* unqualified one.  A record of an intermediate result is a function from    *)
(* full names to values: where a name occurs twice, indexOf finds the first,  *)
(* and so does With.  Values are numbers; those from FirstText on are texts.  *)
(* Tables have no index here (the module Table is about those).               *)
EXTENDS Integers, SequencesExt

CONSTANTS Tables,      \* table names
          Schema,      \* table -> [key: set of columns, type: column -> type]
          Data,        \* column -> values that rows of the runs have there
          Null,        \* no value
          NoTable,     \* the table of an unqualified name
          NoAttr,      \* rhsAttr of a condition that compares with a value
          FirstText,   \* values below are numbers, the others texts
          Garbage,     \* the number that the bytes of a text are taken for
          Like(_, _),  \* std::regex_match of a text with a pattern
          Queries,     \* the SELECT statements of a run
          MaxRows      \* bound: rows of a table

ASSUME SchemaAssumption ==
    /\ NoTable \notin Tables
    /\ \A t \in Tables : LET columns == DOMAIN Schema[t].type IN
          /\ IsFiniteSet(columns) /\ Schema[t].key \subseteq columns
          /\ \A c \in columns : /\ Data[c] \ {Null} \subseteq Int
                                /\ Schema[t].type[c] = "INT" =>
                                      \A v \in Data[c] \ {Null} : v < FirstText

ASSUME BoundAssumption == MaxRows \in Nat /\ FirstText \in Int

\* A statement as the parser builds it: a name has a table (or NoTable) and a
\* column, a condition has a name on its left.
IsName(n) == n # NoAttr /\ n = <<n[1], n[2]>>
IsCondition(e) ==
    /\ e = [name |-> e.name, op |-> e.op, rhsValue |-> e.rhsValue, rhsAttr |-> e.rhsAttr]
    /\ e.rhsValue \in Int
    /\ IsName(e.name) /\ (e.rhsAttr # NoAttr => IsName(e.rhsAttr))

ASSUME QueriesAssumption ==
    \A q \in Queries :
        /\ q.froms \in Seq(Range(q.froms)) /\ q.selects \in Seq(Range(q.selects))
        /\ q.ands \in Seq(Range(q.ands))
        /\ \A i \in DOMAIN q.selects : IsName(q.selects[i])
        /\ \A i \in DOMAIN q.ands : IsCondition(q.ands[i])

VARIABLES rows,    \* table -> the records of its set, in the order of scans
          query,   \* the statement that was executed last, or << >>
          answer   \* how it ended

vars == <<rows, query, answer>>

Columns(t) == DOMAIN Schema[t].type
Type(name) == Schema[name[1]].type[name[2]]
Star       == <<NoTable, "*">>
Error      == [kind |-> "error"]
Dies       == [kind |-> "dies"]
Result(names, records) == [kind |-> "result", names |-> names, records |-> records]
IsResult(r) == r.kind = "result"

\* The elements of s at the positions I, in their order.
Chosen(s, I) ==
    [k \in 1 .. Cardinality(I) |-> s[CHOOSE i \in I : Cardinality({j \in I : j < i}) = k - 1]]

\* The columns of two records.
With(a, b) == [n \in DOMAIN a \cup DOMAIN b |-> IF n \in DOMAIN a THEN a[n] ELSE b[n]]

\* The first outcome that is none of a sequence of calls, or good.
FirstFailure(outcomes, good) ==
    LET bad == SelectInSeq(outcomes, LAMBDA o : ~IsResult(o))
    IN  IF bad = 0 THEN good ELSE outcomes[bad]

Comparisons == {"=", "<>", "<", ">", "<=", ">="}
NullTests   == {"IS NULL", "IS NOT NULL"}
Compare(op, v, w) ==
    CASE op = "="  -> v = w   [] op = "<>" -> v # w
      [] op = "<"  -> v < w   [] op = ">"  -> v > w
      [] op = "<=" -> v <= w  [] op = ">=" -> v >= w
-----------------------------------------------------------------------------
(* The table: Table::makePredict and Table::select.                           *)

\* A row without a value is different from every value.
Matches(e, v) ==
    CASE e.op = "IS NULL"     -> v = Null
      [] e.op = "IS NOT NULL" -> v # Null
      [] e.op = "LIKE"        -> v # Null /\ Like(v, e.rhsValue)
      [] OTHER -> IF v = Null THEN e.op = "<>" ELSE Compare(e.op, v, e.rhsValue)

\* What makePredict does about a condition; std::stoi of a text throws an
\* exception that nobody catches.
Predict(t, e) ==
    IF e.name[2] \notin Columns(t) \/ e.rhsAttr # NoAttr THEN Error
    ELSE IF Type(<<t, e.name[2]>>) # "INT" THEN Result({}, << >>)
    ELSE IF e.op \notin NullTests /\ e.rhsValue >= FirstText THEN Dies
    ELSE IF e.op = "LIKE" THEN Error
    ELSE Result({}, << >>)

TableSelect(t, columns, ands) ==
    LET found == Chosen(rows[t], {k \in DOMAIN rows[t] : \A i \in DOMAIN ands :
                                     Matches(ands[i], rows[t][k][ands[i].name[2]])})
        names == {t} \X columns
    IN  IF ~(columns \subseteq Columns(t)) THEN Error
        ELSE FirstFailure([i \in DOMAIN ands |-> Predict(t, ands[i])],
                 Result(names, [i \in DOMAIN found |->
                                   [n \in names |-> found[i][n[2]]]]))
-----------------------------------------------------------------------------
(* The parts of a join.                                                       *)
CrossConditions(q) ==
    Chosen(q.ands, {i \in DOMAIN q.ands : q.ands[i].rhsAttr # NoAttr})
OwnConditions(q, t) ==
    Chosen(q.ands, {i \in DOMAIN q.ands : /\ q.ands[i].rhsAttr = NoAttr
                                          /\ q.ands[i].name[1] = t})

\* getRelatedCols and the columns of the select list, for one table.
ColumnsFor(q, t) ==
    LET names == {q.ands[i].name : i \in DOMAIN q.ands}
                 \cup {q.ands[i].rhsAttr : i \in DOMAIN q.ands}
                 \cup Range(q.selects)
    IN  {n[2] : n \in {m \in names \ {NoAttr} : m[1] = t}}

SelectOne(q, t) ==
    IF t \notin Tables THEN Error
    ELSE TableSelect(t, ColumnsFor(q, t), OwnConditions(q, t))

\* Every record of a with every record of b; FlattenSeq keeps the loops' order.
Join(a, b) ==
    Result(a.names \cup b.names,
           FlattenSeq([i \in DOMAIN a.records |->
                          [j \in DOMAIN b.records |-> With(a.records[i], b.records[j])]]))

\* makePredict over a result: it takes the types from the first record.
CrossPredict(r, e) ==
    IF e.name \notin r.names \/ e.rhsAttr \notin r.names THEN Error
    ELSE IF r.records = << >> THEN Dies
    ELSE IF Type(e.name) # Type(e.rhsAttr) THEN Error
    ELSE IF e.op \notin Comparisons THEN Dies
    ELSE r

Passes(e, record) ==
    /\ record[e.name] # Null /\ record[e.rhsAttr] # Null
    /\ Compare(e.op, record[e.name], record[e.rhsAttr])

Filter(r, ands) ==
    FirstFailure([i \in DOMAIN ands |-> CrossPredict(r, ands[i])],
        Result(r.names, Chosen(r.records, {k \in DOMAIN r.records :
                            \A i \in DOMAIN ands : Passes(ands[i], r.records[k])})))

\* The values of the selected columns; and TableRecord::filter, which moves them
\* out of the record: nothing is left for a column that is selected again.
InOrder(record, selects) == [j \in DOMAIN selects |-> record[selects[j]]]
Moved(record, selects) ==
    [j \in DOMAIN selects |->
        IF \E k \in 1 .. j - 1 : selects[k] = selects[j] THEN Null
        ELSE record[selects[j]]]

Project(r, selects) ==
    IF ~(Range(selects) \subseteq r.names) THEN Error
    ELSE Result(Range(selects),
                [i \in DOMAIN r.records |-> Moved(r.records[i], selects)])
-----------------------------------------------------------------------------
(* selectFromOne, selectFromMany, selectFromTwo.                              *)
SelectFromOne(q) ==
    LET t         == q.froms[1]
        Here(name) == name[1] \in {t, NoTable}
        selects   == IF q.selects = <<Star>>
                     THEN SetToSeq({t} \X Columns(t))    \* in the order of the columns
                     ELSE [i \in DOMAIN q.selects |-> <<t, q.selects[i][2]>>]
    IN  IF \/ t \notin Tables
           \/ q.selects # <<Star>> /\ \E i \in DOMAIN q.selects : ~Here(q.selects[i])
           \/ \E i \in DOMAIN q.ands : ~Here(q.ands[i].name)
        THEN Error
        ELSE LET r == TableSelect(t, {selects[i][2] : i \in DOMAIN selects}, q.ands)
             IN  IF ~IsResult(r) THEN r
                 ELSE Result(r.names, [i \in DOMAIN r.records |->
                                          InOrder(r.records[i], selects)])

\* Operators named Faulty... are wrong variants of the definition after them.
\* Faulty: a condition is tried when one of its columns is there.
FaultyApplies(r, e) == e.name \in r.names \/ e.rhsAttr \in r.names

Applies(r, e) == e.name \in r.names /\ e.rhsAttr \in r.names

\* One turn of the loop: join, then the conditions that have both columns now.
JoinNext(r, part) ==
    IF ~IsResult(r.part) THEN r
    ELSE LET both == Join(r.part, part)
             now  == {i \in DOMAIN r.rest : Applies(both, r.rest[i])}
         IN  [part |-> Filter(both, Chosen(r.rest, now)),
              rest |-> Chosen(r.rest, DOMAIN r.rest \ now)]

SelectFromMany(q) ==
    LET parts == [i \in DOMAIN q.froms |-> SelectOne(q, q.froms[i])]
        Size(i) == Len(parts[i].records)
        Before(i, j) == Size(i) < Size(j) \/ (Size(i) = Size(j) /\ i < j)
        sorted == [k \in DOMAIN parts |->
                     parts[CHOOSE i \in DOMAIN parts :
                               Cardinality({j \in DOMAIN parts : Before(j, i)}) = k - 1]]
        joined[k \in DOMAIN parts] ==
            IF k = 1 THEN [part |-> sorted[1], rest |-> CrossConditions(q)]
            ELSE JoinNext(joined[k - 1], sorted[k])
        last   == joined[Len(parts)]
    IN  IF \E i \in DOMAIN parts : ~IsResult(parts[i])
        THEN FirstFailure(parts, Error)
        ELSE IF ~IsResult(last.part) THEN last.part
        ELSE IF last.rest # << >> THEN Error
        ELSE Project(last.part, q.selects)

IsKeyJoin(e) ==
    e.rhsAttr # NoAttr /\ e.op = "=" /\ Schema[e.name[1]].key = {e.name[2]}

\* Faulty: the conditions on the table of the key are forgotten.
FaultyKeyConditions(q, e, v) == <<[e EXCEPT !.rhsAttr = NoAttr, !.rhsValue = v]>>

KeyConditions(q, e, v) ==
    <<[e EXCEPT !.rhsAttr = NoAttr, !.rhsValue = v]>> \o OwnConditions(q, e.name[1])

\* The record of the table of the key for one record of the other table.
KeyLookup(q, e, record) ==
    LET v     == record[e.rhsAttr]
        value == IF Type(e.rhsAttr) = "INT" THEN v ELSE Garbage
        r     == TableSelect(e.name[1], ColumnsFor(q, e.name[1]),
                             KeyConditions(q, e, value))
    IN  IF v = Null THEN Dies
        ELSE IF IsResult(r) /\ Len(r.records) > 1 THEN Dies
        ELSE IF IsResult(r) THEN Join(r, Result(DOMAIN record, <<record>>))
        ELSE r

\* The names of the joined columns are set at the first record only.
KeyJoin(q, e) ==
    LET other == SelectOne(q, e.rhsAttr[1])
        found == [i \in DOMAIN other.records |-> KeyLookup(q, e, other.records[i])]
        all   == Result(UNION {found[i].names : i \in DOMAIN found},
                        FlattenSeq([i \in DOMAIN found |-> found[i].records]))
        kept  == Filter(all, CrossConditions(q))
    IN  IF ~IsResult(other) THEN other
        ELSE IF \E i \in DOMAIN found : ~IsResult(found[i])
        THEN FirstFailure(found, Error)
        ELSE IF IsResult(kept) THEN Project(kept, q.selects) ELSE kept

\* The loop over the conditions ends at a table that does not exist.
SelectFromTwo(q) ==
    LET i == SelectInSeq(q.ands, LAMBDA e : e.name[1] \notin Tables \/ IsKeyJoin(e))
    IN  IF i = 0 THEN SelectFromMany(q)
        ELSE IF q.ands[i].name[1] \notin Tables THEN Error
        ELSE KeyJoin(q, q.ands[i])

Answer(q) ==
    CASE Len(q.froms) = 0 -> Error
      [] Len(q.froms) = 1 -> SelectFromOne(q)
      [] Len(q.froms) = 2 -> SelectFromTwo(q)
      [] OTHER            -> SelectFromMany(q)
-----------------------------------------------------------------------------
None == [kind |-> "none"]

Init == /\ rows = [t \in Tables |-> << >>]
        /\ query = << >>
        /\ answer = None

\* INSERT of one row, the keys in ascending order.
Insert(t) ==
    /\ answer = None
    /\ Len(rows[t]) < MaxRows
    /\ \E r \in [Columns(t) -> UNION {Data[c] : c \in Columns(t)}] :
          /\ \A c \in Columns(t) : r[c] \in Data[c] \ (IF c \in Schema[t].key THEN {Null} ELSE {})
          /\ rows[t] # << >> => \A c \in Schema[t].key : Last(rows[t])[c] < r[c]
          /\ rows' = [rows EXCEPT ![t] = Append(@, r)]
    /\ UNCHANGED <<query, answer>>

Select(q) ==
    /\ answer = None
    /\ query' = q
    /\ answer' = Answer(q)
    /\ UNCHANGED rows

\* The driver prints the answer; a process that ended starts again.
Return ==
    /\ answer # None
    /\ query' = << >>
    /\ answer' = None
    /\ UNCHANGED rows

Next == \/ \E t \in Tables : Insert(t)
        \/ \E q \in Queries : Select(q)
        \/ Return

Spec == Init /\ [][Next]_vars
-----------------------------------------------------------------------------
(* What a SELECT means: the rows of the product of its tables that meet every *)
(* condition.  f chooses a row of each table.                                 *)
Named(q, name) == IF name[1] = NoTable /\ Len(q.froms) = 1
                  THEN <<q.froms[1], name[2]>> ELSE name

Selected(q) == IF q.selects = <<Star>> /\ Len(q.froms) = 1
               THEN SetToSeq({q.froms[1]} \X Columns(q.froms[1]))
               ELSE [i \in DOMAIN q.selects |-> Named(q, q.selects[i])]

\* The tables exist and are named once, and so are the columns; a column is
\* compared with a value of its type or with a column of another table.
Legal(q) ==
    LET Known(name) == /\ Named(q, name)[1] \in Range(q.froms)
                       /\ Named(q, name)[2] \in Columns(Named(q, name)[1])
        Value(e)    == LET type == Type(Named(q, e.name)) IN
                       \/ e.op \in NullTests
                       \/ e.op \in Comparisons /\ (type = "INT" <=> e.rhsValue < FirstText)
                       \/ e.op = "LIKE" /\ type = "VARCHAR" /\ e.rhsValue >= FirstText
        Attr(e)     == LET lhs == Named(q, e.name)
                           rhs == Named(q, e.rhsAttr)
                       IN  /\ Known(e.rhsAttr) /\ lhs[1] # rhs[1]
                           /\ Type(lhs) = Type(rhs) /\ e.op \in Comparisons
    IN  /\ q.froms # << >> /\ IsInjective(q.froms) /\ Range(q.froms) \subseteq Tables
        /\ \A i \in DOMAIN Selected(q) : Known(Selected(q)[i])
        /\ \A i \in DOMAIN q.ands :
               LET e == q.ands[i] IN
               Known(e.name) /\ (IF e.rhsAttr = NoAttr THEN Value(e) ELSE Attr(e))

\* Keys that two tables are joined by are INT: "now only INT" (QueryManager.cpp:106).
IntKeys(q) == \A i \in DOMAIN q.ands :
                 q.ands[i].rhsAttr # NoAttr /\ IsKeyJoin(q.ands[i])
                 => Type(q.ands[i].name) = "INT"

ValueAt(q, f, name) ==
    LET i == CHOOSE j \in DOMAIN q.froms : q.froms[j] = Named(q, name)[1]
    IN  rows[q.froms[i]][f[i]][name[2]]

Meets(q, f, e) ==
    LET v == ValueAt(q, f, e.name) IN
    IF e.rhsAttr = NoAttr THEN Matches(e, v)
    ELSE LET w == ValueAt(q, f, e.rhsAttr) IN
         v # Null /\ w # Null /\ Compare(e.op, v, w)

Combinations(q) == {f \in [DOMAIN q.froms -> 1 .. MaxRows] :
                  \A i \in DOMAIN f : f[i] <= Len(rows[q.froms[i]])}

Meaning(q) == {f \in Combinations(q) : \A i \in DOMAIN q.ands : Meets(q, f, q.ands[i])}

Answered(q, f) == LET names == Selected(q) IN
                 [j \in DOMAIN names |-> ValueAt(q, f, names[j])]

\* A legal SELECT that is answered is answered with the rows it means, each as
\* often as it means it: whichever join was taken, in whatever order the tables
\* were joined and the conditions applied (selectFromTwo and selectFromMany); but
\* for a join that selects a column twice, which comes out empty then.
AnswersExact ==
    /\ IsResult(answer) /\ Legal(query) /\ IntKeys(query)
    /\ Len(query.froms) > 1 => IsInjective(query.selects)
    =>
        LET meant == Meaning(query)
            records == answer.records
        IN  /\ Len(records) = Cardinality(meant)
            /\ \A f \in meant :
                  LET tuple == Answered(query, f) IN
                  Cardinality({i \in DOMAIN records : records[i] = tuple})
                      = Cardinality({g \in meant : Answered(query, g) = tuple})

\* Every row of the second table that its own conditions let through has a value
\* where the condition that joins the tables reads it (QueryManager.cpp:106).
KeysPresent(q) ==
    Len(q.froms) = 2 =>
        \A i \in DOMAIN q.ands : IsKeyJoin(q.ands[i]) =>
            LET other == SelectOne(q, q.ands[i].rhsAttr[1]) IN
            \A j \in DOMAIN other.records : other.records[j][q.ands[i].rhsAttr] # Null

\* A legal SELECT is answered if it is about one table, or if it has an answer
\* with rows: then no intermediate result, of which makePredict would read the
\* first record, is empty.
SelectAnswered ==
    answer # None /\ Legal(query) /\ IntKeys(query) =>
        \/ IsResult(answer)
        \/ Len(query.froms) > 1 /\ (Meaning(query) = {} \/ ~KeysPresent(query))

\* Every legal SELECT is answered, if only with no rows: "the result should be
\* empty or one element" (FinalReport.md:284) for each row of the other table,
\* and "after every join, find the conditions that take effect, and filter once"
\* (FinalReport.md:277).  The code reads the first record of an empty result.
EmptyJoinsAnswered ==
    answer # None /\ Legal(query) /\ IntKeys(query) => IsResult(answer)
=============================================================================

-------------------------------- MODULE Table --------------------------------
(* The tables of a database: Table with its checks, the catalogue of tables,  *)
(* columns and indexes, and the statements that change them (Database,        *)
(* IndexManager, SysIndexPage, QueryManager).  One action per statement; a    *)
(* statement that ends with an ExecuteError has changed nothing, and is no    *)
(* step.  Any other exception, or a null pointer, ends the process: the action *)
(* then clears alive, and nothing follows.                                    *)
(*                                                                            *)
(* Record sets and indexes are what RecordStore and IndexSet promise: slots   *)
(* with rows, and sets of entries (value, RID).  The RIDs of a table are its  *)
(* name with a slot, since its pages are its own.  Position 0 of the record   *)
(* sets is the internal set of IndexEntityLists, which is never dropped: the  *)
(* positions and ids here count from the one after it.                        *)
EXTENDS Integers, SequencesExt

CONSTANTS Tables,      \* table names
          Schema,      \* table -> its columns, as CREATE TABLE defines them
          Data,        \* values of a column
          Null,        \* no value
          MaxIndexNum, \* SysIndexPage::MAX_INDEX_NUM
          MaxRows,     \* bound: rows of a table
          MaxBatch     \* bound: records of one INSERT

ASSUME DataAssumption == Data \subseteq Nat /\ Null \notin Data

ASSUME BoundsAssumption ==
    IsFiniteSet(Tables) /\ MaxIndexNum \in Nat /\ MaxRows \in Nat /\ MaxBatch \in Nat

NoRef   == << >>     \* a column that references no column
NoIndex == -1
NoTable == -1
All     == << >>     \* a statement without a condition

IndexIds   == 0 .. MaxIndexNum - 1
Columns(t) == DOMAIN Schema[t]
Cells      == UNION {{t} \X Columns(t) : t \in Tables}
CellsOf(t) == {t} \X Columns(t)
Records(t) == [Columns(t) -> Data \cup {Null}]
Slots      == 1 .. MaxRows
PkIds(t)   == {c \in Columns(t) : Schema[t][c].primaryKey}
OnePK(t)   == Cardinality(PkIds(t)) = 1

\* A reference names a column of a table.
ASSUME SchemaAssumption ==
    \A t \in Tables :
        Schema[t] \in Seq([primaryKey: BOOLEAN, nullable: BOOLEAN, unique: BOOLEAN,
                           ref: {NoRef} \cup Cells])

VARIABLES
    order,     \* RecordManager::tables: position -> table
    id,        \* RecordSet::id of a table
    rows,      \* table -> slot -> record
    ix,        \* table -> column -> indexID
    fk,        \* table -> column -> foreignTableID
    indexes,   \* SysIndexPage and the trees: index id -> used, entries
    dirty,     \* tables whose table page is dirty
    unsaved,   \* columns whose indexID was set in a clean page
    alive,     \* the process has not ended
    stale      \* history: columns that a statement has brought out of step

vars == <<order, id, rows, ix, fk, indexes, dirty, unsaved, alive, stale>>

Exists(t)      == t \in Range(order)
HasIndex(t, c) == ix[t][c] # NoIndex
IsUsed(i)      == i # NoIndex /\ indexes[i].used
HasEntry(i, v) == \E e \in indexes[i].entries : e[1] = v
Rid(t, s)      == <<t, s>>
Rids(t)        == {Rid(t, s) : s \in DOMAIN rows[t]}
NoRows         == [s \in {} |-> s]

\* new @@ f of TLC, whose definition the proofs cannot expand.
Extended(f, new) ==
    [x \in DOMAIN f \cup DOMAIN new |-> IF x \in DOMAIN new THEN new[x] ELSE f[x]]

\* An exception that InteractiveDriver::execute does not catch.
Die ==
    /\ alive' = FALSE
    /\ UNCHANGED <<order, id, rows, ix, fk, indexes, dirty, unsaved, stale>>
-----------------------------------------------------------------------------
(* The checks of INSERT.  Each ends with "ok", with "rejected", an            *)
(* ExecuteError, or with "dies"; the first that is not ok ends the statement. *)
FirstBad(results) ==
    LET bad == {j \in DOMAIN results : results[j] # "ok"}
    IN  IF bad = {} THEN "ok" ELSE results[Min(bad)]

NullCheck(t, c, b) ==
    IF (~Schema[t][c].nullable \/ Schema[t][c].primaryKey)
       /\ \E j \in DOMAIN b : b[j][c] = Null
    THEN "rejected" ELSE "ok"

IsUnique(t, c) == Schema[t][c].unique \/ (Schema[t][c].primaryKey /\ OnePK(t))

\* Operators named Faulty... are wrong variants of the definition after them.
\* Faulty: the values of the batch are not compared with each other.
FaultyRepeats(c, b, j) == FALSE

\* The values of one batch against each other.
Repeats(c, b, j) == \E i \in 1 .. j - 1 : b[i][c] = b[j][c]

\* With an index the data of a record without a value is a null pointer.
UniqueCheck(t, c, b) ==
    IF ~IsUnique(t, c) THEN "ok"
    ELSE IF HasIndex(t, c)
    THEN FirstBad([j \in DOMAIN b |->
             IF b[j][c] = Null THEN "dies"
             ELSE IF HasEntry(ix[t][c], b[j][c]) \/ Repeats(c, b, j) THEN "rejected"
             ELSE "ok"])
    ELSE IF \E j \in DOMAIN b :
               /\ b[j][c] # Null
               /\ Repeats(c, b, j) \/ \E s \in DOMAIN rows[t] : rows[t][s][c] = b[j][c]
    THEN "rejected" ELSE "ok"

\* The indexID of column foreignColumnID of the table at position
\* foreignTableID; the columns that a table does not have are zero.
ForeignIndex(t, c) ==
    LET u == order[fk[t][c] + 1]
        d == Schema[t][c].ref[2]
    IN  IF fk[t][c] >= Len(order) THEN NoIndex
        ELSE IF d \in Columns(u) THEN ix[u][d] ELSE 0

\* Faulty: only the first value is looked up.
FaultyForeignCheck(t, c, values) ==
    IF fk[t][c] = NoTable THEN "ok"
    ELSE IF ~IsUsed(ForeignIndex(t, c)) \/ values[1] = Null THEN "dies"
    ELSE IF HasEntry(ForeignIndex(t, c), values[1]) THEN "ok" ELSE "rejected"

\* The values of a column with a foreign key, or one new value of UPDATE.
ForeignCheck(t, c, values) ==
    IF fk[t][c] = NoTable THEN "ok"
    ELSE IF ~IsUsed(ForeignIndex(t, c)) THEN "dies"
    ELSE FirstBad([j \in DOMAIN values |->
             IF values[j] = Null THEN "dies"
             ELSE IF HasEntry(ForeignIndex(t, c), values[j]) THEN "ok"
             ELSE "rejected"])

\* calcPKHash: h * 33 + c for every byte, here for every value of a key; no
\* value has no byte.
KeyHash(t, key) ==
    FoldLeft(LAMBDA h, c : IF c \in DOMAIN key /\ key[c] # Null THEN 33 * h + key[c]
                                                               ELSE h,
             0, [c \in Columns(t) |-> c])
PKHash(t, r) == KeyHash(t, Restrict(r, PkIds(t)))

\* Faulty: the loop over the stored records ends before the last.
FaultyKeyCheck(t, b) ==
    IF OnePK(t) THEN "ok"
    ELSE LET seen   == {s \in DOMAIN rows[t] : \E r \in DOMAIN rows[t] : r > s}
             stored == {PKHash(t, rows[t][s]) : s \in seen}
         IN  IF \E j \in DOMAIN b : PKHash(t, b[j]) \in stored THEN "rejected"
                                                                ELSE "ok"

\* The hashes of the batch are compared with the stored ones only.
KeyCheck(t, b) ==
    IF OnePK(t) THEN "ok"
    ELSE LET stored == {PKHash(t, rows[t][s]) : s \in DOMAIN rows[t]}
         IN  IF \E j \in DOMAIN b : PKHash(t, b[j]) \in stored THEN "rejected"
                                                                ELSE "ok"

\* Table::insert gets its indexes, then checkInsertValues checks column after
\* column.
IndexesUsed(t) == \A c \in Columns(t) : HasIndex(t, c) => IsUsed(ix[t][c])

CheckInsertValues(t, b) ==
    IF ~IndexesUsed(t) THEN "dies"
    ELSE FirstBad(Append([c \in Columns(t) |->
                              FirstBad(<<NullCheck(t, c, b),
                                         UniqueCheck(t, c, b),
                                         ForeignCheck(t, c, [j \in DOMAIN b |-> b[j][c]])>>)],
                         KeyCheck(t, b)))
-----------------------------------------------------------------------------
\* The entries of a row in index i; a column twice in one index would have its
\* entry inserted or deleted twice.
EntriesOf(t, s, r, i) ==
    {<<r[c], Rid(t, s)>> : c \in {d \in Columns(t) : ix[t][d] = i /\ r[d] # Null}}
Doubled(t, r) ==
    \E c, d \in Columns(t) :
        c # d /\ HasIndex(t, c) /\ ix[t][c] = ix[t][d] /\ r[c] = r[d] /\ r[c] # Null

\* Faulty: the slot after the last.
FaultySlotFor(t, j) == Max(DOMAIN rows[t] \cup {0}) + j

\* RecordSet::insert takes the lowest free slot.
SlotFor(t, j) ==
    CHOOSE s \in Slots \ DOMAIN rows[t] :
        Cardinality({f \in Slots \ DOMAIN rows[t] : f <= s}) = j

\* Faulty: only the first record of a batch gets its entries.
FaultyInsertRows(t, b) ==
    LET new == [s \in {SlotFor(t, j) : j \in DOMAIN b} |->
                   b[CHOOSE j \in DOMAIN b : SlotFor(t, j) = s]]
        gained(i) == EntriesOf(t, SlotFor(t, 1), b[1], i)
    IN  /\ rows' = [rows EXCEPT ![t] = Extended(@, new)]
        /\ indexes' = [i \in IndexIds |->
                          [indexes[i] EXCEPT !.entries = @ \cup gained(i)]]
        /\ UNCHANGED alive

\* The loop of Table::insert: insertEntry throws for an entry that is there.
InsertRows(t, b) ==
    LET new == [s \in {SlotFor(t, j) : j \in DOMAIN b} |->
                   b[CHOOSE j \in DOMAIN b : SlotFor(t, j) = s]]
        gained(i) == UNION {EntriesOf(t, s, new[s], i) : s \in DOMAIN new}
    IN  IF \/ \E j \in DOMAIN b : Doubled(t, b[j])
           \/ \E i \in IndexIds : gained(i) \cap indexes[i].entries # {}
        THEN alive' = FALSE /\ UNCHANGED <<rows, indexes>>
        ELSE /\ rows' = [rows EXCEPT ![t] = Extended(@, new)]
             /\ indexes' = [i \in IndexIds |->
                               [indexes[i] EXCEPT !.entries = @ \cup gained(i)]]
             /\ UNCHANGED alive

\* Table::insert of a batch; getDataMutable at its end marks the table page.
Insert(t, b) ==
    LET outcome == CheckInsertValues(t, b) IN
    /\ alive /\ Exists(t)
    /\ Cardinality(DOMAIN rows[t]) + Len(b) <= MaxRows
    /\ \/ outcome = "dies" /\ Die
       \/ /\ outcome = "ok"
          /\ InsertRows(t, b)
          /\ dirty'   = dirty \cup {t}
          /\ unsaved' = unsaved \ CellsOf(t)
          /\ UNCHANGED <<order, id, ix, fk, stale>>
-----------------------------------------------------------------------------
\* Table::filterThenForeach, for no condition or "column = value": the RIDs of
\* the index, if the column has one, else a scan; getRecord throws for a RID
\* that names no record of the table.
Matches(t, cond, s) == cond = All \/ rows[t][s][cond[1]] = cond[2]
UsesIndex(t, cond)  == cond # All /\ HasIndex(t, cond[1])
FromIndex(t, cond)  == {e[2] : e \in {f \in indexes[ix[t][cond[1]]].entries :
                                         f[1] = cond[2]}}
FilterDies(t, cond) ==
    UsesIndex(t, cond) /\
        (~IsUsed(ix[t][cond[1]]) \/ ~(FromIndex(t, cond) \subseteq Rids(t)))
Filtered(t, cond) ==
    {s \in DOMAIN rows[t] :
        /\ UsesIndex(t, cond) => Rid(t, s) \in FromIndex(t, cond)
        /\ Matches(t, cond, s)}

Conditions(t) == {All} \cup (Columns(t) \X Data)

\* Faulty: the entries stay.
FaultyLost(t, gone, i) == {}

\* The entries that Table::delete_ deletes.
Lost(t, gone, i) == UNION {EntriesOf(t, s, rows[t][s], i) : s \in gone}

\* Table::delete_: deleteEntry throws for an entry that is not there.
Delete(t, cond) ==
    LET gone == Filtered(t, cond) IN
    /\ alive /\ Exists(t)
    /\ IF \/ ~IndexesUsed(t) \/ FilterDies(t, cond)
          \/ \E s \in gone : Doubled(t, rows[t][s])
          \/ \E i \in IndexIds : ~(Lost(t, gone, i) \subseteq indexes[i].entries)
       THEN Die
       ELSE /\ rows'    = [rows EXCEPT ![t] = Restrict(@, DOMAIN @ \ gone)]
            /\ indexes' = [i \in IndexIds |->
                              [indexes[i] EXCEPT !.entries = @ \ Lost(t, gone, i)]]
            /\ dirty'   = dirty \cup {t}
            /\ unsaved' = unsaved \ CellsOf(t)
            /\ UNCHANGED <<order, id, ix, fk, alive, stale>>

\* Table::makeUpdate, before the filter: a value for the column, or none.
UpdateCheck(t, c, v) ==
    IF v # Null THEN ForeignCheck(t, c, <<v>>)
    ELSE IF Schema[t][c].nullable THEN "ok" ELSE "rejected"

\* Table::update sets column c to v in the rows of the condition.  It touches
\* neither the indexes nor the table page, and checks no key.
Update(t, c, v, cond) ==
    LET outcome == UpdateCheck(t, c, v)
        hit     == Filtered(t, cond)
        changed == \E s \in hit : rows[t][s][c] # v
    IN  /\ alive /\ Exists(t)
        /\ \/ /\ outcome = "dies" \/ (outcome = "ok" /\ FilterDies(t, cond))
              /\ Die
           \/ /\ outcome = "ok" /\ ~FilterDies(t, cond)
              /\ rows' = [rows EXCEPT ![t] = [s \in DOMAIN @ |->
                             IF s \in hit THEN [@[s] EXCEPT ![c] = v] ELSE @[s]]]
              /\ stale' = IF changed THEN stale \cup {<<t, c>>} ELSE stale
              /\ UNCHANGED <<order, id, ix, fk, indexes, dirty, unsaved, alive>>

\* Table::select changes nothing, but may die like the others.
Select(t, cond) ==
    /\ alive /\ Exists(t)
    /\ FilterDies(t, cond)
    /\ Die
-----------------------------------------------------------------------------
\* SysIndexPage::acquireNewIndex and IndexManager::createIndex: the lowest
\* unused id, with an empty tree.
HasFreeIndex == \E i \in IndexIds : ~indexes[i].used
NewIndex     == Min({i \in IndexIds : ~indexes[i].used})
EmptyIndex   == [used |-> TRUE, entries |-> {}]

\* Columns that name an index id.
Named(i) == {x \in Cells : ix[x[1]][x[2]] = i}

\* A new index for column x shares its id with the columns that still name a
\* deleted index, and starts empty whatever the column holds.
SetIndex(x, filled) ==
    /\ indexes' = [indexes EXCEPT ![NewIndex] = EmptyIndex]
    /\ ix'      = [ix EXCEPT ![x[1]][x[2]] = NewIndex]
    /\ stale'   = IF filled \/ Named(NewIndex) # {}
                  THEN stale \cup Named(NewIndex) \cup {x} ELSE stale

\* The foreign keys of a new table: the id of the RecordSet.
ForeignIds(t) ==
    [c \in Columns(t) |->
        IF Schema[t][c].ref = NoRef THEN NoTable ELSE id[Schema[t][c].ref[1]]]

\* Database::createTable, with TableMetaPage::makeFromDef and an index for the
\* first primary key.
CreateTable(t) ==
    /\ alive /\ ~Exists(t)
    /\ \A c \in Columns(t) : Schema[t][c].ref # NoRef => Exists(Schema[t][c].ref[1])
    /\ order' = Append(order, t)
    /\ id'    = [id EXCEPT ![t] = Len(order)]
    /\ fk'    = [fk EXCEPT ![t] = ForeignIds(t)]
    /\ IF PkIds(t) = {} THEN UNCHANGED <<indexes, ix, stale>>
       ELSE HasFreeIndex /\ SetIndex(<<t, Min(PkIds(t))>>, FALSE)
    /\ dirty' = dirty \cup {t}
    /\ UNCHANGED <<rows, unsaved, alive>>

\* Database::deleteTable: the last table moves into the hole, and keeps its id;
\* the indexes of the table stay in the SysIndexPage.
DropTable(t) ==
    LET p == CHOOSE i \in DOMAIN order : order[i] = t IN
    /\ alive /\ Exists(t)
    /\ order' = [i \in 1 .. Len(order) - 1 |-> IF i = p THEN Last(order) ELSE order[i]]
    /\ id'    = [id EXCEPT ![t] = NoTable]
    /\ fk'    = [fk EXCEPT ![t] = [c \in Columns(t) |-> NoTable]]
    /\ rows'  = [rows EXCEPT ![t] = NoRows]
    /\ ix'    = [ix EXCEPT ![t] = [c \in Columns(t) |-> NoIndex]]
    /\ dirty' = dirty \ {t}
    /\ unsaved' = unsaved \ CellsOf(t)
    /\ stale' = stale \ CellsOf(t)
    /\ UNCHANGED <<indexes, alive>>

\* Database::createIndex writes the indexID through getDataReadonly, and puts
\* no row of the table into the index.
CreateIndex(t, c) ==
    /\ alive /\ Exists(t) /\ ~HasIndex(t, c)
    /\ HasFreeIndex
    /\ SetIndex(<<t, c>>, \E s \in DOMAIN rows[t] : rows[t][s][c] # Null)
    /\ unsaved' = IF t \in dirty THEN unsaved ELSE unsaved \cup {<<t, c>>}
    /\ UNCHANGED <<order, id, rows, fk, dirty, alive>>

\* Database::deleteIndex leaves the indexID of the column as it is.
DropIndex(t, c) ==
    /\ alive /\ Exists(t) /\ HasIndex(t, c) /\ IsUsed(ix[t][c])
    /\ indexes' = [indexes EXCEPT ![ix[t][c]].used = FALSE]
    /\ stale'   = stale \cup Named(ix[t][c])
    /\ UNCHANGED <<order, id, rows, ix, fk, dirty, unsaved, alive>>

\* The database is closed, which writes the dirty pages, and opened again.
Reopen ==
    /\ alive
    /\ ix' = [t \in Tables |-> [c \in Columns(t) |->
                 IF <<t, c>> \in unsaved THEN NoIndex ELSE ix[t][c]]]
    /\ id' = [t \in Tables |-> IF Exists(t)
                 THEN (CHOOSE i \in DOMAIN order : order[i] = t) - 1 ELSE NoTable]
    /\ dirty'   = {}
    /\ unsaved' = {}
    /\ UNCHANGED <<order, rows, fk, indexes, alive, stale>>

Init ==
    /\ order   = << >>
    /\ id      = [t \in Tables |-> NoTable]
    /\ rows    = [t \in Tables |-> NoRows]
    /\ ix      = [t \in Tables |-> [c \in Columns(t) |-> NoIndex]]
    /\ fk      = [t \in Tables |-> [c \in Columns(t) |-> NoTable]]
    /\ indexes = [i \in IndexIds |-> [used |-> FALSE, entries |-> {}]]
    /\ dirty   = {}
    /\ unsaved = {}
    /\ alive   = TRUE
    /\ stale   = {}

Batches(t) == UNION {[1 .. n -> Records(t)] : n \in 1 .. MaxBatch}

Next ==
    \/ \E t \in Tables : CreateTable(t)
    \/ \E t \in Tables : DropTable(t)
    \/ \E x \in Cells : CreateIndex(x[1], x[2])
    \/ \E x \in Cells : DropIndex(x[1], x[2])
    \/ \E t \in Tables : \E b \in Batches(t) : Insert(t, b)
    \/ \E t \in Tables : \E cond \in Conditions(t) : Delete(t, cond)
    \/ \E x \in Cells, v \in Data \cup {Null} :
           \E cond \in Conditions(x[1]) : Update(x[1], x[2], v, cond)
    \/ \E t \in Tables : \E cond \in Conditions(t) : Select(t, cond)
    \/ Reopen

Spec == Init /\ [][Next]_vars
-----------------------------------------------------------------------------
TypeOK ==
    /\ Range(order) \subseteq Tables /\ IsInjective(order)
    /\ \A t \in Tables :
          /\ id[t] \in {NoTable} \cup (0 .. Cardinality(Tables) - 1)
          /\ DOMAIN rows[t] \subseteq Slots
          /\ Range(rows[t]) \subseteq Records(t)
          /\ ix[t] \in [Columns(t) -> IndexIds \cup {NoIndex}]
          /\ fk[t] \in [Columns(t) -> {NoTable} \cup (0 .. Cardinality(Tables) - 1)]
    /\ indexes \in [IndexIds -> [used : BOOLEAN,
                     entries : SUBSET (Data \X (Tables \X Slots))]]
    /\ dirty \subseteq Tables
    /\ unsaved \subseteq Cells /\ stale \subseteq Cells
    /\ alive \in BOOLEAN

\* The index of a column has an entry for each row with a value, and no other,
\* through batches, deletions, reused slots and dropped tables, unless UPDATE,
\* CREATE INDEX on a filled table or a dropped index has made it stale.
IndexMatchesRows ==
    \A t \in Range(order) : \A c \in Columns(t) :
        HasIndex(t, c) /\ <<t, c>> \notin stale =>
            /\ IsUsed(ix[t][c])
            /\ Named(ix[t][c]) = {<<t, c>>}
            /\ indexes[ix[t][c]].entries =
                  {<<rows[t][s][c], Rid(t, s)>> :
                      s \in {q \in DOMAIN rows[t] : rows[t][q][c] # Null}}

UniqueIn(t, c) ==
    \A r, s \in DOMAIN rows[t] :
        r # s /\ rows[t][r][c] = rows[t][s][c] => rows[t][r][c] = Null

\* INSERT keeps unique columns and single primary keys unique, with an index or
\* without, within a batch and against the table, and when an index is lost at
\* a re-opening.
KeysUnique ==
    \A t \in Range(order) : \A c \in Columns(t) :
        IsUnique(t, c) /\ <<t, c>> \notin stale => UniqueIn(t, c)

Refers(t, c)   == Schema[t][c].ref # NoRef
Resolves(t, c) == fk[t][c] < Len(order) /\ order[fk[t][c] + 1] = Schema[t][c].ref[1]

\* A value that INSERT or UPDATE brings into a column with a foreign key is in
\* the referenced column, as long as the reference leads to its table and the
\* referenced column is not stale.
ForeignKeysChecked ==
    [][\A t \in Range(order) : \A c \in Columns(t) : \A s \in DOMAIN rows'[t] :
          /\ Refers(t, c) /\ Resolves(t, c) /\ Schema[t][c].ref \notin stale
          /\ rows'[t][s][c] # Null
          /\ s \in DOMAIN rows[t] => rows[t][s][c] # rows'[t][s][c]
          => LET u == Schema[t][c].ref[1]
             IN  \E r \in DOMAIN rows[u] :
                    rows[u][r][Schema[t][c].ref[2]] = rows'[t][s][c]]_vars

\* A table of which INSERT reads no index on a column without a value, and in
\* which every reference leads to an index.
Safe(t) ==
    \A c \in Columns(t) :
        /\ Refers(t, c) => Resolves(t, c) /\ IsUsed(ForeignIndex(t, c))
        /\ Schema[t][c].nullable /\ ~Schema[t][c].primaryKey =>
              ~Refers(t, c) /\ ~(Schema[t][c].unique /\ HasIndex(t, c))

\* No statement ends the process while no column is stale and the tables are
\* safe: no entry is inserted twice, deleted twice or missing, and no index
\* returns the RID of a removed record.
DiesForCause ==
    [][~alive' => stale # {} \/ \E t \in Range(order) : ~Safe(t)]_vars

\* With a composite key, or none, no record is stored whose key a stored record
\* has; the records of one batch are not compared.
KeysAgainstStored ==
    [][\A t \in Range(order) : \A s \in DOMAIN rows'[t] \ DOMAIN rows[t] :
          ~OnePK(t) => \A r \in DOMAIN rows[t] :
              \E c \in PkIds(t) : rows'[t][s][c] # rows[t][r][c]]_vars

\* TestUpdate.cpp:105, ThrowWhenNotUnique: UPDATE rejects a second row with the
\* same primary key.
UpdateKeepsKeys ==
    \A t \in Range(order) : \A c \in Columns(t) :
        Schema[t][c].primaryKey /\ OnePK(t) => UniqueIn(t, c)

\* FinalReport.md:253 and 259: the values of a batch are put into the set as
\* they are checked, and composite keys are checked with the same set.
CompositeKeysUnique ==
    \A t \in Range(order) :
        ~OnePK(t) => \A r, s \in DOMAIN rows[t] :
            r # s => \E c \in PkIds(t) : rows[t][r][c] # rows[t][s][c]

\* FinalReport.md:32: a FOREIGN KEY clause refers to the table it names, at
\* least when its table has just been created.
ClauseResolves ==
    [][\A t \in Range(order') \ Range(order) : \A c \in Columns(t) :
          Refers(t, c) => /\ fk'[t][c] < Len(order')
                          /\ order'[fk'[t][c] + 1] = Schema[t][c].ref[1]]_vars
=============================================================================

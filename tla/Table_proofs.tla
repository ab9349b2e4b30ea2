----------------------------- MODULE Table_proofs -----------------------------
(* The statements keep indexes and rows in step, and INSERT keeps the keys.   *)
(* Everything is proved for every state, those with stale columns included.   *)
EXTENDS Table, NumberFacts, FiniteSetTheorems, SequenceTheorems

\* What is to be an induction over the statements: beside the properties, the
\* domains of the functions, ...
Shapes ==
    /\ order \in Seq(Tables)
    /\ DOMAIN id = Tables /\ DOMAIN rows = Tables
    /\ DOMAIN ix = Tables /\ DOMAIN fk = Tables
    /\ \A t \in Tables : rows[t] \in [DOMAIN rows[t] -> Records(t)]

\* ... that a table that does not exist has neither rows nor indexes, ...
Absent ==
    \A t \in Tables \ Range(order) :
        DOMAIN rows[t] = {} /\ \A c \in Columns(t) : ~HasIndex(t, c)

\* ... and that a table has an id, and the ids of the tables it refers to.
Linked ==
    \A t \in Range(order) :
        /\ id[t] \in Nat
        /\ \A c \in Columns(t) : IF Refers(t, c) THEN fk[t][c] \in Nat
                                                 ELSE fk[t][c] = NoTable

IInv == Shapes /\ TypeOK /\ Absent /\ Linked /\ IndexMatchesRows /\ KeysUnique
-----------------------------------------------------------------------------
(* The schema.                                                                *)
LEMMA SchemaFacts ==
    ASSUME NEW t \in Tables
    PROVE  /\ Len(Schema[t]) \in Nat
           /\ Columns(t) = 1 .. Len(Schema[t])
           /\ \A c : <<t, c>> \in Cells <=> c \in Columns(t)
           /\ \A c \in Columns(t) : Refers(t, c) => Schema[t][c].ref \in Cells
  <1> DEFINE Col == [primaryKey: BOOLEAN, nullable: BOOLEAN, unique: BOOLEAN,
                     ref: {NoRef} \cup Cells]
  <1>1. Schema[t] \in Seq(Col)
    BY SchemaAssumption
  <1>2. \A c : <<t, c>> \in Cells <=> c \in Columns(t)
    BY DEF Cells
  <1>3. \A x \in Col : x.ref \in {NoRef} \cup Cells
    OBVIOUS
  <1> HIDE DEF Col
  <1>4. \A c \in Columns(t) : Schema[t][c] \in Col
    BY <1>1 DEF Columns
  <1>5. \A c \in Columns(t) : Schema[t][c].ref \in {NoRef} \cup Cells
    BY <1>4, <1>3
  <1> QED
    BY <1>1, <1>2, <1>5 DEF Columns, Refers

LEMMA CellFacts ==
    ASSUME NEW x \in Cells
    PROVE  x[1] \in Tables /\ x[2] \in Columns(x[1]) /\ x = <<x[1], x[2]>>
  BY DEF Cells

\* The first result that is not "ok".
LEMMA FirstBadFacts ==
    ASSUME NEW n \in Nat, NEW f, DOMAIN f = 1 .. n
    PROVE  \/ FirstBad(f) = "ok" /\ \A j \in 1 .. n : f[j] = "ok"
           \/ /\ FirstBad(f) # "ok"
              /\ \E j \in 1 .. n : f[j] = FirstBad(f) /\ \A i \in 1 .. j - 1 : f[i] = "ok"
  <1> DEFINE bad == {j \in DOMAIN f : f[j] # "ok"}
  <1>1. CASE bad = {}
    BY <1>1 DEF FirstBad
  <1>2. CASE bad # {}
    <2>1. Min(bad) \in bad /\ \A j \in bad : Min(bad) <= j
      BY <1>2, MinNumber
    <2>2. FirstBad(f) = f[Min(bad)]
      BY <1>2 DEF FirstBad
    <2> HIDE DEF bad
    <2>3. Min(bad) \in 1 .. n /\ f[Min(bad)] # "ok"
      BY <2>1 DEF bad
    <2>4. \A i \in 1 .. Min(bad) - 1 : i \notin bad
      BY <2>1, <2>3
    <2>5. \A i \in 1 .. Min(bad) - 1 : f[i] = "ok"
      BY <2>4, <2>3 DEF bad
    <2> QED
      BY <2>2, <2>3, <2>5
  <1> QED
    BY <1>1, <1>2

\* Faster to use where only the two outcomes matter.
LEMMA FirstBadOk ==
    ASSUME NEW n \in Nat, NEW f, DOMAIN f = 1 .. n, FirstBad(f) = "ok"
    PROVE  \A j \in 1 .. n : f[j] = "ok"
  BY FirstBadFacts

LEMMA FirstBadDies ==
    ASSUME NEW n \in Nat, NEW f, DOMAIN f = 1 .. n, FirstBad(f) = "dies"
    PROVE  \E j \in 1 .. n : f[j] = "dies" /\ \A i \in 1 .. j - 1 : f[i] = "ok"
  BY FirstBadFacts
-----------------------------------------------------------------------------
(* What it means that INSERT's checks pass, and where they may die.           *)
ColumnCheck(t, b, c) ==
    FirstBad(<<NullCheck(t, c, b), UniqueCheck(t, c, b),
               ForeignCheck(t, c, [j \in DOMAIN b |-> b[j][c]])>>)

LEMMA ColumnOk ==
    ASSUME NEW t, NEW b, NEW c, ColumnCheck(t, b, c) = "ok"
    PROVE  /\ NullCheck(t, c, b) = "ok"
           /\ UniqueCheck(t, c, b) = "ok"
           /\ ForeignCheck(t, c, [j \in DOMAIN b |-> b[j][c]]) = "ok"
  <1> DEFINE f == <<NullCheck(t, c, b), UniqueCheck(t, c, b),
                    ForeignCheck(t, c, [j \in DOMAIN b |-> b[j][c]])>>
  <1>1. DOMAIN f = 1 .. 3 /\ FirstBad(f) = "ok"
    BY DEF ColumnCheck
  <1>2. \A j \in 1 .. 3 : f[j] = "ok"
    <2> HIDE DEF f
    <2> QED
      BY <1>1, FirstBadOk
  <1>3. f[1] = "ok" /\ f[2] = "ok" /\ f[3] = "ok"
    <2> HIDE DEF f
    <2> QED
      BY <1>2
  <1> QED
    BY <1>3

LEMMA ColumnDies ==
    ASSUME NEW t, NEW b, NEW c, ColumnCheck(t, b, c) = "dies"
    PROVE  /\ NullCheck(t, c, b) = "ok"
           /\ \/ UniqueCheck(t, c, b) = "dies"
              \/ ForeignCheck(t, c, [j \in DOMAIN b |-> b[j][c]]) = "dies"
  <1> DEFINE f == <<NullCheck(t, c, b), UniqueCheck(t, c, b),
                    ForeignCheck(t, c, [j \in DOMAIN b |-> b[j][c]])>>
  <1>1. DOMAIN f = 1 .. 3 /\ FirstBad(f) = "dies"
    BY DEF ColumnCheck
  <1>2. \E j \in 1 .. 3 : f[j] = "dies" /\ \A i \in 1 .. j - 1 : f[i] = "ok"
    <2> HIDE DEF f
    <2> QED
      BY <1>1, FirstBadDies
  <1>3. f[1] # "dies"
    BY DEF NullCheck
  <1>4. f[1] = "ok" /\ (f[2] = "dies" \/ f[3] = "dies")
    <2> HIDE DEF f
    <2> QED
      BY <1>2, <1>3
  <1> QED
    BY <1>4

\* The results of the columns, with that of the key behind them.
Results(t, b) == Append([c \in Columns(t) |-> ColumnCheck(t, b, c)], KeyCheck(t, b))

LEMMA ResultsFacts ==
    ASSUME NEW t \in Tables, NEW b
    PROVE  LET n == Len(Schema[t])
           IN  /\ DOMAIN Results(t, b) = 1 .. n + 1
               /\ \A c \in 1 .. n : Results(t, b)[c] = ColumnCheck(t, b, c)
               /\ Results(t, b)[n + 1] = KeyCheck(t, b)
  <1> DEFINE n == Len(Schema[t])
             s == [c \in 1 .. n |-> ColumnCheck(t, b, c)]
             S == {ColumnCheck(t, b, c) : c \in 1 .. n} \cup {KeyCheck(t, b)}
  <1>1. n \in Nat /\ Columns(t) = 1 .. n
    BY SchemaFacts
  <1> HIDE DEF n
  <1>2. s \in Seq(S) /\ Len(s) = n /\ KeyCheck(t, b) \in S
    BY <1>1
  <1>3. Results(t, b) = Append(s, KeyCheck(t, b))
    BY <1>1 DEF Results
  <1>4. \A c \in 1 .. n : s[c] = ColumnCheck(t, b, c)
    OBVIOUS
  <1> HIDE DEF s, S
  <1>5. /\ Append(s, KeyCheck(t, b)) \in Seq(S)
        /\ Len(Append(s, KeyCheck(t, b))) = n + 1
        /\ \A i \in 1 .. n : Append(s, KeyCheck(t, b))[i] = s[i]
        /\ Append(s, KeyCheck(t, b))[n + 1] = KeyCheck(t, b)
    BY <1>2, AppendProperties
  <1> QED
    BY <1>1, <1>3, <1>4, <1>5 DEF n

LEMMA InsertChecked ==
    ASSUME NEW t \in Tables, NEW b, CheckInsertValues(t, b) = "ok"
    PROVE  /\ \A c \in Columns(t) :
                 /\ NullCheck(t, c, b) = "ok"
                 /\ UniqueCheck(t, c, b) = "ok"
                 /\ ForeignCheck(t, c, [j \in DOMAIN b |-> b[j][c]]) = "ok"
           /\ KeyCheck(t, b) = "ok"
  <1> DEFINE n == Len(Schema[t])
             f == Results(t, b)
  <1>1. n \in Nat /\ Columns(t) = 1 .. n
    BY SchemaFacts
  <1>2. /\ DOMAIN f = 1 .. n + 1
        /\ \A c \in 1 .. n : f[c] = ColumnCheck(t, b, c)
        /\ f[n + 1] = KeyCheck(t, b)
    BY ResultsFacts
  <1>3. FirstBad(f) = "ok"
    BY DEF CheckInsertValues, Results, ColumnCheck
  <1> HIDE DEF n, f
  <1>4. \A j \in 1 .. n + 1 : f[j] = "ok"
    BY <1>1, <1>2, <1>3, FirstBadOk
  <1>5. KeyCheck(t, b) = "ok" /\ \A c \in Columns(t) : ColumnCheck(t, b, c) = "ok"
    BY <1>1, <1>2, <1>4
  <1> QED
    BY <1>5, ColumnOk

LEMMA InsertDies ==
    ASSUME NEW t \in Tables, NEW b, CheckInsertValues(t, b) = "dies"
    PROVE  \/ ~IndexesUsed(t)
           \/ \E c \in Columns(t) :
                 /\ NullCheck(t, c, b) = "ok"
                 /\ \/ UniqueCheck(t, c, b) = "dies"
                    \/ ForeignCheck(t, c, [j \in DOMAIN b |-> b[j][c]]) = "dies"
  <1> DEFINE n == Len(Schema[t])
             f == Results(t, b)
  <1>1. n \in Nat /\ Columns(t) = 1 .. n
    BY SchemaFacts
  <1>2. /\ DOMAIN f = 1 .. n + 1
        /\ \A c \in 1 .. n : f[c] = ColumnCheck(t, b, c)
        /\ f[n + 1] = KeyCheck(t, b)
    BY ResultsFacts
  <1>3. SUFFICES ASSUME IndexesUsed(t)
                 PROVE  \E c \in Columns(t) : ColumnCheck(t, b, c) = "dies"
    BY ColumnDies
  <1>4. FirstBad(f) = "dies"
    BY <1>3 DEF CheckInsertValues, Results, ColumnCheck
  <1>5. KeyCheck(t, b) # "dies"
    BY DEF KeyCheck
  <1> HIDE DEF n, f
  <1>6. \E j \in 1 .. n + 1 : f[j] = "dies"
    BY <1>1, <1>2, <1>4, FirstBadDies
  <1> QED
    BY <1>1, <1>2, <1>5, <1>6

LEMMA UniqueOk ==
    ASSUME NEW t, NEW c, NEW n \in Nat, NEW b, DOMAIN b = 1 .. n,
           IsUnique(t, c), UniqueCheck(t, c, b) = "ok"
    PROVE  /\ \A j \in 1 .. n : b[j][c] # Null =>
                 \A i \in 1 .. j - 1 : b[i][c] # b[j][c]
           /\ HasIndex(t, c) => \A j \in 1 .. n : ~HasEntry(ix[t][c], b[j][c])
           /\ ~HasIndex(t, c) => \A j \in 1 .. n : b[j][c] # Null =>
                 \A s \in DOMAIN rows[t] : rows[t][s][c] # b[j][c]
  <1> DEFINE f == [j \in DOMAIN b |->
                      IF b[j][c] = Null THEN "dies"
                      ELSE IF HasEntry(ix[t][c], b[j][c]) \/ Repeats(c, b, j)
                      THEN "rejected" ELSE "ok"]
  <1>1. CASE HasIndex(t, c)
    <2>1. DOMAIN f = 1 .. n /\ FirstBad(f) = "ok"
      BY <1>1 DEF UniqueCheck
    <2>2. \A j \in 1 .. n : f[j] = "ok"
      <3> HIDE DEF f
      <3> QED
        BY <2>1, FirstBadOk
    <2>3. \A j \in 1 .. n : ~HasEntry(ix[t][c], b[j][c]) /\ ~Repeats(c, b, j)
      BY <2>2
    <2> QED
      BY <1>1, <2>3 DEF Repeats
  <1>2. CASE ~HasIndex(t, c)
    BY <1>2 DEF UniqueCheck, Repeats
  <1> QED
    BY <1>1, <1>2

LEMMA UniqueDies ==
    ASSUME NEW t, NEW c, NEW n \in Nat, NEW b, DOMAIN b = 1 .. n,
           UniqueCheck(t, c, b) = "dies"
    PROVE  /\ IsUnique(t, c)
           /\ HasIndex(t, c)
           /\ \E j \in 1 .. n : b[j][c] = Null
  <1> DEFINE f == [j \in DOMAIN b |->
                      IF b[j][c] = Null THEN "dies"
                      ELSE IF HasEntry(ix[t][c], b[j][c]) \/ Repeats(c, b, j)
                      THEN "rejected" ELSE "ok"]
  <1>1. IsUnique(t, c) /\ HasIndex(t, c)
    BY DEF UniqueCheck
  <1>2. DOMAIN f = 1 .. n /\ FirstBad(f) = "dies"
    BY <1>1 DEF UniqueCheck
  <1>3. \E j \in 1 .. n : f[j] = "dies"
    <2> HIDE DEF f
    <2> QED
      BY <1>2, FirstBadDies
  <1> QED
    BY <1>1, <1>3

LEMMA ForeignOk ==
    ASSUME NEW t, NEW c, NEW n \in Nat, NEW values, DOMAIN values = 1 .. n,
           fk[t][c] # NoTable, ForeignCheck(t, c, values) = "ok"
    PROVE  /\ IsUsed(ForeignIndex(t, c))
           /\ \A j \in 1 .. n : HasEntry(ForeignIndex(t, c), values[j])
  <1> DEFINE f == [j \in DOMAIN values |->
                      IF values[j] = Null THEN "dies"
                      ELSE IF HasEntry(ForeignIndex(t, c), values[j]) THEN "ok"
                      ELSE "rejected"]
  <1>1. IsUsed(ForeignIndex(t, c))
    BY DEF ForeignCheck
  <1>2. DOMAIN f = 1 .. n /\ FirstBad(f) = "ok"
    BY <1>1 DEF ForeignCheck
  <1>3. \A j \in 1 .. n : f[j] = "ok"
    <2> HIDE DEF f
    <2> QED
      BY <1>2, FirstBadOk
  <1> QED
    BY <1>1, <1>3

LEMMA ForeignDies ==
    ASSUME NEW t, NEW c, NEW n \in Nat, NEW values, DOMAIN values = 1 .. n,
           ForeignCheck(t, c, values) = "dies"
    PROVE  /\ fk[t][c] # NoTable
           /\ ~IsUsed(ForeignIndex(t, c)) \/ \E j \in 1 .. n : values[j] = Null
  <1> DEFINE f == [j \in DOMAIN values |->
                      IF values[j] = Null THEN "dies"
                      ELSE IF HasEntry(ForeignIndex(t, c), values[j]) THEN "ok"
                      ELSE "rejected"]
  <1>1. fk[t][c] # NoTable
    BY DEF ForeignCheck
  <1>2. SUFFICES ASSUME IsUsed(ForeignIndex(t, c))
                 PROVE  \E j \in 1 .. n : values[j] = Null
    BY <1>1
  <1>3. DOMAIN f = 1 .. n /\ FirstBad(f) = "dies"
    BY <1>1, <1>2 DEF ForeignCheck
  <1>4. \E j \in 1 .. n : f[j] = "dies"
    <2> HIDE DEF f
    <2> QED
      BY <1>3, FirstBadDies
  <1> QED
    BY <1>4
-----------------------------------------------------------------------------
(* The slots that a batch gets.                                               *)
\* A set of numbers has an element of every rank.
Upto(F, s) == {f \in F : f <= s}

LEMMA UptoFinite ==
    ASSUME NEW m \in Nat, NEW F \in SUBSET (1 .. m)
    PROVE  /\ IsFiniteSet(F) /\ Cardinality(F) \in Nat
           /\ \A s : IsFiniteSet(Upto(F, s)) /\ Cardinality(Upto(F, s)) \in Nat
  <1>1. IsFiniteSet(1 .. m)
    BY FS_Interval
  <1>2. IsFiniteSet(F)
    BY <1>1, FS_Subset
  <1>3. \A s : Upto(F, s) \in SUBSET F
    BY DEF Upto
  <1>4. \A s : IsFiniteSet(Upto(F, s))
    BY <1>2, <1>3, FS_Subset
  <1> QED
    BY <1>2, <1>4, FS_CardinalityType

LEMMA Rank ==
    ASSUME NEW m \in Nat, NEW F \in SUBSET (1 .. m), NEW j \in 1 .. Cardinality(F)
    PROVE  \E s \in F : Cardinality({f \in F : f <= s}) = j
  <1> DEFINE T == {s \in 0 .. m : Cardinality(Upto(F, s)) >= j}
  <1>1. /\ Cardinality(F) \in Nat
        /\ \A s : IsFiniteSet(Upto(F, s)) /\ Cardinality(Upto(F, s)) \in Nat
    BY UptoFinite
  <1>2. Upto(F, m) = F
    <2>1. \A f \in F : f <= m
      OBVIOUS
    <2> QED
      BY <2>1 DEF Upto
  <1>3. m \in T /\ T \in SUBSET Nat
    BY <1>1, <1>2
  <1>4. \E s \in T : \A r \in T : s <= r
    <2> HIDE DEF T
    <2> QED
      BY <1>3, LeastNumber
  <1>5. PICK s \in 0 .. m : /\ Cardinality(Upto(F, s)) >= j
                            /\ \A r \in T : s <= r
    BY <1>4
  <1>6. Upto(F, 0) = {}
    <2>1. \A f \in F : ~(f <= 0)
      OBVIOUS
    <2> QED
      BY <2>1 DEF Upto
  <1>7. Cardinality(Upto(F, 0)) = 0
    BY <1>6, FS_EmptySet
  <1>8. s # 0
    BY <1>5, <1>7
  <1>9. s - 1 \in 0 .. m /\ s - 1 \notin T
    <2> HIDE DEF T
    <2> QED
      BY <1>5, <1>8
  <1>10. Cardinality(Upto(F, s - 1)) < j
    <2>1. ~(Cardinality(Upto(F, s - 1)) >= j)
      BY <1>9
    <2> QED
      BY <1>1, <2>1
  <1>11. Upto(F, s) = IF s \in F THEN Upto(F, s - 1) \cup {s} ELSE Upto(F, s - 1)
    <2>1. \A f \in F : f <= s <=> f <= s - 1 \/ f = s
      BY <1>5
    <2>2. CASE s \in F
      BY <2>1, <2>2, <1>5 DEF Upto
    <2>3. CASE s \notin F
      BY <2>1, <2>3, <1>5 DEF Upto
    <2> QED
      BY <2>2, <2>3
  <1>12. s \notin Upto(F, s - 1)
    BY <1>5 DEF Upto
  <1> HIDE DEF T
  <1>13. s \in F
    BY <1>1, <1>5, <1>10, <1>11
  <1>14. Cardinality(Upto(F, s)) = Cardinality(Upto(F, s - 1)) + 1
    BY <1>1, <1>11, <1>12, <1>13, FS_AddElement
  <1>15. Cardinality(Upto(F, s)) = j
    BY <1>1, <1>5, <1>10, <1>14
  <1> QED
    BY <1>13, <1>15 DEF Upto

Room(t, n) == Cardinality(DOMAIN rows[t]) + n <= MaxRows

\* Each record of a batch gets a free slot, and no two the same.
LEMMA SlotFacts ==
    ASSUME NEW t, DOMAIN rows[t] \subseteq Slots, NEW n \in Nat, Room(t, n)
    PROVE  /\ \A j \in 1 .. n : SlotFor(t, j) \in Slots \ DOMAIN rows[t]
           /\ \A i, j \in 1 .. n : SlotFor(t, i) = SlotFor(t, j) => i = j
  <1> DEFINE F == Slots \ DOMAIN rows[t]
  <1>1. IsFiniteSet(Slots) /\ Cardinality(Slots) = MaxRows
    BY BoundsAssumption, FS_Interval DEF Slots
  <1>2. /\ Slots \cap DOMAIN rows[t] = DOMAIN rows[t]
        /\ Cardinality(F) = MaxRows - Cardinality(DOMAIN rows[t])
    BY <1>1, FS_Difference
  <1>3. IsFiniteSet(DOMAIN rows[t]) /\ Cardinality(DOMAIN rows[t]) \in Nat
    BY <1>1, FS_Subset, FS_CardinalityType
  <1>4. \A j \in 1 .. n : j \in 1 .. Cardinality(F)
    BY <1>2, <1>3, BoundsAssumption DEF Room
  <1>5. F \in SUBSET (1 .. MaxRows)
    BY DEF Slots
  <1>6. ASSUME NEW j \in 1 .. n
        PROVE  \E s \in F : Cardinality({f \in F : f <= s}) = j
    <2>1. MaxRows \in Nat /\ j \in 1 .. Cardinality(F)
      BY <1>4, BoundsAssumption
    <2> HIDE DEF F
    <2> QED
      BY <2>1, <1>5, Rank
  <1>7. \A j \in 1 .. n : /\ SlotFor(t, j) \in F
                          /\ Cardinality({f \in F : f <= SlotFor(t, j)}) = j
    BY <1>6 DEF SlotFor
  <1> QED
    BY <1>7

\* The rows that InsertRows adds, and their entries in index i.
New(t, b) ==
    [s \in {SlotFor(t, j) : j \in DOMAIN b} |-> b[CHOOSE j \in DOMAIN b : SlotFor(t, j) = s]]
Gained(t, b, i) == UNION {EntriesOf(t, s, New(t, b)[s], i) : s \in DOMAIN New(t, b)}

\* The new rows are the records of the batch, each in a free slot, and records
\* in different slots have different places in the batch.
LEMMA NewFacts ==
    ASSUME NEW t, DOMAIN rows[t] \subseteq Slots, NEW n \in Nat, Room(t, n),
           NEW b \in [1 .. n -> Records(t)]
    PROVE  /\ New(t, b) \in [DOMAIN New(t, b) -> Records(t)]
           /\ DOMAIN New(t, b) \subseteq Slots \ DOMAIN rows[t]
           /\ \A s \in DOMAIN New(t, b) : \E j \in 1 .. n : New(t, b)[s] = b[j]
           /\ \A r, s \in DOMAIN New(t, b) : r # s =>
                 \E i, j \in 1 .. n :
                     i < j /\ (\/ New(t, b)[r] = b[i] /\ New(t, b)[s] = b[j]
                               \/ New(t, b)[r] = b[j] /\ New(t, b)[s] = b[i])
  <1> DEFINE at(s) == CHOOSE j \in DOMAIN b : SlotFor(t, j) = s
  <1>1. DOMAIN New(t, b) = {SlotFor(t, j) : j \in 1 .. n}
    BY DEF New
  <1>2. \A s \in DOMAIN New(t, b) : New(t, b)[s] = b[at(s)]
    BY DEF New
  <1>3. \A s \in DOMAIN New(t, b) : at(s) \in 1 .. n /\ SlotFor(t, at(s)) = s
    BY <1>1
  <1> HIDE DEF at
  <1>4. \A s \in DOMAIN New(t, b) : New(t, b)[s] \in Records(t)
    BY <1>2, <1>3
  <1>5. New(t, b) = [s \in DOMAIN New(t, b) |-> New(t, b)[s]]
    BY DEF New
  <1>6. New(t, b) \in [DOMAIN New(t, b) -> Records(t)]
    BY <1>4, <1>5
  <1>7. DOMAIN New(t, b) \subseteq Slots \ DOMAIN rows[t]
    BY <1>1, SlotFacts
  <1>8. ASSUME NEW r \in DOMAIN New(t, b), NEW s \in DOMAIN New(t, b), r # s
        PROVE  \E i, j \in 1 .. n :
                   i < j /\ (\/ New(t, b)[r] = b[i] /\ New(t, b)[s] = b[j]
                             \/ New(t, b)[r] = b[j] /\ New(t, b)[s] = b[i])
    <2>1. at(r) < at(s) \/ at(s) < at(r)
      BY <1>3, <1>8
    <2>2. New(t, b)[r] = b[at(r)] /\ New(t, b)[s] = b[at(s)]
      BY <1>2
    <2>3. at(r) \in 1 .. n /\ at(s) \in 1 .. n
      BY <1>3
    <2> QED
      BY <2>1, <2>2, <2>3
  <1> QED
    BY <1>2, <1>3, <1>6, <1>7, <1>8

\* The two ends of InsertRows.
Collides(t, b) ==
    \/ \E j \in DOMAIN b : Doubled(t, b[j])
    \/ \E i \in IndexIds : Gained(t, b, i) \cap indexes[i].entries # {}

LEMMA InsertRowsEffect ==
    ASSUME NEW t, NEW b, InsertRows(t, b)
    PROVE  IF Collides(t, b)
           THEN alive' = FALSE /\ UNCHANGED <<rows, indexes>>
           ELSE /\ rows' = [rows EXCEPT ![t] = Extended(@, New(t, b))]
                /\ indexes' = [i \in IndexIds |->
                       [indexes[i] EXCEPT !.entries = @ \cup Gained(t, b, i)]]
                /\ UNCHANGED alive
  BY DEF InsertRows, Collides, Gained, New
-----------------------------------------------------------------------------
(* Indexes that are in step.                                                  *)
RowEntries(t, c) ==
    {<<rows[t][s][c], Rid(t, s)>> : s \in {q \in DOMAIN rows[t] : rows[t][q][c] # Null}}

IndexRight(t, c) ==
    /\ IsUsed(ix[t][c])
    /\ Named(ix[t][c]) = {<<t, c>>}
    /\ indexes[ix[t][c]].entries = RowEntries(t, c)

LEMMA IndexMatchesRowsAs ==
    IndexMatchesRows <=> \A t \in Range(order) : \A c \in Columns(t) :
                            HasIndex(t, c) /\ <<t, c>> \notin stale => IndexRight(t, c)
  BY DEF IndexMatchesRows, IndexRight, RowEntries

LEMMA IndexMatchesRowsNext ==
    IndexMatchesRows' <=> (\A t \in Range(order) : \A c \in Columns(t) :
                              HasIndex(t, c) /\ <<t, c>> \notin stale => IndexRight(t, c))'
  BY DEF IndexMatchesRows, IndexRight, RowEntries, Range

\* The types that the steps need.
LEMMA Types ==
    ASSUME IInv
    PROVE  /\ Range(order) \subseteq Tables
           /\ \A t \in Tables :
                 /\ DOMAIN rows[t] \subseteq Slots
                 /\ rows[t] \in [DOMAIN rows[t] -> Records(t)]
                 /\ \A s \in DOMAIN rows[t] : rows[t][s] \in Records(t)
                 /\ ix[t] \in [Columns(t) -> IndexIds \cup {NoIndex}]
                 /\ fk[t] \in [Columns(t) -> {NoTable} \cup (0 .. Cardinality(Tables) - 1)]
           /\ indexes \in [IndexIds -> [used : BOOLEAN,
                           entries : SUBSET (Data \X (Tables \X Slots))]]
  BY DEF IInv, Shapes, TypeOK

\* An index that one column names gets the entries of that column only.
LEMMA SoleEntries ==
    ASSUME NEW t \in Tables, NEW c \in Columns(t), NEW i, Named(i) = {<<t, c>>}
    PROVE  /\ \A s, r : EntriesOf(t, s, r, i) = {e \in {<<r[c], Rid(t, s)>>} : r[c] # Null}
           /\ \A u \in Tables \ {t} : \A s, r : EntriesOf(u, s, r, i) = {}
  <1>1. \A u \in Tables : \A d \in Columns(u) : ix[u][d] = i => u = t /\ d = c
    <2> SUFFICES ASSUME NEW u \in Tables, NEW d \in Columns(u), ix[u][d] = i
                 PROVE  u = t /\ d = c
      OBVIOUS
    <2>1. <<u, d>> \in Cells
      BY SchemaFacts
    <2>2. <<u, d>> \in Named(i)
      BY <2>1 DEF Named
    <2> QED
      BY <2>2
  <1>2. ix[t][c] = i
    <2>1. <<t, c>> \in {x \in Cells : ix[x[1]][x[2]] = i}
      BY DEF Named
    <2> QED
      BY <2>1
  <1>3. ASSUME NEW s, NEW r
        PROVE  EntriesOf(t, s, r, i) = {e \in {<<r[c], Rid(t, s)>>} : r[c] # Null}
    <2>1. {d \in Columns(t) : ix[t][d] = i /\ r[d] # Null}
            = {d \in {c} : r[c] # Null}
      BY <1>1, <1>2
    <2> QED
      BY <2>1 DEF EntriesOf
  <1>4. ASSUME NEW u \in Tables \ {t}, NEW s, NEW r
        PROVE  EntriesOf(u, s, r, i) = {}
    <2>1. {d \in Columns(u) : ix[u][d] = i /\ r[d] # Null} = {}
      BY <1>1
    <2> QED
      BY <2>1 DEF EntriesOf
  <1> QED
    BY <1>3, <1>4

LEMMA SoleGained ==
    ASSUME NEW t \in Tables, NEW c \in Columns(t), NEW i, Named(i) = {<<t, c>>}, NEW b
    PROVE  /\ \A e : e \in Gained(t, b, i) <=>
                 \E s \in DOMAIN New(t, b) : /\ New(t, b)[s][c] # Null
                                             /\ e = <<New(t, b)[s][c], Rid(t, s)>>
           /\ \A u \in Tables \ {t} : Gained(u, b, i) = {}
  <1>1. \A s : EntriesOf(t, s, New(t, b)[s], i)
                  = {e \in {<<New(t, b)[s][c], Rid(t, s)>>} : New(t, b)[s][c] # Null}
    BY SoleEntries
  <1>2. \A u \in Tables \ {t} : \A s : EntriesOf(u, s, New(u, b)[s], i) = {}
    BY SoleEntries
  <1>3. ASSUME NEW e
        PROVE  e \in Gained(t, b, i) <=>
                  \E s \in DOMAIN New(t, b) : New(t, b)[s][c] # Null /\ e = <<New(t, b)[s][c], Rid(t, s)>>
    <2>1. e \in Gained(t, b, i) <=> \E s \in DOMAIN New(t, b) : e \in EntriesOf(t, s, New(t, b)[s], i)
      BY DEF Gained
    <2>2. \A s : e \in EntriesOf(t, s, New(t, b)[s], i)
                   <=> New(t, b)[s][c] # Null /\ e = <<New(t, b)[s][c], Rid(t, s)>>
      BY <1>1
    <2> QED
      BY <2>1, <2>2, Zenon
  <1>4. ASSUME NEW u \in Tables \ {t}
        PROVE  Gained(u, b, i) = {}
    <2>1. \A s \in DOMAIN New(u, b) : EntriesOf(u, s, New(u, b)[s], i) = {}
      BY <1>2
    <2> QED
      BY <2>1 DEF Gained
  <1> QED
    BY <1>3, <1>4, Zenon

LEMMA SoleLost ==
    ASSUME NEW t \in Tables, NEW c \in Columns(t), NEW i, Named(i) = {<<t, c>>}, NEW gone
    PROVE  /\ \A e : e \in Lost(t, gone, i) <=>
                 \E s \in gone : /\ rows[t][s][c] # Null
                                 /\ e = <<rows[t][s][c], Rid(t, s)>>
           /\ \A u \in Tables \ {t} : Lost(u, gone, i) = {}
  <1>1. \A s : EntriesOf(t, s, rows[t][s], i)
                  = {e \in {<<rows[t][s][c], Rid(t, s)>>} : rows[t][s][c] # Null}
    BY SoleEntries
  <1>2. \A u \in Tables \ {t} : \A s : EntriesOf(u, s, rows[u][s], i) = {}
    BY SoleEntries
  <1>3. ASSUME NEW e
        PROVE  e \in Lost(t, gone, i) <=>
                  \E s \in gone : rows[t][s][c] # Null /\ e = <<rows[t][s][c], Rid(t, s)>>
    <2>1. e \in Lost(t, gone, i) <=> \E s \in gone : e \in EntriesOf(t, s, rows[t][s], i)
      BY DEF Lost
    <2>2. \A s : e \in EntriesOf(t, s, rows[t][s], i)
                   <=> rows[t][s][c] # Null /\ e = <<rows[t][s][c], Rid(t, s)>>
      BY <1>1
    <2> QED
      BY <2>1, <2>2, Zenon
  <1>4. ASSUME NEW u \in Tables \ {t}
        PROVE  Lost(u, gone, i) = {}
    <2>1. \A s \in gone : EntriesOf(u, s, rows[u][s], i) = {}
      BY <1>2
    <2> QED
      BY <2>1 DEF Lost
  <1> QED
    BY <1>3, <1>4, Zenon

\* Entries are data with the RIDs of slots.
LEMMA EntryTypes ==
    ASSUME NEW t \in Tables, NEW i, NEW s \in Slots, NEW r \in Records(t)
    PROVE  EntriesOf(t, s, r, i) \subseteq Data \X (Tables \X Slots)
  <1>1. \A d \in Columns(t) : r[d] # Null => r[d] \in Data
    BY DEF Records
  <1> QED
    BY <1>1 DEF EntriesOf, Rid

\* A column that a step does not touch stays in step.
LEMMA Untouched ==
    ASSUME NEW t, NEW c, IndexRight(t, c),
           ix'[t][c] = ix[t][c], rows'[t] = rows[t],
           Named(ix[t][c])' = Named(ix[t][c]),
           indexes'[ix[t][c]] = indexes[ix[t][c]]
    PROVE  IndexRight(t, c)'
  BY DEF IndexRight, IsUsed, RowEntries, Rid

\* Columns that name an index, when no ix changes.
LEMMA NamedStays ==
    ASSUME UNCHANGED ix
    PROVE  \A i : Named(i)' = Named(i)
  BY DEF Named
-----------------------------------------------------------------------------
(* A step that ends the process, or that only marks pages.                    *)
LEMMA DataStays ==
    ASSUME IInv, UNCHANGED <<order, id, rows, ix, fk, indexes, stale>>,
           dirty' \subseteq Tables, unsaved' \subseteq Cells, alive' \in BOOLEAN
    PROVE  IInv'
  <1>1. Shapes' /\ Absent' /\ Linked' /\ TypeOK'
    BY DEF IInv, Shapes, Absent, Linked, TypeOK, HasIndex
  <1>2. \A i : Named(i)' = Named(i)
    BY NamedStays
  <1>3. IndexMatchesRows'
    BY <1>2 DEF IInv, IndexMatchesRows, HasIndex, IsUsed, Rid
  <1>4. KeysUnique'
    BY DEF IInv, KeysUnique, UniqueIn
  <1> QED
    BY <1>1, <1>3, <1>4 DEF IInv

LEMMA DieStep ==
    ASSUME IInv, Die
    PROVE  IInv'
  BY DataStays DEF Die, IInv, TypeOK
-----------------------------------------------------------------------------
(* INSERT.                                                                    *)
\* The table after a batch that collides with nothing.
LEMMA InsertedRows ==
    ASSUME IInv, NEW t \in Tables, NEW n \in Nat, Room(t, n),
           NEW b \in [1 .. n -> Records(t)],
           rows' = [rows EXCEPT ![t] = Extended(@, New(t, b))]
    PROVE  /\ DOMAIN rows' = Tables
           /\ \A u \in Tables \ {t} : rows'[u] = rows[u]
           /\ DOMAIN rows'[t] = DOMAIN rows[t] \cup DOMAIN New(t, b)
           /\ DOMAIN rows[t] \cap DOMAIN New(t, b) = {}
           /\ \A s \in DOMAIN rows[t] : rows'[t][s] = rows[t][s]
           /\ \A s \in DOMAIN New(t, b) : rows'[t][s] = New(t, b)[s]
           /\ DOMAIN rows'[t] \subseteq Slots
           /\ rows'[t] \in [DOMAIN rows'[t] -> Records(t)]
  <1>1. DOMAIN rows = Tables
    BY DEF IInv, Shapes
  <1>2. DOMAIN rows[t] \subseteq Slots /\ \A s \in DOMAIN rows[t] : rows[t][s] \in Records(t)
    BY Types
  <1>3. /\ New(t, b) \in [DOMAIN New(t, b) -> Records(t)]
        /\ DOMAIN New(t, b) \subseteq Slots \ DOMAIN rows[t]
    BY <1>2, NewFacts
  <1>4. rows'[t] = [s \in DOMAIN rows[t] \cup DOMAIN New(t, b) |->
                       IF s \in DOMAIN New(t, b) THEN New(t, b)[s] ELSE rows[t][s]]
    BY <1>1 DEF Extended
  <1>5. /\ DOMAIN rows'[t] = DOMAIN rows[t] \cup DOMAIN New(t, b)
        /\ \A s \in DOMAIN rows[t] : rows'[t][s] = rows[t][s]
        /\ \A s \in DOMAIN New(t, b) : rows'[t][s] = New(t, b)[s]
    BY <1>3, <1>4
  <1>6. \A s \in DOMAIN rows'[t] : rows'[t][s] \in Records(t)
    BY <1>2, <1>3, <1>5
  <1>7. rows'[t] = [s \in DOMAIN rows'[t] |-> rows'[t][s]]
    BY <1>4
  <1>8. rows'[t] \in [DOMAIN rows'[t] -> Records(t)]
    BY <1>6, <1>7
  <1>9. DOMAIN rows' = Tables /\ \A u \in Tables \ {t} : rows'[u] = rows[u]
    BY <1>1
  <1> QED
    BY <1>2, <1>3, <1>5, <1>8, <1>9

\* The indexes after it.
LEMMA InsertedEntries ==
    ASSUME IInv, NEW t \in Tables, NEW n \in Nat, Room(t, n),
           NEW b \in [1 .. n -> Records(t)],
           indexes' = [i \in IndexIds |->
                          [indexes[i] EXCEPT !.entries = @ \cup Gained(t, b, i)]]
    PROVE  /\ \A i \in IndexIds : /\ indexes'[i].used = indexes[i].used
                                  /\ indexes'[i].entries
                                        = indexes[i].entries \cup Gained(t, b, i)
           /\ indexes' \in [IndexIds -> [used : BOOLEAN,
                            entries : SUBSET (Data \X (Tables \X Slots))]]
  <1> DEFINE E == Data \X (Tables \X Slots)
  <1>1. indexes \in [IndexIds -> [used : BOOLEAN, entries : SUBSET E]]
    BY Types
  <1>2. /\ \A s \in DOMAIN New(t, b) : New(t, b)[s] \in Records(t)
        /\ DOMAIN New(t, b) \subseteq Slots
    BY Types, NewFacts
  <1>3. \A i : \A s \in DOMAIN New(t, b) : EntriesOf(t, s, New(t, b)[s], i) \subseteq E
    BY <1>2, EntryTypes
  <1>4. \A i : Gained(t, b, i) \subseteq E
    BY <1>3 DEF Gained
  <1> HIDE DEF E
  <1>5. \A i \in IndexIds :
           /\ indexes'[i].used = indexes[i].used
           /\ indexes'[i].entries = indexes[i].entries \cup Gained(t, b, i)
           /\ indexes'[i] \in [used : BOOLEAN, entries : SUBSET E]
    BY <1>1, <1>4
  <1>6. indexes' \in [IndexIds -> [used : BOOLEAN, entries : SUBSET E]]
    BY <1>5
  <1> QED
    BY <1>5, <1>6 DEF E

\* What an INSERT does that goes through.
Inserted(t, n, b) ==
    /\ Exists(t) /\ Room(t, n)
    /\ CheckInsertValues(t, b) = "ok"
    /\ rows' = [rows EXCEPT ![t] = Extended(@, New(t, b))]
    /\ indexes' = [i \in IndexIds |->
                      [indexes[i] EXCEPT !.entries = @ \cup Gained(t, b, i)]]
    /\ dirty'   = dirty \cup {t}
    /\ unsaved' = unsaved \ CellsOf(t)
    /\ UNCHANGED <<order, id, ix, fk, alive, stale>>

LEMMA InsertCases ==
    ASSUME NEW t, NEW b \in Batches(t), Insert(t, b)
    PROVE  \E n \in Nat :
              /\ b \in [1 .. n -> Records(t)] /\ Room(t, n) /\ alive /\ Exists(t)
              /\ \/ CheckInsertValues(t, b) = "dies" /\ Die
                 \/ /\ Collides(t, b) /\ CheckInsertValues(t, b) = "ok"
                    /\ alive' = FALSE
                    /\ dirty' = dirty \cup {t} /\ unsaved' = unsaved \ CellsOf(t)
                    /\ UNCHANGED <<order, id, rows, ix, fk, indexes, stale>>
                 \/ ~Collides(t, b) /\ Inserted(t, n, b)
  <1>1. PICK n \in 1 .. MaxBatch : b \in [1 .. n -> Records(t)]
    BY DEF Batches
  <1>2. n \in Nat /\ Len(b) = n
    BY <1>1, BoundsAssumption
  <1>3. Room(t, n) /\ alive /\ Exists(t)
    BY <1>2 DEF Insert, Room
  <1>4. CASE CheckInsertValues(t, b) = "dies" /\ Die
    BY <1>1, <1>2, <1>3, <1>4
  <1>5. CASE /\ CheckInsertValues(t, b) = "ok"
             /\ InsertRows(t, b)
             /\ dirty'   = dirty \cup {t}
             /\ unsaved' = unsaved \ CellsOf(t)
             /\ UNCHANGED <<order, id, ix, fk, stale>>
    <2>1. CASE Collides(t, b)
      BY <1>1, <1>2, <1>3, <1>5, <2>1, InsertRowsEffect
    <2>2. CASE ~Collides(t, b)
      <3>1. Inserted(t, n, b)
        BY <1>3, <1>5, <2>2, InsertRowsEffect DEF Inserted
      <3> QED
        BY <1>1, <1>2, <1>3, <2>2, <3>1
    <2> QED
      BY <2>1, <2>2
  <1> QED
    BY <1>4, <1>5 DEF Insert
LEMMA InsertedTypes ==
    ASSUME IInv, NEW t \in Tables, NEW n \in Nat, NEW b \in [1 .. n -> Records(t)],
           Inserted(t, n, b)
    PROVE  Shapes' /\ TypeOK' /\ Absent' /\ Linked'
  <1>1. /\ DOMAIN rows' = Tables
        /\ \A u \in Tables \ {t} : rows'[u] = rows[u]
        /\ DOMAIN rows'[t] \subseteq Slots
        /\ rows'[t] \in [DOMAIN rows'[t] -> Records(t)]
    BY InsertedRows DEF Inserted
  <1>2. \A u \in Tables : /\ DOMAIN rows'[u] \subseteq Slots
                          /\ rows'[u] \in [DOMAIN rows'[u] -> Records(u)]
    BY <1>1, Types
  <1>3. \A u \in Tables : Range(rows'[u]) \subseteq Records(u)
    BY <1>2 DEF Range
  <1>4. indexes' \in [IndexIds -> [used : BOOLEAN,
                      entries : SUBSET (Data \X (Tables \X Slots))]]
    BY InsertedEntries DEF Inserted
  <1>5. UNCHANGED <<order, id, ix, fk, alive, stale>>
    BY DEF Inserted
  <1>6. dirty' \subseteq Tables /\ unsaved' \subseteq Cells
    BY DEF Inserted, IInv, TypeOK
  <1>7. Shapes'
    BY <1>1, <1>2, <1>5 DEF IInv, Shapes
  <1>8. TypeOK'
    BY <1>2, <1>3, <1>4, <1>5, <1>6 DEF IInv, TypeOK
  <1>9. Absent'
    BY <1>1, <1>5 DEF IInv, Absent, Inserted, Exists, HasIndex
  <1>10. Linked'
    BY <1>5 DEF IInv, Linked, Refers
  <1> QED
    BY <1>7, <1>8, <1>9, <1>10

LEMMA InsertedIndexes ==
    ASSUME IInv, NEW t \in Tables, NEW n \in Nat, NEW b \in [1 .. n -> Records(t)],
           Inserted(t, n, b)
    PROVE  IndexMatchesRows'
  <1>1. UNCHANGED <<order, ix, stale>>
    BY DEF Inserted
  <1>2. SUFFICES ASSUME NEW u \in Range(order), NEW c \in Columns(u),
                        HasIndex(u, c), IndexRight(u, c)
                 PROVE  IndexRight(u, c)'
    BY <1>1, IndexMatchesRowsAs, IndexMatchesRowsNext DEF IInv, HasIndex
  <1> DEFINE i == ix[u][c]
  <1>3. u \in Tables /\ i \in IndexIds
    BY <1>2, Types DEF HasIndex
  <1>4. ix'[u][c] = i /\ Named(i)' = Named(i) /\ Named(i) = {<<u, c>>}
    BY <1>1, <1>2, NamedStays DEF IndexRight
  <1>5. /\ indexes'[i].used = indexes[i].used
        /\ indexes'[i].entries = indexes[i].entries \cup Gained(t, b, i)
    BY <1>3, InsertedEntries DEF Inserted
  <1>6. i # NoIndex /\ indexes[i].used /\ indexes[i].entries = RowEntries(u, c)
    BY <1>2 DEF IndexRight, IsUsed
  <1>7. SUFFICES indexes'[i].entries = RowEntries(u, c)'
    BY <1>4, <1>5, <1>6 DEF IndexRight, IsUsed
  <1> HIDE DEF i
  <1>8. CASE u # t
    <2>1. Gained(t, b, i) = {}
      BY <1>3, <1>4, <1>8, SoleGained
    <2>2. rows'[u] = rows[u]
      BY <1>3, <1>8, InsertedRows DEF Inserted
    <2>3. RowEntries(u, c)' = RowEntries(u, c)
      BY <2>2 DEF RowEntries, Rid
    <2> QED
      BY <1>5, <1>6, <2>1, <2>3
  <1>9. CASE u = t
    <2>1. /\ DOMAIN rows'[t] = DOMAIN rows[t] \cup DOMAIN New(t, b)
          /\ \A s \in DOMAIN rows[t] : rows'[t][s] = rows[t][s]
          /\ \A s \in DOMAIN New(t, b) : rows'[t][s] = New(t, b)[s]
      BY InsertedRows DEF Inserted
    <2>2. ASSUME NEW e
          PROVE  e \in Gained(t, b, i) <=>
                   \E s \in DOMAIN New(t, b) : /\ New(t, b)[s][c] # Null
                                               /\ e = <<New(t, b)[s][c], Rid(t, s)>>
      BY <1>3, <1>4, <1>9, SoleGained
    <2>3. ASSUME NEW e
          PROVE  e \in RowEntries(t, c) <=>
                   \E s \in DOMAIN rows[t] : /\ rows[t][s][c] # Null
                                             /\ e = <<rows[t][s][c], Rid(t, s)>>
      BY DEF RowEntries
    <2>4. ASSUME NEW e
          PROVE  e \in RowEntries(t, c)' <=>
                   \E s \in DOMAIN rows'[t] : /\ rows'[t][s][c] # Null
                                              /\ e = <<rows'[t][s][c], Rid(t, s)>>
      BY DEF RowEntries, Rid
    <2>5. ASSUME NEW e
          PROVE  e \in RowEntries(t, c)' <=> e \in RowEntries(t, c) \cup Gained(t, b, i)
      BY <2>1, <2>2, <2>3, <2>4
    <2> QED
      BY <1>5, <1>6, <1>9, <2>5
  <1> QED
    BY <1>8, <1>9

LEMMA InsertedKeys ==
    ASSUME IInv, NEW t \in Tables, NEW n \in Nat, NEW b \in [1 .. n -> Records(t)],
           Inserted(t, n, b)
    PROVE  KeysUnique'
  <1>1. UNCHANGED <<order, ix, stale>> /\ CheckInsertValues(t, b) = "ok"
    BY DEF Inserted
  <1>2. SUFFICES ASSUME NEW u \in Range(order), NEW c \in Columns(u),
                        IsUnique(u, c), <<u, c>> \notin stale, UniqueIn(u, c)
                 PROVE  UniqueIn(u, c)'
    BY <1>1 DEF IInv, KeysUnique, IsUnique
  <1>3. CASE u # t
    <2>1. rows'[u] = rows[u]
      BY <1>3, Types, InsertedRows DEF Inserted
    <2> QED
      BY <1>2, <2>1 DEF UniqueIn
  <1>4. CASE u = t
    <2>1. /\ DOMAIN rows'[t] = DOMAIN rows[t] \cup DOMAIN New(t, b)
          /\ \A s \in DOMAIN rows[t] : rows'[t][s] = rows[t][s]
          /\ \A s \in DOMAIN New(t, b) : rows'[t][s] = New(t, b)[s]
      BY InsertedRows DEF Inserted
    <2>2. c \in Columns(t) /\ UniqueCheck(t, c, b) = "ok" /\ DOMAIN b = 1 .. n
      BY <1>1, <1>2, <1>4, InsertChecked
    <2>3. /\ \A j \in 1 .. n : b[j][c] # Null => \A i \in 1 .. j - 1 : b[i][c] # b[j][c]
          /\ HasIndex(t, c) => \A j \in 1 .. n : ~HasEntry(ix[t][c], b[j][c])
          /\ ~HasIndex(t, c) => \A j \in 1 .. n : b[j][c] # Null =>
                \A s \in DOMAIN rows[t] : rows[t][s][c] # b[j][c]
      BY <1>2, <1>4, <2>2, UniqueOk
    <2>4. ASSUME NEW j \in 1 .. n, NEW s \in DOMAIN rows[t], b[j][c] # Null
          PROVE  rows[t][s][c] # b[j][c]
      <3>1. CASE ~HasIndex(t, c)
        BY <2>3, <2>4, <3>1
      <3>2. CASE HasIndex(t, c) /\ rows[t][s][c] # Null
        <4>1. indexes[ix[t][c]].entries = RowEntries(t, c)
          BY <1>2, <1>4, <3>2, IndexMatchesRowsAs DEF IInv, IndexRight
        <4>2. <<rows[t][s][c], Rid(t, s)>> \in RowEntries(t, c)
          BY <3>2 DEF RowEntries
        <4>3. HasEntry(ix[t][c], rows[t][s][c])
          BY <4>1, <4>2 DEF HasEntry
        <4> QED
          BY <2>3, <3>2, <4>3
      <3> QED
        BY <2>4, <3>1, <3>2
    <2>5. DOMAIN rows[t] \subseteq Slots /\ Room(t, n)
      BY Types DEF Inserted
    <2>6. \A s \in DOMAIN New(t, b) : \E j \in 1 .. n : New(t, b)[s] = b[j]
      BY <2>5, NewFacts
    <2>7. \A r, s \in DOMAIN New(t, b) : r # s =>
             \E i, j \in 1 .. n :
                 i < j /\ (\/ New(t, b)[r] = b[i] /\ New(t, b)[s] = b[j]
                           \/ New(t, b)[r] = b[j] /\ New(t, b)[s] = b[i])
      BY <2>5, NewFacts
    <2>8. ASSUME NEW r \in DOMAIN New(t, b), NEW s \in DOMAIN New(t, b), r # s,
                 New(t, b)[r][c] = New(t, b)[s][c]
          PROVE  New(t, b)[r][c] = Null
      <3>1. PICK i \in 1 .. n, j \in 1 .. n :
                i < j /\ (\/ New(t, b)[r] = b[i] /\ New(t, b)[s] = b[j]
                          \/ New(t, b)[r] = b[j] /\ New(t, b)[s] = b[i])
        BY <2>8, <2>7, Zenon
      <3>2. b[i][c] = b[j][c] /\ New(t, b)[r][c] = b[j][c] /\ i \in 1 .. j - 1
        BY <2>8, <3>1
      <3> QED
        BY <2>3, <3>2
    <2>9. ASSUME NEW r \in DOMAIN rows'[t], NEW s \in DOMAIN rows'[t], r # s,
                 rows'[t][r][c] = rows'[t][s][c]
          PROVE  rows'[t][r][c] = Null
      <3>1. CASE r \in DOMAIN rows[t] /\ s \in DOMAIN rows[t]
        BY <1>2, <1>4, <2>1, <2>9, <3>1 DEF UniqueIn
      <3>2. CASE r \in DOMAIN rows[t] /\ s \in DOMAIN New(t, b)
        BY <2>1, <2>4, <2>6, <2>9, <3>2
      <3>3. CASE r \in DOMAIN New(t, b) /\ s \in DOMAIN rows[t]
        BY <2>1, <2>4, <2>6, <2>9, <3>3
      <3>4. CASE r \in DOMAIN New(t, b) /\ s \in DOMAIN New(t, b)
        BY <2>1, <2>8, <2>9, <3>4
      <3> QED
        BY <2>1, <3>1, <3>2, <3>3, <3>4
    <2> QED
      BY <1>4, <2>9 DEF UniqueIn
  <1> QED
    BY <1>3, <1>4

LEMMA InsertStep ==
    ASSUME IInv, NEW t \in Tables, NEW b \in Batches(t), Insert(t, b)
    PROVE  IInv'
  <1>1. PICK n \in Nat :
           /\ b \in [1 .. n -> Records(t)]
           /\ \/ Die
              \/ /\ alive' = FALSE
                 /\ dirty' = dirty \cup {t} /\ unsaved' = unsaved \ CellsOf(t)
                 /\ UNCHANGED <<order, id, rows, ix, fk, indexes, stale>>
              \/ Inserted(t, n, b)
    BY InsertCases
  <1>2. CASE Die
    BY <1>2, DieStep
  <1>3. CASE /\ alive' = FALSE
             /\ dirty' = dirty \cup {t} /\ unsaved' = unsaved \ CellsOf(t)
             /\ UNCHANGED <<order, id, rows, ix, fk, indexes, stale>>
    BY <1>3, DataStays DEF IInv, TypeOK
  <1>4. CASE Inserted(t, n, b)
    BY <1>1, <1>4, InsertedTypes, InsertedIndexes, InsertedKeys DEF IInv
  <1> QED
    BY <1>1, <1>2, <1>3, <1>4
-----------------------------------------------------------------------------
(* DELETE and UPDATE.                                                         *)
Deleted(t, gone) ==
    /\ Exists(t) /\ gone \subseteq DOMAIN rows[t]
    /\ rows'    = [rows EXCEPT ![t] = Restrict(@, DOMAIN @ \ gone)]
    /\ indexes' = [i \in IndexIds |-> [indexes[i] EXCEPT !.entries = @ \ Lost(t, gone, i)]]
    /\ dirty'   = dirty \cup {t}
    /\ unsaved' = unsaved \ CellsOf(t)
    /\ UNCHANGED <<order, id, ix, fk, alive, stale>>

LEMMA DeletedRows ==
    ASSUME IInv, NEW t \in Tables, NEW gone, Deleted(t, gone)
    PROVE  /\ DOMAIN rows' = Tables
           /\ \A u \in Tables \ {t} : rows'[u] = rows[u]
           /\ DOMAIN rows'[t] = DOMAIN rows[t] \ gone
           /\ \A s \in DOMAIN rows'[t] : rows'[t][s] = rows[t][s]
           /\ rows'[t] \in [DOMAIN rows'[t] -> Records(t)]
  <1>1. DOMAIN rows = Tables
    BY DEF IInv, Shapes
  <1>2. rows'[t] = [s \in DOMAIN rows[t] \ gone |-> rows[t][s]]
    BY <1>1 DEF Deleted, Restrict
  <1>3. /\ DOMAIN rows'[t] = DOMAIN rows[t] \ gone
        /\ \A s \in DOMAIN rows'[t] : rows'[t][s] = rows[t][s]
    BY <1>2
  <1>4. \A s \in DOMAIN rows[t] : rows[t][s] \in Records(t)
    BY Types
  <1>5. rows'[t] \in [DOMAIN rows'[t] -> Records(t)]
    BY <1>2, <1>3, <1>4
  <1>6. DOMAIN rows' = Tables /\ \A u \in Tables \ {t} : rows'[u] = rows[u]
    BY <1>1 DEF Deleted
  <1> QED
    BY <1>3, <1>5, <1>6

LEMMA DeletedEntries ==
    ASSUME IInv, NEW t \in Tables, NEW gone, Deleted(t, gone)
    PROVE  /\ \A i \in IndexIds : /\ indexes'[i].used = indexes[i].used
                                  /\ indexes'[i].entries
                                        = indexes[i].entries \ Lost(t, gone, i)
           /\ indexes' \in [IndexIds -> [used : BOOLEAN,
                            entries : SUBSET (Data \X (Tables \X Slots))]]
  <1> DEFINE E == Data \X (Tables \X Slots)
  <1>1. indexes \in [IndexIds -> [used : BOOLEAN, entries : SUBSET E]]
    BY Types
  <1> HIDE DEF E
  <1>2. \A i \in IndexIds :
           /\ indexes'[i].used = indexes[i].used
           /\ indexes'[i].entries = indexes[i].entries \ Lost(t, gone, i)
           /\ indexes'[i] \in [used : BOOLEAN, entries : SUBSET E]
    BY <1>1 DEF Deleted
  <1>3. indexes' \in [IndexIds -> [used : BOOLEAN, entries : SUBSET E]]
    BY <1>2 DEF Deleted
  <1> QED
    BY <1>2, <1>3 DEF E

LEMMA DeletedTypes ==
    ASSUME IInv, NEW t \in Tables, NEW gone, Deleted(t, gone)
    PROVE  Shapes' /\ TypeOK' /\ Absent' /\ Linked'
  <1>1. /\ DOMAIN rows' = Tables
        /\ \A u \in Tables \ {t} : rows'[u] = rows[u]
        /\ DOMAIN rows'[t] \subseteq DOMAIN rows[t]
        /\ rows'[t] \in [DOMAIN rows'[t] -> Records(t)]
    BY DeletedRows
  <1>2. \A u \in Tables : /\ DOMAIN rows'[u] \subseteq Slots
                          /\ rows'[u] \in [DOMAIN rows'[u] -> Records(u)]
    BY <1>1, Types
  <1>3. \A u \in Tables : Range(rows'[u]) \subseteq Records(u)
    BY <1>2 DEF Range
  <1>4. indexes' \in [IndexIds -> [used : BOOLEAN,
                      entries : SUBSET (Data \X (Tables \X Slots))]]
    BY DeletedEntries
  <1>5. UNCHANGED <<order, id, ix, fk, alive, stale>>
    BY DEF Deleted
  <1>6. dirty' \subseteq Tables /\ unsaved' \subseteq Cells
    BY DEF Deleted, IInv, TypeOK
  <1>7. Shapes'
    BY <1>1, <1>2, <1>5 DEF IInv, Shapes
  <1>8. TypeOK'
    BY <1>2, <1>3, <1>4, <1>5, <1>6 DEF IInv, TypeOK
  <1>9. Absent'
    BY <1>1, <1>5 DEF IInv, Absent, Deleted, Exists, HasIndex
  <1>10. Linked'
    BY <1>5 DEF IInv, Linked, Refers
  <1> QED
    BY <1>7, <1>8, <1>9, <1>10

LEMMA DeletedIndexes ==
    ASSUME IInv, NEW t \in Tables, NEW gone, Deleted(t, gone)
    PROVE  IndexMatchesRows'
  <1>1. UNCHANGED <<order, ix, stale>> /\ gone \subseteq DOMAIN rows[t]
    BY DEF Deleted
  <1>2. SUFFICES ASSUME NEW u \in Range(order), NEW c \in Columns(u),
                        HasIndex(u, c), IndexRight(u, c)
                 PROVE  IndexRight(u, c)'
    BY <1>1, IndexMatchesRowsAs, IndexMatchesRowsNext DEF IInv, HasIndex
  <1> DEFINE i == ix[u][c]
  <1>3. u \in Tables /\ i \in IndexIds
    BY <1>2, Types DEF HasIndex
  <1>4. ix'[u][c] = i /\ Named(i)' = Named(i) /\ Named(i) = {<<u, c>>}
    BY <1>1, <1>2, NamedStays DEF IndexRight
  <1>5. /\ indexes'[i].used = indexes[i].used
        /\ indexes'[i].entries = indexes[i].entries \ Lost(t, gone, i)
    BY <1>3, DeletedEntries
  <1>6. i # NoIndex /\ indexes[i].used /\ indexes[i].entries = RowEntries(u, c)
    BY <1>2 DEF IndexRight, IsUsed
  <1>7. SUFFICES indexes'[i].entries = RowEntries(u, c)'
    BY <1>4, <1>5, <1>6 DEF IndexRight, IsUsed
  <1> HIDE DEF i
  <1>8. CASE u # t
    <2>1. Lost(t, gone, i) = {}
      BY <1>3, <1>4, <1>8, SoleLost
    <2>2. rows'[u] = rows[u]
      BY <1>3, <1>8, DeletedRows
    <2>3. RowEntries(u, c)' = RowEntries(u, c)
      BY <2>2 DEF RowEntries, Rid
    <2> QED
      BY <1>5, <1>6, <2>1, <2>3
  <1>9. CASE u = t
    <2>1. /\ DOMAIN rows'[t] = DOMAIN rows[t] \ gone
          /\ \A s \in DOMAIN rows'[t] : rows'[t][s] = rows[t][s]
      BY DeletedRows
    <2>2. ASSUME NEW e
          PROVE  e \in Lost(t, gone, i) <=>
                   \E s \in gone : /\ rows[t][s][c] # Null
                                   /\ e = <<rows[t][s][c], Rid(t, s)>>
      BY <1>3, <1>4, <1>9, SoleLost
    <2>3. ASSUME NEW e
          PROVE  e \in RowEntries(t, c) <=>
                   \E s \in DOMAIN rows[t] : /\ rows[t][s][c] # Null
                                             /\ e = <<rows[t][s][c], Rid(t, s)>>
      BY DEF RowEntries
    <2>4. ASSUME NEW e
          PROVE  e \in RowEntries(t, c)' <=>
                   \E s \in DOMAIN rows'[t] : /\ rows'[t][s][c] # Null
                                              /\ e = <<rows'[t][s][c], Rid(t, s)>>
      BY DEF RowEntries, Rid
    <2>5. \A r, s, v, w : <<v, Rid(t, r)>> = <<w, Rid(t, s)>> => r = s
      BY DEF Rid
    <2>6. ASSUME NEW e
          PROVE  e \in RowEntries(t, c)' <=> e \in RowEntries(t, c) \ Lost(t, gone, i)
      BY <1>1, <2>1, <2>2, <2>3, <2>4, <2>5
    <2> QED
      BY <1>5, <1>6, <1>9, <2>6
  <1> QED
    BY <1>8, <1>9

LEMMA DeletedKeys ==
    ASSUME IInv, NEW t \in Tables, NEW gone, Deleted(t, gone)
    PROVE  KeysUnique'
  <1>1. UNCHANGED <<order, stale>>
    BY DEF Deleted
  <1>2. \A u \in Tables : /\ DOMAIN rows'[u] \subseteq DOMAIN rows[u]
                          /\ \A s \in DOMAIN rows'[u] : rows'[u][s] = rows[u][s]
    BY DeletedRows
  <1>3. \A u \in Range(order) : u \in Tables
    BY Types
  <1>4. \A u \in Range(order) : \A c \in Columns(u) : UniqueIn(u, c) => UniqueIn(u, c)'
    BY <1>2, <1>3 DEF UniqueIn
  <1> QED
    BY <1>1, <1>4 DEF IInv, KeysUnique, IsUnique

LEMMA DeleteStep ==
    ASSUME IInv, NEW t \in Tables, NEW cond, Delete(t, cond)
    PROVE  IInv'
  <1>1. CASE Die
    BY <1>1, DieStep
  <1>2. CASE Deleted(t, Filtered(t, cond))
    BY <1>2, DeletedTypes, DeletedIndexes, DeletedKeys DEF IInv
  <1>3. Filtered(t, cond) \subseteq DOMAIN rows[t]
    BY DEF Filtered
  <1> QED
    BY <1>1, <1>2, <1>3 DEF Delete, Deleted

\* A column of which the rows keep their values.
LEMMA SameColumn ==
    ASSUME NEW t, NEW c, DOMAIN rows'[t] = DOMAIN rows[t],
           \A s \in DOMAIN rows[t] : rows'[t][s][c] = rows[t][s][c]
    PROVE  /\ RowEntries(t, c)' = RowEntries(t, c)
           /\ UniqueIn(t, c)' <=> UniqueIn(t, c)
  <1>1. {q \in DOMAIN rows'[t] : rows'[t][q][c] # Null}
           = {q \in DOMAIN rows[t] : rows[t][q][c] # Null}
    OBVIOUS
  <1>2. RowEntries(t, c)' = RowEntries(t, c)
    BY <1>1 DEF RowEntries, Rid
  <1>3. UniqueIn(t, c)' <=> UniqueIn(t, c)
    BY DEF UniqueIn
  <1> QED
    BY <1>2, <1>3

Updated(t, c, v, hit) ==
    /\ rows' = [rows EXCEPT ![t] = [s \in DOMAIN @ |->
                   IF s \in hit THEN [@[s] EXCEPT ![c] = v] ELSE @[s]]]
    /\ stale' = IF \E s \in hit : rows[t][s][c] # v THEN stale \cup {<<t, c>>} ELSE stale
    /\ hit \subseteq DOMAIN rows[t]
    /\ UNCHANGED <<order, id, ix, fk, indexes, dirty, unsaved, alive>>

LEMMA UpdatedRows ==
    ASSUME IInv, NEW t \in Tables, NEW c \in Columns(t), NEW v \in Data \cup {Null},
           NEW hit, Updated(t, c, v, hit)
    PROVE  /\ DOMAIN rows' = Tables
           /\ \A u \in Tables \ {t} : rows'[u] = rows[u]
           /\ DOMAIN rows'[t] = DOMAIN rows[t]
           /\ rows'[t] \in [DOMAIN rows[t] -> Records(t)]
           /\ \A s \in DOMAIN rows[t] : \A d \in Columns(t) :
                 rows'[t][s][d] = IF s \in hit /\ d = c THEN v ELSE rows[t][s][d]
  <1>1. DOMAIN rows = Tables
    BY DEF IInv, Shapes
  <1>2. rows'[t] = [s \in DOMAIN rows[t] |->
                       IF s \in hit THEN [rows[t][s] EXCEPT ![c] = v] ELSE rows[t][s]]
    BY <1>1 DEF Updated
  <1>3. \A s \in DOMAIN rows[t] : rows[t][s] \in Records(t)
    BY Types
  <1>4. ASSUME NEW s \in DOMAIN rows[t]
        PROVE  /\ rows'[t][s] \in Records(t)
               /\ \A d \in Columns(t) :
                     rows'[t][s][d] = IF s \in hit /\ d = c THEN v ELSE rows[t][s][d]
    <2>1. rows[t][s] \in Records(t)
      BY <1>3
    <2>2. CASE s \in hit
      <3>1. rows'[t][s] = [rows[t][s] EXCEPT ![c] = v]
        BY <1>2, <2>2
      <3> QED
        BY <2>1, <2>2, <3>1 DEF Records
    <2>3. CASE s \notin hit
      BY <1>2, <2>1, <2>3
    <2> QED
      BY <2>2, <2>3
  <1>5. rows'[t] \in [DOMAIN rows[t] -> Records(t)]
    BY <1>2, <1>4
  <1>6. DOMAIN rows' = Tables /\ \A u \in Tables \ {t} : rows'[u] = rows[u]
    BY <1>1 DEF Updated
  <1> QED
    BY <1>2, <1>4, <1>5, <1>6

\* Columns that are not stale afterwards have kept their values.
LEMMA UpdatedColumns ==
    ASSUME IInv, NEW t \in Tables, NEW c \in Columns(t), NEW v \in Data \cup {Null},
           NEW hit, Updated(t, c, v, hit),
           NEW u \in Tables, NEW d \in Columns(u), <<u, d>> \notin stale'
    PROVE  /\ <<u, d>> \notin stale
           /\ DOMAIN rows'[u] = DOMAIN rows[u]
           /\ \A s \in DOMAIN rows[u] : rows'[u][s][d] = rows[u][s][d]
  <1>1. /\ <<u, d>> \notin stale
        /\ <<u, d>> = <<t, c>> => \A s \in hit : rows[t][s][c] = v
    BY DEF Updated
  <1>2. CASE u # t
    BY <1>1, <1>2, UpdatedRows
  <1>3. CASE u = t
    BY <1>1, <1>3, UpdatedRows
  <1> QED
    BY <1>2, <1>3

LEMMA UpdateStep ==
    ASSUME IInv, NEW x \in Cells, NEW v \in Data \cup {Null}, NEW cond,
           Update(x[1], x[2], v, cond)
    PROVE  IInv'
  <1> DEFINE t   == x[1]
             c   == x[2]
             hit == Filtered(t, cond)
  <1>1. t \in Tables /\ c \in Columns(t)
    BY CellFacts
  <1>2. CASE Die
    BY <1>2, DieStep
  <1>3. CASE Updated(t, c, v, hit)
    <2> HIDE DEF t, c, hit
    <2>1. /\ DOMAIN rows' = Tables
          /\ \A u \in Tables \ {t} : rows'[u] = rows[u]
          /\ DOMAIN rows'[t] = DOMAIN rows[t]
          /\ rows'[t] \in [DOMAIN rows[t] -> Records(t)]
      BY <1>1, <1>3, UpdatedRows
    <2>2. \A u \in Tables : /\ DOMAIN rows'[u] = DOMAIN rows[u]
                            /\ DOMAIN rows'[u] \subseteq Slots
                            /\ rows'[u] \in [DOMAIN rows'[u] -> Records(u)]
      BY <2>1, Types
    <2>3. \A u \in Tables : Range(rows'[u]) \subseteq Records(u)
      BY <2>2 DEF Range
    <2>4. UNCHANGED <<order, id, ix, fk, indexes, dirty, unsaved, alive>>
      BY <1>3 DEF Updated
    <2>5. stale' \subseteq Cells
      BY <1>1, <1>3, SchemaFacts DEF Updated, IInv, TypeOK
    <2>6. Shapes'
      BY <2>1, <2>2, <2>4 DEF IInv, Shapes
    <2>7. TypeOK'
      BY <2>2, <2>3, <2>4, <2>5 DEF IInv, TypeOK
    <2>8. Absent' /\ Linked'
      BY <2>2, <2>4 DEF IInv, Absent, Linked, HasIndex, Refers
    <2>9. \A u \in Range(order) : \A d \in Columns(u) : <<u, d>> \notin stale' =>
             /\ <<u, d>> \notin stale
             /\ RowEntries(u, d)' = RowEntries(u, d)
             /\ UniqueIn(u, d)' <=> UniqueIn(u, d)
      <3> SUFFICES ASSUME NEW u \in Range(order), NEW d \in Columns(u),
                          <<u, d>> \notin stale'
                   PROVE  /\ <<u, d>> \notin stale
                          /\ RowEntries(u, d)' = RowEntries(u, d)
                          /\ UniqueIn(u, d)' <=> UniqueIn(u, d)
        OBVIOUS
      <3>1. u \in Tables
        BY Types
      <3>2. /\ <<u, d>> \notin stale
            /\ DOMAIN rows'[u] = DOMAIN rows[u]
            /\ \A s \in DOMAIN rows[u] : rows'[u][s][d] = rows[u][s][d]
        BY <1>1, <1>3, <3>1, UpdatedColumns
      <3> QED
        BY <3>2, SameColumn
    <2>10. \A i : Named(i)' = Named(i)
      BY <2>4, NamedStays
    <2>11. IndexMatchesRows'
      BY <2>4, <2>9, <2>10, IndexMatchesRowsAs, IndexMatchesRowsNext
         DEF IInv, IndexRight, HasIndex, IsUsed
    <2>12. KeysUnique'
      BY <2>4, <2>9 DEF IInv, KeysUnique
    <2> QED
      BY <2>6, <2>7, <2>8, <2>11, <2>12 DEF IInv
  <1>4. hit \subseteq DOMAIN rows[t]
    BY DEF Filtered
  <1> QED
    BY <1>2, <1>3, <1>4 DEF Update, Updated
-----------------------------------------------------------------------------
(* CREATE INDEX and DROP INDEX, and the index of CREATE TABLE.                *)
LEMMA NewIndexFacts ==
    ASSUME HasFreeIndex
    PROVE  NewIndex \in IndexIds /\ ~indexes[NewIndex].used
  <1> DEFINE F == {i \in IndexIds : ~indexes[i].used}
  <1>1. F # {} /\ F \in SUBSET Nat
    BY BoundsAssumption DEF HasFreeIndex, IndexIds
  <1>2. Min(F) \in F
    <2> HIDE DEF F
    <2> QED
      BY <1>1, MinNumber
  <1> QED
    BY <1>2 DEF NewIndex

LEMMA SetIndexTypes ==
    ASSUME IInv, NEW t \in Tables, NEW c \in Columns(t), HasFreeIndex,
           NEW filled, SetIndex(<<t, c>>, filled)
    PROVE  /\ DOMAIN ix' = Tables
           /\ \A u \in Tables : ix'[u] \in [Columns(u) -> IndexIds \cup {NoIndex}]
           /\ \A u \in Tables \ {t} : ix'[u] = ix[u]
           /\ \A d \in Columns(t) : ix'[t][d] = IF d = c THEN NewIndex ELSE ix[t][d]
           /\ indexes' \in [IndexIds -> [used : BOOLEAN,
                            entries : SUBSET (Data \X (Tables \X Slots))]]
           /\ indexes'[NewIndex] = EmptyIndex
           /\ \A i \in IndexIds \ {NewIndex} : indexes'[i] = indexes[i]
           /\ stale \subseteq stale' /\ stale' \subseteq Cells
  <1>1. NewIndex \in IndexIds
    BY NewIndexFacts
  <1>2. DOMAIN ix = Tables /\ stale \subseteq Cells
    BY DEF IInv, Shapes, TypeOK
  <1>3. ix' = [ix EXCEPT ![t] = [ix[t] EXCEPT ![c] = NewIndex]]
    BY <1>2 DEF SetIndex
  <1>4. DOMAIN ix' = Tables /\ \A u \in Tables \ {t} : ix'[u] = ix[u]
    BY <1>2, <1>3
  <1>5. \A u \in Tables : ix[u] \in [Columns(u) -> IndexIds \cup {NoIndex}]
    BY Types
  <1>6. ix'[t] = [ix[t] EXCEPT ![c] = NewIndex]
    BY <1>2, <1>3
  <1>7. /\ ix'[t] \in [Columns(t) -> IndexIds \cup {NoIndex}]
        /\ \A d \in Columns(t) : ix'[t][d] = IF d = c THEN NewIndex ELSE ix[t][d]
    BY <1>1, <1>5, <1>6
  <1>8. \A u \in Tables : ix'[u] \in [Columns(u) -> IndexIds \cup {NoIndex}]
    BY <1>4, <1>5, <1>7
  <1>9. /\ indexes' \in [IndexIds -> [used : BOOLEAN,
                         entries : SUBSET (Data \X (Tables \X Slots))]]
        /\ indexes'[NewIndex] = EmptyIndex
        /\ \A i \in IndexIds \ {NewIndex} : indexes'[i] = indexes[i]
    <2> DEFINE R == [used : BOOLEAN, entries : SUBSET (Data \X (Tables \X Slots))]
    <2>1. indexes \in [IndexIds -> R] /\ EmptyIndex \in R
      BY Types DEF EmptyIndex
    <2> HIDE DEF R
    <2>2. /\ indexes' \in [IndexIds -> R]
          /\ indexes'[NewIndex] = EmptyIndex
          /\ \A i \in IndexIds \ {NewIndex} : indexes'[i] = indexes[i]
      BY <1>1, <2>1 DEF SetIndex
    <2> QED
      BY <2>2 DEF R
  <1>10. \A i : Named(i) \subseteq Cells
    BY DEF Named
  <1>11. stale \subseteq stale' /\ stale' \subseteq Cells
    BY <1>2, <1>10, SchemaFacts DEF SetIndex
  <1> QED
    BY <1>4, <1>7, <1>8, <1>9, <1>11

\* Columns that the new index leaves alone.
LEMMA SetIndexOthers ==
    ASSUME IInv, NEW t \in Tables, NEW c \in Columns(t), HasFreeIndex,
           NEW filled, SetIndex(<<t, c>>, filled), UNCHANGED rows,
           NEW u \in Tables, NEW d \in Columns(u), <<u, d>> # <<t, c>>,
           HasIndex(u, d)', <<u, d>> \notin stale', IndexRight(u, d)
    PROVE  IndexRight(u, d)'
  <1>1. PICK i : i = ix[u][d]
    OBVIOUS
  <1>2. ix'[u][d] = i
    BY <1>1, SetIndexTypes
  <1>3. i \in IndexIds /\ NewIndex \in IndexIds
    BY <1>1, <1>2, Types, NewIndexFacts DEF HasIndex
  <1>4. Named(i) = {<<u, d>>}
    BY <1>1 DEF IndexRight
  <1>5. i # NewIndex
    <2>1. <<u, d>> \in Named(i)
      BY <1>4
    <2> QED
      BY <2>1 DEF SetIndex
  <1>6. Named(i)' = Named(i)
    <2>1. ASSUME NEW x \in Cells
          PROVE  ix'[x[1]][x[2]] = i <=> ix[x[1]][x[2]] = i
      <3>1. x[1] \in Tables /\ x[2] \in Columns(x[1]) /\ x = <<x[1], x[2]>>
        BY CellFacts
      <3>2. CASE x = <<t, c>>
        <4>1. x[1] = t /\ x[2] = c /\ ix'[t][c] = NewIndex
          BY <3>2, SetIndexTypes
        <4>2. x \notin Named(i)
          BY <1>4, <3>2
        <4> QED
          BY <1>5, <4>1, <4>2 DEF Named
      <3>3. CASE x # <<t, c>>
        <4>1. ix'[x[1]][x[2]] = ix[x[1]][x[2]]
          BY <3>1, <3>3, SetIndexTypes
        <4> QED
          BY <4>1
      <3> QED
        BY <3>2, <3>3
    <2> QED
      BY <2>1 DEF Named
  <1>7. indexes'[i] = indexes[i]
    BY <1>3, <1>5, SetIndexTypes
  <1> QED
    BY <1>1, <1>2, <1>6, <1>7, Untouched

\* The column of the new index, unless it becomes stale.
LEMMA SetIndexOwn ==
    ASSUME IInv, NEW t \in Tables, NEW c \in Columns(t), HasFreeIndex,
           NEW filled, SetIndex(<<t, c>>, filled), UNCHANGED rows,
           ~filled => \A s \in DOMAIN rows[t] : rows[t][s][c] = Null,
           <<t, c>> \notin stale'
    PROVE  IndexRight(t, c)'
  <1>1. ~filled /\ Named(NewIndex) = {}
    BY DEF SetIndex
  <1>2. /\ ix'[t][c] = NewIndex
        /\ indexes'[NewIndex] = EmptyIndex
    BY SetIndexTypes
  <1>3. NewIndex \in IndexIds /\ NewIndex # NoIndex
    BY NewIndexFacts, BoundsAssumption DEF IndexIds, NoIndex
  <1>4. PICK k : k = NewIndex
    OBVIOUS
  <1>5. ASSUME NEW x \in Cells
        PROVE  ix'[x[1]][x[2]] = k <=> x = <<t, c>>
    <2>1. x[1] \in Tables /\ x[2] \in Columns(x[1]) /\ x = <<x[1], x[2]>>
      BY CellFacts
    <2>2. CASE x = <<t, c>>
      BY <1>2, <1>4, <2>2
    <2>3. CASE x # <<t, c>>
      <3>1. ix'[x[1]][x[2]] = ix[x[1]][x[2]]
        BY <2>1, <2>3, SetIndexTypes
      <3> QED
        BY <1>1, <1>4, <2>3, <3>1 DEF Named
    <2> QED
      BY <2>2, <2>3
  <1>6. <<t, c>> \in Cells
    BY SchemaFacts
  <1>7. Named(k)' = {<<t, c>>}
    BY <1>5, <1>6 DEF Named
  <1>8. RowEntries(t, c)' = {}
    BY <1>1 DEF RowEntries
  <1>9. ix'[t][c] = k /\ k # NoIndex /\ indexes'[k].used /\ indexes'[k].entries = {}
    BY <1>2, <1>3, <1>4 DEF EmptyIndex
  <1> QED
    BY <1>7, <1>8, <1>9 DEF IndexRight, IsUsed, Named

LEMMA CreateIndexStep ==
    ASSUME IInv, NEW x \in Cells, CreateIndex(x[1], x[2])
    PROVE  IInv'
  <1> DEFINE t == x[1]
             c == x[2]
             filled == \E s \in DOMAIN rows[t] : rows[t][s][c] # Null
  <1>1. t \in Tables /\ c \in Columns(t) /\ <<t, c>> \in Cells
    BY CellFacts
  <1>2. /\ HasFreeIndex /\ SetIndex(<<t, c>>, filled) /\ Exists(t)
        /\ unsaved' \in {unsaved, unsaved \cup {<<t, c>>}}
        /\ UNCHANGED <<order, id, rows, fk, dirty, alive>>
    BY DEF CreateIndex
  <1>3. ~filled => \A s \in DOMAIN rows[t] : rows[t][s][c] = Null
    OBVIOUS
  <1> HIDE DEF t, c, filled
  <1>4. /\ DOMAIN ix' = Tables
        /\ \A u \in Tables : ix'[u] \in [Columns(u) -> IndexIds \cup {NoIndex}]
        /\ \A u \in Tables \ {t} : ix'[u] = ix[u]
        /\ indexes' \in [IndexIds -> [used : BOOLEAN,
                         entries : SUBSET (Data \X (Tables \X Slots))]]
        /\ stale \subseteq stale' /\ stale' \subseteq Cells
    BY <1>1, <1>2, SetIndexTypes
  <1>5. Shapes'
    BY <1>2, <1>4 DEF IInv, Shapes
  <1>6. TypeOK'
    BY <1>1, <1>2, <1>4 DEF IInv, TypeOK
  <1>7. Absent' /\ Linked'
    BY <1>2, <1>4 DEF IInv, Absent, Linked, HasIndex, Refers, Exists
  <1>8. IndexMatchesRows'
    <2> SUFFICES ASSUME NEW u \in Range(order), NEW d \in Columns(u),
                        HasIndex(u, d)', <<u, d>> \notin stale'
                 PROVE  IndexRight(u, d)'
      BY <1>2, IndexMatchesRowsNext
    <2>1. u \in Tables
      BY Types
    <2>2. CASE <<u, d>> = <<t, c>>
      BY <1>1, <1>2, <1>3, <2>2, SetIndexOwn
    <2>3. CASE <<u, d>> # <<t, c>>
      <3>1. ix'[u][d] = ix[u][d]
        BY <1>1, <1>2, <2>1, <2>3, SetIndexTypes
      <3>2. IndexRight(u, d)
        BY <1>4, <3>1, IndexMatchesRowsAs DEF IInv, HasIndex
      <3> QED
        BY <1>1, <1>2, <2>1, <2>3, <3>2, SetIndexOthers
    <2> QED
      BY <2>2, <2>3
  <1>9. KeysUnique'
    BY <1>2, <1>4 DEF IInv, KeysUnique, UniqueIn
  <1> QED
    BY <1>5, <1>6, <1>7, <1>8, <1>9 DEF IInv

LEMMA DropIndexStep ==
    ASSUME IInv, NEW x \in Cells, DropIndex(x[1], x[2])
    PROVE  IInv'
  <1> DEFINE i == ix[x[1]][x[2]]
  <1>1. /\ IsUsed(i)
        /\ indexes' = [indexes EXCEPT ![i].used = FALSE]
        /\ stale' = stale \cup Named(i)
        /\ UNCHANGED <<order, id, rows, ix, fk, dirty, unsaved, alive>>
    BY DEF DropIndex
  <1>2. i \in IndexIds
    BY <1>1, CellFacts, Types DEF IsUsed
  <1> HIDE DEF i
  <1>3. /\ indexes' \in [IndexIds -> [used : BOOLEAN,
                         entries : SUBSET (Data \X (Tables \X Slots))]]
        /\ \A j \in IndexIds \ {i} : indexes'[j] = indexes[j]
    <2> DEFINE E == Data \X (Tables \X Slots)
    <2>1. indexes \in [IndexIds -> [used : BOOLEAN, entries : SUBSET E]]
      BY Types
    <2> HIDE DEF E
    <2>2. /\ indexes' \in [IndexIds -> [used : BOOLEAN, entries : SUBSET E]]
          /\ \A j \in IndexIds \ {i} : indexes'[j] = indexes[j]
      BY <1>1, <1>2, <2>1
    <2> QED
      BY <2>2 DEF E
  <1>4. Shapes' /\ Absent' /\ Linked'
    BY <1>1 DEF IInv, Shapes, Absent, Linked, HasIndex, Refers
  <1>5. TypeOK'
    BY <1>1, <1>3 DEF IInv, TypeOK, Named
  <1>6. IndexMatchesRows'
    <2> SUFFICES ASSUME NEW u \in Range(order), NEW d \in Columns(u),
                        HasIndex(u, d), <<u, d>> \notin stale'
                 PROVE  IndexRight(u, d)'
      BY <1>1, IndexMatchesRowsNext DEF HasIndex
    <2>1. u \in Tables /\ <<u, d>> \in Cells
      BY Types, SchemaFacts
    <2>2. IndexRight(u, d)
      BY <1>1, IndexMatchesRowsAs DEF IInv
    <2>3. ix[u][d] # i
      BY <1>1, <2>1 DEF Named
    <2>4. ix[u][d] \in IndexIds
      BY <2>1, Types DEF HasIndex
    <2>5. indexes'[ix[u][d]] = indexes[ix[u][d]]
      BY <1>3, <2>3, <2>4
    <2>6. Named(ix[u][d])' = Named(ix[u][d])
      BY <1>1 DEF Named
    <2> QED
      BY <1>1, <2>2, <2>5, <2>6, Untouched
  <1>7. KeysUnique'
    BY <1>1 DEF IInv, KeysUnique, UniqueIn
  <1> QED
    BY <1>4, <1>5, <1>6, <1>7 DEF IInv
-----------------------------------------------------------------------------
(* CREATE TABLE, DROP TABLE and the re-opening.                               *)
LEMMA Positions ==
    ASSUME IInv
    PROVE  /\ Len(order) \in Nat /\ DOMAIN order = 1 .. Len(order)
           /\ \A i \in 1 .. Len(order) : order[i] \in Tables /\ order[i] \in Range(order)
           /\ \A i, j \in 1 .. Len(order) : order[i] = order[j] => i = j
           /\ \A t \in Range(order) : \E i \in 1 .. Len(order) : order[i] = t
  <1>1. order \in Seq(Tables)
    BY DEF IInv, Shapes
  <1>2. Len(order) \in Nat /\ DOMAIN order = 1 .. Len(order)
    BY <1>1
  <1>3. \A i \in 1 .. Len(order) : order[i] \in Tables
    BY <1>1
  <1> QED
    BY <1>2, <1>3 DEF IInv, TypeOK, IsInjective, Range

\* There are no more positions than tables, and one less if a table is missing.
LEMMA PositionBound ==
    ASSUME IInv
    PROVE  /\ Cardinality(Tables) \in Nat
           /\ Len(order) <= Cardinality(Tables)
           /\ \A t \in Tables \ Range(order) : Len(order) <= Cardinality(Tables) - 1
  <1>1. IsFiniteSet(Tables) /\ Cardinality(Tables) \in Nat
    BY BoundsAssumption, FS_CardinalityType
  <1>2. Len(order) \in Nat /\ order = [i \in 1 .. Len(order) |-> order[i]]
    BY DEF IInv, Shapes
  <1>3. IsFiniteSet(1 .. Len(order)) /\ Cardinality(1 .. Len(order)) = Len(order)
    <2>1. \A m \in Nat : IsFiniteSet(1 .. m) /\ Cardinality(1 .. m) = m
      BY FS_Interval
    <2> QED
      BY <1>2, <2>1
  <1>4. ASSUME NEW T \in SUBSET Tables, Range(order) \subseteq T
        PROVE  Len(order) <= Cardinality(T)
    <2>1. order \in [1 .. Len(order) -> T]
      BY <1>2, <1>4, Positions
    <2>2. order \in Injection(1 .. Len(order), T)
      BY <2>1, Positions DEF Injection, IsInjective
    <2>3. IsFiniteSet(T)
      BY <1>1, FS_Subset
    <2> QED
      BY <1>3, <2>2, <2>3, FS_Injection
  <1>5. Len(order) <= Cardinality(Tables)
    BY <1>4, Types
  <1>6. ASSUME NEW t \in Tables \ Range(order)
        PROVE  Len(order) <= Cardinality(Tables) - 1
    <2>1. Cardinality(Tables \ {t}) = Cardinality(Tables) - 1
      BY <1>1, FS_RemoveElement
    <2>2. Range(order) \subseteq Tables \ {t}
      BY Types
    <2> QED
      BY <1>4, <2>1, <2>2
  <1> QED
    BY <1>1, <1>5, <1>6

LEMMA CreatedOrder ==
    ASSUME IInv, NEW t \in Tables, t \notin Range(order), order' = Append(order, t)
    PROVE  /\ order' \in Seq(Tables) /\ IsInjective(order')
           /\ Range(order') = Range(order) \cup {t}
  <1> DEFINE n == Len(order)
  <1>1. order \in Seq(Tables) /\ n \in Nat
    BY Positions DEF IInv, Shapes
  <1>2. /\ order' \in Seq(Tables) /\ Len(order') = n + 1
        /\ \A i \in 1 .. n : order'[i] = order[i]
        /\ order'[n + 1] = t
    BY <1>1, AppendProperties
  <1>3. DOMAIN order' = 1 .. n + 1
    BY <1>2
  <1> HIDE DEF n
  <1>4. /\ \A i \in 1 .. n : order[i] \in Range(order)
        /\ \A i, j \in 1 .. n : order[i] = order[j] => i = j
        /\ \A u \in Range(order) : \E i \in 1 .. n : order[i] = u
    BY Positions DEF n
  <1>5. \A i \in 1 .. n + 1 : i \in 1 .. n \/ i = n + 1
    BY <1>1
  <1>6. IsInjective(order')
    <2> SUFFICES ASSUME NEW i \in 1 .. n + 1, NEW j \in 1 .. n + 1, order'[i] = order'[j]
                 PROVE  i = j
      BY <1>3 DEF IsInjective
    <2> QED
      BY <1>2, <1>4, <1>5
  <1>7. \A i \in 1 .. n : i \in 1 .. n + 1
    BY <1>1
  <1>8. n + 1 \in 1 .. n + 1
    BY <1>1
  <1>9. ASSUME NEW u
        PROVE  u \in Range(order') <=> u \in Range(order) \cup {t}
    <2>1. u \in Range(order') <=> \E i \in 1 .. n + 1 : order'[i] = u
      BY <1>3 DEF Range
    <2> QED
      BY <1>2, <1>4, <1>5, <1>7, <1>8, <2>1
  <1> QED
    BY <1>2, <1>6, <1>9

LEMMA CreateTableStep ==
    ASSUME IInv, NEW t \in Tables, CreateTable(t)
    PROVE  IInv'
  <1>1. /\ t \notin Range(order)
        /\ \A c \in Columns(t) : Schema[t][c].ref # NoRef => Exists(Schema[t][c].ref[1])
        /\ order' = Append(order, t)
        /\ id'    = [id EXCEPT ![t] = Len(order)]
        /\ fk'    = [fk EXCEPT ![t] = ForeignIds(t)]
        /\ dirty' = dirty \cup {t}
        /\ UNCHANGED <<rows, unsaved, alive>>
    BY DEF CreateTable, Exists
  <1>2. /\ order' \in Seq(Tables) /\ IsInjective(order')
        /\ Range(order') = Range(order) \cup {t}
    BY <1>1, CreatedOrder
  <1>3. DOMAIN rows[t] = {} /\ \A c \in Columns(t) : ~HasIndex(t, c)
    BY <1>1 DEF IInv, Absent
  <1>4. /\ DOMAIN ix' = Tables
        /\ \A u \in Tables : ix'[u] \in [Columns(u) -> IndexIds \cup {NoIndex}]
        /\ \A u \in Tables \ {t} : ix'[u] = ix[u]
        /\ indexes' \in [IndexIds -> [used : BOOLEAN,
                         entries : SUBSET (Data \X (Tables \X Slots))]]
        /\ stale \subseteq stale' /\ stale' \subseteq Cells
        /\ \A u \in Tables : \A c \in Columns(u) :
              HasIndex(u, c)' /\ <<u, c>> \notin stale' /\ (u # t => IndexRight(u, c))
                 => IndexRight(u, c)'
    <2>1. CASE PkIds(t) = {}
      <3>1. UNCHANGED <<indexes, ix, stale>>
        BY <2>1 DEF CreateTable
      <3>2. \A u \in Tables \ {t} : \A c \in Columns(u) :
               IndexRight(u, c) => IndexRight(u, c)'
        BY <1>1, <3>1, NamedStays, Untouched
      <3> QED
        BY <1>3, <3>1, <3>2, Types DEF IInv, Shapes, TypeOK, HasIndex
    <2>2. CASE PkIds(t) # {}
      <3> DEFINE k == Min(PkIds(t))
      <3>1. k \in Columns(t)
        <4>1. PkIds(t) \in SUBSET Nat /\ PkIds(t) \subseteq Columns(t)
          BY SchemaFacts DEF PkIds
        <4> QED
          BY <2>2, <4>1, MinNumber
      <3>2. HasFreeIndex /\ SetIndex(<<t, k>>, FALSE)
        BY <2>2 DEF CreateTable
      <3> HIDE DEF k
      <3>3. /\ DOMAIN ix' = Tables
            /\ \A u \in Tables : ix'[u] \in [Columns(u) -> IndexIds \cup {NoIndex}]
            /\ \A u \in Tables \ {t} : ix'[u] = ix[u]
            /\ \A d \in Columns(t) : ix'[t][d] = IF d = k THEN NewIndex ELSE ix[t][d]
            /\ indexes' \in [IndexIds -> [used : BOOLEAN,
                             entries : SUBSET (Data \X (Tables \X Slots))]]
            /\ stale \subseteq stale' /\ stale' \subseteq Cells
        BY <3>1, <3>2, SetIndexTypes
      <3>4. ASSUME NEW u \in Tables, NEW c \in Columns(u),
                   HasIndex(u, c)', <<u, c>> \notin stale', u # t => IndexRight(u, c)
            PROVE  IndexRight(u, c)'
        <4>1. CASE u # t
          BY <1>1, <3>1, <3>2, <3>4, <4>1, SetIndexOthers
        <4>2. CASE u = t
          <5>1. c = k
            BY <1>3, <3>3, <3>4, <4>2 DEF HasIndex
          <5> QED
            BY <1>1, <1>3, <3>1, <3>2, <3>4, <4>2, <5>1, SetIndexOwn
        <4> QED
          BY <4>1, <4>2
      <3> QED
        BY <3>3, <3>4
    <2> QED
      BY <2>1, <2>2
  <1>5. /\ DOMAIN id' = Tables /\ DOMAIN fk' = Tables
        /\ id'[t] = Len(order) /\ fk'[t] = ForeignIds(t)
        /\ \A u \in Tables \ {t} : id'[u] = id[u] /\ fk'[u] = fk[u]
    BY <1>1 DEF IInv, Shapes
  <1>6. Len(order) \in Nat /\ Len(order) \in 0 .. Cardinality(Tables) - 1
    BY <1>1, Positions, PositionBound
  <1>7. ASSUME NEW c \in Columns(t)
        PROVE  /\ ForeignIds(t)[c] \in {NoTable} \cup (0 .. Cardinality(Tables) - 1)
               /\ IF Refers(t, c) THEN ForeignIds(t)[c] \in Nat ELSE ForeignIds(t)[c] = NoTable
    <2>1. CASE ~Refers(t, c)
      BY <2>1 DEF ForeignIds, Refers
    <2>2. CASE Refers(t, c)
      <3>1. Schema[t][c].ref[1] \in Range(order) /\ Schema[t][c].ref[1] \in Tables
        BY <1>1, <2>2, Types DEF Refers, Exists
      <3>2. ForeignIds(t)[c] = id[Schema[t][c].ref[1]]
        BY <2>2 DEF ForeignIds, Refers
      <3> QED
        BY <2>2, <3>1, <3>2 DEF IInv, TypeOK, Linked
    <2> QED
      BY <2>1, <2>2
  <1>8. ForeignIds(t) \in [Columns(t) -> {NoTable} \cup (0 .. Cardinality(Tables) - 1)]
    BY <1>7 DEF ForeignIds
  <1>9. Shapes'
    BY <1>1, <1>2, <1>4, <1>5 DEF IInv, Shapes
  <1>10. TypeOK'
    <2>1. \A u \in Tables :
             /\ id'[u] \in {NoTable} \cup (0 .. Cardinality(Tables) - 1)
             /\ fk'[u] \in [Columns(u) -> {NoTable} \cup (0 .. Cardinality(Tables) - 1)]
      BY <1>5, <1>6, <1>8 DEF IInv, TypeOK
    <2>2. Range(order') \subseteq Tables
      BY <1>2 DEF IInv, TypeOK
    <2> QED
      BY <1>1, <1>2, <1>4, <2>1, <2>2 DEF IInv, TypeOK
  <1>11. Absent'
    BY <1>1, <1>2, <1>4 DEF IInv, Absent, HasIndex
  <1>12. Linked'
    <2> SUFFICES ASSUME NEW u \in Range(order')
                 PROVE  /\ id'[u] \in Nat
                        /\ \A c \in Columns(u) : IF Refers(u, c) THEN fk'[u][c] \in Nat
                                                 ELSE fk'[u][c] = NoTable
      BY DEF Linked, Refers
    <2>1. CASE u = t
      BY <1>5, <1>6, <1>7, <2>1
    <2>2. CASE u # t
      <3>1. u \in Range(order) /\ u \in Tables
        BY <1>2, <2>2, Types
      <3> QED
        BY <1>5, <2>2, <3>1 DEF IInv, Linked
    <2> QED
      BY <2>1, <2>2
  <1>13. IndexMatchesRows'
    <2> SUFFICES ASSUME NEW u \in Range(order'), NEW c \in Columns(u),
                        HasIndex(u, c)', <<u, c>> \notin stale'
                 PROVE  IndexRight(u, c)'
      BY IndexMatchesRowsNext
    <2>1. u \in Tables
      BY <1>2, Types
    <2>2. u # t => IndexRight(u, c)
      <3> SUFFICES ASSUME u # t PROVE IndexRight(u, c)
        OBVIOUS
      <3>1. u \in Range(order) /\ HasIndex(u, c) /\ <<u, c>> \notin stale
        BY <1>2, <1>4, <2>1 DEF HasIndex
      <3> QED
        BY <3>1, IndexMatchesRowsAs DEF IInv
    <2> QED
      BY <1>4, <2>1, <2>2
  <1>14. KeysUnique'
    <2>1. \A c : UniqueIn(t, c)
      BY <1>3 DEF UniqueIn
    <2> QED
      BY <1>1, <1>2, <1>4, <2>1 DEF IInv, KeysUnique, UniqueIn
  <1> QED
    BY <1>9, <1>10, <1>11, <1>12, <1>13, <1>14 DEF IInv
LEMMA DroppedOrder ==
    ASSUME IInv, NEW p \in 1 .. Len(order),
           order' = [i \in 1 .. Len(order) - 1 |-> IF i = p THEN Last(order) ELSE order[i]]
    PROVE  /\ order' \in Seq(Tables) /\ IsInjective(order')
           /\ Range(order') = Range(order) \ {order[p]}
  <1> DEFINE n == Len(order)
  <1>1. /\ n \in Nat /\ n - 1 \in Nat /\ n \in 1 .. n
        /\ Last(order) = order[n]
    BY Positions DEF Last
  <1>2. /\ \A i \in 1 .. n : order[i] \in Tables /\ order[i] \in Range(order)
        /\ \A i, j \in 1 .. n : order[i] = order[j] => i = j
        /\ \A u \in Range(order) : \E i \in 1 .. n : order[i] = u
    BY Positions
  <1> HIDE DEF n
  <1>3. /\ DOMAIN order' = 1 .. n - 1
        /\ \A i \in 1 .. n - 1 : order'[i] = IF i = p THEN order[n] ELSE order[i]
        /\ p \in 1 .. n
    BY <1>1 DEF n
  <1>4. \A i \in 1 .. n - 1 : i \in 1 .. n /\ i # n
    BY <1>1
  <1>5. \A i \in 1 .. n : i \in 1 .. n - 1 \/ i = n
    BY <1>1
  <1>6. \A i \in 1 .. n - 1 : order'[i] \in Tables
    BY <1>1, <1>2, <1>3, <1>4
  <1>7. order' \in Seq(Tables)
    <2>1. order' \in [1 .. n - 1 -> Tables]
      BY <1>6, <1>3 DEF n
    <2> QED
      BY <1>1, <2>1
  <1>8. IsInjective(order')
    <2> SUFFICES ASSUME NEW i \in 1 .. n - 1, NEW j \in 1 .. n - 1, order'[i] = order'[j]
                 PROVE  i = j
      BY <1>3 DEF IsInjective
    <2> QED
      BY <1>1, <1>2, <1>3, <1>4
  <1>9. ASSUME NEW u
        PROVE  u \in Range(order') <=> u \in Range(order) \ {order[p]}
    <2>1. u \in Range(order') <=> \E i \in 1 .. n - 1 : order'[i] = u
      BY <1>3 DEF Range
    <2>2. ASSUME NEW i \in 1 .. n - 1
          PROVE  order'[i] \in Range(order) \ {order[p]}
      BY <1>1, <1>2, <1>3, <1>4
    <2>3. ASSUME u \in Range(order) \ {order[p]}
          PROVE  \E i \in 1 .. n - 1 : order'[i] = u
      <3>1. PICK i \in 1 .. n : order[i] = u
        BY <1>2, <2>3
      <3>2. i # p
        BY <2>3, <3>1
      <3>3. CASE i \in 1 .. n - 1
        BY <1>3, <3>1, <3>2, <3>3
      <3>4. CASE i = n
        BY <1>3, <1>5, <3>1, <3>2, <3>4
      <3> QED
        BY <1>5, <3>3, <3>4
    <2> QED
      BY <2>1, <2>2, <2>3
  <1> QED
    BY <1>7, <1>8, <1>9

LEMMA DropTableStep ==
    ASSUME IInv, NEW t \in Tables, DropTable(t)
    PROVE  IInv'
  <1> DEFINE p == CHOOSE i \in DOMAIN order : order[i] = t
  <1>1. /\ t \in Range(order)
        /\ order' = [i \in 1 .. Len(order) - 1 |-> IF i = p THEN Last(order) ELSE order[i]]
        /\ id'    = [id EXCEPT ![t] = NoTable]
        /\ fk'    = [fk EXCEPT ![t] = [c \in Columns(t) |-> NoTable]]
        /\ rows'  = [rows EXCEPT ![t] = NoRows]
        /\ ix'    = [ix EXCEPT ![t] = [c \in Columns(t) |-> NoIndex]]
        /\ dirty' = dirty \ {t}
        /\ unsaved' = unsaved \ CellsOf(t)
        /\ stale' = stale \ CellsOf(t)
        /\ UNCHANGED <<indexes, alive>>
    BY DEF DropTable, Exists
  <1>2. p \in 1 .. Len(order) /\ order[p] = t
    BY <1>1, Positions
  <1> HIDE DEF p
  <1>3. /\ order' \in Seq(Tables) /\ IsInjective(order')
        /\ Range(order') = Range(order) \ {t}
    BY <1>1, <1>2, DroppedOrder
  <1>4. /\ DOMAIN id' = Tables /\ DOMAIN rows' = Tables
        /\ DOMAIN ix' = Tables /\ DOMAIN fk' = Tables
        /\ id'[t] = NoTable /\ rows'[t] = NoRows
        /\ ix'[t] = [c \in Columns(t) |-> NoIndex]
        /\ fk'[t] = [c \in Columns(t) |-> NoTable]
        /\ \A u \in Tables \ {t} : /\ id'[u] = id[u] /\ rows'[u] = rows[u]
                                   /\ ix'[u] = ix[u] /\ fk'[u] = fk[u]
    BY <1>1 DEF IInv, Shapes
  <1>5. /\ DOMAIN rows'[t] = {} /\ Range(rows'[t]) = {}
        /\ rows'[t] \in [DOMAIN rows'[t] -> Records(t)]
    BY <1>4 DEF NoRows, Range
  <1>6. Shapes'
    BY <1>3, <1>4, <1>5 DEF IInv, Shapes
  <1>7. TypeOK'
    <2>1. \A u \in Tables :
             /\ id'[u] \in {NoTable} \cup (0 .. Cardinality(Tables) - 1)
             /\ DOMAIN rows'[u] \subseteq Slots
             /\ Range(rows'[u]) \subseteq Records(u)
             /\ ix'[u] \in [Columns(u) -> IndexIds \cup {NoIndex}]
             /\ fk'[u] \in [Columns(u) -> {NoTable} \cup (0 .. Cardinality(Tables) - 1)]
      <3> TAKE u \in Tables
      <3>1. CASE u = t
        BY <1>4, <1>5, <3>1
      <3>2. CASE u # t
        BY <1>4, <3>2 DEF IInv, TypeOK
      <3> QED
        BY <3>1, <3>2
    <2> QED
      BY <1>1, <1>3, <2>1 DEF IInv, TypeOK
  <1>8. Absent'
    BY <1>3, <1>4, <1>5 DEF IInv, Absent, HasIndex
  <1>9. Linked'
    BY <1>3, <1>4, Types DEF IInv, Linked, Refers
  <1>10. IndexMatchesRows'
    <2> SUFFICES ASSUME NEW u \in Range(order'), NEW c \in Columns(u),
                        HasIndex(u, c)', <<u, c>> \notin stale'
                 PROVE  IndexRight(u, c)'
      BY IndexMatchesRowsNext
    <2>1. u \in Tables /\ u # t /\ u \in Range(order)
      BY <1>3, Types
    <2>2. ix'[u] = ix[u] /\ rows'[u] = rows[u]
      BY <1>4, <2>1
    <2>3. HasIndex(u, c) /\ <<u, c>> \notin stale
      BY <1>1, <2>1, <2>2 DEF HasIndex, CellsOf
    <2>4. IndexRight(u, c)
      BY <2>1, <2>3, IndexMatchesRowsAs DEF IInv
    <2>5. PICK i : i = ix[u][c]
      OBVIOUS
    <2>6. Named(i) = {<<u, c>>} /\ i # NoIndex
      BY <2>4, <2>5 DEF IndexRight, IsUsed
    <2>7. ASSUME NEW x \in Cells
          PROVE  ix'[x[1]][x[2]] = i <=> ix[x[1]][x[2]] = i
      <3>1. x[1] \in Tables /\ x[2] \in Columns(x[1]) /\ x = <<x[1], x[2]>>
        BY CellFacts
      <3>2. CASE x[1] = t
        <4>1. x \notin Named(i)
          BY <2>1, <2>6, <3>1, <3>2
        <4>2. ix'[x[1]][x[2]] = NoIndex
          BY <1>4, <3>1, <3>2
        <4> QED
          BY <2>6, <4>1, <4>2 DEF Named
      <3>3. CASE x[1] # t
        BY <1>4, <3>1, <3>3
      <3> QED
        BY <3>2, <3>3
    <2>8. Named(i)' = Named(i)
      BY <2>7 DEF Named
    <2> QED
      BY <1>1, <2>2, <2>4, <2>5, <2>8, Untouched
  <1>11. KeysUnique'
    <2>1. \A u \in Range(order') :
             /\ u \in Range(order) /\ u # t /\ rows'[u] = rows[u]
             /\ \A c : <<u, c>> \notin stale' => <<u, c>> \notin stale
      BY <1>1, <1>3, <1>4, Types DEF CellsOf
    <2> QED
      BY <2>1 DEF IInv, KeysUnique, UniqueIn, IsUnique
  <1> QED
    BY <1>6, <1>7, <1>8, <1>9, <1>10, <1>11 DEF IInv

LEMMA ReopenStep ==
    ASSUME IInv, Reopen
    PROVE  IInv'
  <1>1. /\ ix' = [t \in Tables |-> [c \in Columns(t) |->
                     IF <<t, c>> \in unsaved THEN NoIndex ELSE ix[t][c]]]
        /\ id' = [t \in Tables |-> IF Exists(t)
                     THEN (CHOOSE i \in DOMAIN order : order[i] = t) - 1 ELSE NoTable]
        /\ dirty' = {} /\ unsaved' = {}
        /\ UNCHANGED <<order, rows, fk, indexes, alive, stale>>
    BY DEF Reopen
  <1>2. \A t \in Tables : \A c \in Columns(t) :
           ix'[t][c] = IF <<t, c>> \in unsaved THEN NoIndex ELSE ix[t][c]
    BY <1>1
  <1>3. \A t \in Tables : ix'[t] \in [Columns(t) -> IndexIds \cup {NoIndex}]
    BY <1>1, <1>2, Types
  <1>4. ASSUME NEW t \in Range(order)
        PROVE  id'[t] \in Nat /\ id'[t] \in 0 .. Cardinality(Tables) - 1
    <2> DEFINE p == CHOOSE i \in DOMAIN order : order[i] = t
    <2>1. p \in 1 .. Len(order)
      BY Positions
    <2>2. id'[t] = p - 1
      BY <1>1, Types DEF Exists
    <2> HIDE DEF p
    <2>3. /\ Len(order) \in Nat /\ Cardinality(Tables) \in Nat
          /\ Len(order) <= Cardinality(Tables)
      BY Positions, PositionBound
    <2> QED
      BY <2>1, <2>2, <2>3
  <1>5. Shapes'
    BY <1>1 DEF IInv, Shapes
  <1>6. TypeOK'
    <2>1. \A t \in Tables : id'[t] \in {NoTable} \cup (0 .. Cardinality(Tables) - 1)
      BY <1>1, <1>4 DEF Exists
    <2> QED
      BY <1>1, <1>3, <2>1 DEF IInv, TypeOK
  <1>7. Absent'
    BY <1>1, <1>2 DEF IInv, Absent, HasIndex
  <1>8. Linked'
    BY <1>1, <1>4 DEF IInv, Linked, Refers
  <1>9. IndexMatchesRows'
    <2> SUFFICES ASSUME NEW u \in Range(order), NEW c \in Columns(u),
                        HasIndex(u, c)', <<u, c>> \notin stale
                 PROVE  IndexRight(u, c)'
      BY <1>1, IndexMatchesRowsNext
    <2>1. u \in Tables
      BY Types
    <2>2. ix'[u][c] = ix[u][c] /\ ix[u][c] # NoIndex
      BY <1>2, <2>1 DEF HasIndex
    <2>3. IndexRight(u, c)
      BY <2>2, IndexMatchesRowsAs DEF IInv, HasIndex
    <2>4. PICK i : i = ix[u][c]
      OBVIOUS
    <2>5. Named(i) = {<<u, c>>}
      BY <2>3, <2>4 DEF IndexRight
    <2>6. ASSUME NEW x \in Cells
          PROVE  ix'[x[1]][x[2]] = i <=> ix[x[1]][x[2]] = i
      <3>1. x[1] \in Tables /\ x[2] \in Columns(x[1]) /\ x = <<x[1], x[2]>>
        BY CellFacts
      <3>2. CASE x = <<u, c>>
        BY <2>2, <2>4, <3>2
      <3>3. CASE x # <<u, c>>
        <4>1. ix[x[1]][x[2]] # i
          BY <2>5, <3>3 DEF Named
        <4> QED
          BY <1>2, <2>2, <2>4, <3>1, <4>1
      <3> QED
        BY <3>2, <3>3
    <2>7. Named(i)' = Named(i)
      BY <2>6 DEF Named
    <2> QED
      BY <1>1, <2>2, <2>3, <2>4, <2>7, Untouched
  <1>10. KeysUnique'
    BY <1>1 DEF IInv, KeysUnique, UniqueIn
  <1> QED
    BY <1>5, <1>6, <1>7, <1>8, <1>9, <1>10 DEF IInv
-----------------------------------------------------------------------------
(* The induction.                                                             *)
LEMMA InitInv == Init => IInv
  <1> SUFFICES ASSUME Init PROVE IInv
    OBVIOUS
  <1>1. Range(order) = {} /\ IsInjective(order) /\ order \in Seq(Tables)
    BY DEF Init, Range, IsInjective
  <1>2. Shapes
    BY <1>1 DEF Init, Shapes, NoRows
  <1>3. \A t \in Tables : DOMAIN rows[t] = {} /\ Range(rows[t]) = {}
    BY DEF Init, NoRows, Range
  <1>4. TypeOK
    BY <1>1, <1>3 DEF Init, TypeOK
  <1>5. Absent
    BY <1>3 DEF Init, Absent, HasIndex
  <1>6. Linked /\ IndexMatchesRows /\ KeysUnique
    BY <1>1 DEF Linked, IndexMatchesRows, KeysUnique
  <1> QED
    BY <1>2, <1>4, <1>5, <1>6 DEF IInv

LEMMA NextInv == IInv /\ [Next]_vars => IInv'
  <1> SUFFICES ASSUME IInv, [Next]_vars PROVE IInv'
    OBVIOUS
  <1>1. ASSUME NEW t \in Tables, CreateTable(t) PROVE IInv'
    BY <1>1, CreateTableStep
  <1>2. ASSUME NEW t \in Tables, DropTable(t) PROVE IInv'
    BY <1>2, DropTableStep
  <1>3. ASSUME NEW x \in Cells, CreateIndex(x[1], x[2]) PROVE IInv'
    BY <1>3, CreateIndexStep
  <1>4. ASSUME NEW x \in Cells, DropIndex(x[1], x[2]) PROVE IInv'
    BY <1>4, DropIndexStep
  <1>5. ASSUME NEW t \in Tables, NEW b \in Batches(t), Insert(t, b) PROVE IInv'
    BY <1>5, InsertStep
  <1>6. ASSUME NEW t \in Tables, NEW cond \in Conditions(t), Delete(t, cond) PROVE IInv'
    BY <1>6, DeleteStep
  <1>7. ASSUME NEW x \in Cells, NEW v \in Data \cup {Null},
               NEW cond \in Conditions(x[1]), Update(x[1], x[2], v, cond)
        PROVE  IInv'
    BY <1>7, UpdateStep
  <1>8. ASSUME NEW t \in Tables, NEW cond \in Conditions(t), Select(t, cond) PROVE IInv'
    BY <1>8, DieStep DEF Select
  <1>9. CASE Reopen
    BY <1>9, ReopenStep
  <1>10. CASE UNCHANGED vars
    BY <1>10, DataStays DEF vars, IInv, TypeOK
  <1> QED
    BY <1>1, <1>2, <1>3, <1>4, <1>5, <1>6, <1>7, <1>8, <1>9, <1>10 DEF Next

\* The invariant holds in every state: whatever statements follow each other,
\* also behind statements that have brought columns out of step.
THEOREM Invariance == Spec => []IInv
  BY InitInv, NextInv, PTL DEF Spec

\* Table::insert, delete_ and update and the statements on tables and indexes
\* leave rows, ids and entries of their types.
THEOREM TypeCorrect == Spec => []TypeOK
  <1>1. IInv => TypeOK
    BY DEF IInv
  <1> QED
    BY <1>1, Invariance, PTL

\* The index of a column that is not stale has exactly the entries of its rows,
\* and no other column names it.
THEOREM IndexesInStep == Spec => []IndexMatchesRows
  <1>1. IInv => IndexMatchesRows
    BY DEF IInv
  <1> QED
    BY <1>1, Invariance, PTL

\* INSERT's checks keep unique columns and single primary keys unique, whether
\* they ask an index or scan the rows.
THEOREM KeysStayUnique == Spec => []KeysUnique
  <1>1. IInv => KeysUnique
    BY DEF IInv
  <1> QED
    BY <1>1, Invariance, PTL
-----------------------------------------------------------------------------
(* What single statements do: the rows that a step adds or changes.           *)
Kept ==
    \A t \in Tables : /\ DOMAIN rows'[t] \subseteq DOMAIN rows[t]
                      /\ \A s \in DOMAIN rows'[t] : rows'[t][s] = rows[t][s]

LEMMA StepRows ==
    ASSUME IInv, [Next]_vars
    PROVE  \/ Kept
           \/ \E t \in Tables : \E n \in Nat : \E b \in [1 .. n -> Records(t)] :
                 Inserted(t, n, b)
           \/ \E x \in Cells, v \in Data \cup {Null} : \E hit :
                 Updated(x[1], x[2], v, hit) /\ UpdateCheck(x[1], x[2], v) = "ok"
  <1>1. UNCHANGED rows => Kept
    BY DEF Kept
  <1>2. ASSUME NEW t \in Tables, CreateTable(t) PROVE Kept
    BY <1>1, <1>2 DEF CreateTable
  <1>3. ASSUME NEW t \in Tables, DropTable(t) PROVE Kept
    <2>1. \A u \in Tables : rows'[u] = IF u = t THEN NoRows ELSE rows[u]
      BY <1>3 DEF DropTable, IInv, Shapes
    <2> QED
      BY <2>1 DEF Kept, NoRows
  <1>4. ASSUME NEW x \in Cells, CreateIndex(x[1], x[2]) \/ DropIndex(x[1], x[2]) PROVE Kept
    BY <1>1, <1>4 DEF CreateIndex, DropIndex
  <1>5. ASSUME NEW t \in Tables, NEW b \in Batches(t), Insert(t, b)
        PROVE  \/ Kept
               \/ \E n \in Nat : b \in [1 .. n -> Records(t)] /\ Inserted(t, n, b)
    BY <1>1, <1>5, InsertCases DEF Die
  <1>6. ASSUME NEW t \in Tables, NEW cond \in Conditions(t), Delete(t, cond) PROVE Kept
    <2>1. CASE Die
      BY <1>1, <2>1 DEF Die
    <2>2. CASE ~Die
      <3>1. Deleted(t, Filtered(t, cond))
        BY <1>6, <2>2 DEF Delete, Deleted, Filtered
      <3> QED
        BY <3>1, DeletedRows DEF Kept
    <2> QED
      BY <2>1, <2>2
  <1>7. ASSUME NEW x \in Cells, NEW v \in Data \cup {Null},
               NEW cond \in Conditions(x[1]), Update(x[1], x[2], v, cond)
        PROVE  \/ Kept
               \/ \E hit : Updated(x[1], x[2], v, hit) /\ UpdateCheck(x[1], x[2], v) = "ok"
    <2>1. CASE Die
      BY <1>1, <2>1 DEF Die
    <2>2. CASE ~Die
      <3>1. /\ Updated(x[1], x[2], v, Filtered(x[1], cond))
            /\ UpdateCheck(x[1], x[2], v) = "ok"
        BY <1>7, <2>2 DEF Update, Updated, Filtered
      <3> QED
        BY <3>1
    <2> QED
      BY <2>1, <2>2
  <1>8. ASSUME NEW t \in Tables, NEW cond \in Conditions(t), Select(t, cond) PROVE Kept
    BY <1>1, <1>8 DEF Select, Die
  <1>9. CASE Reopen
    BY <1>1, <1>9 DEF Reopen
  <1>10. CASE UNCHANGED vars
    BY <1>1, <1>10 DEF vars
  <1> QED
    BY <1>2, <1>3, <1>4, <1>5, <1>6, <1>7, <1>8, <1>9, <1>10 DEF Next

NewKeysDiffer ==
    \A t \in Range(order) : \A s \in DOMAIN rows'[t] \ DOMAIN rows[t] :
        ~OnePK(t) => \A r \in DOMAIN rows[t] :
            \E c \in PkIds(t) : rows'[t][s][c] # rows[t][r][c]

LEMMA InsertedKeysDiffer ==
    ASSUME IInv, NEW t \in Tables, NEW n \in Nat, NEW b \in [1 .. n -> Records(t)],
           Inserted(t, n, b)
    PROVE  NewKeysDiffer
  <1>1. /\ \A u \in Tables \ {t} : rows'[u] = rows[u]
        /\ DOMAIN rows'[t] = DOMAIN rows[t] \cup DOMAIN New(t, b)
        /\ \A s \in DOMAIN New(t, b) : rows'[t][s] = New(t, b)[s]
    BY InsertedRows DEF Inserted
  <1>2. \A s \in DOMAIN New(t, b) : \E j \in 1 .. n : New(t, b)[s] = b[j]
    BY Types, NewFacts DEF Inserted
  <1>3. KeyCheck(t, b) = "ok" /\ DOMAIN b = 1 .. n
    BY InsertChecked DEF Inserted
  <1>4. SUFFICES ASSUME NEW s \in DOMAIN New(t, b), ~OnePK(t), NEW r \in DOMAIN rows[t],
                        \A c \in PkIds(t) : New(t, b)[s][c] = rows[t][r][c]
                 PROVE  FALSE
    BY <1>1, Types DEF NewKeysDiffer
  <1>5. PICK j \in 1 .. n : New(t, b)[s] = b[j]
    BY <1>2
  <1>6. Restrict(b[j], PkIds(t)) = Restrict(rows[t][r], PkIds(t))
    BY <1>4, <1>5 DEF Restrict
  <1>7. PKHash(t, b[j]) = PKHash(t, rows[t][r])
    BY <1>6 DEF PKHash
  <1>8. PKHash(t, b[j]) \in {PKHash(t, rows[t][q]) : q \in DOMAIN rows[t]}
    BY <1>7
  <1> QED
    BY <1>3, <1>4, <1>8 DEF KeyCheck

\* calcPKHash takes rows with equal keys to equal hashes, so that no record gets
\* the key of a stored one, however the key is composed.
THEOREM StoredKeysChecked == Spec => KeysAgainstStored
  <1>1. ASSUME IInv, [Next]_vars PROVE NewKeysDiffer
    <2>1. CASE Kept
      BY <1>1, <2>1, Types DEF Kept, NewKeysDiffer
    <2>2. ASSUME NEW t \in Tables, NEW n \in Nat, NEW b \in [1 .. n -> Records(t)],
                 Inserted(t, n, b)
          PROVE  NewKeysDiffer
      BY <1>1, <2>2, InsertedKeysDiffer
    <2>3. ASSUME NEW x \in Cells, NEW v \in Data \cup {Null}, NEW hit,
                 Updated(x[1], x[2], v, hit)
          PROVE  NewKeysDiffer
      <3>1. \A u \in Tables : DOMAIN rows'[u] = DOMAIN rows[u]
        BY <1>1, <2>3, CellFacts, UpdatedRows
      <3> QED
        BY <1>1, <3>1, Types DEF NewKeysDiffer
    <2> QED
      BY <1>1, <2>1, <2>2, <2>3, StepRows
  <1>2. IInv /\ [Next]_vars => [NewKeysDiffer]_vars
    BY <1>1
  <1>3. KeysAgainstStored <=> [][NewKeysDiffer]_vars
    BY DEF KeysAgainstStored, NewKeysDiffer
  <1> QED
    BY <1>2, <1>3, Invariance, PTL DEF Spec
\* An index that is found by way of a resolved reference is that of the column
\* referred to, and tells what the column holds.
LEMMA ReferenceFound ==
    ASSUME IInv, NEW t \in Range(order), NEW c \in Columns(t),
           Refers(t, c), Resolves(t, c)
    PROVE  /\ fk[t][c] # NoTable
           /\ Schema[t][c].ref[1] \in Range(order)
           /\ Schema[t][c].ref \in Cells
           /\ ForeignIndex(t, c) = ix[Schema[t][c].ref[1]][Schema[t][c].ref[2]]
  <1> DEFINE u == Schema[t][c].ref[1]
             d == Schema[t][c].ref[2]
  <1>1. t \in Tables
    BY Types
  <1>2. Schema[t][c].ref \in Cells
    BY <1>1, SchemaFacts
  <1>3. u \in Tables /\ d \in Columns(u)
    BY <1>2, CellFacts
  <1>4. fk[t][c] \in Nat
    BY DEF IInv, Linked
  <1>5. fk[t][c] < Len(order) /\ order[fk[t][c] + 1] = u
    BY DEF Resolves
  <1>6. fk[t][c] # NoTable
    BY <1>4 DEF NoTable
  <1> HIDE DEF u, d
  <1>7. u \in Range(order)
    <2>1. fk[t][c] + 1 \in 1 .. Len(order)
      BY <1>4, <1>5, Positions
    <2> QED
      BY <1>5, <2>1, Positions
  <1>8. ~(fk[t][c] >= Len(order))
    BY <1>4, <1>5, Positions
  <1>9. ForeignIndex(t, c) = ix[u][d]
    BY <1>3, <1>5, <1>8 DEF ForeignIndex, d
  <1> QED
    BY <1>2, <1>6, <1>7, <1>9 DEF u, d

LEMMA ReferenceHolds ==
    ASSUME IInv, NEW t \in Range(order), NEW c \in Columns(t),
           Refers(t, c), Resolves(t, c), Schema[t][c].ref \notin stale,
           NEW v, IsUsed(ForeignIndex(t, c)), HasEntry(ForeignIndex(t, c), v)
    PROVE  \E r \in DOMAIN rows[Schema[t][c].ref[1]] :
              rows[Schema[t][c].ref[1]][r][Schema[t][c].ref[2]] = v
  <1>1. PICK u, d : u = Schema[t][c].ref[1] /\ d = Schema[t][c].ref[2]
    OBVIOUS
  <1>2. u \in Range(order) /\ ForeignIndex(t, c) = ix[u][d] /\ Schema[t][c].ref \in Cells
    BY <1>1, ReferenceFound
  <1>3. d \in Columns(u) /\ Schema[t][c].ref = <<u, d>>
    BY <1>1, <1>2, CellFacts
  <1>4. HasIndex(u, d)
    BY <1>2 DEF IsUsed, HasIndex
  <1>5. IndexRight(u, d)
    BY <1>2, <1>3, <1>4, IndexMatchesRowsAs DEF IInv
  <1>6. PICK e \in RowEntries(u, d) : e[1] = v
    BY <1>2, <1>5 DEF IndexRight, HasEntry
  <1>7. \E r \in DOMAIN rows[u] : rows[u][r][d] = v
    BY <1>6 DEF RowEntries
  <1> QED
    BY <1>1, <1>7

\* Values that a step brings into column c of t.
Brought(t, c, s) ==
    /\ s \in DOMAIN rows'[t] /\ rows'[t][s][c] # Null
    /\ s \in DOMAIN rows[t] => rows[t][s][c] # rows'[t][s][c]

LEMMA BroughtChecked ==
    ASSUME IInv, [Next]_vars, NEW t \in Range(order), NEW c \in Columns(t), NEW s,
           Brought(t, c, s), fk[t][c] # NoTable
    PROVE  IsUsed(ForeignIndex(t, c)) /\ HasEntry(ForeignIndex(t, c), rows'[t][s][c])
  <1>1. t \in Tables
    BY Types
  <1>2. CASE Kept
    BY <1>1, <1>2 DEF Kept, Brought
  <1>3. ASSUME NEW u \in Tables, NEW n \in Nat, NEW b \in [1 .. n -> Records(u)],
               Inserted(u, n, b)
        PROVE  IsUsed(ForeignIndex(t, c)) /\ HasEntry(ForeignIndex(t, c), rows'[t][s][c])
    <2>1. /\ \A w \in Tables \ {u} : rows'[w] = rows[w]
          /\ DOMAIN rows'[u] = DOMAIN rows[u] \cup DOMAIN New(u, b)
          /\ \A r \in DOMAIN rows[u] : rows'[u][r] = rows[u][r]
          /\ \A r \in DOMAIN New(u, b) : rows'[u][r] = New(u, b)[r]
      BY <1>3, InsertedRows DEF Inserted
    <2>2. u = t /\ s \in DOMAIN New(t, b) /\ rows'[t][s] = New(t, b)[s]
      BY <1>1, <2>1 DEF Brought
    <2>3. PICK j \in 1 .. n : New(t, b)[s] = b[j]
      BY <1>3, <2>2, Types, NewFacts DEF Inserted
    <2> DEFINE values == [i \in DOMAIN b |-> b[i][c]]
    <2>4. ForeignCheck(t, c, values) = "ok"
      BY <1>1, <1>3, <2>2, InsertChecked DEF Inserted
    <2>5. DOMAIN values = 1 .. n /\ values[j] = rows'[t][s][c]
      BY <2>2, <2>3
    <2> HIDE DEF values
    <2> QED
      BY <2>4, <2>5, ForeignOk
  <1>4. ASSUME NEW x \in Cells, NEW v \in Data \cup {Null}, NEW hit,
               Updated(x[1], x[2], v, hit), UpdateCheck(x[1], x[2], v) = "ok"
        PROVE  IsUsed(ForeignIndex(t, c)) /\ HasEntry(ForeignIndex(t, c), rows'[t][s][c])
    <2>1. x[1] \in Tables /\ x[2] \in Columns(x[1])
      BY CellFacts
    <2>2. /\ \A w \in Tables \ {x[1]} : rows'[w] = rows[w]
          /\ DOMAIN rows'[x[1]] = DOMAIN rows[x[1]]
          /\ \A r \in DOMAIN rows[x[1]] : \A d \in Columns(x[1]) :
                rows'[x[1]][r][d] = IF r \in hit /\ d = x[2] THEN v ELSE rows[x[1]][r][d]
      BY <1>4, <2>1, UpdatedRows
    <2>3. t = x[1]
      BY <1>1, <2>2 DEF Brought
    <2>4. c = x[2] /\ rows'[t][s][c] = v /\ v # Null
      BY <2>2, <2>3 DEF Brought
    <2> DEFINE values == <<v>>
    <2>5. ForeignCheck(t, c, values) = "ok"
      BY <1>4, <2>3, <2>4 DEF UpdateCheck
    <2>6. PICK n \in Nat : n = 1 /\ DOMAIN values = 1 .. n /\ values[n] = v
      OBVIOUS
    <2> HIDE DEF values
    <2>7. /\ IsUsed(ForeignIndex(t, c))
          /\ \A j \in 1 .. n : HasEntry(ForeignIndex(t, c), values[j])
      BY <2>5, <2>6, ForeignOk
    <2> QED
      BY <2>4, <2>6, <2>7
  <1> QED
    BY <1>2, <1>3, <1>4, StepRows

NewReferencesHold ==
    \A t \in Range(order) : \A c \in Columns(t) : \A s \in DOMAIN rows'[t] :
       /\ Refers(t, c) /\ Resolves(t, c) /\ Schema[t][c].ref \notin stale
       /\ rows'[t][s][c] # Null
       /\ s \in DOMAIN rows[t] => rows[t][s][c] # rows'[t][s][c]
       => LET u == Schema[t][c].ref[1]
          IN  \E r \in DOMAIN rows[u] : rows[u][r][Schema[t][c].ref[2]] = rows'[t][s][c]

\* A value that INSERT or UPDATE brings into a column with a foreign key is in
\* the column referred to: the lookup in the index answers for the rows.
THEOREM ReferencesChecked == Spec => ForeignKeysChecked
  <1>1. ASSUME IInv, [Next]_vars PROVE NewReferencesHold
    <2> SUFFICES ASSUME NEW t \in Range(order), NEW c \in Columns(t), NEW s,
                        Brought(t, c, s), Refers(t, c), Resolves(t, c),
                        Schema[t][c].ref \notin stale
                 PROVE  \E r \in DOMAIN rows[Schema[t][c].ref[1]] :
                           rows[Schema[t][c].ref[1]][r][Schema[t][c].ref[2]] = rows'[t][s][c]
      BY DEF NewReferencesHold, Brought
    <2>1. fk[t][c] # NoTable
      BY <1>1, ReferenceFound
    <2>2. IsUsed(ForeignIndex(t, c)) /\ HasEntry(ForeignIndex(t, c), rows'[t][s][c])
      BY <1>1, <2>1, BroughtChecked
    <2> QED
      BY <1>1, <2>2, ReferenceHolds
  <1>2. IInv /\ [Next]_vars => [NewReferencesHold]_vars
    BY <1>1
  <1>3. ForeignKeysChecked <=> [][NewReferencesHold]_vars
    BY DEF ForeignKeysChecked, NewReferencesHold
  <1> QED
    BY <1>2, <1>3, Invariance, PTL DEF Spec
-----------------------------------------------------------------------------
(* Why a statement ends the process.                                          *)
InOrder == stale = {} /\ \A t \in Range(order) : Safe(t)

\* Without stale columns every index is in step.
LEMMA AllRight ==
    ASSUME IInv, InOrder, NEW t \in Range(order), NEW c \in Columns(t), HasIndex(t, c)
    PROVE  IndexRight(t, c)
  BY IndexMatchesRowsAs DEF IInv, InOrder

LEMMA AllUsed ==
    ASSUME IInv, InOrder, NEW t \in Range(order)
    PROVE  IndexesUsed(t)
  BY AllRight DEF IndexesUsed, IndexRight

LEMMA NoneDoubled ==
    ASSUME IInv, InOrder, NEW t \in Range(order), NEW r
    PROVE  ~Doubled(t, r)
  <1> SUFFICES ASSUME NEW c \in Columns(t), NEW d \in Columns(t), c # d,
                      HasIndex(t, c), ix[t][c] = ix[t][d]
               PROVE  FALSE
    BY DEF Doubled
  <1>1. HasIndex(t, d)
    BY DEF HasIndex
  <1>2. Named(ix[t][c]) = {<<t, c>>} /\ Named(ix[t][d]) = {<<t, d>>}
    BY <1>1, AllRight DEF IndexRight
  <1>3. <<t, c>> = <<t, d>>
    BY <1>2, Zenon
  <1>4. <<t, c>>[2] = <<t, d>>[2]
    BY <1>3, Zenon
  <1> QED
    BY <1>4

\* The filters find the records that their index names.
LEMMA FiltersLive ==
    ASSUME IInv, InOrder, NEW t \in Range(order), NEW cond \in Conditions(t)
    PROVE  ~FilterDies(t, cond)
  <1> SUFFICES ASSUME UsesIndex(t, cond)
               PROVE  IsUsed(ix[t][cond[1]]) /\ FromIndex(t, cond) \subseteq Rids(t)
    BY DEF FilterDies
  <1>1. cond \in Columns(t) \X Data
    BY DEF UsesIndex, Conditions
  <1>2. cond[1] \in Columns(t) /\ HasIndex(t, cond[1])
    BY <1>1 DEF UsesIndex
  <1>3. IndexRight(t, cond[1])
    BY <1>2, AllRight
  <1>4. FromIndex(t, cond) \subseteq {e[2] : e \in RowEntries(t, cond[1])}
    BY <1>3 DEF FromIndex, IndexRight
  <1>5. {e[2] : e \in RowEntries(t, cond[1])} \subseteq Rids(t)
    BY DEF RowEntries, Rids
  <1> QED
    BY <1>3, <1>4, <1>5 DEF IndexRight

\* A foreign key that has a value is looked up in an index that is there.
LEMMA ForeignLives ==
    ASSUME IInv, InOrder, NEW t \in Range(order), NEW c \in Columns(t),
           NEW n \in Nat, NEW values, DOMAIN values = 1 .. n,
           \A j \in 1 .. n : values[j] = Null =>
              Schema[t][c].nullable /\ ~Schema[t][c].primaryKey
    PROVE  ForeignCheck(t, c, values) # "dies"
  <1> SUFFICES ASSUME ForeignCheck(t, c, values) = "dies"
               PROVE  FALSE
    OBVIOUS
  <1>1. /\ fk[t][c] # NoTable
        /\ ~IsUsed(ForeignIndex(t, c)) \/ \E j \in 1 .. n : values[j] = Null
    BY ForeignDies
  <1>2. Refers(t, c)
    BY <1>1 DEF IInv, Linked
  <1>3. /\ Resolves(t, c) /\ IsUsed(ForeignIndex(t, c))
        /\ ~(Schema[t][c].nullable /\ ~Schema[t][c].primaryKey)
    BY <1>2 DEF InOrder, Safe
  <1> QED
    BY <1>1, <1>3

LEMMA InsertLives ==
    ASSUME IInv, InOrder, NEW t \in Range(order), NEW n \in Nat,
           NEW b \in [1 .. n -> Records(t)], Room(t, n)
    PROVE  CheckInsertValues(t, b) # "dies" /\ ~Collides(t, b)
  <1>1. t \in Tables /\ DOMAIN rows[t] \subseteq Slots /\ DOMAIN b = 1 .. n
    BY Types
  <1>2. ASSUME NEW c \in Columns(t), NullCheck(t, c, b) = "ok",
               NEW j \in 1 .. n, b[j][c] = Null
        PROVE  Schema[t][c].nullable /\ ~Schema[t][c].primaryKey
    BY <1>1, <1>2 DEF NullCheck
  <1>3. ASSUME NEW c \in Columns(t), NullCheck(t, c, b) = "ok"
        PROVE  UniqueCheck(t, c, b) # "dies"
    <2> SUFFICES ASSUME UniqueCheck(t, c, b) = "dies"
                 PROVE  FALSE
      OBVIOUS
    <2>1. IsUnique(t, c) /\ HasIndex(t, c) /\ \E j \in 1 .. n : b[j][c] = Null
      BY <1>1, UniqueDies
    <2>2. Schema[t][c].nullable /\ ~Schema[t][c].primaryKey
      BY <1>2, <1>3, <2>1
    <2>3. Schema[t][c].unique
      BY <2>1, <2>2 DEF IsUnique
    <2> QED
      BY <2>1, <2>2, <2>3 DEF InOrder, Safe
  <1>4. ASSUME NEW c \in Columns(t), NullCheck(t, c, b) = "ok"
        PROVE  ForeignCheck(t, c, [j \in DOMAIN b |-> b[j][c]]) # "dies"
    <2> DEFINE values == [j \in DOMAIN b |-> b[j][c]]
    <2>1. DOMAIN values = 1 .. n /\ \A j \in 1 .. n : values[j] = b[j][c]
      BY <1>1
    <2> HIDE DEF values
    <2>2. ForeignCheck(t, c, values) # "dies"
      BY <1>2, <1>4, <2>1, ForeignLives
    <2> QED
      BY <2>2 DEF values
  <1>5. CheckInsertValues(t, b) # "dies"
    BY <1>1, <1>3, <1>4, AllUsed, InsertDies
  <1>6. ASSUME NEW i \in IndexIds, NEW e \in Gained(t, b, i), e \in indexes[i].entries
        PROVE  FALSE
    <2>1. PICK s \in DOMAIN New(t, b) : e \in EntriesOf(t, s, New(t, b)[s], i)
      BY DEF Gained
    <2>2. PICK c \in Columns(t) : ix[t][c] = i /\ e = <<New(t, b)[s][c], Rid(t, s)>>
      BY <2>1 DEF EntriesOf
    <2>3. HasIndex(t, c)
      BY <2>2, BoundsAssumption DEF HasIndex, IndexIds, NoIndex
    <2>4. e \in RowEntries(t, c)
      BY <1>6, <2>2, <2>3, AllRight DEF IndexRight
    <2>5. s \in DOMAIN rows[t]
      BY <2>2, <2>4 DEF RowEntries, Rid
    <2>6. DOMAIN New(t, b) \subseteq Slots \ DOMAIN rows[t]
      BY <1>1, NewFacts
    <2> QED
      BY <2>5, <2>6
  <1>7. ~Collides(t, b)
    BY <1>6, NoneDoubled DEF Collides
  <1> QED
    BY <1>5, <1>7

\* The entries of a row are in its indexes.
LEMMA LostThere ==
    ASSUME IInv, InOrder, NEW t \in Range(order), NEW gone \in SUBSET DOMAIN rows[t],
           NEW i \in IndexIds
    PROVE  Lost(t, gone, i) \subseteq indexes[i].entries
  <1> SUFFICES ASSUME NEW e \in Lost(t, gone, i)
               PROVE  e \in indexes[i].entries
    OBVIOUS
  <1>1. PICK s \in gone : e \in EntriesOf(t, s, rows[t][s], i)
    BY DEF Lost
  <1>2. PICK c \in Columns(t) :
           ix[t][c] = i /\ rows[t][s][c] # Null /\ e = <<rows[t][s][c], Rid(t, s)>>
    BY <1>1 DEF EntriesOf
  <1>3. HasIndex(t, c)
    BY <1>2, BoundsAssumption DEF HasIndex, IndexIds, NoIndex
  <1>4. e \in RowEntries(t, c)
    BY <1>2 DEF RowEntries
  <1> QED
    BY <1>2, <1>3, <1>4, AllRight DEF IndexRight

LEMMA NoneDies ==
    ASSUME IInv, InOrder, Next, alive
    PROVE  alive'
  <1>1. ASSUME NEW t \in Tables, CreateTable(t) \/ DropTable(t) PROVE alive'
    BY <1>1 DEF CreateTable, DropTable
  <1>2. ASSUME NEW x \in Cells, CreateIndex(x[1], x[2]) \/ DropIndex(x[1], x[2]) PROVE alive'
    BY <1>2 DEF CreateIndex, DropIndex
  <1>3. ASSUME NEW t \in Tables, NEW b \in Batches(t), Insert(t, b) PROVE alive'
    <2>1. PICK n \in Nat :
             /\ b \in [1 .. n -> Records(t)] /\ Room(t, n) /\ Exists(t)
             /\ \/ CheckInsertValues(t, b) = "dies"
                \/ Collides(t, b)
                \/ Inserted(t, n, b)
      BY <1>3, InsertCases
    <2>2. CheckInsertValues(t, b) # "dies" /\ ~Collides(t, b)
      BY <2>1, InsertLives DEF Exists
    <2> QED
      BY <2>1, <2>2 DEF Inserted
  <1>4. ASSUME NEW t \in Tables, NEW cond \in Conditions(t), Delete(t, cond) PROVE alive'
    <2> DEFINE gone == Filtered(t, cond)
    <2>1. t \in Range(order) /\ gone \in SUBSET DOMAIN rows[t]
      BY <1>4 DEF Delete, Exists, Filtered
    <2> HIDE DEF gone
    <2>2. /\ IndexesUsed(t) /\ ~FilterDies(t, cond)
          /\ \A s \in gone : ~Doubled(t, rows[t][s])
          /\ \A i \in IndexIds : Lost(t, gone, i) \subseteq indexes[i].entries
      BY <2>1, AllUsed, FiltersLive, NoneDoubled, LostThere
    <2> QED
      BY <1>4, <2>2 DEF Delete, gone
  <1>5. ASSUME NEW x \in Cells, NEW v \in Data \cup {Null},
               NEW cond \in Conditions(x[1]), Update(x[1], x[2], v, cond)
        PROVE  alive'
    <2>1. x[1] \in Range(order) /\ x[2] \in Columns(x[1])
      BY <1>5, CellFacts DEF Update, Exists
    <2>2. ~FilterDies(x[1], cond)
      BY <2>1, FiltersLive
    <2>3. v # Null => ForeignCheck(x[1], x[2], <<v>>) # "dies"
      <3> SUFFICES ASSUME v # Null PROVE ForeignCheck(x[1], x[2], <<v>>) # "dies"
        OBVIOUS
      <3> DEFINE values == <<v>>
                 n == 1
      <3>1. /\ n \in Nat /\ DOMAIN values = 1 .. n
            /\ \A j \in 1 .. n : values[j] # Null
        OBVIOUS
      <3> HIDE DEF values, n
      <3>2. ForeignCheck(x[1], x[2], values) # "dies"
        BY <2>1, <3>1, ForeignLives
      <3> QED
        BY <3>2 DEF values
    <2>4. UpdateCheck(x[1], x[2], v) # "dies"
      BY <2>3 DEF UpdateCheck
    <2> QED
      BY <1>5, <2>2, <2>4 DEF Update
  <1>6. ASSUME NEW t \in Tables, NEW cond \in Conditions(t), Select(t, cond) PROVE alive'
    <2>1. t \in Range(order) /\ FilterDies(t, cond)
      BY <1>6 DEF Select, Exists
    <2> QED
      BY <2>1, FiltersLive
  <1>7. CASE Reopen
    BY <1>7 DEF Reopen
  <1> QED
    BY <1>1, <1>2, <1>3, <1>4, <1>5, <1>6, <1>7 DEF Next

CauseGiven == ~alive' => stale # {} \/ \E t \in Range(order) : ~Safe(t)

\* While no column is stale and all tables are safe, no exception leaves
\* insert, delete_, update or select: every entry that they delete is there,
\* none that they insert is, and every RID of an index is one of a record.
THEOREM CauseOfDeath == Spec => DiesForCause
  <1>1. ASSUME IInv, Next PROVE CauseGiven
    <2>1. alive
      BY <1>1 DEF Next, CreateTable, DropTable, CreateIndex, DropIndex, Insert, Delete,
                  Update, Select, Reopen
    <2> QED
      BY <1>1, <2>1, NoneDies DEF CauseGiven, InOrder
  <1>2. IInv /\ [Next]_vars => [CauseGiven]_vars
    BY <1>1
  <1>3. DiesForCause <=> [][CauseGiven]_vars
    BY DEF DiesForCause, CauseGiven
  <1> QED
    BY <1>2, <1>3, Invariance, PTL DEF Spec
=============================================================================

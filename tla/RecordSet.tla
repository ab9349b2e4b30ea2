------------------------------ MODULE RecordSet ------------------------------
(* The heap files of a database: RecordManager (the named sets of the meta    *)
(* page) and RecordSet (a doubly linked chain of data pages per set).  Every  *)
(* operation of the code runs to its end or to an exception before the next   *)
(* one starts, so each is one action; the inputs for which the code throws    *)
(* before it has changed anything are left out by the guards.                 *)
(*                                                                            *)
(* Pages are as in the file: a released page keeps its bytes.  The layout of  *)
(* bytes in a page is abstracted: a data page has the words prev, next, owner *)
(* and count, and slots that are Free or hold a value.                        *)
EXTENDS DatabasePages, PageLayout, Sequences, FiniteSets, Functions

CONSTANTS Names,        \* names of record sets
          Values,       \* contents of a record
          Free,         \* a slot whose bit is 0
          RecordLength, \* bytes of a record, the same in every set here
          MaxTableCount \* MAX_TABLE_COUNT, 30 in the code

ASSUME LengthAssumption == RecordLength \in RecordLengths
ASSUME FreeAssumption   == Free \notin Values
ASSUME TableCountAssumption == MaxTableCount \in Nat

MaxRecord == MaxRecordPerPage(RecordLength)   \* maxRecordPerPage
Slots == 0 .. MaxRecord - 1
RIDs  == PageIds \X Slots

VARIABLES
    used,      \* pageUsedBitset of page 0
    dir,       \* tableInfo of page 0: the sets on file, in order
    page,      \* page -> its words
    sets,      \* RecordManager::tables: the RecordSet objects in memory
    damaged    \* history: a page was unlinked through a stale prev pointer

vars == <<used, dir, page, sets, damaged>>

Zero == [prev |-> 0, next |-> 0, owner |-> 0, first |-> 0, count |-> 0,
         slot |-> [s \in Slots |-> Free]]

Indices == 1 .. Len(sets)
Exists(n) == \E i \in Indices : sets[i].name = n

\* RecordManager::getSet
IndexOf(n) == CHOOSE i \in Indices : sets[i].name = n
Set(n)     == sets[IndexOf(n)]

\* The page numbers a walk along the chain reads: the first page, the page
\* after it and so on.  It rests at NoPage, or at a page that is not used, for
\* which Database::getPage throws.
Succ == [p \in PageIds \cup {NoPage} |-> IF p \in used THEN page[p].next ELSE p]

Walk(succ, first) ==
    LET at[k \in 1 .. MaxPageNum] == IF k = 1 THEN first ELSE succ[at[k - 1]]
    IN  [k \in 1 .. MaxPageNum |-> at[k]]

Path(n) == Walk(Succ, Set(n).firstDataPageID)

DataPages(n) == Range(Path(n)) \cap used

\* The walk meets used data pages only and reaches the end of the chain.
WalkEnds(n) ==
    LET s == Path(n)
    IN  s[Len(s)] = NoPage /\ Set(n).tablePageID \notin Range(s)
-----------------------------------------------------------------------------
Init ==
    /\ used = InitialPages
    /\ dir = << >>
    /\ page = [p \in PageIds |-> Zero]
    /\ sets = << >>
    /\ damaged = FALSE

\* RecordManager::createSet: a page for the table, an entry on page 0.
CreateSet(n) ==
    /\ Len(sets) < MaxTableCount
    /\ ~Exists(n)
    /\ HasFreePage(used)
    /\ LET p == NewPage(used) IN
       /\ used' = used \cup {p}
       /\ page' = [page EXCEPT ![p] = [Zero EXCEPT !.first = NoPage]]
       /\ dir'  = Append(dir, [name |-> n, metaPageID |-> p])
       /\ sets' = Append(sets, [name |-> n, tablePageID |-> p, id |-> Len(sets),
                                firstDataPageID |-> NoPage])
    /\ UNCHANGED damaged

\* Faulty variants, named Faulty..., stand beside the definitions they change.
\* Faulty: deleteSet forgets the data pages.
FaultyChainPages(n) == {}

\* deleteData releases page after page and throws at the first one that is not
\* used; the table page has been released before it.
ChainPages(n) ==
    LET s == Path(n)
        released == {k \in 1 .. Len(s) :
                        \A j \in 1 .. k : s[j] \in used \ {Set(n).tablePageID}}
    IN  {s[k] : k \in released}

FaultyWithoutEntry(s, i) == SubSeq(s, 1, Len(s) - 1)

WithoutEntry(s, i) ==      \* the last entry moves into the hole
    [j \in 1 .. Len(s) - 1 |-> IF j = i THEN s[Len(s)] ELSE s[j]]

\* RecordManager::deleteSet
DeleteSet(n) ==
    /\ Exists(n)
    /\ Set(n).tablePageID \in used
    /\ used' = used \ ({Set(n).tablePageID} \cup ChainPages(n))
    /\ IF WalkEnds(n)
       THEN /\ dir'  = WithoutEntry(dir, IndexOf(n))
            /\ sets' = WithoutEntry(sets, IndexOf(n))
       ELSE UNCHANGED <<dir, sets>>
    /\ UNCHANGED <<page, damaged>>

\* The lowest slot whose bit is 0.
FreeSlot(pg) ==
    CHOOSE s \in Slots :
        pg.slot[s] = Free /\ \A t \in Slots : pg.slot[t] = Free => s <= t

WithRecord(pg, v) ==
    [pg EXCEPT !.slot[FreeSlot(pg)] = v, !.count = @ + 1]

\* insert walks the chain to the first page with room or to its end.
HasRoom(p) == p \in used /\ page[p].count < MaxRecord
IsStop(p)  == p = NoPage \/ HasRoom(p)
CanInsert(n) == \E k \in 1 .. Len(Path(n)) : IsStop(Path(n)[k])

InsertInto(n, p, v) ==
    /\ page' = [page EXCEPT ![p] = WithRecord(@, v)]
    /\ UNCHANGED <<used, dir, sets, damaged>>

\* Faulty: the new page does not point back.
FaultyFreshPage(meta, last) ==
    [Zero EXCEPT !.prev = NoPage, !.next = NoPage, !.owner = meta]

FreshPage(meta, last) ==
    [Zero EXCEPT !.prev = last, !.next = NoPage, !.owner = meta]

\* Faulty: the first page is written to the table page but not cached.
FaultyAppendPage(n, last, v) ==
    LET p    == NewPage(used)
        meta == Set(n).tablePageID
    IN /\ HasFreePage(used)
       /\ used' = used \cup {p}
       /\ page' = [q \in PageIds |->
              IF q = p THEN WithRecord(FreshPage(meta, last), v)
              ELSE IF last = NoPage /\ q = meta THEN [page[q] EXCEPT !.first = p]
              ELSE IF last # NoPage /\ q = last THEN [page[q] EXCEPT !.next = p]
              ELSE page[q]]
       /\ UNCHANGED <<dir, sets, damaged>>

\* ... or appends a new one behind the last.
AppendPage(n, last, v) ==
    LET p    == NewPage(used)
        meta == Set(n).tablePageID
        fresh == FreshPage(meta, last)
    IN /\ HasFreePage(used)
       /\ used' = used \cup {p}
       /\ page' = [q \in PageIds |->
              IF q = p THEN WithRecord(fresh, v)
              ELSE IF last = NoPage /\ q = meta THEN [page[q] EXCEPT !.first = p]
              ELSE IF last # NoPage /\ q = last THEN [page[q] EXCEPT !.next = p]
              ELSE page[q]]
       /\ sets' = IF last = NoPage
                  THEN [sets EXCEPT ![IndexOf(n)].firstDataPageID = p]
                  ELSE sets
       /\ UNCHANGED <<dir, damaged>>

\* RecordSet::insert
Insert(n, v) ==
    LET s == Path(n)
        k == CHOOSE i \in 1 .. Len(s) :
                 IsStop(s[i]) /\ \A j \in 1 .. i - 1 : ~IsStop(s[j])
    IN  IF s[k] # NoPage THEN InsertInto(n, s[k], v)
        ELSE AppendPage(n, IF k = 1 THEN NoPage ELSE s[k - 1], v)

\* Faulty: the page is taken from the buffer manager, used or not.
FaultyHasRecord(n, r) ==
    /\ page[r[1]].owner = Set(n).tablePageID
    /\ page[r[1]].slot[r[2]] # Free

\* RecordSet::getRecord and its two checks.
HasRecord(n, r) ==
    /\ r[1] \in used
    /\ page[r[1]].owner = Set(n).tablePageID
    /\ page[r[1]].slot[r[2]] # Free
GetRecord(n, r) == page[r[1]].slot[r[2]]

\* RecordScanner visits the slots of every page of the chain, as long as the
\* pages are used.
Records(n) ==
    LET found == {r \in DataPages(n) \X Slots : page[r[1]].slot[r[2]] # Free}
    IN  [r \in found |-> GetRecord(n, r)]

\* The RIDs a statement works on: it collects them in a scan that comes to its
\* end (Table::filterThenForeach) before it changes anything.
Scanned(n) == IF WalkEnds(n) THEN DOMAIN Records(n) ELSE {}

\* RecordSet::remove, for a record that a scan found.  When its page gets
\* empty, the page is released and unlinked.  For the first page of the chain
\* the code writes the prev pointer of the successor into the table page.
Remove(n, r) ==
    LET p    == r[1]
        meta == Set(n).tablePageID
        rest == [page[p] EXCEPT !.slot[r[2]] = Free, !.count = @ - 1]
        pages == [page EXCEPT ![p] = rest]
        last == rest.prev
        next == rest.next
    IN /\ page[p].owner = meta
       /\ IF rest.count # 0
          THEN page' = pages /\ UNCHANGED <<used, sets, damaged>>
          ELSE IF last = NoPage
          THEN /\ used' = used \ {p}
               /\ page' = [pages EXCEPT ![meta].first = next,
                                        ![meta].prev =
                                            IF next # NoPage THEN last ELSE @]
               /\ sets' = [sets EXCEPT ![IndexOf(n)].firstDataPageID = next]
               /\ UNCHANGED damaged
          ELSE /\ used' = used \ {p}
               /\ page' = IF next # NoPage
                          THEN [pages EXCEPT ![last].next = next,
                                             ![next].prev = last]
                          ELSE [pages EXCEPT ![last].next = next]
               /\ damaged' = (damaged \/ last \notin used \/ page[last].next # p)
               /\ UNCHANGED sets
       /\ UNCHANGED dir

\* RecordSet::update
Update(n, r, v) ==
    /\ page[r[1]].owner = Set(n).tablePageID
    /\ page' = [page EXCEPT ![r[1]].slot[r[2]] = v]
    /\ UNCHANGED <<used, dir, sets, damaged>>

\* Faulty: the ids start at 1.
FaultyReopen ==
    /\ \A i \in 1 .. Len(dir) : IsPageUsed(used, dir[i].metaPageID)
    /\ sets' = [i \in 1 .. Len(dir) |->
                   [name            |-> dir[i].name,
                    tablePageID     |-> dir[i].metaPageID,
                    id              |-> i,
                    firstDataPageID |-> page[dir[i].metaPageID].first]]
    /\ UNCHANGED <<used, dir, page, damaged>>

\* The database is closed and opened again: RecordManager::recoverTables and
\* RecordSet::recoverMetadata rebuild the objects from the pages.
Reopen ==
    /\ \A i \in 1 .. Len(dir) : IsPageUsed(used, dir[i].metaPageID)
    /\ sets' = [i \in 1 .. Len(dir) |->
                   [name            |-> dir[i].name,
                    tablePageID     |-> dir[i].metaPageID,
                    id              |-> i - 1,
                    firstDataPageID |-> page[dir[i].metaPageID].first]]
    /\ UNCHANGED <<used, dir, page, damaged>>

Next ==
    \/ \E n \in Names : CreateSet(n)
    \/ \E n \in Names : DeleteSet(n)
    \/ \E n \in Names : Exists(n) /\ CanInsert(n) /\ \E v \in Values : Insert(n, v)
    \/ \E n \in Names : Exists(n) /\ \E r \in Scanned(n) : Remove(n, r)
    \/ \E n \in Names : Exists(n) /\ \E r \in Scanned(n), v \in Values : Update(n, r, v)
    \/ Reopen

Spec == Init /\ [][Next]_vars
-----------------------------------------------------------------------------
Words == [prev : {NoPage} \cup PageIds, next : {NoPage} \cup PageIds,
          owner : PageIds, first : {NoPage} \cup PageIds,
          count : 0 .. MaxRecord, slot : [Slots -> Values \cup {Free}]]

TypeOK ==
    /\ used \subseteq PageIds
    /\ \A i \in 1 .. Len(dir) : dir[i] \in [name : Names, metaPageID : PageIds]
    /\ page \in [PageIds -> Words]
    /\ \A i \in Indices : sets[i] \in
          [name : Names, tablePageID : PageIds, id : 0 .. MaxTableCount - 1,
           firstDataPageID : {NoPage} \cup PageIds]
    /\ damaged \in BOOLEAN

TablePages == {sets[i].tablePageID : i \in Indices}
Live       == {n \in Names : Exists(n)}

\* The objects in memory are the sets of page 0, each name once: what a
\* re-opened database finds is what is in use now, also after deleteSet has
\* moved the last entry into the hole.
DirectoryMatches ==
    /\ Len(dir) = Len(sets)
    /\ \A i \in Indices :
          /\ dir[i].name = sets[i].name
          /\ dir[i].metaPageID = sets[i].tablePageID
          /\ ~damaged => page[dir[i].metaPageID].first = sets[i].firstDataPageID
    /\ \A i, j \in Indices : sets[i].name = sets[j].name => i = j

\* Until a page is unlinked through a stale pointer, every chain is finite,
\* its pages are used, belong to the set and are not empty, their counts are
\* right and every page but the first points back to the page before it.
ChainsWellFormed ==
    ~damaged =>
        \A n \in Live :
            /\ WalkEnds(n)
            /\ \A p \in DataPages(n) :
                  /\ page[p].owner = Set(n).tablePageID
                  /\ page[p].count > 0
                  /\ page[p].count =
                        Cardinality({s \in Slots : page[p].slot[s] # Free})
            /\ LET s == Path(n)
               IN  \A k \in 2 .. Len(s) : s[k] # NoPage => page[s[k]].prev = s[k - 1]

\* No page belongs to two structures, and no page is used without belonging to
\* one: insertion, removal and deleteSet leak nothing.
PagesAccounted ==
    ~damaged =>
        /\ used = InitialPages \cup TablePages \cup UNION {DataPages(n) : n \in Live}
        /\ \A m, n \in Live : m # n => DataPages(m) \cap DataPages(n) = {}
        /\ \A n \in Live : DataPages(n) \cap (TablePages \cup InitialPages) = {}

\* getRecord accepts exactly the RIDs a scan of the set returns: not those of
\* released pages, of other sets or of removed records.
LookupMatchesScan ==
    ~damaged => \A n \in Live, r \in RIDs :
                    HasRecord(n, r) <=> r \in DOMAIN Records(n)

\* The record layer implements named sets of records.
Promise == INSTANCE RecordStore
               WITH sets <- Live,
                    rows <- [n \in Names |-> IF Exists(n) THEN Records(n)
                                              ELSE [r \in {} |-> r]]

ImplementsRecordStore ==
    /\ Promise!Init
    /\ [][~damaged' => Promise!Next \/ UNCHANGED Promise!vars]_vars

\* FileFormat.md:22: the table page names the first data page of the table.
FirstPageIsDataPage ==
    \A i \in Indices :
        LET p == page[sets[i].tablePageID].first
        IN  p # NoPage => p \in used /\ page[p].owner = sets[i].tablePageID
=============================================================================

# Models and proofs for DBProject

This directory models the database engine under `src/src` in TLA+, checks the
models with TLC on small instances, and proves theorems about the page cache, the
file ids, the databases, the layout of pages, the record sets, the indexes, the entity
lists, the tables and the queries with TLAPS.  Paths below are relative to the repository's `src/src`
unless they start with `docs` or `test`.

## 1. The system

DBProject is a single-user relational database: an interactive driver reads
SQL statements, parses them and runs each to its end before it reads the next.
There are no threads and no log.  All data of a database is one file of 8 KiB
pages.  What is hard is therefore not interleaving but

- **state in several places**: a page in a frame and in the file, a root page
  number in an object and in a page, a row in a table and in its indexes;
- **long sequences of legal calls** that leave a structure (chain, tree,
  bitmap) in a state no test has seen;
- **failure in the middle**: only `ParseError` and `ExecuteError` are caught
  (`driver/InteractiveDriver.cpp:68-76`); any other exception ends the process,
  and nothing but a regular close of the database writes pages back, so the file
  keeps what evictions happened to write;
- **limits**: a page bitset, frames, slots per page, key lengths.

The build is a release build: `assert` is not part of the behaviour.

### Components

| component | state | operations | uses | correct means |
|---|---|---|---|---|
| page cache (`filesystem/bufmanager`, `filesystem/utils`, `filesystem/page`) | frames, dirty flags, keys, hash chains, replacement list, last access | getPage, allocPage, access, markDirty, release, writeBack, close | file manager | no page in two frames, lookups find every bound frame, no store is lost except by a release or the end of the process |
| file manager (`filesystem/fileio`, `MyBitMap`) | open files by id, bitmap of free ids | createFile, openFile, closeFile, readPage, writePage | operating system | an id names one open file, a free id is found |
| page allocation (`system/DatabaseMetaPage`, `system/Database`) | bitset of used pages on page 0 | acquireNewPage, releasePage, getPage | page cache | a page belongs to one structure or is free |
| record sets (`record`) | directory on page 0, objects in memory, chains of data pages | createSet, deleteSet, getSet, insert, remove, update, getRecord, scan, recoverTables | page allocation | named sets of records, each found under its RID |
| indexes (`index`) | B+ tree in pages, root number in object and SysIndexPage | createIndex, deleteIndex, insertEntry, deleteEntry, containsEntry, iterators | page allocation | a set of entries (data, rid) in order |
| entity lists (`index/IndexEntityLists`) | chains of nodes in a record set | createList, deleteList, insertEntity, removeEntity, containsEntity | record sets | lists that share nothing |
| tables (`table`) | column definitions on the table page, index ids, foreign table ids | insert, delete_, update, select, check, createIndex, deleteIndex | record sets, indexes | unique keys, foreign keys, indexes agree with rows |
| query manager (`query`, `table/TableRecord`) | none | select over one or several tables | tables | the rows that the statement means, in whichever order tables are joined |
| database manager (`system/DatabaseManager`) | current database | create, use, drop, show | file manager, page cache | one open database; its file closed, its pages out of the cache before another is used |
| parser (`parser`, `ast`) | position in the text, one token of look-ahead | next, parse... | - | the language of `docs/SQLSpec.md`, and an end for every text |
| drivers (`driver`) | none | execute, main loop | all | errors of a statement do not end the process |
| utilities (`util`) | - | - | - | not used by the program |

The components below the tables only know the ones below them; the only
callbacks are the predicates and update functions that `Table` hands to its
scans, and `Index::updateRoot`, which writes into the SysIndexPage of the
database that holds the index.

### Hazards

`PROJECT.json` lists them, each at its line, with the properties that cover it
or the reason why none does yet.

## 2. The modules

| module | is | stands on |
|---|---|---|
| `PageStore` | what the page cache promises | |
| `BufPageManager`, `BufPageManager_proofs` | the page cache | implements `PageStore` |
| `FileManager` | files, descriptors, bitmap of ids: operators | |
| `NumberFacts` | least elements of sets of numbers, induction, division: lemmas | |
| `DatabaseSet` | what the database manager promises | |
| `DatabaseManager`, `DatabaseManager_proofs` | statements on databases, call by call | uses `FileManager`, implements `DatabaseSet` |
| `DatabasePages` | the bitset of page 0: operators | |
| `PageLayout` | the arithmetic of the bytes of a page | |
| `RecordStore` | what record sets promise | |
| `RecordSet`, `RecordSet_proofs` | record sets | uses `DatabasePages`, `PageLayout`, implements `RecordStore` |
| `EntityLists` | what the entity lists promise | |
| `IndexEntityLists`, `IndexEntityLists_proofs` | the entity lists | stands on what `RecordStore` promises, implements `EntityLists` |
| `IndexSet` | what an index promises | |
| `Index`, `IndexScan`, `Index_proofs` | the B+ tree and the scans over it | uses `DatabasePages`, implements `IndexSet` |
| `Table`, `Table_proofs` | the statements on tables | stands on `RecordStore` and `IndexSet` |
| `QueryManager`, `QueryManager_proofs` | SELECT with joins | stands on scans of tables |
| `TokenType`, `Tokenizer` | the tokens of a text | |
| `SQLGrammar` | the language of `docs/SQLSpec.md` | |
| `Parser` | the parser | compared with `SQLGrammar` |
| `MC...` | instances for TLC | |

**Page cache.**  `PageStore` says: every page has a current content, a durable
content, and may be unsaved.  `BufPageManager` is the code: `addr`, `dirty`,
`last` are its arrays, `keys` and `chain` the hash map (`MyHashMap`), `lru` the
list of `FindReplace` over `MyLinkList`, `disk` the file behind
`FileManager::readPage/writePage`.  One action per public function; `close()`
takes one step per frame, since the process may end between two writes.  `Crash`
stands for an exception that nobody catches.  `Release` drops stores, as the
code does.  `unread` is history: the frames bound without a read.

**Databases.**  `FileManager` has the bitmap of ids as the code has it: words of
bits, a root word with a bit for each, the lowest bit found by a table of the
powers of two modulo 61 (`H`).  A failed open keeps its id.  `DatabaseManager` is
a process and its statements.  `todo` holds the calls that the running statement
has still to make; each step makes the first.  An exception empties `todo`, and
`Kill` may follow any call, since nobody catches what `DatabaseManager` throws;
tests do catch it and go on, so going on is a behaviour too.  `disk` outlives the
process.  A database is its pages 0 and 1; `cache` and `dirty` are what the page cache holds
of page 0, `memory` is what the frame for the next page 0 still contains: a read
behind the end of a file leaves it there.  `made` is history: the names whose
CREATE came to its end.

**Record sets.**  `RecordSet` is the code: `used` and `dir` are page 0, `page`
the words and slots of every page, released ones included, `sets` the objects in
memory.  `Path` is the walk along `next` pointers that insert, scan and deleteData
share.  When the walk comes to a page that is not used, `Database::getPage`
throws: operations that throw before they change anything are left out by guards,
`DeleteSet` keeps the part it has done.  `Reopen` rebuilds the objects from the
pages.  `damaged` is history: once a page was unlinked through a stale `prev`
pointer, the chains are no longer claimed to be well formed (section 5).  How
many slots a page has follows from the length of a record, `PageLayout`.

**Entity lists.**  `IndexEntityLists` keeps nodes under RIDs; a list is known by
the RID of its head, a node without an entity.  An insertion may get any free RID.

**Indexes.**  `Index` is the code: the tree in `node`, the root in the object
(`root`) and in the SysIndexPage (`sysRoot`).  The recursions of insertEntry and
deleteEntry are functions of the path from the leaf to the root, one step for the
work after the recursive call.  A key is a number in the order of `compare()`.
`IndexScan` has the iterators and the loops of `Table::selectWithIndex`; nothing
changes an index while an iterator lives, so a scan is a function of the state.

**Tables.**  `Table` is the level of statements: one action per statement that
changes tables or indexes, plus `Select`, which can end the process, and
`Reopen`.  A table is slots with rows, an index a set of entries.  `order` is
`RecordManager::tables` by position, `id` the constant `RecordSet::id`, `ix` and
`fk` the `indexID` and `foreignTableID` of the columns on the table page,
`indexes` the SysIndexPage with the trees.  The checks of INSERT
(`CheckInsertValues`) run in the code's order and end with "ok", "rejected" or
"dies": a rejected statement has changed nothing and is no step; one that dies
(an exception that nobody catches, a null pointer) clears `alive`.  Two details of
the page cache reach up to here: CREATE INDEX stores the `indexID` through
`getDataReadonly`, so `dirty` says which table pages will be written, and
`unsaved` which columns lose their index at the next opening.  `stale` is
history: the columns that a statement has brought out of step with their index
(UPDATE, CREATE INDEX on a filled table, DROP INDEX, which leaves the `indexID`
behind).  The properties hold for the columns that are not stale.

**Queries.**  `QueryManager` has the methods as operators over the rows of the
tables; an outcome is a result, "error" (an `ExecuteError`) or "dies".
`SelectFromOne`, `SelectFromTwo` and `SelectFromMany` go the code's ways: tables
in the order of their sizes, a lookup by key or a product, filters as soon as the
columns are there.  `TableRecord::filter` moves values out of the record, which
`Moved` says.  The reference (`Meaning`) is the product of the tables in FROM,
restricted by the conditions.  A step stores rows, or executes one SELECT of
`Queries` and keeps its outcome in `answer`.

**Parser.**  `Tokenizer` is `next` on a text and a position; its reference reads
the lexical rules of `docs/SQLSpec.md` as sets of positions.  `Parser` is a
machine over tokens of any number: `calls` is the stack of methods and loops
still to run, each method a record from the tokens it decides by to what it eats
and calls.  `SQLGrammar` are the rules of the specification; `expected`, a
history variable, is what these rules allow behind the tokens eaten so far,
computed by derivation, so that the two are compared at every token.

**Faulty variants.**  Operators named `Faulty...` stand beside the definition
they change and are never part of a specification: each shows that a property
would notice that mistake.

## 3. The runs

| run | shows | bounds, and why they are enough |
|---|---|---|
| `buffer` | the cache keeps its tables consistent and implements `PageStore` | 2 frames, 3 pages, 2 contents, 2 chains: evictions, chains with two elements, every order of dirty and clean frames; contents are symmetric |
| `records` | chains, page accounting, directory, lookups, `RecordStore` | two sets, 5 pages, records of 4000 bytes, so 2 a page: one set has chains of up to 3 pages, two share what is left; first, middle and last pages emptied, pages that change their owner, no page left |
| `index` | tree, fill, scans for `=`, `<`, `<=`, `containsEntry(data)`, `IndexSet` | leaves 6, inner pages 4, 11 pages, 10 entries: trees of three levels, every kind of split, merge and average, no page left |
| `index_scan_greater` | *violation*: scans for `>` and `>=` | the same |
| `tables` | INSERT and DELETE keep indexes, unique columns, primary keys and references right, and no statement ends the process without a cause | schema `Keys`, 2 values, 2 rows a table, batches of 2, 3 indexes: holes that are reused, batches against themselves and against the table, every order of creating and dropping tables and indexes; states with a stale column are reached but not left (`InStep`) |
| `tables_stale` | the columns in step stay so beside one that is out of step | schema `References`, 2 values, 2 rows, batches of 2, 2 indexes: ids used again after DROP INDEX, indexes lost at a re-opening, statements that die half-way; states with two stale columns are reached but not left (`FewStale`) |
| `databases` | ids and cache belong to the database in use; `DatabaseSet`; a DROP restores | 2 names, 4 ids in words of 2 bits (both levels of the bitmap matter), 2 statements in a database, 2 ids lost by failed opens: then every id can be taken at once |
| `entity_lists` | lists share no node and lose none | 6 records, 1 entity and the null entity: three lists, or one with five equal entities; RIDs are symmetric |
| `queries` | every answer is what the statement means, and there is one | three tables (INT key, reference, VARCHAR key) with up to 2 rows and missing values, joins of two and three, every comparison, repeated columns, conditions between and within tables |
| `query_empty_join` | *violation*: a join without intermediate rows is answered | the same |
| `sql_tokens` | tokens are those of the rules | every text up to 3 characters of all kinds, up to 8 of those that open and close comments, up to 6 of strings |
| `sql_parser` | the parser's language is the specified one; loops end | texts of any length: the state is the stack, which the grammar bounds |

`CHECK_DEADLOCK FALSE` is in the runs `records` (a full database whose chain is
broken can really allow no further call that succeeds), `tables` and
`tables_stale` (the process can have ended) and `sql_tokens` (a text has an end).

The run `index` takes states that differ only in the numbers of pages for one
(`VIEW Shape`): the properties do not depend on the numbers, and the number of
used pages, on which failures depend, is part of the view.  The view of the table
runs (`Visible`) leaves out the entries of indexes that no column names: nothing
reads them, and the next index with that id starts empty.  Two values are enough
for the tables because every check compares values for equality only; the order
of values is the matter of the index run.  The constraints of the runs `records`,
`tables` and `tables_stale` cut nothing from the claims: a state that violates one
is still checked, and the properties say nothing about what is damaged or stale.

### Fairness

Two specifications have it, `WF_vars(Step)` in both.  In `DatabaseManager`, `Step`
is the next call of a running statement: one thread that waits for nobody makes
it.  Statements, `Exit`, `Kill` and `Restart` are up to the user and the machine
and have no fairness; `DropRestores` allows for the process that ends.  In `Parser`,
`Step` is the next move of the parser.  Both properties need it: without it a
statement or a parse may stop half-way.  The other components are called, run
to their end and return; nothing about them is a matter of time.

## 4. What is proved

For every value of the constants that meets the assumptions of the modules.

**`BufPageManager_proofs`** (at least one frame and one hash chain; file ids and
page numbers are natural numbers; `Absent` is no content):

- **The invariant.**  None of the invariants is inductive alone.  That a lookup
  finds a bound frame (`LookupFindsBound`) is needed to show that binding a
  page that a lookup did *not* find makes no second frame of it
  (`OneFramePerPage`); that needs the victim to be one definite frame, hence
  `LruIsPermutation`; `CleanFrameMatchesFile` needs `OneFramePerPage`, for a
  write-back of another frame with the same key would change the file under a
  clean frame.  `IInv` is their conjunction with the type invariant and
  `FreeFramesFirst`; `Invariance` is the usual three facts, one step per action.
- **close().**  `ClosedFramesEmpty` is inductive relative to `IInv`
  (`ClosedInvariance`).  `CloseIsComplete` is the action property: at the end of
  the loop no frame is bound and every page that was unsaved is in the file.  At
  its last step only the last frame can still be unsaved; the others are empty
  by `ClosedFramesEmpty`.
- **Refinement.**  `Refinement` proves `Spec => Promise!Spec`: with what a
  lookup shows as the current content, the cache implements `PageStore`.  Each
  action is mapped page by page: the lemmas on `View` say what binding and
  unbinding a frame do to the page that goes, the page that comes and the rest.

**`RecordSet_proofs`, the first section**, on `PageLayout`, for every length that
`createSet` and `createIndex` accept:

- `MapClearOfRecords`: no record of a page covers a bit of its map, the bit
  behind the last record's included, which `RecordScanner::update` reads before it
  goes on to the next page.  The division by `8 * len + 1` alone leaves one case
  open, a page filled to the last byte by 8k records and the k bytes of their bits;
  `NoExactFill` excludes it: k would be 32i and 253 a multiple of i whose other
  factor is 1 modulo 8.
- `SlotsOnPage`: the slots of an index stay on their page.
- `FourSlots`: the four slots that the algorithm of the index needs are there if and
  only if keys have at most 2018 bytes; `createIndex` accepts 8000.  (The claims on
  `Index` are about capacities of at least four.)

**`DatabaseManager_proofs`, the bitmap of ids**, for words of 2 to 32 bits and any
number of ids that a root word has room for:

- `HashOfPower`: 61 tells the 32 powers of two apart, so the table of `initConst`
  gives back every bit number.
- `SetBitEffect`: `setBit` changes the bit it is asked to and no other, and the
  root word stays exact (`RootExact`).
- `LeftOneIsLeast`: where the root is exact and an id is free, `findLeftOne` gives
  the least free id.  (Where none is free it gives 0, free or not.)

**`DatabaseManager_proofs`, the statements**, for any number of databases, ids and statements, under
`MaxLeaks + 2 <= MaxFiles`: besides the ids that failed opens have lost there is one
for the database in use and one for the database that a statement opens.  (The
program has 128 ids and no bound on failed opens; after 127 of them the claims end.)

- **The invariant.**  `OpenFilesAccounted` and `CacheIsCurrent` say nothing about
  the calls to come, and a call is right only behind the ones before it.  `IInv`
  adds what `todo` may be: each call is followed by what its statement makes of it
  (`Ordered`), a database is opened after it is removed in no statement
  (`RemovesOthers`), what will be opened exists or an id may be lost
  (`OpensExisting`), and the next call finds what it relies on (`HeadReady`: CHECK
  and the removal run with no database in use, pages are written to a file that is
  open).  These pass from a sequence of calls to its tail, so that the proof has
  one lemma per call and one per statement, and none per position.
- **An id is left at every open** (`IdLeft`), by counting: ids are open, free or
  lost, at most one is open there and at most `MaxLeaks` are lost.
- `TypeCorrect`, `FilesAccounted` and `CacheCurrent` follow, whatever call the
  process ends after.

The last section of the module proves `Refinement`, `Spec => ImplementsDatabaseSet`,
under the same assumptions.  On top of `IInv` it needs that a made database has
its two pages (`MadeIsWhole`), that the page in the cache is the one of the
database in use and saved unless dirty (`CacheIsOwn`), and how far a creation has
come (`CreatedSoFar`: neither made nor in use, with the pages written so far).
The closing of the database, in `DoReset` and `Exit`, is `Close`; createFile,
closeFile, check and remove are `Begin`, `Complete`, `Open` and `Remove`; the end
of the process is `Lose`; everything else is unseen.

**`RecordSet_proofs`, the record sets**, for any number of pages, any names, values, length of records
that `createSet` accepts and number of sets in the directory:

- **The invariant.**  The properties speak of `Path`, the walk along `next`
  pointers, which says nothing about a page unless the walk gets there, and no step
  can be followed along a path that may run in a circle.  `IInv` says instead that
  there *are* chains: `Chains(ch)` gives every set a sequence of pages without
  repetition, whose `next`, `prev`, `owner` and `count` words fit, disjoint from the
  other sequences and from the table pages, and with them making up `used`.  A
  walk is then that sequence (`PathOfChain`: by `WalkOfChain` and `WalkDefined`,
  induction along the recursive function by the least number at which the two would
  differ, and `ChainFits`, by counting, for the bound on the length of a walk).
- **What else it needs.**  A table page is no data page of any set, although `insert`
  and `remove` write into it (`TablesApart`: table pages have owner and `next` 0, as
  the pages of the database itself do, and no table page is page 0); a count is the
  number of occupied slots also on pages that were released (`Shapes`), since `remove` releases a page by its count.
  `Shapes` and `Directory` hold whatever has become of the chains; the rest until
  `damaged`, which lasts (`DamageLasts`).
- **Steps.**  One new chain per step, the others are kept (`ChainReplaced`): the
  old one, one with a page more (`Longer`), one with a page less (`Shorter`), none.  A
  removal links through the `prev` word of its page.  For the first page of a chain
  that word may be stale; `remove` marks the state `damaged` then, and everywhere
  else `prev` is the page before.
- **Refinement.**  `Implements` proves `Spec => ImplementsRecordStore`.  What a set
  shows depends on the used pages that name its table page as their owner and on
  nothing else (`Seen`), so that a step that changes one slot (`SameBut`) changes one
  record of one set.  A page released with its last record had no other
  (`OneRecordLeft`), a new RID is on a free slot or on a page that was not used
  (`NotShown`), and no page names a new table page as its owner.

**`Index_proofs`**, for any number of pages, any finite set of numbers as values, any
number of RIDs, inner pages of at least 4 slots, as `IndexPage.cpp:127` demands
(`FourSlots` says which keys meet it), and leaves of no fewer, since a slot of a leaf
has no page number (`CapacityAssumption`):

- **The invariant.**  The properties walk from the root through as many levels as
  there can be; a step of the code knows one page, its sons and a flag.  `IInv` says
  instead that there *is* a level for every page (`Tree`): leaves are on level 0, a
  slot leads one level down, every page but the root is the son of one slot, the
  pages of a level are in order and linked to the next one, and each slot of an inner
  page names the least key of its son.  All parts speak of two pages at most, so that
  what a step does not write needs no argument.  That no tree is higher than its pages
  allow (`HeightFits`), which the walks rely on, follows by counting.
- **Between the calls of the recursion** that is not true: a page may have its own
  bounds out of step with the slot above (`Near`, `Aligned`), have too few slots or one
  too many, or be a page that no slot leads to yet.  Each operator of the code
  (`splitHalfTo`, `mergeFromRight`, `averageFromRight`, insertion and removal of a slot,
  a new least key) has a lemma on what it does to a tree with such exceptions
  (`SplitWhole`, `MergeWhole`, `ShareWhole`, `AddSonWhole`, `DropWhole`, `RaiseWhole`);
  `GrownBy` and `ShrunkBy` are what one call leaves to its caller, carried from leaf to
  root by `GrowStep`, `ShrinkInner` and the induction of `InsertReturns` and
  `DeleteReturns`.  At the root, `GrownRoot` and `DropRoot` close the tree again.
- **What it gives.**  `AlwaysWellFormed` and `AlwaysFilled` turn `Tree` back into the
  levels of the properties; `Implements` reads the set of entries off the leaves
  (`ContentsOfTree`), and with `ContainsFacts` an insertion or a deletion is refused
  exactly when the set refuses it.  An insertion that finds no page throws and is no
  step.
- **Scans.**  An iterator stands before a set of entries (`Stands`), and before one
  only (`StandsForOne`): `IteratorAt` before those not less than its key, `Begin` before
  all of them, if there are any, and `moveNext` goes past the least (`MovePasses`, by
  `NextLeaf` at the end of a page).  A loop between two iterators therefore collects the
  entries between them (`WalkCollects`, by induction on its turns; that it ends is
  counting).  `EqualScans`, `LessScans` and `ContainsDataExact` follow with the order of
  the keys (`KeyOrder`).

**`IndexEntityLists_proofs`**, for any set of RIDs without the null RID and any set of
entities:

- **The invariant.**  `ListsSound` speaks of `Chain`, the walk of the loops, which
  ends after as many turns as there are nodes whether the list does or not.  `IInv`
  says that there *are* lists, as for record sets: a sequence for every head, without
  repetition, linked by `nextRID` and ended by the null RID, all of them disjoint and
  with every node in one of them (`Chains`).  The walk of the code is then that
  sequence (`ChainOf`); that the nodes are finitely many, which bounds it, is part of
  the invariant.
- **Steps.**  A step brings, takes or changes the list of one head and keeps the nodes
  of all others (`OneList`, `OthersKept`).  An insertion makes the list one with its
  node in the second place (`WithSecond`), a removal one with a gap (`Gap`).
- **Refinement.**  `Implements` proves `Spec => ImplementsEntityLists`.  The gap in the
  nodes is one place behind the gap in the entities, since the head lists none, and
  that is where `RemoveFirst` takes the newest equal entity out (`RemoveFirstIsGap`).

**`Table_proofs`**, for any finite set of tables, any schema whose references name
columns, any number of rows, indexes and records of a batch.  The runs leave states
with stale columns early; the proofs hold in all of them.

- **The invariant.**  `IndexMatchesRows` needs little help: a table that does not
  exist has no rows and names no index (`Absent`), or CREATE TABLE would begin with
  columns out of step.  What carries it through DROP INDEX and the reuse of an id is
  its part on `Named`: of the columns that name an id, all are stale or there is
  one only.  Where a column is the only one to name its index, the entries that a
  statement adds or deletes there are those of its own rows (`SoleEntries`).
  `KeysUnique` needs it, for the check of an indexed column asks the index; that
  the records of a batch get different free slots is counting (`Rank`,
  `SlotFacts`).  `Linked`, the ids of tables and references, is for the next.
- **Statements.**  `StoredKeysChecked`: a record with the composite key of a stored
  one is refused, whatever the hash of a key is, since it depends on nothing else.
  `ReferencesChecked`: where the id of a reference leads to its table, the lookup is
  in the index of the column referred to, and `IndexMatchesRows` turns the entry
  into a row.  `CauseOfDeath`: with every column in step, each of the exceptions
  that end the process has a premise that fails: an entry to be deleted is there
  (`LostThere`), a gained one is not, and no index returns the RID of a record
  that is gone (`FiltersLive`).

**`QueryManager_proofs`**, for any tables and columns, any values that are numbers, any
number of rows and any statements as the parser builds them (`SchemaAssumption`,
`QueriesAssumption`): a statement has any number of tables, conditions and columns.

- **The invariant.**  A SELECT is one step, so little is inductive: the rows of a
  table have their keys, in ascending order (`RowsSound`, which makes a lookup by key
  find at most one row), and an answer is the one its statement has on the rows that
  are there (`AnswerKept`).  The rest is about one answer on sound rows.
- **What a result is.**  `Shows(s, S, val)` says that a sequence has each element of a
  set once, by its value, in some order: that is all that joins in different orders
  have in common, and enough to count (`ShowsCount`).  `IsPart(r, W, N, S)` says that a
  result shows a set of combinations of rows of the tables `W` by the columns `N`.
  `TablePart`, `JoinPart` and `FilterPart` say which set `Table::select`, `join` and
  `filter` leave.
- **The loops.**  `Within(q, W)` are the combinations over `W` that meet every
  condition on tables of `W`.  `selectOne` shows them for one table (`OnePart`), and one
  turn of the loop carries them from `W` to `W` and one table more, whichever it is,
  since what is left of the conditions are those that still lack a table (`Joined`,
  `JoinedNext`, `JoinWithin`).  `ManyAnswers` is the induction over the tables in the
  order of their sizes.  The loops are recursive functions; induction goes by sets of
  numbers (`LoopDefined`, `NumberFacts`).  `KeyAnswers` is the way by lookups: each row
  of the other table comes beside those it is joined with (`LookupPart`), and these
  rows together are the product (`BesideWithin`).
- **Errors.**  Where a way fails, no combination is within the statement
  (`FilterEmpty`), or a row of the second table lacks its key (`KeyMissing`).
- **The meaning.**  `LegalClear` and `LegalOne` draw from `Legal` that names and types
  are as the methods look for them; `MeaningShown` renames combinations by table to
  those by place in FROM, of which `Meaning` speaks.
- `AnswersAreExact` and `LegalSelectsAreAnswered` follow.

**Only model-checked**:

- Tokens (`TokensAsSpecified`).  The loops over a text are RECURSIVE operators, which
  the prover does not read.
- The parser (`SameLanguage`): the definition of the language it is held against is
  RECURSIVE too.  The module has no constants, and the run `sql_parser` explores all of
  its state space.
- All liveness (`DropRestores`, `ParseEnds`): fairness and ENABLED are out of reach.

## 5. What disagrees with the documentation

Two runs show a disagreement.

| run | documentation | the code |
|---|---|---|
| `index_scan_greater` | `docs/FinalReport.md:230` | the loops for `>` and `>=` run while the iterator *is* at its end |
| `query_empty_join` | `docs/FinalReport.md:277,284` | `makePredict` takes types from the first record of a result that may have none: the process ends |

Others are stated as formulas beside the properties that exclude their cause.
Each is refuted within seconds when it takes the place of the INVARIANTs or
PROPERTYs of the configuration named.

| formula | configuration | says | the code |
|---|---|---|---|
| `FirstPageIsDataPage` | `MCRecordSet.cfg` | `docs/FileFormat.md:22`: the table page names the first data page | the first page of a chain keeps the `prev` pointer it had before it became the first; when it is emptied in turn, `remove` links around it through a released page |
| `UpdateKeepsKeys` | `MCTableStale.cfg` | `test/query/TestUpdate.cpp:105`: UPDATE rejects a second row with the same key | UPDATE checks no key |
| `CompositeKeysUnique` | `MCTable.cfg` | `docs/FinalReport.md:253,259`: the keys of a batch are checked against each other | they are never put into the set they are checked against |
| `ClauseResolves` | `MCTableStale.cfg` | `docs/FinalReport.md:32`: a FOREIGN KEY clause refers to the table it names | `RecordSet::id` is stored, which is not the position any more once another table was dropped, and read as a position |
| `UsedIsDatabase` | `MCDatabaseManager.cfg` | `DatabaseMetaPage::check`: USE refuses what is no database | page 0 of an empty file is whatever the frame held before |
| `AcceptsOnlySQL` | `MCParser.cfg` | `docs/SQLSpec.md:65`: SET has a value | `parseUpdateSet` runs off its end without a return |
| `CommentsEnd` | `MCTokenizer.cfg` | `docs/SQLSpec.md:7`: `*/` ends a comment | after a star that is not followed by a slash one character is skipped: `/* a **/` stays open |

Seen on the way, where the models follow the code:

- scans for `<` and `<=` of an empty index read a slot it does not have
  (`Index.cpp:219`);
- a row without a value for an indexed unique column ends the process
  (`Table.cpp:70`), DELETE and UPDATE of a row that others refer to is not refused
  (`Table.cpp:175`), an index on a DATE column can be created but not used
  (`IndexPage.cpp:64`);
- DROP DATABASE throws when no database is in use, although the next line tests
  for that (`SQLExecutor.cpp:25`);
- a condition between columns of one table, or with a table that is not in FROM, is
  passed over in a join (`QueryManager.cpp:191`); a key lookup for a VARCHAR value
  on an INT key takes the bytes of the text for a number, and for a missing value
  reads a null pointer (`QueryManager.cpp:106`); a column selected twice in a join
  is empty the second time (`TableRecord.cpp:141`);
- a number above 2^31 - 1 ends the process (`Tokenizer.cpp:89`).

And where they do not:

- `INT(n)` makes a column of n bytes (`Parser.cpp:321`, `TableMetaPage.cpp:91`) into
  which 4 are written (`Table_function.cpp:152`): for n < 4 columns overlap.

## 6. What is not modelled, and why

- **Types and the conversion of values** (`check`, `toData`, `toRecord`,
  `ast/DataType.h`): values are model values or numbers; INT and VARCHAR differ
  where a join depends on it.  What a record's bytes are made of is data that no
  other property tells apart.
- **The statements that the parser builds**: which text is accepted, not what
  it is turned into.
- **`load`, continued lines, `SHOW`, `DESC` and the output** of the drivers: input
  and output only, with no state of their own.
- **Errors of the operating system's calls**: `read` and `write` do what they are
  asked to; only a read behind the end of the file is modelled.  No code looks for
  more.
- **Parts of a page**: a page is written by one `write`, taken as atomic.
- **The 32 bits** of the hash of composite keys and of the difference of INT keys:
  the numbers of the models do not wrap.
- **Code that the program does not use**: `util`, `FileTable`, `newType` and
  `closeType` of the file manager, `check` and `debugOutput` of the index.

## 7. Plan

Done: models of every component that keeps state, from the files to the parser.

Next, as theorems, each for every value of the constants:

- `Table`: the refinement of tables to sets of rows, and the composition with the
  record sets and indexes below.
- `QueryManager` on the indexes: that a row which `selectWithIndex` finds is the one
  that the scan of a table without index finds.

As models: the bytes of a record (column offsets, null bits, the width of INT
columns), in the manner of `PageLayout`.

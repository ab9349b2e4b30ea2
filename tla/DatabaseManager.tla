-------------------------- MODULE DatabaseManager --------------------------
(* The databases of one process, from the statements of SQLExecutor down to   *)
(* the files: CREATE, USE and DROP DATABASE, statements executed in the       *)
(* database in use, the end of a session and the end of the process between   *)
(* any two calls.                                                             *)
(*                                                                            *)
(* A statement is the sequence of the calls it makes, todo; every step makes  *)
(* the first of them.  A call that throws ends the statement.  Tests catch    *)
(* the exception; InteractiveDriver catches ParseError and ExecuteError only, *)
(* and DatabaseManager throws neither: then the process ends at once, which   *)
(* is a step Kill after the throw.                                            *)
(*                                                                            *)
(* A database is known by its page 0: whose it is and how many statements     *)
(* were executed in it.  The other pages are the matter of the modules        *)
(* RecordSet and Index; the page cache, one page per file here, is the one of *)
(* BufPageManager seen from outside: what is cached, what is dirty, and what  *)
(* the memory still holds that the next page will be read into.               *)
EXTENDS FileManager, Sequences

CONSTANTS None,       \* no database in use
          NotCached,  \* page 0 of this file id is not in the cache
          Fresh,      \* memory that no page was read into: no database
          MaxRows,    \* bound on the statements executed in a database
          MaxLeaks    \* bound on the ids lost by failed opens

ASSUME RowsAssumption  == /\ MaxRows \in Nat
                          /\ Contents = [of: Names, rows: 0 .. MaxRows]
ASSUME LeaksAssumption == MaxLeaks \in Nat /\ MaxLeaks + 2 <= MaxFiles
ASSUME NoneAssumption  == /\ None \notin [name: Names, id: Ids]
                          /\ None \notin Names
                          /\ NotCached \notin Contents
                          /\ Fresh \notin Contents /\ Hole \notin Contents

VARIABLES alive,     \* the process runs
          todo,      \* the calls that the running statement still has to make
          fileID,    \* its local variable of that name
          current,   \* currentDatabase: its name and file id, or None
          cache,     \* file id -> page 0 in the cache, or NotCached
          dirty,     \* the file ids whose cached page 0 is not saved
          memory,    \* what the frame holds that the next page 0 gets
          reused,    \* the cache was closed before: memory is not Fresh
          made       \* history: the names whose CREATE came to its end

vars == <<disk, fd, fm, alive, todo, fileID, current, cache, dirty, memory,
          reused, made>>
cacheVars == <<cache, dirty, memory, reused>>

Calls == {"createFile", "open", "writeMeta", "writeIndex", "closeFile",
          "reset", "check", "remove"}

TypeOK ==
    /\ FileTypeOK
    /\ alive \in BOOLEAN /\ reused \in BOOLEAN
    /\ todo \in Seq(Calls \X Names)
    /\ fileID \in Ids
    /\ current \in [name: Names, id: Ids] \cup {None}
    /\ cache \in [Ids -> Contents \cup {NotCached}]
    /\ dirty \subseteq Ids
    /\ memory \in Contents \cup {Fresh}
    /\ made \subseteq Names

Idle == alive /\ todo = <<>>
-----------------------------------------------------------------------------
\* DatabaseMetaPage::makeInit, and what a statement makes of the page.
NewMeta(n) == [of |-> n, rows |-> 0]

\* Faulty: any page will do.
FaultyIsDatabase(page) == TRUE

\* DatabaseMetaPage::check: the magic value and the number of tables.
IsDatabase(page) == page \in Contents

CachedIds == {i \in Ids : cache[i] # NotCached}

\* BufPageManager::close (cut into its writes in module BufPageManager).  The
\* frame it frees last is the one that the next page is read into.
CloseCache ==
    /\ disk' = [n \in Names |->
                  LET D == {i \in dirty : fd[i] = n}
                      d == CHOOSE i \in D : TRUE
                  IN IF D = {} THEN disk[n] ELSE Written(d, 0, cache[d])[n]]
    /\ memory' = IF reused /\ CachedIds # {}
                 THEN cache[CHOOSE i \in CachedIds : TRUE] ELSE memory
    /\ cache'  = [i \in Ids |-> NotCached]
    /\ dirty'  = {}
    /\ reused' = TRUE

\* Database::~Database, through currentDatabase.reset.
CloseDatabase ==
    IF current = None
    THEN UNCHANGED <<disk, fd, fm, current, cacheVars>>
    ELSE /\ CloseCache
         /\ CloseFile(current.id)
         /\ current' = None

\* An exception leaves the statement.
Throw == todo' = <<>>
Return == todo' = Tail(todo)
-----------------------------------------------------------------------------
Init ==
    /\ FileInit
    /\ alive   = TRUE
    /\ todo    = <<>>
    /\ fileID  = 0
    /\ current = None
    /\ cache   = [i \in Ids |-> NotCached]
    /\ dirty   = {}
    /\ memory  = Fresh
    /\ reused  = FALSE
    /\ made    = {}

\* The calls of createDatabase, useDatabase and of SQLExecutor's DROP.
CreateCalls(n) == <<<<"createFile", n>>, <<"open", n>>, <<"writeMeta", n>>,
                    <<"writeIndex", n>>, <<"closeFile", n>>>>
UseCalls(n) == <<<<"reset", n>>, <<"open", n>>, <<"check", n>>>>

\* Faulty: the database that was in use is not opened again.
FaultyDropCalls(n, previous) == UseCalls(n) \o <<<<"reset", n>>, <<"remove", n>>>>

\* Faulty: the file is removed while the database is open.
FaultyEarlyRemove(n, previous) ==
    <<<<"remove", n>>>> \o UseCalls(n) \o <<<<"reset", n>>>>
    \o (IF previous = n THEN <<>> ELSE UseCalls(previous))

\* DROP uses the database to be deleted, deletes the one in use, and uses the
\* previous one again unless it is the deleted one.
DropCalls(n, previous) ==
    UseCalls(n) \o <<<<"reset", n>>, <<"remove", n>>>>
    \o (IF previous = n THEN <<>> ELSE UseCalls(previous))

Start(calls) ==
    /\ Idle
    /\ todo' = calls
    /\ UNCHANGED <<disk, fd, fm, alive, fileID, current, cacheVars, made>>

Lost == {i \in Ids : fd[i] = Closed /\ i \notin Ones(fm)}
MayFail(n) == disk[n] # NoFile \/ Cardinality(Lost) < MaxLeaks

CreateDatabase(n) == Start(CreateCalls(n))
UseDatabase(n)    == MayFail(n) /\ Start(UseCalls(n))

\* DROP: getCurrentDatabase throws when no database is in use, so that the
\* comparison with nullptr never fails.
DropDatabase(n) ==
    /\ MayFail(n)
    /\ Start(IF current = None THEN <<>> ELSE DropCalls(n, current.name))

\* Any other statement: it stores into the database in use.
Execute ==
    /\ Idle
    /\ current # None
    /\ LET c == current.id IN
       /\ cache[c].rows < MaxRows
       /\ cache' = [cache EXCEPT ![c].rows = @ + 1]
       /\ dirty' = dirty \cup {c}
    /\ UNCHANGED <<disk, fd, fm, alive, todo, fileID, current, memory, reused, made>>
-----------------------------------------------------------------------------
\* The steps of a running statement: its next call, on the database n.
Calling(call, n) == alive /\ todo # <<>> /\ Head(todo) = <<call, n>>

\* createFile; "File existed" is thrown for any file of that name.
DoCreateFile(n) ==
    /\ Calling("createFile", n)
    /\ \/ CreateFile(n) /\ Return
       \/ disk[n] # NoFile /\ Throw /\ UNCHANGED fileVars
    /\ UNCHANGED <<alive, fileID, current, cacheVars, made>>

\* openFile, in createDatabase and in useDatabase.
DoOpen(n) ==
    /\ Calling("open", n)
    /\ fileID' = NextId
    /\ OpenFile(n)
    /\ IF disk[n] = NoFile THEN Throw ELSE Return
    /\ UNCHANGED <<alive, current, cacheVars, made>>

\* The pages 0 and 1 of a new database, and the end of its creation.
DoWrite(n) ==
    /\ \/ Calling("writeMeta", n)  /\ WritePage(fileID, 0, NewMeta(n))
       \/ Calling("writeIndex", n) /\ WritePage(fileID, 1, NewMeta(n))
    /\ Return
    /\ UNCHANGED <<alive, fileID, current, cacheVars, made>>

DoCloseFile(n) ==
    /\ Calling("closeFile", n)
    /\ CloseFile(fileID)
    /\ Return
    /\ made' = made \cup {n}
    /\ UNCHANGED <<disk, alive, fileID, current, cacheVars>>

DoReset(n) ==
    /\ Calling("reset", n)
    /\ CloseDatabase
    /\ Return
    /\ UNCHANGED <<alive, fileID, made>>

\* getPage(fileID, 0)
MetaPage == IF fileID \in CachedIds THEN cache[fileID] ELSE ReadPage(fileID, 0, memory)

\* Faulty: when the check fails, the file is closed but not the cache.
FaultyDoCheck(n) ==
    /\ Calling("check", n)
    /\ IF IsDatabase(MetaPage)
       THEN /\ cache'   = [cache EXCEPT ![fileID] = MetaPage]
            /\ current' = [name |-> n, id |-> fileID]
            /\ Return
            /\ UNCHANGED fileVars
       ELSE /\ cache' = [cache EXCEPT ![fileID] = NewMeta(n)]
            /\ CloseFile(fileID)
            /\ Throw
            /\ UNCHANGED <<disk, current>>
    /\ UNCHANGED <<alive, fileID, dirty, memory, reused, made>>

\* The rest of useDatabase: page 0 is looked at.  When it is not the one of a
\* database, the cache and the file are closed again.
DoCheck(n) ==
    /\ Calling("check", n)
    /\ IF IsDatabase(MetaPage)
       THEN /\ cache'   = [cache EXCEPT ![fileID] = MetaPage]
            /\ current' = [name |-> n, id |-> fileID]
            /\ Return
            /\ UNCHANGED <<fileVars, dirty, memory, reused>>
       ELSE /\ CloseCache
            /\ CloseFile(fileID)
            /\ Throw
            /\ UNCHANGED current
    /\ UNCHANGED <<alive, fileID, made>>

\* The end of deleteCurrentDatabase.
DoRemove(n) ==
    /\ Calling("remove", n)
    /\ RemoveFile(n)
    /\ Return
    /\ made' = made \ {n}
    /\ UNCHANGED <<alive, fileID, current, cacheVars>>

Step == \E n \in Names :
            \/ DoCreateFile(n) \/ DoOpen(n) \/ DoWrite(n) \/ DoCloseFile(n)
            \/ DoReset(n) \/ DoCheck(n) \/ DoRemove(n)
-----------------------------------------------------------------------------
\* "exit": the destructor of DatabaseManager destroys its members, the
\* database in use first.
Exit ==
    /\ Idle
    /\ CloseDatabase
    /\ alive' = FALSE
    /\ UNCHANGED <<todo, fileID, made>>

\* What is left of a process: its files are closed, its memory is gone.
NoProcess ==
    /\ NoOpenFiles
    /\ todo'    = <<>>
    /\ fileID'  = 0
    /\ current' = None
    /\ cache'   = [i \in Ids |-> NotCached]
    /\ dirty'   = {}
    /\ memory'  = Fresh
    /\ reused'  = FALSE
    /\ UNCHANGED <<disk, made>>

\* The process ends anywhere, without a destructor; and the next one starts.
Kill    == alive  /\ alive' = FALSE /\ NoProcess
Restart == ~alive /\ alive' = TRUE  /\ NoProcess

Next ==
    \/ \E n \in Names : CreateDatabase(n) \/ UseDatabase(n) \/ DropDatabase(n)
    \/ Execute \/ Step \/ Exit \/ Kill \/ Restart

\* A statement is run by one thread that waits for nothing: its next call is
\* made unless the process ends.  Statements, exits and restarts are up to the
\* user.
Spec == Init /\ [][Next]_vars /\ WF_vars(Step)
-----------------------------------------------------------------------------
\* The open files are the one of the database in use and the one that the
\* running statement works on; their ids are taken.  A free id, when there is
\* one, is what the next open gets: the bitmap's root word never hides it.
Working == todo # <<>> /\ Head(todo)[1] \in {"writeMeta", "writeIndex",
                                             "closeFile", "check"}
OpenFilesAccounted ==
    /\ {i \in Ids : fd[i] # Closed} =
           (IF current = None THEN {} ELSE {current.id})
           \cup (IF Working THEN {fileID} ELSE {})
    /\ \A i \in Ones(fm) : fd[i] = Closed
    /\ Ones(fm) # {} => NextId = Min(Ones(fm))

\* The cache holds the database in use and nothing else: an id that is used
\* again for another file never shows pages of the file that had it before.
CacheIsCurrent ==
    IF current = None THEN CachedIds = {} /\ dirty = {}
    ELSE CachedIds = {current.id} /\ fd[current.id] = current.name

\* Both pages of the database n are on the disk, and are its own.
Whole(n) == /\ disk[n] # NoFile /\ disk[n][0] # Hole /\ disk[n][1] # Hole
            /\ disk[n][0].of = n

\* What the callers of DatabaseManager see of it, in the terms of DatabaseSet.
Status == [n \in Names |-> IF disk[n] = NoFile THEN "absent"
                           ELSE IF n \in made /\ Whole(n) THEN "present"
                           ELSE "broken"]
Saved  == [n \in Names |-> IF n \in made THEN disk[n][0].rows ELSE 0]
InUse  == IF current = None THEN None ELSE current.name
Shown  == IF current = None THEN 0
          ELSE IF current.name \in made THEN cache[current.id].rows ELSE 0

\* DatabaseManager keeps the promises of DatabaseSet: what was executed in a
\* database shows in it and survives once it is closed, in every order of
\* statements and whatever call the process ends after.
Abstract == INSTANCE DatabaseSet WITH
    status <- Status, saved <- Saved, inUse <- InUse, shown <- Shown
ImplementsDatabaseSet == Abstract!Spec

\* A DROP of another database ends with the previous one in use again, unless
\* the process ends.
DropRestores ==
    \A n, p \in Names :
        (n # p /\ {n, p} \subseteq made /\ todo = DropCalls(n, p))
            ~> (~alive \/ (current # None /\ current.name = p /\ disk[n] = NoFile))

\* USE accepts nothing but databases: the file of the database in use has a
\* page 0.
UsedIsDatabase == current # None => disk[current.name][0] # Hole
=============================================================================

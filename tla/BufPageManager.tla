--------------------------- MODULE BufPageManager ---------------------------
(* The page cache of the file system: BufPageManager with its hash map        *)
(* (MyHashMap), its replacement list (FindReplace over MyLinkList) and the    *)
(* page I/O of FileManager.  One action per public function; close(), a loop  *)
(* over all frames, takes one step per frame, since the process may end       *)
(* between two of its writes.                                                 *)
(*                                                                            *)
(* A frame is an index of the arrays addr, dirty and hash->a.  A doubly       *)
(* linked list of frames is the sequence of its elements: the replacement     *)
(* list always holds every frame, so it is a function on 1..Cap; the chains   *)
(* of the hash map are only searched for the one element with a key, so       *)
(* chain[i] is the chain frame i is linked into.                              *)
EXTENDS Integers, FiniteSets

CONSTANTS Files,     \* file ids
          Pages,     \* page numbers
          Contents,  \* what a page may hold
          Absent,    \* a page the file does not reach
          Cap,       \* CAP: number of frames
          Mod        \* MOD: number of hash chains

ASSUME CapAssumption     == Cap \in Nat \ {0}
ASSUME ModAssumption     == Mod \in Nat \ {0}
ASSUME FilesAssumption   == Files \subseteq Nat
ASSUME PagesAssumption   == Pages \subseteq Nat
ASSUME AbsentAssumption  == Absent \notin Contents

Keys     == Files \X Pages
NoKey    == <<-1, -1>>
NoFrame  == -1
NoChain  == -1
Frames   == 0 .. Cap - 1
Null     == Absent           \* addr[i] == NULL: no memory allocated yet

VARIABLES
    addr,      \* frame -> content of its memory, Null before allocMem
    dirty,     \* frame -> dirty flag
    keys,      \* frame -> (fileID, pageID) stored by the hash map
    chain,     \* frame -> hash chain it is linked into
    lru,       \* replacement list, next victim first
    last,      \* frame of the last access
    disk,      \* (fileID, pageID) -> content of the file
    closing,   \* next frame of the loop of close(), 0 when not closing
    unread     \* history: frames bound without a successful read of the file

vars == <<addr, dirty, keys, chain, lru, last, disk, closing, unread>>

\* MyHashMap::hash
Hash(k) == (k[1] + k[2] * 46337) % Mod

\* MyHashMap::findIndex
InChain(i, k) == chain[i] = Hash(k) /\ keys[i] = k
Cached(k)     == \E i \in Frames : InChain(i, k)
FindIndex(k)  == IF Cached(k) THEN CHOOSE i \in Frames : InChain(i, k)
                              ELSE NoFrame

\* What a reader of page k gets to see.
View == [k \in Keys |-> IF Cached(k) THEN addr[FindIndex(k)] ELSE disk[k]]

\* The pages whose content is in memory only.
Unsaved == {k \in Keys : Cached(k) /\ dirty[FindIndex(k)]}
-----------------------------------------------------------------------------
\* Faulty variants, named Faulty..., stand beside the definitions they change:
\* the properties of this module tell each of them from the code.

\* MyLinkList::del then insert: element i moves to the tail of the list.
Pos(l, i) == CHOOSE n \in 1 .. Cap : l[n] = i

ToTail(l, i) ==
    [n \in 1 .. Cap |-> IF n < Pos(l, i) THEN l[n]
                        ELSE IF n < Cap THEN l[n + 1] ELSE i]

\* MyLinkList::del then insertFirst: element i moves to the head.
ToHead(l, i) ==
    [n \in 1 .. Cap |-> IF n = 1 THEN i
                        ELSE IF n <= Pos(l, i) THEN l[n - 1] ELSE l[n]]

\* FindReplace::find takes the head of the list.
Victim == lru[1]

\* BufPageManager::access: nothing to do for the frame accessed last.
Touch(i) ==
    /\ lru'  = IF i = last THEN lru ELSE ToTail(lru, i)
    /\ last' = i

\* Faulty: the dirty flag is never looked at.
FaultyFlushed(i) == disk

\* The write-back of a dirty frame to the page its keys name.
Flushed(i) ==
    IF dirty[i] /\ keys[i] \in Keys THEN [disk EXCEPT ![keys[i]] = addr[i]]
                                    ELSE disk

\* fetchPage binds the victim to page k after its write-back.  Its memory,
\* fresh from allocMem, holds anything.  The caller then reads the file or
\* not; a read of a page that the file does not reach changes nothing.
FetchPage(k, read) ==
    LET i == Victim IN
    /\ disk'  = Flushed(i)
    /\ dirty' = [dirty EXCEPT ![i] = FALSE]
    /\ keys'  = [keys EXCEPT ![i] = k]
    /\ chain' = [chain EXCEPT ![i] = Hash(k)]
    /\ lru'   = ToTail(lru, i)
    /\ IF read /\ disk[k] # Absent
       THEN /\ addr'   = [addr EXCEPT ![i] = disk[k]]
            /\ unread' = unread \ {i}
       ELSE /\ IF addr[i] = Null
               THEN \E v \in Contents : addr' = [addr EXCEPT ![i] = v]
               ELSE UNCHANGED addr
            /\ unread' = unread \cup {i}
    /\ UNCHANGED <<last, closing>>
-----------------------------------------------------------------------------
Init ==
    /\ addr    = [i \in Frames |-> Null]
    /\ dirty   = [i \in Frames |-> FALSE]
    /\ keys    = [i \in Frames |-> NoKey]
    /\ chain   = [i \in Frames |-> NoChain]
    /\ lru     = [n \in 1 .. Cap |-> n - 1]
    /\ last    = NoFrame
    /\ disk    \in [Keys -> Contents \cup {Absent}]
    /\ closing = 0
    /\ unread  = {}

Idle == closing = 0

\* getPage: the cached frame, or a victim that the page is read into.
GetPage(k) ==
    /\ Idle
    /\ IF Cached(k)
       THEN /\ Touch(FindIndex(k))
            /\ UNCHANGED <<addr, dirty, keys, chain, disk, closing, unread>>
       ELSE FetchPage(k, TRUE)

\* Faulty: the caller does not look whether the page is cached.
FaultyAllocPage(k, ifRead) == Idle /\ FetchPage(k, ifRead)

\* allocPage: its caller must be sure that the page is not cached.
AllocPage(k, ifRead) ==
    /\ Idle
    /\ ~Cached(k)
    /\ FetchPage(k, ifRead)

\* access and markDirty, on an index that getPage or allocPage returned.
Access(i) ==
    /\ Idle
    /\ keys[i] # NoKey
    /\ Touch(i)
    /\ UNCHANGED <<addr, dirty, keys, chain, disk, closing, unread>>

MarkDirty(i) ==
    /\ Idle
    /\ keys[i] # NoKey
    /\ dirty' = [dirty EXCEPT ![i] = TRUE]
    /\ Touch(i)
    /\ UNCHANGED <<addr, keys, chain, disk, closing, unread>>

\* Faulty: a store through Page::getDataReadonly, which marks nothing dirty.
FaultyStore(i, v) ==
    /\ Idle
    /\ keys[i] # NoKey
    /\ addr' = [addr EXCEPT ![i] = v]
    /\ UNCHANGED <<dirty, keys, chain, lru, last, disk, closing, unread>>

\* A store through the pointer that Page::getDataMutable returned: the page
\* is marked dirty before its caller gets the pointer.
Store(i, v) ==
    /\ Idle
    /\ keys[i] # NoKey
    /\ dirty[i]
    /\ addr' = [addr EXCEPT ![i] = v]
    /\ UNCHANGED <<dirty, keys, chain, lru, last, disk, closing, unread>>

\* Faulty: the frame is unlinked from its chain but keeps its keys.
FaultyUnbind(i) ==
    /\ dirty' = [dirty EXCEPT ![i] = FALSE]
    /\ lru'   = ToHead(lru, i)
    /\ chain' = [chain EXCEPT ![i] = NoChain]
    /\ unread' = unread \ {i}
    /\ UNCHANGED <<addr, keys, last>>

\* Faulty: the frame goes to the wrong end of the replacement list.
FaultyFree(i) ==
    /\ dirty' = [dirty EXCEPT ![i] = FALSE]
    /\ lru'   = ToTail(lru, i)
    /\ keys'  = [keys EXCEPT ![i] = NoKey]
    /\ chain' = [chain EXCEPT ![i] = NoChain]
    /\ unread' = unread \ {i}
    /\ UNCHANGED <<addr, last>>

\* FindReplace::free and MyHashMap::remove.
Unbind(i) ==
    /\ dirty' = [dirty EXCEPT ![i] = FALSE]
    /\ lru'   = ToHead(lru, i)
    /\ keys'  = [keys EXCEPT ![i] = NoKey]
    /\ chain' = [chain EXCEPT ![i] = NoChain]
    /\ unread' = unread \ {i}
    /\ UNCHANGED <<addr, last>>

\* release: the frame is given back, its stores are dropped.
Release(i) ==
    /\ Idle
    /\ Unbind(i)
    /\ UNCHANGED <<disk, closing>>

\* writeBack: the frame is given back, after its write-back if dirty.
WriteBack(i) ==
    /\ Idle
    /\ disk' = Flushed(i)
    /\ Unbind(i)
    /\ UNCHANGED closing

\* Faulty: close() goes one frame too far.
FaultyCloseEnd ==
    /\ disk'    = Flushed(closing)
    /\ Unbind(closing)
    /\ closing' = closing + 1

\* One iteration of the loop of close().
CloseStep ==
    /\ disk'    = Flushed(closing)
    /\ Unbind(closing)
    /\ closing' = (closing + 1) % Cap

\* The process ends without close(), or in the middle of it, and another one
\* starts on the file: an exception that no handler catches does it.
Crash ==
    /\ addr'    = [i \in Frames |-> Null]
    /\ dirty'   = [i \in Frames |-> FALSE]
    /\ keys'    = [i \in Frames |-> NoKey]
    /\ chain'   = [i \in Frames |-> NoChain]
    /\ lru'     = [n \in 1 .. Cap |-> n - 1]
    /\ last'    = NoFrame
    /\ closing' = 0
    /\ unread'  = {}
    /\ UNCHANGED disk

Next ==
    \/ \E k \in Keys : GetPage(k)
    \/ \E k \in Keys, ifRead \in BOOLEAN : AllocPage(k, ifRead)
    \/ \E i \in Frames : Access(i)
    \/ \E i \in Frames : MarkDirty(i)
    \/ \E i \in Frames, v \in Contents : Store(i, v)
    \/ \E i \in Frames : Release(i)
    \/ \E i \in Frames : WriteBack(i)
    \/ CloseStep
    \/ Crash

Spec == Init /\ [][Next]_vars
-----------------------------------------------------------------------------
TypeOK ==
    /\ addr    \in [Frames -> Contents \cup {Null}]
    /\ dirty   \in [Frames -> BOOLEAN]
    /\ keys    \in [Frames -> Keys \cup {NoKey}]
    /\ chain   \in [Frames -> (0 .. Mod - 1) \cup {NoChain}]
    /\ lru     \in [1 .. Cap -> Frames]
    /\ last    \in Frames \cup {NoFrame}
    /\ disk    \in [Keys -> Contents \cup {Absent}]
    /\ closing \in Frames
    /\ unread  \subseteq Frames

\* No page is in two frames: a store would reach one copy and the write-back
\* of the other could undo it (the contract allocPage leaves to its caller,
\* BufPageManager.h:57).
OneFramePerPage ==
    \A i, j \in Frames : i # j /\ keys[i] = keys[j] => keys[i] = NoKey

\* The hash chains and the keys agree: findIndex finds every page that a frame
\* is bound to, through evictions, releases and rebindings.
LookupFindsBound ==
    \A i \in Frames :
        IF keys[i] = NoKey THEN chain[i] = NoChain /\ ~dirty[i]
                           ELSE chain[i] = Hash(keys[i]) /\ addr[i] # Null

\* What a clean frame shows is what the file holds, unless the frame was bound
\* without a read of the file: dropping it loses nothing.
CleanFrameMatchesFile ==
    \A i \in Frames :
        keys[i] # NoKey /\ ~dirty[i] /\ i \notin unread
            => addr[i] = disk[keys[i]]

\* The replacement list holds every frame once.
LruIsPermutation ==
    /\ \A m, n \in 1 .. Cap : lru[m] = lru[n] => m = n
    /\ \A i \in Frames : \E n \in 1 .. Cap : lru[n] = i

\* Frames given back are reused before any page is evicted
\* (FindReplace.h:20, "the next find returns index directly").
FreeFramesFirst ==
    \A m, n \in 1 .. Cap :
        m < n /\ keys[lru[n]] = NoKey => keys[lru[m]] = NoKey

\* While close() runs, the frames it has passed hold nothing.
ClosedFramesEmpty == \A i \in Frames : i < closing => keys[i] = NoKey

\* When the loop of close() ends, no frame is bound and the file holds every
\* page that was in memory only.
CloseSavesAll ==
    [][CloseStep /\ closing' = 0 =>
          /\ \A i \in Frames : keys'[i] = NoKey
          /\ \A k \in Unsaved : disk'[k] = View[k]]_vars

\* The cache implements the store of pages: what a page shows changes only by
\* a store into it, a release or a crash, and no eviction or close loses a
\* store.
Promise == INSTANCE PageStore WITH cur     <- View,
                                   durable <- disk,
                                   unsaved <- Unsaved

ImplementsPageStore == Promise!Spec
=============================================================================

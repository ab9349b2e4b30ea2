------------------------ MODULE BufPageManager_proofs ------------------------
(* The invariants of the page cache, and that it implements the store of      *)
(* pages, for every number of frames, hash chains, files, pages and contents. *)
EXTENDS BufPageManager, TLAPS

Lists == [1 .. Cap -> Frames]

Distinct(l) == \A m, n \in 1 .. Cap : l[m] = l[n] => m = n
Complete(l) == \A i \in Frames : \E n \in 1 .. Cap : l[n] = i

\* The elements of a list from some position on: here, free frames first.
FreeFirst(l, free) ==
    \A m, n \in 1 .. Cap : m < n /\ l[n] \in free => l[m] \in free
-----------------------------------------------------------------------------
\* The position of a frame in a list that holds every frame.
LEMMA PosLemma ==
    ASSUME NEW l \in Lists, Complete(l), NEW i \in Frames
    PROVE  Pos(l, i) \in 1 .. Cap /\ l[Pos(l, i)] = i
BY DEF Pos, Complete

\* Moving a frame to the tail of the list (MyLinkList::insert) keeps a list of
\* every frame once.
LEMMA ToTailLemma ==
    ASSUME NEW l \in Lists, Distinct(l), Complete(l), NEW i \in Frames
    PROVE  /\ ToTail(l, i) \in Lists
           /\ Distinct(ToTail(l, i))
           /\ Complete(ToTail(l, i))
<1>0. Cap \in Nat \ {0} BY CapAssumption
<1> DEFINE p == Pos(l, i)
           t == ToTail(l, i)
<1>1. p \in 1 .. Cap /\ l[p] = i BY PosLemma
<1> HIDE DEF p
<1>2. t = [n \in 1 .. Cap |-> IF n < p THEN l[n]
                               ELSE IF n < Cap THEN l[n + 1] ELSE i]
  BY DEF t, p, ToTail
<1> HIDE DEF t
<1>3. t \in Lists
  BY <1>0, <1>1, <1>2 DEF Lists
<1>4. Distinct(t)
  <2> SUFFICES ASSUME NEW m \in 1 .. Cap, NEW n \in 1 .. Cap, t[m] = t[n]
               PROVE  m = n
    BY DEF Distinct
  <2> DEFINE src(x) == IF x < p THEN x ELSE IF x < Cap THEN x + 1 ELSE p
  <2>1. \A x \in 1 .. Cap : src(x) \in 1 .. Cap /\ t[x] = l[src(x)]
    BY <1>0, <1>1, <1>2
  <2>2. src(m) = src(n) BY <2>1 DEF Distinct
  <2> QED BY <2>2, <1>0, <1>1
<1>5. Complete(t)
  <2> SUFFICES ASSUME NEW j \in Frames
               PROVE  \E n \in 1 .. Cap : t[n] = j
    BY DEF Complete
  <2>1. PICK n \in 1 .. Cap : l[n] = j BY DEF Complete
  <2>2. CASE n < p BY <2>1, <2>2, <1>0, <1>2
  <2>3. CASE n = p
    <3>1. t[Cap] = i BY <1>0, <1>1, <1>2
    <3> QED BY <3>1, <2>1, <2>3, <1>0, <1>1
  <2>4. CASE n > p
    <3>1. n - 1 \in 1 .. Cap /\ t[n - 1] = l[n] BY <2>4, <1>0, <1>1, <1>2
    <3> QED BY <3>1, <2>1
  <2> QED BY <2>2, <2>3, <2>4, <1>0, <1>1
<1> QED BY <1>3, <1>4, <1>5 DEF t

\* Likewise for the head of the list (MyLinkList::insertFirst).
LEMMA ToHeadLemma ==
    ASSUME NEW l \in Lists, Distinct(l), Complete(l), NEW i \in Frames
    PROVE  /\ ToHead(l, i) \in Lists
           /\ Distinct(ToHead(l, i))
           /\ Complete(ToHead(l, i))
<1>0. Cap \in Nat \ {0} BY CapAssumption
<1> DEFINE p == Pos(l, i)
           t == ToHead(l, i)
<1>1. p \in 1 .. Cap /\ l[p] = i BY PosLemma
<1> HIDE DEF p
<1>2. t = [n \in 1 .. Cap |-> IF n = 1 THEN i
                               ELSE IF n <= p THEN l[n - 1] ELSE l[n]]
  BY DEF t, p, ToHead
<1> HIDE DEF t
<1>3. t \in Lists
  BY <1>0, <1>1, <1>2 DEF Lists
<1>4. Distinct(t)
  <2> SUFFICES ASSUME NEW m \in 1 .. Cap, NEW n \in 1 .. Cap, t[m] = t[n]
               PROVE  m = n
    BY DEF Distinct
  <2> DEFINE src(x) == IF x = 1 THEN p ELSE IF x <= p THEN x - 1 ELSE x
  <2>1. \A x \in 1 .. Cap : src(x) \in 1 .. Cap /\ t[x] = l[src(x)]
    BY <1>0, <1>1, <1>2
  <2>2. src(m) = src(n) BY <2>1 DEF Distinct
  <2> QED BY <2>2, <1>0, <1>1
<1>5. Complete(t)
  <2> SUFFICES ASSUME NEW j \in Frames
               PROVE  \E n \in 1 .. Cap : t[n] = j
    BY DEF Complete
  <2>1. PICK n \in 1 .. Cap : l[n] = j BY DEF Complete
  <2>2. CASE n > p BY <2>1, <2>2, <1>0, <1>1, <1>2
  <2>3. CASE n = p
    <3>1. t[1] = i BY <1>0, <1>1, <1>2
    <3> QED BY <3>1, <2>1, <2>3, <1>0, <1>1
  <2>4. CASE n < p
    <3>1. n + 1 \in 1 .. Cap /\ t[n + 1] = l[n] BY <2>4, <1>0, <1>1, <1>2
    <3> QED BY <3>1, <2>1
  <2> QED BY <2>2, <2>3, <2>4, <1>0, <1>1
<1> QED BY <1>3, <1>4, <1>5 DEF t

\* A frame that is or becomes bound may move to the tail, a frame that becomes
\* free to the head: free frames stay first.
LEMMA ToTailFree ==
    ASSUME NEW l \in Lists, Distinct(l), Complete(l), NEW i \in Frames,
           NEW free, FreeFirst(l, free)
    PROVE  FreeFirst(ToTail(l, i), free \ {i})
<1>0. Cap \in Nat \ {0} BY CapAssumption
<1> DEFINE p == Pos(l, i)
<1>1. p \in 1 .. Cap /\ l[p] = i BY PosLemma
<1> SUFFICES ASSUME NEW m \in 1 .. Cap, NEW n \in 1 .. Cap, m < n,
                    ToTail(l, i)[n] \in free \ {i}
             PROVE  ToTail(l, i)[m] \in free \ {i}
  BY DEF FreeFirst
<1> HIDE DEF p
<1>2. ToTail(l, i) = [x \in 1 .. Cap |-> IF x < p THEN l[x]
                               ELSE IF x < Cap THEN l[x + 1] ELSE i]
  BY DEF p, ToTail
<1> DEFINE src(x) == IF x < p THEN x ELSE x + 1
<1>3. n < Cap BY <1>0, <1>1, <1>2
<1>4. /\ src(n) \in 1 .. Cap /\ ToTail(l, i)[n] = l[src(n)]
      /\ src(m) \in 1 .. Cap /\ ToTail(l, i)[m] = l[src(m)]
      /\ src(m) < src(n)
      /\ src(m) # p
  BY <1>0, <1>1, <1>2, <1>3
<1> HIDE DEF src
<1>5. l[src(m)] \in free BY <1>4 DEF FreeFirst
<1>6. l[src(m)] # i BY <1>1, <1>4 DEF Distinct
<1> QED BY <1>4, <1>5, <1>6

\* A frame that becomes free may go to the head of the list, where
\* FindReplace::free puts it: the free frames still come first.
LEMMA ToHeadFree ==
    ASSUME NEW l \in Lists, Distinct(l), Complete(l), NEW i \in Frames,
           NEW free, FreeFirst(l, free)
    PROVE  FreeFirst(ToHead(l, i), free \cup {i})
<1>0. Cap \in Nat \ {0} BY CapAssumption
<1> DEFINE p == Pos(l, i)
<1>1. p \in 1 .. Cap /\ l[p] = i BY PosLemma
<1> SUFFICES ASSUME NEW m \in 1 .. Cap, NEW n \in 1 .. Cap, m < n,
                    ToHead(l, i)[n] \in free \cup {i}
             PROVE  ToHead(l, i)[m] \in free \cup {i}
  BY DEF FreeFirst
<1> HIDE DEF p
<1>2. ToHead(l, i) = [x \in 1 .. Cap |-> IF x = 1 THEN i
                               ELSE IF x <= p THEN l[x - 1] ELSE l[x]]
  BY DEF p, ToHead
<1> DEFINE src(x) == IF x <= p THEN x - 1 ELSE x
<1>3. CASE m = 1 BY <1>2, <1>3, <1>0
<1>4. CASE m > 1
  <2>1. /\ src(n) \in 1 .. Cap /\ ToHead(l, i)[n] = l[src(n)]
        /\ src(m) \in 1 .. Cap /\ ToHead(l, i)[m] = l[src(m)]
        /\ src(m) < src(n)
        /\ src(n) # p
    BY <1>0, <1>1, <1>2, <1>4
  <2> HIDE DEF src
  <2>2. l[src(n)] # i BY <1>1, <2>1 DEF Distinct
  <2>3. l[src(n)] \in free BY <2>1, <2>2
  <2>4. l[src(m)] \in free BY <2>1, <2>3 DEF FreeFirst
  <2> QED BY <2>1, <2>4
<1> QED BY <1>3, <1>4
-----------------------------------------------------------------------------
\* The inductive invariant: the type invariant, what the frames hold, and the
\* order of the replacement list.
FramesOK == OneFramePerPage /\ LookupFindsBound /\ CleanFrameMatchesFile
ListOK   == LruIsPermutation /\ FreeFramesFirst
IInv     == TypeOK /\ FramesOK /\ ListOK

FreeFrames == {i \in Frames : keys[i] = NoKey}

\* A page key is not the key of a free frame, and its hash is a chain.
LEMMA KeyFacts ==
    /\ NoKey \notin Keys
    /\ \A k \in Keys : Hash(k) \in 0 .. Mod - 1
<1>1. NoKey \notin Keys BY FilesAssumption DEF NoKey, Keys
<1>2. ASSUME NEW k \in Keys PROVE Hash(k) \in 0 .. Mod - 1
  <2> DEFINE s == k[1] + k[2] * 46337
  <2>1. s \in Int
    <3>1. k[1] \in Files /\ k[2] \in Pages BY DEF Keys
    <3> HIDE DEF s
    <3>2. \A f \in Files : f \in Int BY FilesAssumption
    <3>3. \A p \in Pages : p \in Int BY PagesAssumption
    <3>4. \A a, b \in Int : a + b * 46337 \in Int OBVIOUS
    <3> QED BY <3>1, <3>2, <3>3, <3>4 DEF s
  <2> HIDE DEF s
  <2>2. s % Mod \in 0 .. Mod - 1 BY <2>1, ModAssumption
  <2> QED BY <2>2 DEF s, Hash
<1> QED BY <1>1, <1>2

\* With the frames in order, findIndex is the search for the key alone.
LEMMA FindIndexLemma ==
    ASSUME TypeOK, FramesOK
    PROVE  /\ \A k \in Keys, i \in Frames : InChain(i, k) <=> keys[i] = k
           /\ \A k \in Keys : Cached(k) =>
                 FindIndex(k) \in Frames /\ keys[FindIndex(k)] = k
           /\ \A i \in Frames : keys[i] # NoKey =>
                 Cached(keys[i]) /\ FindIndex(keys[i]) = i
<1>1. \A k \in Keys, i \in Frames : InChain(i, k) <=> keys[i] = k
  BY KeyFacts DEF FramesOK, LookupFindsBound, InChain
<1>2. \A k \in Keys : Cached(k) =>
         FindIndex(k) \in Frames /\ keys[FindIndex(k)] = k
  BY <1>1 DEF Cached, FindIndex
<1>3. ASSUME NEW i \in Frames, keys[i] # NoKey
      PROVE  Cached(keys[i]) /\ FindIndex(keys[i]) = i
  <2>1. keys[i] \in Keys BY <1>3 DEF TypeOK
  <2>2. Cached(keys[i]) BY <1>1, <2>1 DEF Cached
  <2>3. /\ FindIndex(keys[i]) \in Frames
        /\ keys[FindIndex(keys[i])] = keys[i]
    BY <1>2, <2>1, <2>2
  <2> QED BY <1>3, <2>2, <2>3 DEF FramesOK, OneFramePerPage
<1> QED BY <1>1, <1>2, <1>3

\* ListOK in the terms of the list lemmas.
LEMMA ListLemma ==
    ASSUME TypeOK
    PROVE  /\ lru \in Lists
           /\ ListOK <=> /\ Distinct(lru) /\ Complete(lru)
                         /\ FreeFirst(lru, FreeFrames)
BY DEF TypeOK, Lists, ListOK, LruIsPermutation, FreeFramesFirst, Distinct,
       Complete, FreeFirst, FreeFrames

\* The moves of the list that an access of a bound frame, a fetch and a return
\* of a frame make, with the frames that are free afterwards.
LEMMA ListStep ==
    ASSUME TypeOK, TypeOK', ListOK, NEW i \in Frames,
           \/ lru' = lru /\ FreeFrames' = FreeFrames
           \/ lru' = ToTail(lru, i) /\ FreeFrames' = FreeFrames \ {i}
           \/ lru' = ToHead(lru, i) /\ FreeFrames' = FreeFrames \cup {i}
    PROVE  ListOK'
<1>1. /\ lru \in Lists /\ Distinct(lru) /\ Complete(lru)
      /\ FreeFirst(lru, FreeFrames)
  BY ListLemma
<1>2. Distinct(lru') /\ Complete(lru') /\ FreeFirst(lru', FreeFrames')
  <2>1. CASE lru' = lru /\ FreeFrames' = FreeFrames
    BY <1>1, <2>1
  <2>2. CASE lru' = ToTail(lru, i) /\ FreeFrames' = FreeFrames \ {i}
    <3>1. FreeFirst(ToTail(lru, i), FreeFrames \ {i}) BY <1>1, ToTailFree
    <3> QED BY <1>1, <2>2, <3>1, ToTailLemma
  <2>3. CASE lru' = ToHead(lru, i) /\ FreeFrames' = FreeFrames \cup {i}
    <3>1. FreeFirst(ToHead(lru, i), FreeFrames \cup {i}) BY <1>1, ToHeadFree
    <3> QED BY <1>1, <2>3, <3>1, ToHeadLemma
  <2> QED BY <2>1, <2>2, <2>3
<1> QED BY <1>2 DEF TypeOK, Lists, ListOK, LruIsPermutation, FreeFramesFirst,
       Distinct, Complete, FreeFirst, FreeFrames

\* The head of the replacement list, which find() takes, is a frame.
LEMMA VictimLemma ==
    ASSUME TypeOK
    PROVE  Victim \in Frames
BY CapAssumption DEF TypeOK, Victim
-----------------------------------------------------------------------------
\* The write-back of a frame: it puts the frame's content under its key, and
\* the file keeps its type.
LEMMA FlushedLemma ==
    ASSUME IInv, NEW i \in Frames
    PROVE  /\ Flushed(i) \in [Keys -> Contents \cup {Absent}]
           /\ \A j \in Frames : keys[j] # NoKey /\ j # i =>
                 Flushed(i)[keys[j]] = disk[keys[j]]
           /\ \A k \in Keys : keys[i] # k => Flushed(i)[k] = disk[k]
           /\ keys[i] # NoKey /\ dirty[i] => Flushed(i)[keys[i]] = addr[i]
           /\ ~dirty[i] => Flushed(i) = disk
BY DEF IInv, TypeOK, FramesOK, OneFramePerPage, LookupFindsBound, Flushed, Null

\* Binding the victim to a page that no frame holds.
LEMMA FetchStep ==
    ASSUME IInv, Idle, NEW k \in Keys, ~Cached(k), NEW read \in BOOLEAN,
           FetchPage(k, read)
    PROVE  IInv'
<1> DEFINE i == Victim
<1>0. i \in Frames BY VictimLemma DEF IInv
<1> HIDE DEF i
<1>1. /\ disk'  = Flushed(i)
      /\ dirty' = [dirty EXCEPT ![i] = FALSE]
      /\ keys'  = [keys EXCEPT ![i] = k]
      /\ chain' = [chain EXCEPT ![i] = Hash(k)]
      /\ lru'   = ToTail(lru, i)
      /\ UNCHANGED <<last, closing>>
  BY DEF FetchPage, i
<1>2. \/ /\ disk[k] # Absent
         /\ addr' = [addr EXCEPT ![i] = disk[k]]
         /\ unread' = unread \ {i}
      \/ /\ addr[i] = Null
         /\ \E v \in Contents : addr' = [addr EXCEPT ![i] = v]
         /\ unread' = unread \cup {i}
      \/ /\ addr[i] # Null
         /\ addr' = addr
         /\ unread' = unread \cup {i}
  BY DEF FetchPage, i
<1>3. \A j \in Frames : keys[j] # k
  BY FindIndexLemma DEF IInv, Cached
<1>4. k # NoKey BY KeyFacts
<1>5. lru' \in [1 .. Cap -> Frames]
  BY <1>0, <1>1, ToTailLemma, ListLemma DEF IInv, Lists
<1>6. TypeOK'
  <2>1. addr' \in [Frames -> Contents \cup {Null}]
    BY <1>0, <1>2 DEF IInv, TypeOK, Null
  <2>2. unread' \subseteq Frames
    BY <1>0, <1>2 DEF IInv, TypeOK
  <2>3. disk' \in [Keys -> Contents \cup {Absent}]
    BY <1>0, <1>1, FlushedLemma
  <2>4. chain' \in [Frames -> (0 .. Mod - 1) \cup {NoChain}]
    BY <1>0, <1>1, KeyFacts DEF IInv, TypeOK
  <2> QED BY <1>0, <1>1, <1>5, <2>1, <2>2, <2>3, <2>4 DEF IInv, TypeOK
<1>7. FramesOK'
  <2>1. OneFramePerPage'
    BY <1>0, <1>1, <1>3 DEF IInv, TypeOK, FramesOK, OneFramePerPage
  <2>2. LookupFindsBound'
    <3> SUFFICES ASSUME NEW j \in Frames
                 PROVE IF keys'[j] = NoKey THEN chain'[j] = NoChain /\ ~dirty'[j]
                       ELSE chain'[j] = Hash(keys'[j]) /\ addr'[j] # Null
      BY DEF LookupFindsBound, Hash
    <3>1. CASE j = i
      <4>1. addr'[i] # Null
        BY <1>0, <1>2, AbsentAssumption DEF IInv, TypeOK, Null
      <4> QED BY <1>0, <1>1, <1>4, <3>1, <4>1 DEF IInv, TypeOK
    <3>2. CASE j # i
      BY <1>0, <1>1, <1>2, <3>2 DEF IInv, TypeOK, FramesOK, LookupFindsBound
    <3> QED BY <3>1, <3>2
  <2>3. CleanFrameMatchesFile'
    <3> SUFFICES ASSUME NEW j \in Frames, keys'[j] # NoKey, ~dirty'[j],
                        j \notin unread'
                 PROVE  addr'[j] = disk'[keys'[j]]
      BY DEF CleanFrameMatchesFile
    <3>1. CASE j = i
      BY <1>0, <1>1, <1>2, <1>3, <3>1, FlushedLemma DEF IInv, TypeOK
    <3>2. CASE j # i
      <4>1. /\ keys'[j] = keys[j] /\ dirty'[j] = dirty[j]
            /\ addr'[j] = addr[j] /\ j \notin unread
        BY <1>0, <1>1, <1>2, <3>2 DEF IInv, TypeOK
      <4>2. Flushed(i)[keys[j]] = disk[keys[j]]
        BY <1>0, <3>2, <4>1, FlushedLemma
      <4> QED BY <1>1, <4>1, <4>2 DEF IInv, FramesOK, CleanFrameMatchesFile
    <3> QED BY <3>1, <3>2
  <2> QED BY <2>1, <2>2, <2>3 DEF FramesOK
<1>8. ListOK'
  <2>1. FreeFrames' = FreeFrames \ {i}
    BY <1>0, <1>1, <1>4 DEF IInv, TypeOK, FreeFrames
  <2> QED BY <1>0, <1>1, <1>6, <2>1, ListStep DEF IInv
<1> QED BY <1>6, <1>7, <1>8 DEF IInv
-----------------------------------------------------------------------------
\* An access of a bound frame, with or without a change of its dirty flag.
LEMMA TouchStep ==
    ASSUME IInv, NEW i \in Frames, keys[i] # NoKey, Touch(i),
           dirty' = dirty \/ dirty' = [dirty EXCEPT ![i] = TRUE],
           UNCHANGED <<addr, keys, chain, disk, closing, unread>>
    PROVE  IInv'
<1>1. lru' \in [1 .. Cap -> Frames]
  BY ToTailLemma, ListLemma DEF IInv, Lists, Touch, TypeOK
<1>2. TypeOK'
  BY <1>1 DEF IInv, TypeOK, Touch
<1>3. FramesOK'
  BY DEF IInv, TypeOK, FramesOK, OneFramePerPage, LookupFindsBound,
         CleanFrameMatchesFile, Hash
<1>4. ListOK'
  <2>1. FreeFrames' = FreeFrames /\ FreeFrames = FreeFrames \ {i}
    BY DEF FreeFrames
  <2>2. lru' = lru \/ lru' = ToTail(lru, i) BY DEF Touch
  <2> QED BY <1>2, <2>1, <2>2, ListStep DEF IInv
<1> QED BY <1>2, <1>3, <1>4 DEF IInv

\* A store into a dirty frame.
LEMMA StoreStep ==
    ASSUME IInv, NEW i \in Frames, NEW v \in Contents, Store(i, v)
    PROVE  IInv'
<1>1. TypeOK'
  BY DEF IInv, TypeOK, Store
<1>2. FramesOK'
  BY AbsentAssumption
     DEF IInv, TypeOK, FramesOK, OneFramePerPage, LookupFindsBound,
         CleanFrameMatchesFile, Hash, Store, Null
<1>3. ListOK'
  BY DEF IInv, ListOK, LruIsPermutation, FreeFramesFirst, Store
<1> QED BY <1>1, <1>2, <1>3 DEF IInv

\* The return of a frame, after its write-back or without it.
LEMMA UnbindStep ==
    ASSUME IInv, NEW i \in Frames, Unbind(i),
           disk' = disk \/ disk' = Flushed(i),
           closing' \in Frames
    PROVE  IInv'
<1>1. lru' \in [1 .. Cap -> Frames]
  BY ToHeadLemma, ListLemma DEF IInv, Lists, Unbind
<1>2. disk' \in [Keys -> Contents \cup {Absent}]
  BY FlushedLemma DEF IInv, TypeOK
<1>3. TypeOK'
  BY <1>1, <1>2 DEF IInv, TypeOK, Unbind
<1>4. OneFramePerPage'
  BY DEF IInv, TypeOK, FramesOK, OneFramePerPage, Unbind
<1>5. LookupFindsBound'
  BY DEF IInv, TypeOK, FramesOK, LookupFindsBound, Hash, Unbind
<1>6. CleanFrameMatchesFile'
  <2> SUFFICES ASSUME NEW j \in Frames, keys'[j] # NoKey, ~dirty'[j],
                      j \notin unread'
               PROVE  addr'[j] = disk'[keys'[j]]
    BY DEF CleanFrameMatchesFile
  <2>1. /\ j # i
        /\ keys'[j] = keys[j] /\ dirty'[j] = dirty[j]
        /\ addr'[j] = addr[j] /\ j \notin unread
    BY DEF IInv, TypeOK, Unbind
  <2>2. disk'[keys[j]] = disk[keys[j]]
    BY <2>1, FlushedLemma
  <2> QED BY <2>1, <2>2 DEF IInv, FramesOK, CleanFrameMatchesFile
<1>7. ListOK'
  <2>1. FreeFrames' = FreeFrames \cup {i}
    BY DEF IInv, TypeOK, FreeFrames, Unbind
  <2>2. lru' = ToHead(lru, i) BY DEF Unbind
  <2> QED BY <1>3, <2>1, <2>2, ListStep DEF IInv
<1> QED BY <1>3, <1>4, <1>5, <1>6, <1>7 DEF IInv, FramesOK

\* A cache that has just been built, over any file.
LEMMA FreshCache ==
    ASSUME disk \in [Keys -> Contents \cup {Absent}],
           addr    = [i \in Frames |-> Null],
           dirty   = [i \in Frames |-> FALSE],
           keys    = [i \in Frames |-> NoKey],
           chain   = [i \in Frames |-> NoChain],
           lru     = [n \in 1 .. Cap |-> n - 1],
           last    = NoFrame,
           closing = 0,
           unread  = {}
    PROVE  IInv
<1>0. Cap \in Nat \ {0} BY CapAssumption
<1>1. 0 \in Frames BY <1>0 DEF Frames
<1>2. lru \in [1 .. Cap -> Frames] BY <1>0 DEF Frames
<1>3. TypeOK BY <1>1, <1>2 DEF TypeOK
<1>4. FramesOK
  BY DEF FramesOK, OneFramePerPage, LookupFindsBound, CleanFrameMatchesFile
<1>5. LruIsPermutation
  <2>1. \A m, n \in 1 .. Cap : lru[m] = lru[n] => m = n BY <1>0
  <2>2. ASSUME NEW i \in Frames PROVE \E n \in 1 .. Cap : lru[n] = i
    <3>1. i + 1 \in 1 .. Cap /\ lru[i + 1] = i BY <1>0 DEF Frames
    <3> QED BY <3>1
  <2> QED BY <2>1, <2>2 DEF LruIsPermutation
<1>6. FreeFramesFirst BY <1>2 DEF FreeFramesFirst
<1> QED BY <1>3, <1>4, <1>5, <1>6 DEF IInv, ListOK

\* The cache that the constructor leaves meets the invariant.
LEMMA InitIInv == Init => IInv
BY FreshCache DEF Init

\* A new process starts with a fresh cache on whatever the file holds.
LEMMA CrashStep == ASSUME IInv, Crash PROVE IInv'
<1>1. disk' \in [Keys -> Contents \cup {Absent}] BY DEF IInv, TypeOK, Crash
<1>2. Init' BY <1>1 DEF Crash, Init
<1>3. Init' => IInv' BY InitIInv, PTL
<1> QED BY <1>2, <1>3
-----------------------------------------------------------------------------
\* Every public function preserves the invariant: one step per action.
LEMMA NextIInv == ASSUME IInv, [Next]_vars PROVE IInv'
<1>1. ASSUME NEW k \in Keys, GetPage(k) PROVE IInv'
  <2>1. CASE Cached(k)
    <3> DEFINE i == FindIndex(k)
    <3>1. i \in Frames /\ keys[i] # NoKey
      BY <2>1, FindIndexLemma, KeyFacts DEF IInv
    <3>2. Touch(i) /\ UNCHANGED <<addr, dirty, keys, chain, disk, closing, unread>>
      BY <1>1, <2>1 DEF GetPage
    <3> QED BY <3>1, <3>2, TouchStep
  <2>2. CASE ~Cached(k)
    BY <1>1, <2>2, FetchStep DEF GetPage
  <2> QED BY <2>1, <2>2
<1>2. ASSUME NEW k \in Keys, NEW ifRead \in BOOLEAN, AllocPage(k, ifRead)
      PROVE  IInv'
  BY <1>2, FetchStep DEF AllocPage
<1>3. ASSUME NEW i \in Frames, Access(i) PROVE IInv'
  BY <1>3, TouchStep DEF Access
<1>4. ASSUME NEW i \in Frames, MarkDirty(i) PROVE IInv'
  BY <1>4, TouchStep DEF MarkDirty
<1>5. ASSUME NEW i \in Frames, NEW v \in Contents, Store(i, v) PROVE IInv'
  BY <1>5, StoreStep
<1>6. ASSUME NEW i \in Frames, Release(i) PROVE IInv'
  <2>1. closing' \in Frames BY <1>6 DEF Release, IInv, TypeOK
  <2> QED BY <1>6, <2>1, UnbindStep DEF Release
<1>7. ASSUME NEW i \in Frames, WriteBack(i) PROVE IInv'
  <2>1. closing' \in Frames BY <1>7 DEF WriteBack, IInv, TypeOK
  <2> QED BY <1>7, <2>1, UnbindStep DEF WriteBack
<1>8. ASSUME CloseStep PROVE IInv'
  <2>1. closing \in Frames BY DEF IInv, TypeOK
  <2>2. closing + 1 \in Int /\ Cap \in Nat \ {0}
    BY <2>1, CapAssumption DEF Frames
  <2>3. (closing + 1) % Cap \in 0 .. Cap - 1 BY <2>2
  <2>4. closing' \in Frames BY <1>8, <2>3 DEF CloseStep, Frames
  <2> QED BY <1>8, <2>1, <2>4, UnbindStep DEF CloseStep
<1>9. CASE Crash BY <1>9, CrashStep
<1>10. CASE UNCHANGED vars
  BY <1>10 DEF vars, IInv, TypeOK, FramesOK, OneFramePerPage, LookupFindsBound,
               CleanFrameMatchesFile, Hash, ListOK, LruIsPermutation,
               FreeFramesFirst
<1> QED
  BY <1>1, <1>2, <1>3, <1>4, <1>5, <1>6, <1>7, <1>8, <1>9, <1>10 DEF Next

\* The inductive invariant holds in every reachable state.
THEOREM Invariance == Spec => []IInv
<1>1. Init => IInv BY InitIInv
<1>2. IInv /\ [Next]_vars => IInv' BY NextIInv
<1> QED BY <1>1, <1>2, PTL DEF Spec

\* Every variable keeps its type, whatever calls are made.
THEOREM TypeCorrect == Spec => []TypeOK
<1>1. IInv => TypeOK BY DEF IInv
<1> QED BY <1>1, Invariance, PTL

\* No page is ever in two frames.
THEOREM NoDuplicateFrame == Spec => []OneFramePerPage
<1>1. IInv => OneFramePerPage BY DEF IInv, FramesOK
<1> QED BY <1>1, Invariance, PTL

\* The hash chains always lead to every frame that is bound.
THEOREM LookupComplete == Spec => []LookupFindsBound
<1>1. IInv => LookupFindsBound BY DEF IInv, FramesOK
<1> QED BY <1>1, Invariance, PTL

\* A clean frame always shows what the file holds.
THEOREM CleanMatches == Spec => []CleanFrameMatchesFile
<1>1. IInv => CleanFrameMatchesFile BY DEF IInv, FramesOK
<1> QED BY <1>1, Invariance, PTL

\* The linked list operations never lose or repeat a frame.
THEOREM LruComplete == Spec => []LruIsPermutation
<1>1. IInv => LruIsPermutation BY DEF IInv, ListOK
<1> QED BY <1>1, Invariance, PTL

\* No page is evicted while a frame is free.
THEOREM EvictOnlyWhenFull == Spec => []FreeFramesFirst
<1>1. IInv => FreeFramesFirst BY DEF IInv, ListOK
<1> QED BY <1>1, Invariance, PTL
-----------------------------------------------------------------------------
\* The step that passes frame Cap - 1 is the only one that ends the loop.
LEMMA LastFrame ==
    ASSUME TypeOK, CloseStep, closing' = 0
    PROVE  closing = Cap - 1
<1>1. Cap \in Nat \ {0} /\ closing \in 0 .. Cap - 1
  BY CapAssumption DEF TypeOK, Frames
<1>2. (closing + 1) % Cap = 0 BY DEF CloseStep
<1>3. SUFFICES ASSUME closing < Cap - 1 PROVE FALSE BY <1>1
<1>4. closing + 1 \in 1 .. Cap - 1 BY <1>1, <1>3
<1>5. \A n \in 1 .. Cap - 1 : n % Cap = n BY <1>1
<1> QED BY <1>2, <1>4, <1>5

\* No frame has been passed before close() starts.
LEMMA ClosedInit == Init => ClosedFramesEmpty
BY DEF Init, ClosedFramesEmpty, Frames

\* The loop of close() leaves the frames it has passed empty: nothing binds a
\* frame until it ends.
LEMMA ClosedStep ==
    ASSUME TypeOK, ClosedFramesEmpty, [Next]_vars
    PROVE  ClosedFramesEmpty'
<1>0. Cap \in Nat \ {0} BY CapAssumption
<1>1. CASE closing' = 0
  BY <1>1 DEF ClosedFramesEmpty, Frames
<1>2. CASE closing' # 0 /\ CloseStep
  <2>1. closing \in 0 .. Cap - 1 BY DEF TypeOK, Frames
  <2>2. closing' = (closing + 1) % Cap /\ Unbind(closing)
    BY <1>2 DEF CloseStep
  <2>3. closing' = closing + 1
    <3>1. closing # Cap - 1
      <4>1. Cap % Cap = 0 BY <1>0
      <4> QED BY <1>0, <1>2, <2>1, <2>2, <4>1
    <3>2. closing + 1 \in 1 .. Cap - 1 BY <1>0, <2>1, <3>1
    <3>3. \A n \in 1 .. Cap - 1 : n % Cap = n BY <1>0
    <3> QED BY <2>2, <3>2, <3>3
  <2> SUFFICES ASSUME NEW i \in Frames, i < closing' PROVE keys'[i] = NoKey
    BY DEF ClosedFramesEmpty
  <2>4. i < closing \/ i = closing BY <2>1, <2>3 DEF Frames
  <2> QED BY <2>2, <2>4 DEF TypeOK, Unbind, ClosedFramesEmpty
<1>3. CASE UNCHANGED vars
  BY <1>3 DEF vars, ClosedFramesEmpty
<1>4. CASE closing' # 0 /\ Next /\ ~CloseStep
  <2>1. closing' = 0
    BY <1>4 DEF Next, GetPage, AllocPage, Access, MarkDirty, Store, Release,
                WriteBack, Crash, FetchPage, Idle
  <2> QED BY <1>4, <2>1
<1> QED BY <1>1, <1>2, <1>3, <1>4

\* close() never binds a frame behind its loop.
THEOREM ClosedInvariance == Spec => []ClosedFramesEmpty
<1>1. TypeOK /\ ClosedFramesEmpty /\ [Next]_vars => ClosedFramesEmpty'
  BY ClosedStep
<1> QED BY <1>1, ClosedInit, TypeCorrect, PTL DEF Spec

\* When close() ends, the file holds every page that was only in memory.
THEOREM CloseIsComplete == Spec => CloseSavesAll
<1> DEFINE Complete1 ==
             CloseStep /\ closing' = 0 =>
               /\ \A i \in Frames : keys'[i] = NoKey
               /\ \A k \in Unsaved : disk'[k] = View[k]
<1>1. ASSUME IInv, ClosedFramesEmpty, CloseStep, closing' = 0
      PROVE  /\ \A i \in Frames : keys'[i] = NoKey
             /\ \A k \in Unsaved : disk'[k] = View[k]
  <2>1. closing = Cap - 1 /\ closing \in Frames
    BY <1>1, LastFrame DEF IInv, TypeOK
  <2>2. \A i \in Frames : i # closing => keys[i] = NoKey
    BY <1>1, <2>1, CapAssumption DEF ClosedFramesEmpty, Frames
  <2>3. keys' = [keys EXCEPT ![closing] = NoKey] /\ disk' = Flushed(closing)
    BY <1>1 DEF CloseStep, Unbind
  <2>4. \A i \in Frames : keys'[i] = NoKey
    BY <1>1, <2>1, <2>2, <2>3 DEF IInv, TypeOK
  <2>5. ASSUME NEW k \in Unsaved PROVE disk'[k] = View[k]
    <3>1. k \in Keys /\ Cached(k) /\ dirty[FindIndex(k)] BY DEF Unsaved
    <3>2. FindIndex(k) \in Frames /\ keys[FindIndex(k)] = k
      BY <1>1, <3>1, FindIndexLemma DEF IInv
    <3>3. FindIndex(k) = closing BY <2>2, <3>1, <3>2, KeyFacts
    <3>4. Flushed(closing)[k] = addr[closing]
      BY <1>1, <2>1, <3>1, <3>2, <3>3, KeyFacts, FlushedLemma
    <3> QED BY <2>3, <3>1, <3>3, <3>4 DEF View
  <2> QED BY <2>4, <2>5
<1>2. IInv /\ ClosedFramesEmpty => [Complete1]_vars BY <1>1
<1>3. Spec => []IInv /\ []ClosedFramesEmpty
  BY Invariance, ClosedInvariance, PTL
<1>4. [][Complete1]_vars <=> CloseSavesAll BY DEF CloseSavesAll
<1> QED BY <1>2, <1>3, <1>4, PTL
-----------------------------------------------------------------------------
\* What a page shows and whether it is unsaved, frame by frame.
ViewOK ==
    /\ View \in [Keys -> Contents \cup {Absent}]
    /\ \A i \in Frames : keys[i] # NoKey =>
          /\ keys[i] \in Keys
          /\ View[keys[i]] = addr[i]
          /\ addr[i] \in Contents
          /\ keys[i] \in Unsaved <=> dirty[i]
    /\ \A k \in Keys : (\A i \in Frames : keys[i] # k) =>
          View[k] = disk[k] /\ k \notin Unsaved

\* What a lookup shows: a bound frame's memory and its dirty flag decide what
\* the page shows and whether it is unsaved; a page without frame is the file's.
LEMMA ViewLemma == IInv => ViewOK
<1> SUFFICES ASSUME IInv PROVE ViewOK OBVIOUS
<1>1. ASSUME NEW i \in Frames, keys[i] # NoKey
      PROVE  /\ keys[i] \in Keys
             /\ View[keys[i]] = addr[i]
             /\ addr[i] \in Contents
             /\ keys[i] \in Unsaved <=> dirty[i]
  <2>1. keys[i] \in Keys BY <1>1 DEF IInv, TypeOK
  <2>2. Cached(keys[i]) /\ FindIndex(keys[i]) = i
    BY <1>1, FindIndexLemma DEF IInv
  <2>3. addr[i] \in Contents
    BY <1>1 DEF IInv, TypeOK, FramesOK, LookupFindsBound
  <2> QED BY <2>1, <2>2, <2>3 DEF View, Unsaved
<1>2. ASSUME NEW k \in Keys, \A i \in Frames : keys[i] # k
      PROVE  View[k] = disk[k] /\ k \notin Unsaved
  <2>1. ~Cached(k) BY <1>2, FindIndexLemma DEF IInv, Cached
  <2> QED BY <2>1 DEF View, Unsaved
<1>3. View \in [Keys -> Contents \cup {Absent}]
  <2>1. View = [k \in Keys |-> View[k]] BY DEF View
  <2>2. ASSUME NEW k \in Keys PROVE View[k] \in Contents \cup {Absent}
    <3>1. CASE \E i \in Frames : keys[i] = k BY <1>1, <3>1, KeyFacts
    <3>2. CASE \A i \in Frames : keys[i] # k
      BY <1>2, <3>2 DEF IInv, TypeOK
    <3> QED BY <3>1, <3>2
  <2> QED BY <2>1, <2>2
<1> QED BY <1>1, <1>2, <1>3 DEF ViewOK

\* A page whose frame and whose place in the file do not change stays as it is.
LEMMA OtherStays ==
    ASSUME ViewOK, ViewOK', NEW j \in Keys,
           disk'[j] = disk[j],
           \A i \in Frames : keys[i] = j <=> keys'[i] = j,
           \A i \in Frames : keys[i] = j =>
              addr'[i] = addr[i] /\ dirty'[i] = dirty[i]
    PROVE  Promise!Stay(j)
<1>0. j # NoKey BY KeyFacts
<1>1. CASE \E i \in Frames : keys[i] = j
  BY <1>0, <1>1 DEF ViewOK, Promise!Stay, Promise!Same, Promise!Kept
<1>2. CASE \A i \in Frames : keys[i] # j
  BY <1>0, <1>2 DEF ViewOK, Promise!Stay, Promise!Same, Promise!Kept
<1> QED BY <1>1, <1>2

\* A page whose frame is given back or rebound: its content is in the file
\* already or goes there.
LEMMA VictimMoves ==
    ASSUME IInv, ViewOK, ViewOK', NEW i \in Frames, keys[i] # NoKey,
           disk'[keys[i]] = Flushed(i)[keys[i]],
           \A n \in Frames : keys'[n] # keys[i]
    PROVE  Promise!Move(keys[i])
<1> DEFINE j == keys[i]
<1>1. /\ j \in Keys /\ View[j] = addr[i] /\ addr[i] \in Contents
      /\ j \in Unsaved <=> dirty[i]
  BY DEF ViewOK
<1>2. View'[j] = disk'[j] /\ j \notin Unsaved'
  BY <1>1 DEF ViewOK
<1>3. CASE dirty[i]
  <2>1. disk'[j] = addr[i] BY <1>3, FlushedLemma
  <2>2. Promise!Save(j)
    BY <1>1, <1>2, <1>3, <2>1 DEF Promise!Save, Promise!Same
  <2> QED BY <2>2 DEF Promise!Move
<1>4. CASE ~dirty[i]
  <2>1. disk'[j] = disk[j] BY <1>4, FlushedLemma
  <2>2. Promise!Forget(j)
    BY <1>1, <1>2, <1>4, <2>1 DEF Promise!Forget, Promise!Kept
  <2> QED BY <2>2 DEF Promise!Move
<1> QED BY <1>3, <1>4

\* The move of every page in a fetch: the page fetched is filled or scratched,
\* the page of the victim is saved or forgotten.
LEMMA FetchMoves ==
    ASSUME IInv, IInv', NEW k \in Keys, ~Cached(k), NEW read \in BOOLEAN,
           FetchPage(k, read)
    PROVE  /\ \A j \in Keys \ {k} : Promise!Move(j)
           /\ read => Promise!Move(k)
           /\ Promise!Scratch(k)
<1> DEFINE i == Victim
<1>0. i \in Frames BY VictimLemma DEF IInv
<1>1. ViewOK /\ ViewOK'
  <2>1. IInv' => ViewOK' BY ViewLemma, PTL
  <2> QED BY <2>1, ViewLemma
<1>2. /\ disk'  = Flushed(i)
      /\ dirty' = [dirty EXCEPT ![i] = FALSE]
      /\ keys'  = [keys EXCEPT ![i] = k]
  BY DEF FetchPage
<1>3. /\ \A n \in Frames : n # i => addr'[n] = addr[n]
      /\ read /\ disk[k] # Absent => addr'[i] = disk[k]
  <2>1. \/ addr' = addr
        \/ \E v \in Contents : addr' = [addr EXCEPT ![i] = v]
        \/ addr' = [addr EXCEPT ![i] = disk[k]]
    BY DEF FetchPage
  <2>2. read /\ disk[k] # Absent => addr' = [addr EXCEPT ![i] = disk[k]]
    BY DEF FetchPage
  <2> QED BY <1>0, <2>1, <2>2 DEF IInv, TypeOK
<1> HIDE DEF i
<1>4. \A n \in Frames : keys[n] # k
  BY FindIndexLemma DEF IInv, Cached
<1>5. k # NoKey BY KeyFacts
<1>6. /\ keys'[i] = k /\ ~dirty'[i]
      /\ \A n \in Frames : n # i => keys'[n] = keys[n] /\ dirty'[n] = dirty[n]
  BY <1>0, <1>2 DEF IInv, TypeOK
<1>7. ASSUME NEW j \in Keys \ {k} PROVE Promise!Move(j)
  <2>0. j # NoKey BY KeyFacts
  <2>1. CASE j = keys[i]
    <3>1. \A n \in Frames : keys'[n] # keys[i]
      BY <1>0, <1>6, <2>0, <2>1 DEF IInv, FramesOK, OneFramePerPage
    <3>2. keys[i] # NoKey BY <2>0, <2>1
    <3>3. disk'[keys[i]] = Flushed(i)[keys[i]] BY <1>2
    <3> QED BY <1>0, <1>1, <2>1, <3>1, <3>2, <3>3, VictimMoves
  <2>2. CASE j # keys[i]
    <3>1. disk'[j] = disk[j] BY <1>0, <1>2, <2>2, FlushedLemma
    <3>2. \A n \in Frames : keys[n] = j <=> keys'[n] = j
      BY <1>6, <2>2
    <3>3. \A n \in Frames : keys[n] = j =>
             addr'[n] = addr[n] /\ dirty'[n] = dirty[n]
      BY <1>3, <1>6, <2>2
    <3>4. Promise!Stay(j) BY <1>1, <3>1, <3>2, <3>3, OtherStays
    <3> QED BY <3>4 DEF Promise!Move
  <2> QED BY <2>1, <2>2
<1>8. /\ k \notin Unsaved /\ View[k] = disk[k]
      /\ k \notin Unsaved' /\ View'[k] = addr'[i] /\ addr'[i] \in Contents
      /\ disk'[k] = disk[k]
  <2>1. k \notin Unsaved /\ View[k] = disk[k] BY <1>1, <1>4 DEF ViewOK
  <2>2. k \notin Unsaved' /\ View'[k] = addr'[i] /\ addr'[i] \in Contents
    BY <1>0, <1>1, <1>5, <1>6 DEF ViewOK
  <2>3. disk'[k] = disk[k] BY <1>0, <1>2, <1>4, FlushedLemma
  <2> QED BY <2>1, <2>2, <2>3
<1>9. Promise!Scratch(k) BY <1>8 DEF Promise!Scratch, Promise!Kept
<1>10. ASSUME read PROVE Promise!Move(k)
  <2>1. CASE disk[k] # Absent
    <3>1. Promise!Stay(k)
      BY <1>3, <1>8, <1>10, <2>1
         DEF Promise!Stay, Promise!Same, Promise!Kept
    <3> QED BY <3>1 DEF Promise!Move
  <2>2. CASE disk[k] = Absent
    <3>1. Promise!Fill(k) BY <1>8, <2>2 DEF Promise!Fill, Promise!Kept
    <3> QED BY <3>1 DEF Promise!Move
  <2> QED BY <2>1, <2>2
<1> QED BY <1>7, <1>9, <1>10

\* The move of every page when a frame is given back.
LEMMA UnbindMoves ==
    ASSUME IInv, IInv', NEW i \in Frames, Unbind(i)
    PROVE  /\ disk' = Flushed(i) => \A j \in Keys : Promise!Move(j)
           /\ disk' = disk =>
                 /\ \A j \in Keys : j # keys[i] => Promise!Move(j)
                 /\ keys[i] \in Keys => Promise!Discard(keys[i])
<1>1. ViewOK /\ ViewOK'
  <2>1. IInv' => ViewOK' BY ViewLemma, PTL
  <2> QED BY <2>1, ViewLemma
<1>2. /\ keys'[i] = NoKey
      /\ addr' = addr
      /\ \A n \in Frames : n # i => keys'[n] = keys[n] /\ dirty'[n] = dirty[n]
  BY DEF IInv, TypeOK, Unbind
<1>3. ASSUME NEW j \in Keys, j # keys[i], disk'[j] = disk[j]
      PROVE  Promise!Move(j)
  <2>1. \A n \in Frames : keys[n] = j <=> keys'[n] = j
    BY <1>2, <1>3, KeyFacts
  <2>2. \A n \in Frames : keys[n] = j =>
           addr'[n] = addr[n] /\ dirty'[n] = dirty[n]
    BY <1>2, <1>3
  <2>3. Promise!Stay(j) BY <1>1, <1>3, <2>1, <2>2, OtherStays
  <2> QED BY <2>3 DEF Promise!Move
<1>4. ASSUME keys[i] \in Keys PROVE \A n \in Frames : keys'[n] # keys[i]
  BY <1>2, <1>4, KeyFacts DEF IInv, FramesOK, OneFramePerPage
<1>5. ASSUME disk' = Flushed(i), NEW j \in Keys PROVE Promise!Move(j)
  <2>1. CASE j = keys[i]
    BY <1>1, <1>4, <1>5, <2>1, KeyFacts, VictimMoves
  <2>2. CASE j # keys[i]
    <3>1. disk'[j] = disk[j] BY <1>5, <2>2, FlushedLemma
    <3> QED BY <1>3, <2>2, <3>1
  <2> QED BY <2>1, <2>2
<1>6. ASSUME disk' = disk, keys[i] \in Keys PROVE Promise!Discard(keys[i])
  <2>1. View'[keys[i]] = disk'[keys[i]] /\ keys[i] \notin Unsaved'
    BY <1>1, <1>4, <1>6 DEF ViewOK
  <2> QED BY <1>6, <2>1 DEF Promise!Discard, Promise!Kept
<1> QED BY <1>3, <1>5, <1>6

\* A store, or the mark that announces one.
LEMMA WriteMoves ==
    ASSUME IInv, IInv', NEW i \in Frames, keys[i] # NoKey, dirty'[i],
           UNCHANGED <<keys, disk>>,
           \A n \in Frames : n # i => addr'[n] = addr[n] /\ dirty'[n] = dirty[n]
    PROVE  /\ keys[i] \in Keys
           /\ Promise!Write(keys[i])
           /\ \A j \in Keys \ {keys[i]} : Promise!Move(j)
<1>1. ViewOK /\ ViewOK'
  <2>1. IInv' => ViewOK' BY ViewLemma, PTL
  <2> QED BY <2>1, ViewLemma
<1>2. keys[i] \in Keys /\ Promise!Write(keys[i])
  BY <1>1 DEF ViewOK, Promise!Write, Promise!Kept
<1>3. ASSUME NEW j \in Keys \ {keys[i]} PROVE Promise!Move(j)
  <2>1. Promise!Stay(j) BY <1>1, OtherStays
  <2> QED BY <2>1 DEF Promise!Move
<1> QED BY <1>2, <1>3

\* Nothing a reader sees changes.
LEMMA QuietMoves ==
    ASSUME IInv, IInv', UNCHANGED <<addr, dirty, keys, disk>>,
           NEW j \in Keys
    PROVE  Promise!Move(j)
<1>1. ViewOK /\ ViewOK'
  <2>1. IInv' => ViewOK' BY ViewLemma, PTL
  <2> QED BY <2>1, ViewLemma
<1>2. Promise!Stay(j) BY <1>1, OtherStays
<1> QED BY <1>2 DEF Promise!Move
-----------------------------------------------------------------------------
\* A new cache shows the file, and nothing is unsaved.
LEMMA InitRefines == Init => Promise!Init
<1> SUFFICES ASSUME Init PROVE Promise!Init OBVIOUS
<1>1. IInv /\ ViewOK BY InitIInv, ViewLemma
<1>2. \A k \in Keys : View[k] = disk[k] /\ k \notin Unsaved
  <2>1. \A k \in Keys, i \in Frames : keys[i] # k BY KeyFacts DEF Init
  <2> QED BY <1>1, <2>1 DEF ViewOK
<1>3. disk \in [Keys -> Contents \cup {Absent}] BY DEF Init
<1>4. View = disk BY <1>1, <1>2, <1>3 DEF ViewOK
<1>5. Unsaved = {} BY <1>2 DEF Unsaved
<1> QED BY <1>3, <1>4, <1>5 DEF Promise!Init

\* Every step of the cache is a step of the page store or none.
LEMMA StepRefines ==
    ASSUME IInv, IInv', [Next]_vars
    PROVE  [Promise!Next]_(Promise!vars)
<1> DEFINE AllMove    == \A j \in Keys : Promise!Move(j)
           OneKey(k)  == /\ Promise!OneMove(k)
                         /\ \A j \in Keys \ {k} : Promise!Move(j)
<1>a. AllMove => Promise!Next BY DEF Promise!Next
<1>b. \A k \in Keys : OneKey(k) => Promise!Next BY DEF Promise!Next
<1> HIDE DEF AllMove, OneKey
<1>1. ASSUME NEW k \in Keys, GetPage(k) PROVE AllMove
  <2>1. CASE Cached(k)
    <3>1. UNCHANGED <<addr, dirty, keys, disk>> BY <1>1, <2>1 DEF GetPage
    <3> QED BY <3>1, QuietMoves DEF AllMove
  <2>2. CASE ~Cached(k)
    <3>1. FetchPage(k, TRUE) BY <1>1, <2>2 DEF GetPage
    <3> QED BY <2>2, <3>1, FetchMoves DEF AllMove
  <2> QED BY <2>1, <2>2
<1>2. ASSUME NEW k \in Keys, NEW ifRead \in BOOLEAN, AllocPage(k, ifRead)
      PROVE  OneKey(k)
  <2>1. ~Cached(k) /\ FetchPage(k, ifRead) BY <1>2 DEF AllocPage
  <2> QED BY <2>1, FetchMoves DEF OneKey, Promise!OneMove
<1>3. ASSUME NEW i \in Frames, Access(i) PROVE AllMove
  <2>1. UNCHANGED <<addr, dirty, keys, disk>> BY <1>3 DEF Access
  <2> QED BY <2>1, QuietMoves DEF AllMove
<1>4. ASSUME NEW i \in Frames, MarkDirty(i) \/ \E v \in Contents : Store(i, v)
      PROVE  Promise!Next
  <2>1. keys[i] # NoKey /\ dirty'[i] /\ UNCHANGED <<keys, disk>>
    BY <1>4 DEF MarkDirty, Store, IInv, TypeOK
  <2>2. \A n \in Frames : n # i => addr'[n] = addr[n] /\ dirty'[n] = dirty[n]
    BY <1>4 DEF MarkDirty, Store, IInv, TypeOK
  <2>3. keys[i] \in Keys /\ OneKey(keys[i])
    BY <2>1, <2>2, WriteMoves DEF OneKey, Promise!OneMove
  <2> QED BY <2>3, <1>b
<1>5. ASSUME NEW i \in Frames, Release(i) PROVE Promise!Next
  <2>1. Unbind(i) /\ disk' = disk BY <1>5 DEF Release
  <2>2. CASE keys[i] \in Keys
    <3>1. OneKey(keys[i])
      BY <2>1, <2>2, UnbindMoves DEF OneKey, Promise!OneMove
    <3> QED BY <2>2, <3>1, <1>b
  <2>3. CASE keys[i] \notin Keys
    <3>1. AllMove BY <2>1, <2>3, UnbindMoves DEF AllMove
    <3> QED BY <3>1, <1>a
  <2> QED BY <2>2, <2>3
<1>6. ASSUME NEW i \in Frames, WriteBack(i) PROVE AllMove
  BY <1>6, UnbindMoves DEF WriteBack, AllMove
<1>7. ASSUME CloseStep PROVE AllMove
  <2>1. closing \in Frames BY DEF IInv, TypeOK
  <2> QED BY <1>7, <2>1, UnbindMoves DEF CloseStep, AllMove
<1>8. ASSUME Crash PROVE Promise!Next
  <2>1. disk' = disk BY <1>8 DEF Crash
  <2>2. ViewOK'
    <3>1. IInv' => ViewOK' BY ViewLemma, PTL
    <3> QED BY <3>1
  <2>3. \A k \in Keys, i \in Frames : keys'[i] # k
    BY <1>8, KeyFacts DEF Crash
  <2>4. \A k \in Keys : View'[k] = disk'[k] /\ k \notin Unsaved'
    BY <2>2, <2>3 DEF ViewOK
  <2>5. View' = disk'
    BY <2>2, <2>4 DEF ViewOK, IInv, TypeOK
  <2>6. Unsaved' = {} BY <2>4 DEF Unsaved
  <2> QED BY <2>1, <2>5, <2>6 DEF Promise!Next, Promise!Crash
<1>9. CASE UNCHANGED vars
  <2>1. AllMove
    <3>1. UNCHANGED <<addr, dirty, keys, disk>> BY <1>9 DEF vars
    <3> QED BY <3>1, QuietMoves DEF AllMove
  <2> QED BY <2>1, <1>a
<1> QED
  BY <1>1, <1>2, <1>3, <1>4, <1>5, <1>6, <1>7, <1>8, <1>9, <1>a, <1>b DEF Next

\* The cache, with its evictions, its write-backs and its interruptible close(),
\* implements the store of pages.
THEOREM Refinement == Spec => ImplementsPageStore
<1>1. Init => Promise!Init BY InitRefines
<1>2. IInv /\ IInv' /\ [Next]_vars => [Promise!Next]_(Promise!vars)
  BY StepRefines
<1>3. Spec => Promise!Spec
  BY <1>1, <1>2, Invariance, PTL DEF Spec, Promise!Spec
<1> QED BY <1>3 DEF ImplementsPageStore
=============================================================================

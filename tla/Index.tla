-------------------------------- MODULE Index --------------------------------
(* One B+ tree index in the pages of a database: Index and IndexPage, with    *)
(* the entry of the index in the SysIndexPage (IndexManager).                 *)
(*                                                                            *)
(* The recursions insertEntry(node) and deleteEntry(node) go down to a leaf   *)
(* without changing anything but the least key, and do their work on the way  *)
(* back: here they are functions of the path, from its leaf to the root.      *)
(*                                                                            *)
(* A key is the pair (data, rid), and compare() orders keys by data, then     *)
(* rid.  Only this order matters: keys are numbers, Width for each data.      *)
(* Slots of a node count from 1.                                              *)
EXTENDS DatabasePages, Sequences, SequencesExt

CONSTANTS Data,          \* column values, in their order
          MaxRid,        \* the RID (-1, -1), greater than any record's
          LeafCapacity,  \* capacity of a leaf page
          InnerCapacity  \* capacity of an inner page, whose slots are longer

ASSUME DataAssumption     == Data \subseteq Nat /\ IsFiniteSet(Data)
ASSUME MaxRidAssumption   == MaxRid \in Nat \ {0}
\* IndexPage.cpp:127: "MUST >= 4"
ASSUME CapacityAssumption ==
    /\ InnerCapacity \in Nat /\ InnerCapacity >= 4
    /\ LeafCapacity \in Nat /\ LeafCapacity >= InnerCapacity

Key(d, rid) == d * (MaxRid + 1) + rid
LowKey(d)   == Key(d, 0)              \* with the RID (0, 0)

\* Faulty: RIDs are compared as signed numbers.
FaultyHighKey(d) == Key(d, 0)

HighKey(d)  == Key(d, MaxRid)         \* with the RID (-1, -1)
DataOf(k)   == k \div (MaxRid + 1)
Entries     == {Key(d, rid) : d \in Data, rid \in 1 .. MaxRid - 1}
Probes      == Entries \cup {LowKey(d) : d \in Data} \cup {HighKey(d) : d \in Data}

MaxHeight == MaxPageNum - 2   \* no tree has more levels than it has pages
NoNode   == 0       \* nextPageID of the last node of a level
RootPage == 2       \* the page that createIndex gets in a new database

ASSUME RoomAssumption == RootPage \in PageIds

VARIABLES
    used,      \* pageUsedBitset of page 0
    node,      \* page -> the node on it, as last written
    root,      \* Index::rootPageID
    sysRoot    \* rootPageID of the index in the SysIndexPage

vars == <<used, node, root, sysRoot>>

EmptyLeaf == [leaf |-> TRUE, slots |-> << >>, next |-> NoNode]

Capacity(leaf) == IF leaf THEN LeafCapacity ELSE InnerCapacity
-----------------------------------------------------------------------------
(* The operations of one page.  Faulty variants, named Faulty..., stand beside *)
(* the definitions they change.                                               *)

\* IndexPage::lowerBound: the first slot with a key >= k.
LowerBound(n, k) ==
    LET s == {i \in DOMAIN n.slots : n.slots[i].key >= k}
    IN  IF s = {} THEN Len(n.slots) + 1 ELSE Min(s)

\* IndexPage::upperBound: the first slot with a key > k.
UpperBound(n, k) ==
    LET s == {i \in DOMAIN n.slots : n.slots[i].key > k}
    IN  IF s = {} THEN Len(n.slots) + 1 ELSE Min(s)

\* The son that k belongs to, the first one for a key below all others.
SonPos(n, k) == Max({1, UpperBound(n, k) - 1})
Son(n, k)    == n.slots[SonPos(n, k)].son

\* IndexPage::insert and remove.
InsertSlot(n, i, k, p) == [n EXCEPT !.slots = InsertAt(@, i, [key |-> k, son |-> p])]
RemoveSlot(n, i)       == [n EXCEPT !.slots = RemoveAt(@, i)]

\* IndexPage::splitHalfTo the node on page o.
Half(n) == Len(n.slots) \div 2
LeftHalf(n, o) == [n EXCEPT !.slots = SubSeq(@, 1, Half(n)), !.next = o]
RightHalf(n)   == [n EXCEPT !.slots = SubSeq(@, Half(n) + 1, Len(@))]

\* Faulty: the merged page keeps its link to the page it has taken in.
FaultyMerged(l, r) == [l EXCEPT !.slots = @ \o r.slots]

\* IndexPage::mergeFromRight and averageFromRight.
Merged(l, r)    == [l EXCEPT !.slots = @ \o r.slots, !.next = r.next]
AverageSize(l, r) == (Len(l.slots) + Len(r.slots)) \div 2
AveragedLeft(l, r) ==
    [l EXCEPT !.slots = SubSeq(l.slots \o r.slots, 1, AverageSize(l, r))]

\* Faulty: the last slot given to the left page stays in the right one.
FaultyAveragedRight(l, r) ==
    [r EXCEPT !.slots = SubSeq(l.slots \o r.slots, AverageSize(l, r),
                               Len(l.slots) + Len(r.slots))]

AveragedRight(l, r) ==
    [r EXCEPT !.slots = SubSeq(l.slots \o r.slots, AverageSize(l, r) + 1,
                               Len(l.slots) + Len(r.slots))]
-----------------------------------------------------------------------------
\* x, f[x], f[f[x]] and so on.
Iterates(f, x, n) ==
    LET at[d \in 1 .. n] == IF d = 1 THEN x ELSE f[at[d - 1]]
    IN  at

\* The pages of the way down from the root to the leaf of key k.
PathTo(k) ==
    LET down == [p \in PageIds |->
                    IF node[p].leaf \/ node[p].slots = << >> THEN p
                                                            ELSE Son(node[p], k)]
        at   == Iterates(down, root, MaxHeight)
        leaves == {d \in DOMAIN at : node[at[d]].leaf}
    IN  [d \in 1 .. Min(leaves \cup {MaxHeight}) |-> at[d]]

LeafOf(k) == Last(PathTo(k))

\* Index::containsEntry(data, rid)
ContainsEntry(k) ==
    LET n == node[LeafOf(k)]
        i == LowerBound(n, k)
    IN  i <= Len(n.slots) /\ n.slots[i].key = k
-----------------------------------------------------------------------------
\* A new least key of a subtree becomes the key of its slot.
Lowered(n, k) ==
    IF SonPos(n, k) = 1 /\ k < n.slots[1].key THEN [n EXCEPT !.slots[1].key = k]
                                              ELSE n

\* Node n of a page with what insertEntry(node) puts into it after its recursive
\* call: below holds the pages as the call left them, and midKey and
\* otherPageID if it split its node.
Entered(k, n, below) ==
    LET lowered == Lowered(n, k)
    IN  IF n.leaf THEN InsertSlot(n, LowerBound(n, k), k, 0)
        ELSE IF below.split
        THEN InsertSlot(lowered, LowerBound(lowered, below.mid), below.mid, below.other)
        ELSE lowered

\* insertEntry(node) on page p, which splits a node that is full.
InsertStep(k, p, below) ==
    LET m     == Entered(k, below.node[p], below)
        full  == Len(m.slots) = Capacity(m.leaf)
        fails == below.fails \/ (full /\ ~HasFreePage(below.used))
        o     == NewPage(below.used)
        split == full /\ ~fails
    IN [node  |-> IF split THEN [below.node EXCEPT ![p] = LeftHalf(m, o),
                                                   ![o] = RightHalf(m)]
                           ELSE [below.node EXCEPT ![p] = m],
        used  |-> IF split THEN below.used \cup {o} ELSE below.used,
        split |-> split,
        other |-> IF split THEN o ELSE below.other,
        mid   |-> IF split THEN RightHalf(m).slots[1].key ELSE below.mid,
        fails |-> fails]

InsertResult(k) ==
    LET path == PathTo(k)
        after[d \in 0 .. Len(path)] ==
            IF d = 0 THEN [node |-> node, used |-> used, split |-> FALSE,
                           other |-> 0, mid |-> 0, fails |-> FALSE]
            ELSE InsertStep(k, path[Len(path) + 1 - d], after[d - 1])
    IN  after[Len(path)]

\* Faulty: only the object in memory is told.
FaultyUpdateRoot(p) == root' = p /\ UNCHANGED sysRoot

\* Index::updateRoot, which also tells the SysIndexPage.
UpdateRoot(p) == root' = p /\ sysRoot' = p

\* makeRootPage: the root and the node split off it become its sons.
NewRoot(r) == [leaf  |-> FALSE, next |-> NoNode,
               slots |-> <<[key |-> r.node[root].slots[1].key, son |-> root],
                           [key |-> r.mid, son |-> r.other]>>]

\* Index::insertEntry.  It throws for an entry that is there.  When no page is
\* free it throws too, and the process ends before anything gets to the file.
InsertEntry(k) ==
    LET r == InsertResult(k)
        p == NewPage(r.used)
    IN /\ ~ContainsEntry(k)
       /\ ~r.fails
       /\ IF r.split
          THEN /\ HasFreePage(r.used)
               /\ used' = r.used \cup {p}
               /\ node' = [r.node EXCEPT ![p] = NewRoot(r)]
               /\ UpdateRoot(p)
          ELSE /\ used' = r.used
               /\ node' = r.node
               /\ UNCHANGED <<root, sysRoot>>
-----------------------------------------------------------------------------
\* Faulty: the slot of the left page is removed.
FaultyFixDelete(nodes, p, l) ==
    LET left  == nodes[p].slots[l].son
        right == nodes[p].slots[l + 1].son
    IN  [nodes EXCEPT ![left] = Merged(@, nodes[right]), ![p] = RemoveSlot(@, l)]

\* fixDelete: the sons l and l + 1 of page p are merged if one page has room
\* for both (the right page is not released), else they share their slots.
FixDelete(nodes, p, l) ==
    LET left  == nodes[p].slots[l].son
        right == nodes[p].slots[l + 1].son
        ln == nodes[left]
        rn == nodes[right]
    IN  IF Len(ln.slots) + Len(rn.slots) < Capacity(nodes[p].leaf)
        THEN [nodes EXCEPT ![left] = Merged(ln, rn),
                           ![p]    = RemoveSlot(@, l + 1)]
        ELSE [nodes EXCEPT ![left]  = AveragedLeft(ln, rn),
                           ![right] = AveragedRight(ln, rn),
                           ![p].slots[l + 1].key = AveragedRight(ln, rn).slots[1].key]

\* Faulty: a quarter of the capacity is taken for enough.
FaultyNeedMerge(n) == Len(n.slots) < Capacity(n.leaf) \div 4

NeedMerge(n) == Len(n.slots) < Capacity(n.leaf) \div 2

\* What deleteEntry(node) leaves to its caller in minKey and needMerge.  The
\* bytes of a removed key stay where they were.
Reported(acc, nodes, p, k) ==
    LET n == nodes[p]
    IN  [acc EXCEPT !.node = nodes,
                    !.min = IF n.slots = << >> THEN k ELSE n.slots[1].key,
                    !.merge = NeedMerge(n)]

\* deleteEntry(node) on page p, after its recursive call.
DeleteStep(k, p, below) ==
    LET n   == below.node[p]
        pos == SonPos(n, k)
        nodes == [below.node EXCEPT ![p].slots[pos].key = below.min]
        left == IF pos + 1 <= Len(n.slots) THEN pos ELSE pos - 1
    IN  IF n.leaf
        THEN Reported(below, [below.node EXCEPT
                                 ![p] = RemoveSlot(n, LowerBound(n, k))], p, k)
        ELSE IF ~below.merge THEN Reported(below, nodes, p, k)
        ELSE IF Len(n.slots) = 1      \* no brother: taken for the root
        THEN [below EXCEPT !.node = nodes, !.root = Son(n, k), !.used = @ \ {p}]
        ELSE Reported(below, FixDelete(nodes, p, left), p, k)

DeleteResult(k) ==
    LET path == PathTo(k)
        after[d \in 0 .. Len(path)] ==
            IF d = 0 THEN [node |-> node, used |-> used, root |-> root,
                           min |-> 0, merge |-> FALSE]
            ELSE DeleteStep(k, path[Len(path) + 1 - d], after[d - 1])
    IN  after[Len(path)]

\* Index::deleteEntry, which throws for an entry that is not there.
DeleteEntry(k) ==
    LET r == DeleteResult(k)
    IN /\ ContainsEntry(k)
       /\ node' = r.node
       /\ used' = r.used
       /\ IF r.root # root THEN UpdateRoot(r.root) ELSE UNCHANGED <<root, sysRoot>>

\* IndexManager::getIndex: the next statement makes an Index of its own.
GetIndex == root' = sysRoot /\ UNCHANGED <<used, node, sysRoot>>

Init ==
    /\ used    = InitialPages \cup {RootPage}
    /\ node    = [p \in PageIds |-> EmptyLeaf]
    /\ root    = RootPage
    /\ sysRoot = RootPage

Next ==
    \/ \E k \in Entries : InsertEntry(k)
    \/ \E k \in Entries : DeleteEntry(k)
    \/ GetIndex

Spec == Init /\ [][Next]_vars
-----------------------------------------------------------------------------
(* The tree level by level, from the root: the sets of pages that the sons of *)
(* the slots lead to.                                                         *)
SonsOf(p) == IF node[p].leaf THEN {}
             ELSE {node[p].slots[i].son : i \in DOMAIN node[p].slots}
KeysOf(p) == {node[p].slots[i].key : i \in DOMAIN node[p].slots}

Levels ==
    LET sons  == [p \in PageIds |-> SonsOf(p)]
        below == [P \in SUBSET PageIds |-> UNION {sons[p] : p \in P}]
    IN  Iterates(below, {root}, MaxHeight)

TreePages == UNION Range(Levels)
Contents  == UNION {KeysOf(p) : p \in {q \in TreePages : node[q].leaf}}

TypeOK ==
    /\ used \subseteq PageIds
    /\ root \in PageIds
    /\ sysRoot = root
    /\ DOMAIN node = PageIds
    /\ \A p \in PageIds :
          /\ node[p].leaf \in BOOLEAN
          /\ node[p].next \in PageIds
          /\ \A i \in DOMAIN node[p].slots : node[p].slots[i].key \in Entries
          /\ Len(node[p].slots) < Capacity(node[p].leaf)

\* The tree is a tree: its pages are used, none is the meta page or the
\* SysIndexPage, no two slots have the same son, and all leaves are on the last
\* level.
IsTree ==
    LET levels == Levels
        pages  == TreePages
        inner  == {p \in pages : ~node[p].leaf}
    IN  /\ pages \subseteq used \ InitialPages
        /\ \A p \in inner : \A i \in DOMAIN node[p].slots :
              /\ node[p].slots[i].son # root
              /\ \A q \in inner : \A j \in DOMAIN node[q].slots :
                    node[p].slots[i].son = node[q].slots[j].son => p = q /\ i = j
        /\ \E h \in DOMAIN levels : \A d \in DOMAIN levels : \A p \in levels[d] :
              node[p].leaf <=> d = h

\* All keys of page p are less than all keys of page q.
Precedes(p, q) == \A x \in KeysOf(p), y \in KeysOf(q) : x < y

\* The keys of every level increase from left to right, across its pages.
LevelsSorted ==
    \A level \in Range(Levels) : \A p \in level :
        /\ \A i, j \in DOMAIN node[p].slots :
              i < j => node[p].slots[i].key < node[p].slots[j].key
        /\ \A q \in level \ {p} : Precedes(p, q) \/ Precedes(q, p)

\* The key of a slot is the least key of its son, after every update of it.
SlotKeysExact ==
    \A p \in TreePages :
        ~node[p].leaf =>
            \A i \in DOMAIN node[p].slots :
                LET s == node[p].slots[i]
                IN  node[s.son].slots # << >> /\ s.key = node[s.son].slots[1].key

\* nextPageID links every page of a level with the next one to its right.
LevelsLinked ==
    \A level \in Range(Levels) : \A p \in level :
        LET o == node[p].next
        IN  IF o = NoNode THEN \A q \in level \ {p} : Precedes(q, p)
            ELSE /\ o \in level \ {p}
                 /\ Precedes(p, o)
                 /\ \A q \in level \ {p, o} : Precedes(q, p) \/ Precedes(o, q)

\* The tree is in order after every insertion and deletion: a tree whose levels
\* are sorted and linked, and whose slots name the least keys below them.
TreeWellFormed == IsTree /\ LevelsSorted /\ SlotKeysExact /\ LevelsLinked

\* No page but the root gets below half of the capacity of an inner page: the
\* branch of deleteEntry for a node without brothers is for the root only.
FillGuaranteed ==
    \A p \in TreePages \ {root} : Len(node[p].slots) >= InnerCapacity \div 2

\* The index implements a set of entries.
Promise == INSTANCE IndexSet WITH entries <- Contents

ImplementsIndexSet == Promise!Spec
=============================================================================

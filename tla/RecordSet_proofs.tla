--------------------------- MODULE RecordSet_proofs ---------------------------
(* Chains of data pages stay chains: the inductive invariant of RecordSet and *)
(* what follows from it.                                                      *)
EXTENDS RecordSet, NumberFacts, FiniteSetTheorems, FunctionTheorems,
        SequenceTheorems
-----------------------------------------------------------------------------
(* The bytes of a page (PageLayout): no two things on it share one, for every *)
(* length that the code accepts.                                              *)
\* What the code's divisions compute.
LEMMA Quotient ==
    ASSUME NEW a \in Nat, NEW b \in Nat \ {0}
    PROVE  /\ a \div b \in Nat
           /\ b * (a \div b) <= a
           /\ a < b * (a \div b) + b
  OBVIOUS

\* 8k records with the k bytes of their bits do not fill the page: k would be
\* 32i and 253 the product of i and a number that is 1 modulo 8.
LEMMA NoExactFill ==
    ASSUME NEW len \in Nat \ {0}, NEW k \in Nat
    PROVE  k * (8 * len + 1) # RoomSize
  <1> SUFFICES ASSUME k * (8 * len + 1) = RoomSize PROVE FALSE
    OBVIOUS
  <1> DEFINE j == 1012 - k * len
             i == 253 - 2 * (j * len)
             t == i * len
  <1>1. j \in Int /\ k = 8 * j
    BY DEF RoomSize, PageSize, HeaderSize
  <1>2. i \in Int /\ j = 4 * i
    <2>1. k * (8 * len + 1) = 8 * (j * (8 * len + 1))
      BY <1>1
    <2>2. j * (8 * len + 1) = 1012
      BY <1>1, <2>1 DEF RoomSize, PageSize, HeaderSize
    <2>3. j * (8 * len + 1) = 8 * (j * len) + j
      BY <1>1
    <2> HIDE DEF j
    <2> QED
      BY <1>1, <2>2, <2>3
  <1>3. t \in Int /\ i = 253 - 8 * t
    <2> HIDE DEF j
    <2>1. j * len = 4 * (i * len)
      BY <1>2
    <2> QED
      BY <1>2, <2>1
  <1> HIDE DEF j, i
  <1>4. i >= 1
    <2>1. CASE i <= 0
      <3>1. t <= 0
        BY <1>2, <2>1
      <3> QED
        BY <1>3, <2>1, <3>1
    <2> QED
      BY <1>2, <2>1
  <1>5. t >= i
    BY <1>2, <1>4
  <1>6. t \in 29 .. 31
    BY <1>3, <1>4, <1>5
  <1>7. \/ i = 21 /\ i * len = 29
        \/ i = 13 /\ i * len = 30
        \/ i = 5 /\ i * len = 31
    BY <1>3, <1>6
  <1>8. CASE i = 21 /\ i * len = 29
    BY <1>8
  <1>9. CASE i = 13 /\ i * len = 30
    BY <1>9
  <1>10. CASE i = 5 /\ i * len = 31
    BY <1>10
  <1> QED
    BY <1>7, <1>8, <1>9, <1>10

\* The records of a full page end before the byte with the bit behind the last
\* record's.
LEMMA RecordsEndFirst ==
    ASSUME NEW len \in Nat \ {0}
    PROVE  LET n == MaxRecordPerPage(len)
           IN  n \in Nat /\ RecordBegin(len, n) <= MapByte(n)
  <1> DEFINE n == MaxRecordPerPage(len)
             k == n \div 8
  <1>1. n \in Nat /\ (8 * len + 1) * n <= 8 * RoomSize
    BY Quotient, 8 * len + 1 \in Nat \ {0}, 8 * RoomSize \in Nat
       DEF MaxRecordPerPage, RoomSize, PageSize, HeaderSize
  <1>2. k \in Nat /\ 8 * k <= n /\ n < 8 * k + 8
    BY <1>1, Quotient
  <1> HIDE DEF n, k
  <1>3. (8 * len + 1) * n = 8 * (n * len) + n
    BY <1>1
  <1>4. n * len + k <= RoomSize
    BY <1>1, <1>2, <1>3 DEF RoomSize, PageSize, HeaderSize
  <1>5. n * len + k # RoomSize
    <2> SUFFICES ASSUME n * len + k = RoomSize PROVE FALSE
      OBVIOUS
    <2>1. n = 8 * k
      BY <1>1, <1>2, <1>3 DEF RoomSize, PageSize, HeaderSize
    <2>2. k * (8 * len + 1) = n * len + k
      BY <1>2, <2>1
    <2> QED
      BY <1>2, <2>2, NoExactFill
  <1>6. n * len \in Nat
    BY <1>1
  <1>7. RecordBegin(len, n) <= MapByte(n)
    BY <1>2, <1>4, <1>5, <1>6
       DEF RecordBegin, MapByte, RoomSize, PageSize, HeaderSize, k
  <1> QED
    BY <1>1, <1>7 DEF n

\* No record of a page covers a bit of the map, the one behind the last record's
\* included, which the scanner reads before it goes to the next page
\* (RecordScanner.cpp:28): a scan of a page ends at its last record.
THEOREM MapClearOfRecords ==
    \A len \in RecordLengths :
        LET n == MaxRecordPerPage(len)
        IN  /\ n \in Nat \ {0}
            /\ \A i \in 0 .. n - 1, b \in 0 .. n :
                  RecordBegin(len, i + 1) <= MapByte(b)
  <1> TAKE len \in RecordLengths
  <1> DEFINE n == MaxRecordPerPage(len)
  <1>1. len \in Nat \ {0} /\ len <= 8095
    BY DEF RecordLengths
  <1>2. n \in Nat /\ RecordBegin(len, n) <= MapByte(n)
    BY <1>1, RecordsEndFirst
  <1>3. n # 0
    <2>1. ASSUME NEW b \in Nat \ {0}, b <= 64768
          PROVE  64768 \div b # 0
      BY <2>1
    <2> QED
      BY <1>1, <2>1, 8 * len + 1 \in Nat \ {0}, 8 * len + 1 <= 64768
         DEF MaxRecordPerPage, RoomSize, PageSize, HeaderSize
  <1> HIDE DEF n
  <1>4. ASSUME NEW i \in 0 .. n - 1, NEW b \in 0 .. n
        PROVE  RecordBegin(len, i + 1) <= MapByte(b)
    <2>1. (i + 1) * len <= n * len
      <3>1. n * len = (i + 1) * len + (n - (i + 1)) * len
        BY <1>1, <1>2
      <3>2. (n - (i + 1)) * len >= 0
        BY <1>1, <1>2
      <3> QED
        BY <1>1, <1>2, <3>1, <3>2
    <2>2. b \div 8 <= n \div 8
      BY <1>2
    <2> QED
      BY <1>1, <1>2, <2>1, <2>2 DEF RecordBegin, MapByte, PageSize, HeaderSize
  <1> QED
    BY <1>2, <1>3, <1>4 DEF n

\* The slots of an index page stay on it, and no two of them share a byte.
THEOREM SlotsOnPage ==
    \A len \in KeyLengths : \A s \in {LeafSlot(len), InnerSlot(len)} :
        \A i \in 0 .. SlotCapacity(s) - 1 : SlotBegin(s, i + 1) <= PageSize
  <1> SUFFICES ASSUME NEW len \in KeyLengths,
                      NEW s \in {LeafSlot(len), InnerSlot(len)},
                      NEW i \in 0 .. SlotCapacity(s) - 1
               PROVE  SlotBegin(s, i + 1) <= PageSize
    OBVIOUS
  <1> DEFINE c == SlotCapacity(s)
  <1>1. s \in Nat \ {0}
    <2>1. len \in Nat
      BY DEF KeyLengths
    <2>2. LeafSlot(len) \in Nat \ {0} /\ InnerSlot(len) \in Nat \ {0}
      BY <2>1 DEF LeafSlot, InnerSlot, RIDSize, PointerSize
    <2>3. s = LeafSlot(len) \/ s = InnerSlot(len)
      OBVIOUS
    <2> QED
      BY <2>2, <2>3
  <1>2. c \in Nat /\ s * c <= RoomSize
    BY <1>1, Quotient, RoomSize \in Nat
       DEF SlotCapacity, RoomSize, PageSize, HeaderSize
  <1>3. i \in 0 .. c - 1
    OBVIOUS
  <1> HIDE DEF c
  <1>4. c * s = (i + 1) * s + (c - (i + 1)) * s
    BY <1>1, <1>2, <1>3
  <1>5. (c - (i + 1)) * s >= 0
    BY <1>1, <1>2, <1>3
  <1> QED
    BY <1>1, <1>2, <1>3, <1>4, <1>5
       DEF SlotBegin, RoomSize, PageSize, HeaderSize

\* An inner page of an index has the room for four slots that the algorithm
\* needs if and only if its keys have no more than 2018 bytes; createIndex
\* accepts longer ones.
THEOREM FourSlots ==
    \A len \in KeyLengths :
        SlotCapacity(InnerSlot(len)) >= MinSlots <=> len <= 2018
  <1> TAKE len \in KeyLengths
  <1> DEFINE s == len + 6
             q == 8096 \div s
  <1>1. len \in Nat /\ s \in Nat \ {0}
    BY DEF KeyLengths
  <1>2. SlotCapacity(InnerSlot(len)) = q
    BY <1>1 DEF SlotCapacity, InnerSlot, RoomSize, PageSize, HeaderSize,
                RIDSize, PointerSize
  <1> HIDE DEF s
  <1>3. q \in Nat /\ s * q <= 8096 /\ 8096 < s * q + s
    BY <1>1, Quotient, 8096 \in Nat
  <1> HIDE DEF q
  <1>4. q >= 4 <=> s <= 2024
    <2>1. CASE q >= 4
      BY <1>1, <1>3, <2>1, s * q = s * 4 + s * (q - 4), s * (q - 4) >= 0
    <2>2. CASE q <= 3
      BY <1>1, <1>3, <2>2, s * 3 = s * q + s * (3 - q), s * (3 - q) >= 0
    <2> QED
      BY <1>3, <2>1, <2>2
  <1> QED
    BY <1>1, <1>2, <1>4 DEF MinSlots, s
-----------------------------------------------------------------------------
(* The records of a page, and the chains.                                     *)
Words0 == {NoPage} \cup PageIds

\* A page that the code has put records on counts them.
Occupied(pg) == {s \in Slots : pg.slot[s] # Free}
Counted(pg)  == pg.count = Cardinality(Occupied(pg))

Shapes ==
    /\ used \in SUBSET PageIds
    /\ dir \in Seq([name : Names, metaPageID : PageIds])
    /\ page \in [PageIds -> Words]
    /\ sets \in Seq([name : Names, tablePageID : PageIds,
                     id : 0 .. MaxTableCount - 1, firstDataPageID : Words0])
    /\ damaged \in BOOLEAN
    /\ Len(sets) <= MaxTableCount
    /\ \A p \in PageIds : Counted(page[p])

\* What the words of the table page and of the pages before name.
Head0(c)    == IF Len(c) = 0 THEN NoPage ELSE c[1]
After(c, k) == IF k < Len(c) THEN c[k + 1] ELSE NoPage

Distinct(c) == \A j, k \in 1 .. Len(c) : c[j] = c[k] => j = k

\* c is the chain of the set at position i.
IsChain(i, c) ==
    /\ c \in Seq(PageIds \ InitialPages)
    /\ Distinct(c)
    /\ sets[i].firstDataPageID = Head0(c)
    /\ page[sets[i].tablePageID].first = Head0(c)
    /\ \A k \in 1 .. Len(c) :
          /\ page[c[k]].next = After(c, k)
          /\ page[c[k]].owner = sets[i].tablePageID
          /\ page[c[k]].count > 0
    /\ \A k \in 2 .. Len(c) : page[c[k]].prev = c[k - 1]

\* ch gives every set its chain, and every page is in one place.
Chains(ch) ==
    /\ DOMAIN ch = Indices
    /\ \A i \in Indices : IsChain(i, ch[i])
    /\ \A i, j \in Indices : i # j => \A k \in 1 .. Len(ch[i]), l \in 1 .. Len(ch[j]) :
                                       ch[i][k] # ch[j][l]
    /\ \A i, j \in Indices : \A k \in 1 .. Len(ch[i]) : ch[i][k] # sets[j].tablePageID
    /\ \A p \in PageIds :
          p \in used <=> \/ p \in InitialPages
                         \/ \E i \in Indices : p = sets[i].tablePageID
                         \/ \E i \in Indices : \E k \in 1 .. Len(ch[i]) : p = ch[i][k]

\* The table pages are pages of their own and hold no records; nothing is linked
\* to them.
TablesApart ==
    /\ \A i, j \in Indices : sets[i].tablePageID = sets[j].tablePageID => i = j
    /\ \A i \in Indices : sets[i].tablePageID \notin InitialPages
    /\ \A p \in InitialPages : page[p].owner = 0 /\ page[p].next = 0
    /\ \A i \in Indices : LET p == sets[i].tablePageID
                         IN  page[p].owner = 0 /\ page[p].next = 0

\* Page 0 lists the sets, whose names differ.
Directory ==
    /\ Len(dir) = Len(sets)
    /\ \A i \in Indices : /\ dir[i].name = sets[i].name
                          /\ dir[i].metaPageID = sets[i].tablePageID
    /\ \A i, j \in Indices : sets[i].name = sets[j].name => i = j

IInv == /\ Shapes
        /\ Directory
        /\ ~damaged => TablesApart /\ \E ch : Chains(ch)
-----------------------------------------------------------------------------
(* Walks.                                                                     *)

\* The recursion of a walk defines a function.
LEMMA WalkDefined ==
    ASSUME NEW S, NEW succ \in [S -> S], NEW first \in S
    PROVE  /\ Walk(succ, first) \in [1 .. MaxPageNum -> S]
           /\ Walk(succ, first)[1] = first
           /\ \A k \in 2 .. MaxPageNum :
                 Walk(succ, first)[k] = succ[Walk(succ, first)[k - 1]]
  <1> DEFINE Rec(g, m) == g = [k \in 1 .. m |-> IF k = 1 THEN first ELSE succ[g[k - 1]]]
  <1> DEFINE Good == {m \in Nat \ {0} : \E g \in [1 .. m -> S] : Rec(g, m)}
  <1>1. 1 .. MaxPageNum \subseteq Good
    <2>1. 1 \in Good
      <3> DEFINE g == [k \in 1 .. 1 |-> first]
      <3>1. Rec(g, 1) /\ g \in [1 .. 1 -> S]
        OBVIOUS
      <3> HIDE DEF g, Rec
      <3> QED
        BY <3>1
    <2>2. ASSUME NEW m \in Nat \ {0}, m \in Good
          PROVE  m + 1 \in Good
      <3>1. PICK g \in [1 .. m -> S] : Rec(g, m)
        BY <2>2
      <3> DEFINE h == [k \in 1 .. m + 1 |-> IF k = m + 1 THEN succ[g[m]] ELSE g[k]]
      <3>2. h \in [1 .. m + 1 -> S]
        BY <3>1
      <3>3. \A k \in 1 .. m + 1 : h[k] = IF k = 1 THEN first ELSE succ[h[k - 1]]
        <4>1. \A j \in 1 .. m : g[j] = IF j = 1 THEN first ELSE succ[g[j - 1]]
          BY <3>1
        <4> QED
          BY <4>1
      <3>4. Rec(h, m + 1)
        BY <3>2, <3>3
      <3> HIDE DEF h, Rec
      <3> QED
        BY <3>2, <3>4
    <2> HIDE DEF Good
    <2> QED
      BY <2>1, <2>2, InductionTo, MaxPageNumAssumption
  <1> DEFINE f == CHOOSE g : Rec(g, MaxPageNum)
  <1>2. PICK g \in [1 .. MaxPageNum -> S] : Rec(g, MaxPageNum)
    BY <1>1, MaxPageNumAssumption
  <1>3. Rec(f, MaxPageNum)
    BY <1>2
  <1>4. Walk(succ, first) = [k \in 1 .. MaxPageNum |-> f[k]]
    BY DEF Walk
  <1> DEFINE w == Walk(succ, first)
  <1>5. \A k \in 1 .. MaxPageNum : w[k] = IF k = 1 THEN first ELSE succ[w[k - 1]]
    <2> HIDE DEF f
    <2>1. \A k \in 1 .. MaxPageNum :
             f[k] = IF k = 1 THEN first ELSE succ[f[k - 1]]
      BY <1>3
    <2> QED
      BY <1>4, <2>1, MaxPageNumAssumption
  <1> DEFINE G == {k \in Nat : w[k] \in S}
  <1>6. 1 .. MaxPageNum \subseteq G
    <2> HIDE DEF w, f
    <2>1. 1 \in G
      BY <1>5, MaxPageNumAssumption
    <2>2. ASSUME NEW k \in 1 .. MaxPageNum - 1, k \in G PROVE k + 1 \in G
      BY <1>5, <2>2, MaxPageNumAssumption
    <2> HIDE DEF G
    <2> QED
      BY <2>1, <2>2, InductionTo, MaxPageNumAssumption
  <1>7. w = [k \in 1 .. MaxPageNum |-> w[k]]
    <2> HIDE DEF f
    <2> QED
      BY <1>4
  <1> HIDE DEF w
  <1>8. w \in [1 .. MaxPageNum -> S]
    BY <1>6, <1>7
  <1>9. w[1] = first /\ \A k \in 2 .. MaxPageNum : w[k] = succ[w[k - 1]]
    BY <1>5, MaxPageNumAssumption
  <1> QED
    BY <1>8, <1>9 DEF w

\* Distinct pages other than page 0 are fewer than the pages of the file.
LEMMA ChainFits ==
    ASSUME NEW c \in Seq(PageIds \ InitialPages), Distinct(c)
    PROVE  Len(c) \in Nat /\ Len(c) < MaxPageNum
  <1>0. Len(c) \in Nat
    BY LenProperties
  <1>1. Len(c) \in Nat /\ c \in [1 .. Len(c) -> PageIds \ InitialPages]
    BY LenProperties
  <1>2. c \in [1 .. Len(c) -> 1 .. MaxPageNum - 1]
    BY <1>1, MaxPageNumAssumption DEF PageIds, InitialPages
  <1>3. c \in Injection(1 .. Len(c), 1 .. MaxPageNum - 1)
    BY <1>2, Fun_IsInj DEF Distinct
  <1>4. /\ IsFiniteSet(1 .. MaxPageNum - 1)
        /\ Cardinality(1 .. MaxPageNum - 1) = MaxPageNum - 1
    BY FS_Interval, MaxPageNumAssumption
  <1>5. Cardinality(1 .. Len(c)) <= Cardinality(1 .. MaxPageNum - 1)
    BY <1>3, <1>4, FS_Injection
  <1>6. Cardinality(1 .. Len(c)) = Len(c)
    <2>1. Cardinality(1 .. Len(c)) = IF 1 > Len(c) THEN 0 ELSE Len(c) - 1 + 1
      BY <1>0, FS_Interval
    <2> QED
      BY <1>0, <2>1
  <1> QED
    BY <1>1, <1>4, <1>5, <1>6, MaxPageNumAssumption

\* A walk from the first page of a chain meets its pages in order, then NoPage.
LEMMA WalkOfChain ==
    ASSUME NEW c \in Seq(PageIds \ InitialPages), Distinct(c),
           NEW succ \in [Words0 -> Words0], succ[NoPage] = NoPage,
           \A k \in 1 .. Len(c) : succ[c[k]] = After(c, k)
    PROVE  \A k \in 1 .. MaxPageNum :
              Walk(succ, Head0(c))[k] = IF k <= Len(c) THEN c[k] ELSE NoPage
  <1> DEFINE w == Walk(succ, Head0(c))
             G == {k \in Nat : w[k] = IF k <= Len(c) THEN c[k] ELSE NoPage}
  <1>1. /\ Len(c) \in Nat
        /\ \A k \in 1 .. Len(c) : c[k] \in Words0
    BY ChainFits DEF Words0
  <1>2. Head0(c) \in Words0
    BY <1>1 DEF Head0, Words0
  <1>3. w[1] = Head0(c) /\ \A k \in 2 .. MaxPageNum : w[k] = succ[w[k - 1]]
    BY <1>2, WalkDefined
  <1> HIDE DEF w
  <1>4. 1 \in G
    BY <1>1, <1>3 DEF Head0
  <1>5. ASSUME NEW k \in 1 .. MaxPageNum - 1, k \in G PROVE k + 1 \in G
    <2>1. w[k + 1] = succ[w[k]] /\ k + 1 \in Nat
      BY <1>3, MaxPageNumAssumption
    <2>2. CASE k <= Len(c)
      BY <1>1, <1>5, <2>1, <2>2 DEF After
    <2>3. CASE k > Len(c)
      BY <1>1, <1>5, <2>1, <2>3
    <2> QED
      BY <1>1, <2>2, <2>3
  <1> HIDE DEF G
  <1>6. 1 .. MaxPageNum \subseteq G
    BY <1>4, <1>5, InductionTo, MaxPageNumAssumption
  <1> QED
    BY <1>6 DEF G, w
-----------------------------------------------------------------------------
(* The sets and their walks.                                                  *)
LEMMA SetFacts ==
    ASSUME Shapes, NEW n, Exists(n)
    PROVE  /\ n \in Names
           /\ IndexOf(n) \in Indices
           /\ Set(n) = sets[IndexOf(n)]
           /\ Set(n).name = n
           /\ Set(n).tablePageID \in PageIds
           /\ Set(n).firstDataPageID \in Words0
           /\ Directory =>
                 \A i \in Indices : sets[i].name = n => i = IndexOf(n)
  <1>1. IndexOf(n) \in Indices /\ sets[IndexOf(n)].name = n
    BY DEF Exists, IndexOf
  <1>2. \A i \in Indices :
           sets[i] \in [name : Names, tablePageID : PageIds,
                        id : 0 .. MaxTableCount - 1, firstDataPageID : Words0]
    BY ElementOfSeq DEF Shapes, Indices
  <1> QED
    BY <1>1, <1>2 DEF Set, Directory

LEMMA SuccType ==
    ASSUME Shapes
    PROVE  Succ \in [Words0 -> Words0] /\ Succ[NoPage] = NoPage
  <1>1. NoPage \notin PageIds
    BY MaxPageNumAssumption DEF NoPage, PageIds
  <1> QED
    BY <1>1 DEF Shapes, Succ, Words, Words0

\* Also a walk that meets a page that is not used is a walk along numbers.
LEMMA PathType ==
    ASSUME Shapes, NEW n, Exists(n)
    PROVE  /\ Path(n) \in [1 .. MaxPageNum -> Words0]
           /\ Path(n) \in Seq(Words0)
           /\ Len(Path(n)) = MaxPageNum
  <1>1. Path(n) \in [1 .. MaxPageNum -> Words0]
    BY SetFacts, SuccType, WalkDefined DEF Path
  <1>2. Path(n) \in Seq(Words0)
    BY <1>1, SeqDef, MaxPageNumAssumption
  <1>3. DOMAIN Path(n) = 1 .. MaxPageNum /\ DOMAIN Path(n) = 1 .. Len(Path(n))
    BY <1>1, <1>2, LenProperties
  <1>4. Len(Path(n)) \in Nat
    BY <1>2, LenProperties
  <1> QED
    BY <1>1, <1>2, <1>3, <1>4, MaxPageNumAssumption

LEMMA PathOfChain ==
    ASSUME Shapes, NEW ch, Chains(ch), NEW n, Exists(n),
           NEW c, c = ch[IndexOf(n)]
    PROVE  /\ \A k \in 1 .. MaxPageNum :
                 Path(n)[k] = IF k <= Len(c) THEN c[k] ELSE NoPage
           /\ Len(c) \in Nat /\ Len(c) < MaxPageNum
           /\ \A p : p \in DataPages(n) <=> \E k \in 1 .. Len(c) : c[k] = p
           /\ WalkEnds(n)
  <1> DEFINE i == IndexOf(n)
  <1>1. i \in Indices /\ IsChain(i, c)
    BY SetFacts DEF Chains
  <1>2. c \in Seq(PageIds \ InitialPages) /\ Distinct(c) /\ Len(c) \in Nat
    BY <1>1, ChainFits DEF IsChain
  <1>3. \A k \in 1 .. Len(c) : c[k] \in used /\ c[k] \in PageIds
    BY <1>1, <1>2 DEF Chains
  <1>4. \A k \in 1 .. Len(c) : Succ[c[k]] = After(c, k)
    BY <1>1, <1>3 DEF Succ, IsChain
  <1>5. Path(n) = Walk(Succ, Head0(c))
    BY <1>1, SetFacts DEF Path, IsChain
  <1>6. \A k \in 1 .. MaxPageNum : Path(n)[k] = IF k <= Len(c) THEN c[k] ELSE NoPage
    BY <1>2, <1>4, <1>5, SuccType, WalkOfChain
  <1>7. Len(c) < MaxPageNum
    BY <1>2, ChainFits
  <1>8. /\ Path(n) \in [1 .. MaxPageNum -> Words0]
        /\ Len(Path(n)) = MaxPageNum
    BY PathType
  <1>9. NoPage \notin PageIds
    BY MaxPageNumAssumption DEF NoPage, PageIds
  <1>10. \A p : p \in Range(Path(n)) <=> \E k \in 1 .. MaxPageNum : Path(n)[k] = p
    BY <1>8 DEF Range
  <1>11. \A p : p \in DataPages(n) <=> \E k \in 1 .. Len(c) : c[k] = p
    <2>1. NoPage \notin used
      BY <1>9 DEF Shapes
    <2>2. ASSUME NEW k \in 1 .. Len(c) PROVE c[k] \in DataPages(n)
      <3>1. k \in 1 .. MaxPageNum
        BY <1>2, <1>7, MaxPageNumAssumption
      <3> QED
        BY <1>3, <1>6, <1>10, <3>1 DEF DataPages
    <2>3. ASSUME NEW p \in DataPages(n) PROVE \E k \in 1 .. Len(c) : c[k] = p
      <3>1. PICK k \in 1 .. MaxPageNum : Path(n)[k] = p
        BY <1>10 DEF DataPages
      <3>2. p # NoPage
        BY <2>1 DEF DataPages
      <3> QED
        BY <1>2, <1>6, <3>1, <3>2
    <2> QED
      BY <2>2, <2>3
  <1>12. Set(n).tablePageID \notin Range(Path(n))
    BY <1>1, <1>6, <1>9, <1>10, SetFacts DEF Chains
  <1>13. Path(n)[MaxPageNum] = NoPage
    BY <1>2, <1>6, <1>7, MaxPageNumAssumption
  <1>14. WalkEnds(n)
    BY <1>8, <1>12, <1>13 DEF WalkEnds
  <1> QED
    BY <1>2, <1>6, <1>7, <1>11, <1>14
-----------------------------------------------------------------------------
(* The records of a page.                                                     *)
LEMMA SlotsFacts ==
    /\ MaxRecord \in Nat \ {0}
    /\ IsFiniteSet(Slots)
    /\ Cardinality(Slots) = MaxRecord
    /\ Slots \subseteq Nat
  <1>1. RecordLength \in Nat /\ RecordLength >= 1 /\ RecordLength <= 8095
    BY LengthAssumption DEF RecordLengths
  <1> DEFINE d == 8 * RecordLength + 1
  <1>2. d \in Nat \ {0} /\ d <= 64761
    BY <1>1
  <1>3. 8 * RoomSize = 64768
    BY DEF RoomSize, PageSize, HeaderSize
  <1>4. MaxRecord = 64768 \div d
    BY <1>3 DEF MaxRecord, MaxRecordPerPage
  <1> HIDE DEF d
  <1>5. 64768 \div d \in Nat /\ 64768 < d * (64768 \div d) + d
    BY <1>2, Quotient
  <1>6. 64768 \div d # 0
    BY <1>2, <1>5
  <1>7. MaxRecord \in Nat \ {0}
    BY <1>4, <1>5, <1>6
  <1>8. /\ IsFiniteSet(0 .. MaxRecord - 1)
        /\ Cardinality(0 .. MaxRecord - 1) =
              IF 0 > MaxRecord - 1 THEN 0 ELSE MaxRecord - 1 - 0 + 1
    <2>1. 0 \in Int /\ MaxRecord - 1 \in Int
      BY <1>7
    <2> HIDE DEF MaxRecord
    <2> QED
      BY <2>1, FS_Interval
  <1> QED
    BY <1>7, <1>8 DEF Slots

LEMMA OccupiedFinite ==
    ASSUME NEW pg
    PROVE  /\ IsFiniteSet(Occupied(pg))
           /\ Cardinality(Occupied(pg)) \in Nat
           /\ Cardinality(Occupied(pg)) <= MaxRecord
           /\ Cardinality(Occupied(pg)) = MaxRecord => Occupied(pg) = Slots
  <1>1. Occupied(pg) \in SUBSET Slots
    BY DEF Occupied
  <1> QED
    BY <1>1, SlotsFacts, FS_Subset, FS_CardinalityType

\* The slots of a page that has room, and what a record in the first of them
\* makes of the page.
LEMMA RecordAdded ==
    ASSUME NEW pg \in Words, Counted(pg), pg.count < MaxRecord,
           NEW v \in Values,
           NEW new, new = WithRecord(pg, v), NEW s, s = FreeSlot(pg)
    PROVE  /\ s \in Slots /\ pg.slot[s] = Free
           /\ new \in Words /\ Counted(new) /\ new.count = pg.count + 1
           /\ new.prev = pg.prev /\ new.next = pg.next
           /\ new.owner = pg.owner /\ new.first = pg.first
           /\ new.slot = [pg.slot EXCEPT ![s] = v]
  <1> DEFINE T == {t \in Slots : pg.slot[t] = Free}
  <1>1. T \in SUBSET Nat /\ T # {}
    <2>1. Occupied(pg) # Slots
      BY OccupiedFinite, SlotsFacts DEF Counted
    <2> QED
      BY <2>1, SlotsFacts DEF Occupied
  <1>2. s \in Slots /\ pg.slot[s] = Free
    <2>1. \E t \in T : \A u \in T : t <= u
      <3> HIDE DEF T
      <3> QED
        BY <1>1, LeastNumber
    <2> QED
      BY <2>1 DEF FreeSlot
  <1>3. pg.count \in Nat /\ pg.slot \in [Slots -> Values \cup {Free}]
    BY SlotsFacts DEF Words
  <1>4. new = [pg EXCEPT !.slot[s] = v, !.count = @ + 1]
    BY DEF WithRecord
  <1>5. /\ new.count = pg.count + 1
        /\ new.slot = [pg.slot EXCEPT ![s] = v]
        /\ new.prev = pg.prev /\ new.next = pg.next
        /\ new.owner = pg.owner /\ new.first = pg.first
    BY <1>4 DEF Words
  <1>6. new \in Words
    <2>1. pg.count + 1 \in 0 .. MaxRecord
      BY <1>3, SlotsFacts
    <2>2. [pg.slot EXCEPT ![s] = v] \in [Slots -> Values \cup {Free}]
      BY <1>2, <1>3
    <2> QED
      BY <1>4, <2>1, <2>2 DEF Words
  <1>7. Counted(new)
    <2>1. Occupied(new) = Occupied(pg) \cup {s}
      BY <1>2, <1>3, <1>5, FreeAssumption DEF Occupied
    <2>2. s \notin Occupied(pg)
      BY <1>2 DEF Occupied
    <2>3. Cardinality(Occupied(pg) \cup {s}) = Cardinality(Occupied(pg)) + 1
      BY <2>2, OccupiedFinite, FS_AddElement
    <2> QED
      BY <1>5, <2>1, <2>3 DEF Counted
  <1> QED
    BY <1>2, <1>5, <1>6, <1>7

WithoutRecord(pg, s) == [pg EXCEPT !.slot[s] = Free, !.count = @ - 1]

LEMMA RecordTaken ==
    ASSUME NEW pg \in Words, Counted(pg), NEW s \in Slots, pg.slot[s] # Free,
           NEW new, new = WithoutRecord(pg, s)
    PROVE  /\ new \in Words /\ Counted(new) /\ new.count = pg.count - 1
           /\ new.prev = pg.prev /\ new.next = pg.next
           /\ new.owner = pg.owner /\ new.first = pg.first
           /\ new.slot = [pg.slot EXCEPT ![s] = Free]
  <1>1. pg.count \in Nat /\ pg.slot \in [Slots -> Values \cup {Free}]
    BY SlotsFacts DEF Words
  <1>2. /\ new.count = pg.count - 1
        /\ new.slot = [pg.slot EXCEPT ![s] = Free]
        /\ new.prev = pg.prev /\ new.next = pg.next
        /\ new.owner = pg.owner /\ new.first = pg.first
    BY DEF Words, WithoutRecord
  <1>3. Occupied(new) = Occupied(pg) \ {s} /\ s \in Occupied(pg)
    BY <1>1, <1>2 DEF Occupied
  <1>4. Cardinality(Occupied(pg) \ {s}) = Cardinality(Occupied(pg)) - 1
    BY <1>3, OccupiedFinite, FS_RemoveElement
  <1>5. Counted(new)
    BY <1>2, <1>3, <1>4 DEF Counted
  <1>6. new.count \in 0 .. MaxRecord
    BY <1>5, OccupiedFinite, SlotsFacts DEF Counted
  <1>7. new \in Words
    BY <1>1, <1>2, <1>6 DEF Words, WithoutRecord
  <1> QED
    BY <1>2, <1>5, <1>7

WithValue(pg, s, v) == [pg EXCEPT !.slot[s] = v]

LEMMA RecordChanged ==
    ASSUME NEW pg \in Words, Counted(pg), NEW s \in Slots, pg.slot[s] # Free,
           NEW v \in Values, NEW new, new = WithValue(pg, s, v)
    PROVE  /\ new \in Words /\ Counted(new) /\ new.count = pg.count
           /\ new.prev = pg.prev /\ new.next = pg.next
           /\ new.owner = pg.owner /\ new.first = pg.first
           /\ new.slot = [pg.slot EXCEPT ![s] = v]
  <1>1. pg.slot \in [Slots -> Values \cup {Free}]
    BY DEF Words
  <1>2. /\ new.count = pg.count
        /\ new.slot = [pg.slot EXCEPT ![s] = v]
        /\ new.prev = pg.prev /\ new.next = pg.next
        /\ new.owner = pg.owner /\ new.first = pg.first
        /\ new \in Words
    BY DEF Words, WithValue
  <1>3. Occupied(new) = Occupied(pg)
    BY <1>1, <1>2, FreeAssumption DEF Occupied
  <1> QED
    BY <1>2, <1>3 DEF Counted

LEMMA ZeroFacts ==
    /\ Zero \in Words /\ Counted(Zero) /\ Zero.count = 0
    /\ Zero.owner = 0 /\ Zero.next = 0
    /\ \A s \in Slots : Zero.slot[s] = Free
  <1>1. 0 \in PageIds
    BY MaxPageNumAssumption DEF PageIds
  <1>2. Zero \in Words
    BY <1>1, SlotsFacts DEF Zero, Words
  <1>3. Occupied(Zero) = {}
    BY DEF Zero, Occupied
  <1>4. Counted(Zero)
    BY <1>3, FS_EmptySet DEF Counted, Zero
  <1> QED
    BY <1>2, <1>4 DEF Zero

\* A page without records and with other links.
LEMMA EmptyPage ==
    ASSUME NEW pg \in Words, pg.slot = Zero.slot, pg.count = 0
    PROVE  Counted(pg)
  <1>1. Occupied(pg) = {}
    BY DEF Zero, Occupied
  <1> QED
    BY <1>1, FS_EmptySet DEF Counted

LEMMA CountedSame ==
    ASSUME NEW pg, NEW new, Counted(pg), new.count = pg.count, new.slot = pg.slot
    PROVE  Counted(new)
  BY DEF Counted, Occupied

LEMMA NewPageFacts ==
    ASSUME NEW U \in SUBSET PageIds, HasFreePage(U)
    PROVE  NewPage(U) \in PageIds /\ NewPage(U) \notin U
  <1> DEFINE T == PageIds \ U
  <1>1. T \in SUBSET Nat /\ T # {}
    BY MaxPageNumAssumption DEF PageIds, HasFreePage
  <1> HIDE DEF T
  <1>2. \E p \in T : \A q \in T : p <= q
    BY <1>1, LeastNumber
  <1> QED
    BY <1>2 DEF T, NewPage

LEMMA WithoutEntryFacts ==
    ASSUME NEW S, NEW s \in Seq(S), NEW i \in 1 .. Len(s)
    PROVE  /\ WithoutEntry(s, i) \in Seq(S)
           /\ Len(WithoutEntry(s, i)) = Len(s) - 1
           /\ \A j \in 1 .. Len(s) - 1 :
                 WithoutEntry(s, i)[j] = IF j = i THEN s[Len(s)] ELSE s[j]
  <1> DEFINE w == WithoutEntry(s, i)
  <1>1. Len(s) \in Nat \ {0} /\ \A j \in 1 .. Len(s) : s[j] \in S
    BY LenProperties, ElementOfSeq
  <1>2. w \in [1 .. Len(s) - 1 -> S] /\ Len(s) - 1 \in Nat
    BY <1>1 DEF WithoutEntry
  <1>3. w \in Seq(S)
    BY <1>2, SeqDef
  <1>4. DOMAIN w = 1 .. Len(w) /\ Len(w) \in Nat
    BY <1>3, LenProperties
  <1>5. Len(w) = Len(s) - 1
    BY <1>2, <1>4
  <1> QED
    BY <1>3, <1>5 DEF WithoutEntry
-----------------------------------------------------------------------------
(* What the actions do, page by page.                                         *)

\* The page an insertion comes to, and the page before it.
LEMMA InsertFacts ==
    ASSUME Shapes, NEW n, Exists(n), CanInsert(n), NEW v, Insert(n, v)
    PROVE  \E k \in 1 .. MaxPageNum :
              /\ \A j \in 1 .. k - 1 : ~IsStop(Path(n)[j])
              /\ \/ Path(n)[k] # NoPage /\ HasRoom(Path(n)[k])
                    /\ InsertInto(n, Path(n)[k], v)
                 \/ Path(n)[k] = NoPage
                    /\ AppendPage(n, IF k = 1 THEN NoPage ELSE Path(n)[k - 1], v)
  <1> DEFINE s == Path(n)
             T == {i \in 1 .. Len(s) : IsStop(s[i])}
             k == CHOOSE i \in 1 .. Len(s) :
                     IsStop(s[i]) /\ \A j \in 1 .. i - 1 : ~IsStop(s[j])
  <1>1. Len(s) = MaxPageNum
    BY PathType
  <1>2. T \in SUBSET Nat /\ T # {}
    BY <1>1, MaxPageNumAssumption DEF CanInsert
  <1>3. PICK i \in T : \A j \in T : i <= j
    <2> HIDE DEF T
    <2> QED
      BY <1>2, LeastNumber
  <1>4. i \in 1 .. Len(s) /\ IsStop(s[i]) /\ \A j \in 1 .. i - 1 : ~IsStop(s[j])
    <2>1. ASSUME NEW j \in 1 .. i - 1 PROVE ~IsStop(s[j])
      <3>1. j \in 1 .. Len(s) /\ j \notin T
        BY <1>1, <1>3, MaxPageNumAssumption
      <3> QED
        BY <3>1
    <2> QED
      BY <1>3, <2>1
  <1>5. k \in 1 .. Len(s) /\ IsStop(s[k]) /\ \A j \in 1 .. k - 1 : ~IsStop(s[j])
    BY <1>4
  <1>6. IF s[k] # NoPage THEN InsertInto(n, s[k], v)
        ELSE AppendPage(n, IF k = 1 THEN NoPage ELSE s[k - 1], v)
    BY DEF Insert
  <1> HIDE DEF k
  <1> QED
    BY <1>1, <1>5, <1>6 DEF IsStop

LEMMA ScannedFacts ==
    ASSUME Shapes, NEW n, NEW r \in Scanned(n)
    PROVE  /\ WalkEnds(n)
           /\ r[1] \in DataPages(n) /\ r[1] \in used /\ r[1] \in PageIds
           /\ r[2] \in Slots
           /\ r = <<r[1], r[2]>>
           /\ page[r[1]].slot[r[2]] # Free
           /\ page[r[1]] \in Words /\ Counted(page[r[1]])
  <1>1. WalkEnds(n) /\ r \in DOMAIN Records(n)
    BY DEF Scanned
  <1>2. r \in DataPages(n) \X Slots /\ page[r[1]].slot[r[2]] # Free
    BY <1>1 DEF Records
  <1>3. r[1] \in used /\ r[1] \in PageIds
    BY <1>2 DEF DataPages, Shapes
  <1> QED
    BY <1>1, <1>2, <1>3 DEF Shapes

\* Where a record goes into a page that is there.
LEMMA InsertIntoFacts ==
    ASSUME Shapes, NEW n, NEW p \in Words0, HasRoom(p), NEW v \in Values,
           InsertInto(n, p, v),
           NEW s, s = FreeSlot(page[p])
    PROVE  /\ p \in PageIds /\ s \in Slots /\ page[p].slot[s] = Free
           /\ page' \in [PageIds -> Words]
           /\ \A q \in PageIds :
                 /\ Counted(page'[q])
                 /\ page'[q].prev = page[q].prev /\ page'[q].next = page[q].next
                 /\ page'[q].owner = page[q].owner
                 /\ page'[q].first = page[q].first
                 /\ page'[q].count >= page[q].count
                 /\ page'[q].slot = IF q = p THEN [page[q].slot EXCEPT ![s] = v]
                                    ELSE page[q].slot
  <1>1. p \in PageIds /\ page[p] \in Words /\ Counted(page[p])
        /\ page[p].count < MaxRecord
    BY DEF HasRoom, Shapes
  <1> DEFINE new == WithRecord(page[p], v)
  <1>2. page' = [page EXCEPT ![p] = new]
    BY DEF InsertInto
  <1> HIDE DEF new
  <1>3. /\ s \in Slots /\ page[p].slot[s] = Free
        /\ new \in Words /\ Counted(new) /\ new.count = page[p].count + 1
        /\ new.prev = page[p].prev /\ new.next = page[p].next
        /\ new.owner = page[p].owner /\ new.first = page[p].first
        /\ new.slot = [page[p].slot EXCEPT ![s] = v]
    BY <1>1, RecordAdded DEF new
  <1>4. page' \in [PageIds -> Words]
    BY <1>1, <1>2, <1>3 DEF Shapes
  <1>5. ASSUME NEW q \in PageIds
        PROVE  /\ Counted(page'[q])
               /\ page'[q].prev = page[q].prev /\ page'[q].next = page[q].next
               /\ page'[q].owner = page[q].owner
               /\ page'[q].first = page[q].first
               /\ page'[q].count >= page[q].count
               /\ page'[q].slot = IF q = p THEN [page[q].slot EXCEPT ![s] = v]
                                  ELSE page[q].slot
    <2>1. page[q].count \in Nat /\ Counted(page[q])
      BY SlotsFacts DEF Shapes, Words
    <2>2. page'[q] = IF q = p THEN new ELSE page[q]
      BY <1>1, <1>2 DEF Shapes
    <2>3. CASE q = p
      BY <1>3, <2>1, <2>2, <2>3
    <2>4. CASE q # p
      BY <2>1, <2>2, <2>4
    <2> QED
      BY <2>3, <2>4
  <1> QED
    BY <1>1, <1>3, <1>4, <1>5

\* Where it goes into a new page.
Appended(last, v, p, meta, s) ==
    /\ p \in PageIds /\ p \notin used /\ s \in Slots
    /\ used' = used \cup {p}
    /\ page' \in [PageIds -> Words]
    /\ \A q \in PageIds : Counted(page'[q])
    /\ page'[p].prev = last /\ page'[p].next = NoPage
    /\ page'[p].owner = meta /\ page'[p].count = 1
    /\ page'[p].slot = [Zero.slot EXCEPT ![s] = v]
    /\ \A q \in PageIds \ {p} :
          /\ page'[q].prev = page[q].prev /\ page'[q].owner = page[q].owner
          /\ page'[q].count = page[q].count /\ page'[q].slot = page[q].slot
          /\ page'[q].first = IF last = NoPage /\ q = meta THEN p
                              ELSE page[q].first
          /\ page'[q].next = IF last # NoPage /\ q = last THEN p
                             ELSE page[q].next

LEMMA AppendPageFacts ==
    ASSUME Shapes, NEW n, Exists(n), NEW last \in Words0, NEW v \in Values,
           AppendPage(n, last, v),
           NEW p, p = NewPage(used),
           NEW meta, meta = Set(n).tablePageID,
           NEW s, s = FreeSlot(FreshPage(meta, last))
    PROVE  Appended(last, v, p, meta, s)
  <1>1. p \in PageIds /\ p \notin used
    BY NewPageFacts DEF AppendPage, Shapes
  <1>2. meta \in PageIds
    BY SetFacts
  <1> DEFINE fresh == FreshPage(meta, last)
             new == WithRecord(fresh, v)
  <1>3. /\ fresh \in Words /\ fresh.slot = Zero.slot /\ fresh.count = 0
        /\ fresh.prev = last /\ fresh.next = NoPage /\ fresh.owner = meta
    BY <1>2, ZeroFacts DEF FreshPage, Words, Words0
  <1>4. Counted(fresh) /\ fresh.count < MaxRecord
    BY <1>3, EmptyPage, SlotsFacts
  <1> HIDE DEF fresh
  <1>5. /\ s \in Slots /\ new \in Words /\ Counted(new) /\ new.count = fresh.count + 1
        /\ new.prev = fresh.prev /\ new.next = fresh.next
        /\ new.owner = fresh.owner /\ new.slot = [fresh.slot EXCEPT ![s] = v]
    BY <1>3, <1>4, RecordAdded DEF fresh
  <1>6. /\ used' = used \cup {p}
        /\ page' = [q \in PageIds |->
              IF q = p THEN new
              ELSE IF last = NoPage /\ q = meta THEN [page[q] EXCEPT !.first = p]
              ELSE IF last # NoPage /\ q = last THEN [page[q] EXCEPT !.next = p]
              ELSE page[q]]
    BY DEF AppendPage, fresh
  <1> HIDE DEF new
  <1>7. page'[p] = new
    BY <1>1, <1>6
  <1>8. ASSUME NEW q \in PageIds \ {p}
        PROVE  /\ page'[q] \in Words /\ Counted(page'[q])
               /\ page'[q].prev = page[q].prev /\ page'[q].owner = page[q].owner
               /\ page'[q].count = page[q].count /\ page'[q].slot = page[q].slot
               /\ page'[q].first = IF last = NoPage /\ q = meta THEN p
                                   ELSE page[q].first
               /\ page'[q].next = IF last # NoPage /\ q = last THEN p
                                  ELSE page[q].next
    <2>1. page[q] \in Words /\ Counted(page[q])
      BY DEF Shapes
    <2>2. page'[q] =
              IF last = NoPage /\ q = meta THEN [page[q] EXCEPT !.first = p]
              ELSE IF last # NoPage /\ q = last THEN [page[q] EXCEPT !.next = p]
              ELSE page[q]
      BY <1>6
    <2>3. /\ page'[q] \in Words
          /\ page'[q].prev = page[q].prev /\ page'[q].owner = page[q].owner
          /\ page'[q].count = page[q].count /\ page'[q].slot = page[q].slot
          /\ page'[q].first = IF last = NoPage /\ q = meta THEN p
                              ELSE page[q].first
          /\ page'[q].next = IF last # NoPage /\ q = last THEN p
                             ELSE page[q].next
      BY <1>1, <2>1, <2>2 DEF Words
    <2> QED
      BY <2>1, <2>3, CountedSame
  <1>9. page' \in [PageIds -> Words]
    <2>1. \A q \in PageIds : page'[q] \in Words
      BY <1>5, <1>7, <1>8
    <2> QED
      BY <1>6, <2>1
  <1> QED
    BY <1>1, <1>3, <1>5, <1>6, <1>7, <1>8, <1>9 DEF Appended

\* A new first page is written into the object of the set.
WithFirst(s, k, p) == [s EXCEPT ![k].firstDataPageID = p]

\* What a removal changes: a record; and when it was the last of its page, the
\* links around the page.
Removed(n, r, p, meta, last, next) ==
    /\ page[p].owner = meta
    /\ page[p].count \in Nat \ {0}
    /\ last \in Words0 /\ next \in Words0
    /\ dir' = dir
    /\ page' \in [PageIds -> Words]
    /\ \A q \in PageIds :
          /\ Counted(page'[q])
          /\ page'[q].owner = page[q].owner
          /\ page'[q].slot = IF q = p THEN [page[q].slot EXCEPT ![r[2]] = Free]
                             ELSE page[q].slot
          /\ q # p => page'[q].count = page[q].count
    /\ \/ /\ page'[p].count > 0
          /\ used' = used /\ sets' = sets /\ damaged' = damaged
          /\ \A q \in PageIds :
                /\ page'[q].prev = page[q].prev
                /\ page'[q].next = page[q].next
                /\ page'[q].first = page[q].first
       \/ /\ last = NoPage
          /\ page[p].count = 1
          /\ used' = used \ {p}
          /\ sets' = WithFirst(sets, IndexOf(n), next)
          /\ damaged' = damaged
          /\ \A q \in PageIds :
                /\ q # meta => page'[q].prev = page[q].prev
                /\ page'[q].next = page[q].next
                /\ page'[q].first = IF q = meta THEN next ELSE page[q].first
       \/ /\ last # NoPage
          /\ page[p].count = 1
          /\ used' = used \ {p} /\ sets' = sets
          /\ damaged' = (damaged \/ last \notin used \/ page[last].next # p)
          /\ \A q \in PageIds :
                /\ page'[q].prev = IF next # NoPage /\ q = next THEN last
                                   ELSE page[q].prev
                /\ page'[q].next = IF q = last THEN next ELSE page[q].next
                /\ page'[q].first = page[q].first

LEMMA RemoveFacts ==
    ASSUME Shapes, NEW n, Exists(n), NEW r \in Scanned(n), Remove(n, r),
           NEW p, p = r[1],
           NEW meta, meta = Set(n).tablePageID,
           NEW last, last = page[p].prev,
           NEW next, next = page[p].next
    PROVE  Removed(n, r, p, meta, last, next)
  <1> DEFINE rest == [page[p] EXCEPT !.slot[r[2]] = Free, !.count = @ - 1]
             pages == [page EXCEPT ![p] = rest]
  <1>1. /\ p \in PageIds /\ r[2] \in Slots /\ page[p].slot[r[2]] # Free
        /\ page[p] \in Words /\ Counted(page[p])
    BY ScannedFacts
  <1>2. /\ rest \in Words /\ Counted(rest) /\ rest.count = page[p].count - 1
        /\ rest.prev = last /\ rest.next = next
        /\ rest.owner = page[p].owner /\ rest.first = page[p].first
        /\ rest.slot = [page[p].slot EXCEPT ![r[2]] = Free]
    <2>1. rest = WithoutRecord(page[p], r[2])
      BY DEF WithoutRecord
    <2> HIDE DEF rest
    <2> QED
      BY <1>1, <2>1, RecordTaken
  <1>3. /\ page[p].owner = meta
        /\ rest.count # 0 => page' = pages /\ UNCHANGED <<used, sets, damaged>>
        /\ rest.count = 0 /\ rest.prev = NoPage =>
             /\ used' = used \ {p}
             /\ page' = [pages EXCEPT ![meta].first = rest.next,
                                      ![meta].prev =
                                          IF rest.next # NoPage THEN rest.prev ELSE @]
             /\ sets' = [sets EXCEPT ![IndexOf(n)].firstDataPageID = rest.next]
             /\ UNCHANGED damaged
        /\ rest.count = 0 /\ rest.prev # NoPage =>
             /\ used' = used \ {p}
             /\ page' = IF rest.next # NoPage
                        THEN [pages EXCEPT ![rest.prev].next = rest.next,
                                           ![rest.next].prev = rest.prev]
                        ELSE [pages EXCEPT ![rest.prev].next = rest.next]
             /\ damaged' = (damaged \/ rest.prev \notin used
                                    \/ page[rest.prev].next # p)
             /\ UNCHANGED sets
        /\ UNCHANGED dir
    BY Zenon DEF Remove
  <1> HIDE DEF rest
  <1>12. page[p].owner = meta /\ dir' = dir
    BY <1>3
  <1>4. /\ last \in Words0 /\ next \in Words0 /\ page[p].count \in Nat
        /\ rest.count \in Nat
    BY <1>1, <1>2, SlotsFacts DEF Words, Words0
  <1>5. /\ pages \in [PageIds -> Words] /\ DOMAIN pages = PageIds
        /\ \A q \in PageIds : pages[q] = IF q = p THEN rest ELSE page[q]
    BY <1>1, <1>2 DEF Shapes
  <1>6. \A q \in PageIds :
           /\ Counted(pages[q])
           /\ pages[q].owner = page[q].owner
           /\ pages[q].prev = page[q].prev /\ pages[q].next = page[q].next
           /\ pages[q].first = page[q].first
           /\ pages[q].slot = IF q = p THEN [page[q].slot EXCEPT ![r[2]] = Free]
                              ELSE page[q].slot
           /\ q # p => pages[q].count = page[q].count
    BY <1>2, <1>5 DEF Shapes
  <1>13. ASSUME NEW q \in PageIds
         PROVE  /\ pages[q].prev = page[q].prev /\ pages[q].next = page[q].next
                /\ pages[q].first = page[q].first
    BY <1>6
  <1>7. pages[p].count = rest.count
    BY <1>1, <1>5
  <1> HIDE DEF pages
  <1>8. ASSUME NEW new \in [PageIds -> Words],
               \A q \in PageIds : /\ new[q].count = pages[q].count
                                  /\ new[q].slot = pages[q].slot
                                  /\ new[q].owner = pages[q].owner
        PROVE  \A q \in PageIds :
                 /\ Counted(new[q])
                 /\ new[q].owner = page[q].owner
                 /\ new[q].slot = IF q = p THEN [page[q].slot EXCEPT ![r[2]] = Free]
                                    ELSE page[q].slot
                 /\ q # p => new[q].count = page[q].count
    BY <1>6, <1>8, CountedSame
  <1>9. CASE rest.count # 0
    <2>1. page' = pages /\ used' = used /\ sets' = sets /\ damaged' = damaged
      BY <1>3, <1>9
    <2>2. page'[p].count > 0
      BY <1>4, <1>7, <1>9, <2>1
    <2> QED
      BY <1>2, <1>3, <1>4, <1>5, <1>6, <1>9, <2>1, <2>2 DEF Removed
  <1>10. CASE rest.count = 0 /\ last = NoPage
    <2>1. page' = [pages EXCEPT ![meta].first = next,
                                ![meta].prev = IF next # NoPage THEN last ELSE @]
      BY <1>2, <1>3, <1>10
    <2>2. meta \in PageIds
      BY SetFacts
    <2>3. /\ page' \in [PageIds -> Words]
          /\ \A q \in PageIds : /\ page'[q].count = pages[q].count
                                /\ page'[q].slot = pages[q].slot
                                /\ page'[q].owner = pages[q].owner
                                /\ q # meta => page'[q].prev = pages[q].prev
                                /\ page'[q].next = pages[q].next
                                /\ page'[q].first = IF q = meta THEN next
                                                    ELSE pages[q].first
      BY <1>4, <1>5, <2>1, <2>2 DEF Words, Words0
    <2>4. /\ used' = used \ {p} /\ damaged' = damaged
          /\ sets' = WithFirst(sets, IndexOf(n), next)
      <3>1. sets' = [sets EXCEPT ![IndexOf(n)].firstDataPageID = next]
        BY <1>2, <1>3, <1>10
      <3> QED
        BY <1>2, <1>3, <1>10, <3>1 DEF WithFirst
    <2>5. page[p].count = 1
      BY <1>2, <1>4, <1>10
    <2>6. ASSUME NEW q \in PageIds
          PROVE
             /\ q # meta => page'[q].prev = page[q].prev
             /\ page'[q].next = page[q].next
             /\ page'[q].first = IF q = meta THEN next ELSE page[q].first
      BY <1>13, <2>3
    <2>7. \A q \in PageIds :
                 /\ Counted(page'[q])
                 /\ page'[q].owner = page[q].owner
                 /\ page'[q].slot = IF q = p THEN [page[q].slot EXCEPT ![r[2]] = Free]
                                    ELSE page[q].slot
                 /\ q # p => page'[q].count = page[q].count
      BY <1>8, <2>3
    <2>8. page[p].count \in Nat \ {0}
      BY <2>5
    <2>9. page' \in [PageIds -> Words]
      BY <2>3
    <2>10. /\ last = NoPage
           /\ page[p].count = 1
           /\ used' = used \ {p}
           /\ sets' = WithFirst(sets, IndexOf(n), next)
           /\ damaged' = damaged
           /\ \A q \in PageIds :
                 /\ q # meta => page'[q].prev = page[q].prev
                 /\ page'[q].next = page[q].next
                 /\ page'[q].first = IF q = meta THEN next ELSE page[q].first
      BY <1>10, <2>4, <2>5, <2>6, Zenon
    <2> QED
      BY <1>4, <1>12, <2>7, <2>8, <2>9, <2>10, Zenon DEF Removed
  <1>11. CASE rest.count = 0 /\ last # NoPage
    <2>1. page' = IF next # NoPage
                  THEN [pages EXCEPT ![last].next = next, ![next].prev = last]
                  ELSE [pages EXCEPT ![last].next = next]
      BY <1>2, <1>3, <1>11
    <2>2. last \in PageIds /\ (next # NoPage => next \in PageIds)
      BY <1>4, <1>11 DEF Words0
    <2>3. /\ page' \in [PageIds -> Words]
          /\ \A q \in PageIds : /\ page'[q].count = pages[q].count
                                /\ page'[q].slot = pages[q].slot
                                /\ page'[q].owner = pages[q].owner
                                /\ page'[q].prev = IF next # NoPage /\ q = next
                                                   THEN last ELSE pages[q].prev
                                /\ page'[q].next = IF q = last THEN next
                                                   ELSE pages[q].next
                                /\ page'[q].first = pages[q].first
      <3>1. CASE next = NoPage
        BY <1>4, <1>5, <2>1, <2>2, <3>1 DEF Words, Words0
      <3>2. CASE next # NoPage
        <4> DEFINE mid == [pages EXCEPT ![last].next = next]
        <4>1. page' = [mid EXCEPT ![next].prev = last]
          BY <2>1, <3>2
        <4>2. /\ mid \in [PageIds -> Words]
              /\ \A q \in PageIds : /\ mid[q].count = pages[q].count
                                    /\ mid[q].slot = pages[q].slot
                                    /\ mid[q].owner = pages[q].owner
                                    /\ mid[q].prev = pages[q].prev
                                    /\ mid[q].next = IF q = last THEN next
                                                     ELSE pages[q].next
                                    /\ mid[q].first = pages[q].first
          BY <1>4, <1>5, <2>2 DEF Words, Words0
        <4> HIDE DEF mid
        <4>3. last \in Words0 /\ next \in PageIds
          BY <1>4, <2>2, <3>2
        <4>4. ASSUME NEW q \in PageIds
              PROVE  /\ page'[q] \in Words
                     /\ page'[q].count = mid[q].count /\ page'[q].slot = mid[q].slot
                     /\ page'[q].owner = mid[q].owner /\ page'[q].next = mid[q].next
                     /\ page'[q].first = mid[q].first
                     /\ page'[q].prev = IF q = next THEN last ELSE mid[q].prev
          <5>1. mid[q] \in Words
            BY <4>2
          <5>2. page'[q] = IF q = next THEN [mid[q] EXCEPT !.prev = last] ELSE mid[q]
            BY <4>1, <4>2
          <5> QED
            BY <4>3, <5>1, <5>2 DEF Words, Words0
        <4>5. page' \in [PageIds -> Words]
          <5>1. page' = [q \in PageIds |-> page'[q]]
            BY <4>1, <4>2
          <5> QED
            BY <4>4, <5>1
        <4> QED
          BY <3>2, <4>2, <4>4, <4>5
      <3> QED
        BY <3>1, <3>2
    <2>4. /\ used' = used \ {p} /\ sets' = sets
          /\ damaged' = (damaged \/ last \notin used \/ page[last].next # p)
      BY <1>2, <1>3, <1>11
    <2>5. page[p].count = 1
      BY <1>2, <1>4, <1>11
    <2>6. ASSUME NEW q \in PageIds
          PROVE
             /\ page'[q].prev = IF next # NoPage /\ q = next THEN last
                                ELSE page[q].prev
             /\ page'[q].next = IF q = last THEN next ELSE page[q].next
             /\ page'[q].first = page[q].first
      BY <1>13, <2>3
    <2>7. \A q \in PageIds :
                 /\ Counted(page'[q])
                 /\ page'[q].owner = page[q].owner
                 /\ page'[q].slot = IF q = p THEN [page[q].slot EXCEPT ![r[2]] = Free]
                                    ELSE page[q].slot
                 /\ q # p => page'[q].count = page[q].count
      BY <1>8, <2>3
    <2>8. page[p].count \in Nat \ {0}
      BY <2>5
    <2>9. page' \in [PageIds -> Words]
      BY <2>3
    <2>10. /\ last # NoPage
           /\ page[p].count = 1
           /\ used' = used \ {p} /\ sets' = sets
           /\ damaged' = (damaged \/ last \notin used \/ page[last].next # p)
           /\ \A q \in PageIds :
                 /\ page'[q].prev = IF next # NoPage /\ q = next THEN last
                                    ELSE page[q].prev
                 /\ page'[q].next = IF q = last THEN next ELSE page[q].next
                 /\ page'[q].first = page[q].first
      BY <1>11, <2>4, <2>5, <2>6, Zenon
    <2> QED
      BY <1>4, <1>12, <2>7, <2>8, <2>9, <2>10, Zenon DEF Removed
  <1> QED
    BY <1>9, <1>10, <1>11

LEMMA UpdateFacts ==
    ASSUME Shapes, NEW n, Exists(n), NEW r \in Scanned(n), NEW v \in Values,
           Update(n, r, v),
           NEW p, p = r[1]
    PROVE  /\ page[p].owner = Set(n).tablePageID
           /\ used' = used /\ dir' = dir /\ sets' = sets /\ damaged' = damaged
           /\ page' \in [PageIds -> Words]
           /\ \A q \in PageIds :
                 /\ Counted(page'[q])
                 /\ page'[q].prev = page[q].prev /\ page'[q].next = page[q].next
                 /\ page'[q].owner = page[q].owner
                 /\ page'[q].first = page[q].first
                 /\ page'[q].count = page[q].count
                 /\ page'[q].slot = IF q = p THEN [page[q].slot EXCEPT ![r[2]] = v]
                                    ELSE page[q].slot
  <1> DEFINE new == [page[p] EXCEPT !.slot[r[2]] = v]
  <1>1. /\ p \in PageIds /\ r[2] \in Slots /\ page[p].slot[r[2]] # Free
        /\ page[p] \in Words /\ Counted(page[p])
    BY ScannedFacts
  <1>2. /\ new \in Words /\ Counted(new) /\ new.count = page[p].count
        /\ new.prev = page[p].prev /\ new.next = page[p].next
        /\ new.owner = page[p].owner /\ new.first = page[p].first
        /\ new.slot = [page[p].slot EXCEPT ![r[2]] = v]
    <2>1. new = WithValue(page[p], r[2], v)
      BY DEF WithValue
    <2> HIDE DEF new
    <2> QED
      BY <1>1, <2>1, RecordChanged
  <1>3. /\ page' = [page EXCEPT ![p] = new]
        /\ page[p].owner = Set(n).tablePageID
        /\ used' = used /\ dir' = dir /\ sets' = sets /\ damaged' = damaged
    BY DEF Update
  <1> HIDE DEF new
  <1> QED
    BY <1>1, <1>2, <1>3 DEF Shapes
-----------------------------------------------------------------------------
(* Every action keeps the types, the counts and the directory, whatever has    *)
(* happened to the chains.                                                    *)
SetRecord == [name : Names, tablePageID : PageIds, id : 0 .. MaxTableCount - 1,
              firstDataPageID : Words0]
DirEntry  == [name : Names, metaPageID : PageIds]

LEMMA LenFacts ==
    ASSUME Shapes
    PROVE  /\ Len(sets) \in Nat /\ Len(dir) \in Nat
           /\ \A i \in Indices : sets[i] \in SetRecord
           /\ \A i \in 1 .. Len(dir) : dir[i] \in DirEntry
           /\ sets \in Seq(SetRecord) /\ dir \in Seq(DirEntry)
  BY LenProperties, ElementOfSeq DEF Shapes, SetRecord, DirEntry, Indices

LEMMA TypesAfterCreate ==
    ASSUME Shapes, Directory, NEW n \in Names, CreateSet(n)
    PROVE  Shapes' /\ Directory'
  <1> DEFINE p == NewPage(used)
             new == [Zero EXCEPT !.first = NoPage]
             entry == [name |-> n, metaPageID |-> p]
             object == [name |-> n, tablePageID |-> p, id |-> Len(sets),
                        firstDataPageID |-> NoPage]
  <1>1. /\ used' = used \cup {p} /\ page' = [page EXCEPT ![p] = new]
        /\ dir' = Append(dir, entry) /\ sets' = Append(sets, object)
        /\ damaged' = damaged
        /\ Len(sets) < MaxTableCount /\ ~Exists(n) /\ HasFreePage(used)
    BY DEF CreateSet
  <1>2. p \in PageIds
    BY <1>1, NewPageFacts DEF Shapes
  <1>3. new \in Words /\ Counted(new)
    <2>1. new \in Words /\ new.slot = Zero.slot /\ new.count = 0
      BY ZeroFacts DEF Words
    <2> QED
      BY <2>1, EmptyPage
  <1>4. page' \in [PageIds -> Words] /\ \A q \in PageIds : Counted(page'[q])
    <2> HIDE DEF new
    <2> QED
      BY <1>1, <1>2, <1>3 DEF Shapes
  <1>5. object \in SetRecord /\ entry \in DirEntry
    BY <1>1, <1>2, LenFacts, TableCountAssumption DEF SetRecord, DirEntry, Words0
  <1>6. object.name = n /\ object.tablePageID = p
        /\ entry.name = n /\ entry.metaPageID = p
    OBVIOUS
  <1> HIDE DEF p, new, entry, object
  <1>7. /\ sets' \in Seq(SetRecord) /\ dir' \in Seq(DirEntry)
        /\ Len(sets') = Len(sets) + 1 /\ Len(dir') = Len(dir) + 1
        /\ \A i \in 1 .. Len(sets) : sets'[i] = sets[i]
        /\ \A i \in 1 .. Len(dir) : dir'[i] = dir[i]
        /\ sets'[Len(sets) + 1] = object /\ dir'[Len(dir) + 1] = entry
    BY <1>1, <1>5, LenFacts
  <1>8. Shapes'
    <2>1. used' \in SUBSET PageIds /\ damaged' \in BOOLEAN
      BY <1>1, <1>2 DEF Shapes
    <2>2. Len(sets') <= MaxTableCount
      BY <1>1, <1>7, LenFacts, TableCountAssumption
    <2> QED
      BY <1>4, <1>7, <2>1, <2>2 DEF Shapes, SetRecord, DirEntry
  <1>9. Directory'
    <2>1. Indices' = 1 .. Len(sets) + 1 /\ Indices = 1 .. Len(sets)
      BY <1>7 DEF Indices
    <2>2. \A i \in 1 .. Len(sets) : sets[i].name # n
      BY <1>1, <2>1 DEF Exists
    <2>3. \A i \in Indices' : /\ dir'[i].name = sets'[i].name
                              /\ dir'[i].metaPageID = sets'[i].tablePageID
      BY <1>6, <1>7, <2>1, LenFacts DEF Directory
    <2>4. \A i, j \in Indices' : sets'[i].name = sets'[j].name => i = j
      BY <1>6, <1>7, <2>1, <2>2, LenFacts DEF Directory
    <2> QED
      BY <1>7, <2>3, <2>4 DEF Directory
  <1> QED
    BY <1>8, <1>9

LEMMA TypesAfterDelete ==
    ASSUME Shapes, Directory, NEW n \in Names, DeleteSet(n)
    PROVE  Shapes' /\ Directory'
  <1> DEFINE i == IndexOf(n)
  <1>1. /\ used' = used \ ({Set(n).tablePageID} \cup ChainPages(n))
        /\ page' = page /\ damaged' = damaged /\ Exists(n)
        /\ \/ dir' = WithoutEntry(dir, i) /\ sets' = WithoutEntry(sets, i)
           \/ dir' = dir /\ sets' = sets
    BY DEF DeleteSet
  <1>2. used' \in SUBSET PageIds
    BY <1>1 DEF Shapes
  <1>3. CASE dir' = dir /\ sets' = sets
    BY <1>1, <1>2, <1>3 DEF Shapes, Directory, Indices, Counted, Occupied
  <1>4. CASE dir' = WithoutEntry(dir, i) /\ sets' = WithoutEntry(sets, i)
    <2>1. i \in 1 .. Len(sets) /\ i \in 1 .. Len(dir) /\ Len(dir) = Len(sets)
      BY <1>1, SetFacts DEF Indices, Directory
    <2> HIDE DEF i
    <2>2. /\ sets' \in Seq(SetRecord) /\ dir' \in Seq(DirEntry)
          /\ Len(sets') = Len(sets) - 1 /\ Len(dir') = Len(sets) - 1
          /\ \A j \in 1 .. Len(sets) - 1 :
                /\ sets'[j] = IF j = i THEN sets[Len(sets)] ELSE sets[j]
                /\ dir'[j] = IF j = i THEN dir[Len(sets)] ELSE dir[j]
      <3>1. sets \in Seq(SetRecord) /\ dir \in Seq(DirEntry)
        BY LenFacts
      <3>2. /\ sets' \in Seq(SetRecord) /\ Len(sets') = Len(sets) - 1
            /\ \A j \in 1 .. Len(sets) - 1 :
                  sets'[j] = IF j = i THEN sets[Len(sets)] ELSE sets[j]
        BY <1>4, <2>1, <3>1, WithoutEntryFacts
      <3>3. /\ dir' \in Seq(DirEntry) /\ Len(dir') = Len(dir) - 1
            /\ \A j \in 1 .. Len(dir) - 1 :
                  dir'[j] = IF j = i THEN dir[Len(dir)] ELSE dir[j]
        BY <1>4, <2>1, <3>1, WithoutEntryFacts
      <3> QED
        BY <2>1, <3>2, <3>3
    <2>3. Shapes'
      <3>1. Len(sets') <= MaxTableCount
        BY <2>2, LenFacts, TableCountAssumption DEF Shapes
      <3>2. page' \in [PageIds -> Words] /\ \A p \in PageIds : Counted(page'[p])
        <4>1. page' = page
          BY <1>1
        <4> QED
          BY <4>1 DEF Shapes
      <3>3. damaged' \in BOOLEAN
        BY <1>1 DEF Shapes
      <3> QED
        BY <1>2, <2>2, <3>1, <3>2, <3>3 DEF Shapes, SetRecord, DirEntry
    <2>4. Directory'
      <3>1. Indices' = 1 .. Len(sets) - 1 /\ Indices = 1 .. Len(sets)
        BY <2>2 DEF Indices
      <3>2. Len(sets) \in Nat
        BY LenFacts
      <3>3. \A j \in Indices' : /\ dir'[j].name = sets'[j].name
                                /\ dir'[j].metaPageID = sets'[j].tablePageID
        <4>1. ASSUME NEW j \in 1 .. Len(sets) - 1
              PROVE  \E k \in Indices : sets'[j] = sets[k] /\ dir'[j] = dir[k]
          <5>1. j \in Indices /\ Len(sets) \in Indices
            BY <3>1, <3>2
          <5> QED
            BY <2>2, <5>1
        <4>2. \A k \in Indices : /\ dir[k].name = sets[k].name
                                 /\ dir[k].metaPageID = sets[k].tablePageID
          BY DEF Directory
        <4> QED
          BY <3>1, <4>1, <4>2
      <3>4. \A j, k \in Indices' : sets'[j].name = sets'[k].name => j = k
        BY <2>1, <2>2, <3>1, <3>2 DEF Directory
      <3> QED
        BY <2>2, <3>3, <3>4 DEF Directory
    <2> QED
      BY <2>3, <2>4
  <1> QED
    BY <1>1, <1>3, <1>4

LEMMA WithFirstFacts ==
    ASSUME NEW s \in Seq(SetRecord), NEW k \in 1 .. Len(s), NEW p \in Words0
    PROVE  /\ WithFirst(s, k, p) \in Seq(SetRecord)
           /\ Len(WithFirst(s, k, p)) = Len(s)
           /\ \A i \in 1 .. Len(s) :
                 /\ WithFirst(s, k, p)[i].name = s[i].name
                 /\ WithFirst(s, k, p)[i].tablePageID = s[i].tablePageID
                 /\ WithFirst(s, k, p)[i].firstDataPageID =
                       IF i = k THEN p ELSE s[i].firstDataPageID
  <1> DEFINE new == [s[k] EXCEPT !.firstDataPageID = p]
  <1>1. s[k] \in SetRecord
    BY ElementOfSeq
  <1>2. WithFirst(s, k, p) = [s EXCEPT ![k] = new]
    BY DEF WithFirst
  <1>3. /\ new \in SetRecord /\ new.name = s[k].name
        /\ new.tablePageID = s[k].tablePageID /\ new.firstDataPageID = p
    BY <1>1 DEF SetRecord
  <1> HIDE DEF new
  <1>4. /\ [s EXCEPT ![k] = new] \in Seq(SetRecord)
        /\ Len([s EXCEPT ![k] = new]) = Len(s)
        /\ \A i \in 1 .. Len(s) : [s EXCEPT ![k] = new][i] = IF i = k THEN new ELSE s[i]
    BY <1>3, ExceptSeq
  <1>5. ASSUME NEW i \in 1 .. Len(s)
        PROVE  /\ WithFirst(s, k, p)[i].name = s[i].name
               /\ WithFirst(s, k, p)[i].tablePageID = s[i].tablePageID
               /\ WithFirst(s, k, p)[i].firstDataPageID =
                     IF i = k THEN p ELSE s[i].firstDataPageID
    <2>1. WithFirst(s, k, p)[i] = IF i = k THEN new ELSE s[i]
      BY <1>2, <1>4
    <2> QED
      BY <1>3, <2>1
  <1> QED
    BY <1>2, <1>4, <1>5

LEMMA FirstPageSet ==
    ASSUME Shapes, Directory, NEW n, Exists(n), NEW p \in Words0,
           sets' = WithFirst(sets, IndexOf(n), p), dir' = dir
    PROVE  /\ sets' \in Seq(SetRecord) /\ Len(sets') = Len(sets)
           /\ \A i \in Indices :
                 /\ sets'[i].name = sets[i].name
                 /\ sets'[i].tablePageID = sets[i].tablePageID
                 /\ sets'[i].firstDataPageID =
                       IF i = IndexOf(n) THEN p ELSE sets[i].firstDataPageID
           /\ Directory'
  <1>1. IndexOf(n) \in 1 .. Len(sets) /\ sets \in Seq(SetRecord)
    BY SetFacts, LenFacts DEF Indices
  <1>2. /\ sets' \in Seq(SetRecord) /\ Len(sets') = Len(sets)
        /\ \A i \in Indices :
                 /\ sets'[i].name = sets[i].name
                 /\ sets'[i].tablePageID = sets[i].tablePageID
                 /\ sets'[i].firstDataPageID =
                       IF i = IndexOf(n) THEN p ELSE sets[i].firstDataPageID
    BY <1>1, WithFirstFacts DEF Indices
  <1>3. Directory'
    <2>1. Indices' = Indices
      BY <1>2 DEF Indices
    <2> QED
      BY <1>2, <2>1 DEF Directory
  <1> QED
    BY <1>2, <1>3

\* Where the sets stay the same, the pages decide.
LEMMA TypesWithSets ==
    ASSUME Shapes, Directory, sets' = sets, dir' = dir,
           used' \in SUBSET PageIds, damaged' \in BOOLEAN,
           page' \in [PageIds -> Words], \A q \in PageIds : Counted(page'[q])
    PROVE  Shapes' /\ Directory'
  BY DEF Shapes, Directory, Indices

LEMMA TypesAfterInsert ==
    ASSUME Shapes, Directory, NEW n \in Names, Exists(n), CanInsert(n),
           NEW v \in Values, Insert(n, v)
    PROVE  Shapes' /\ Directory'
  <1>1. PICK k \in 1 .. MaxPageNum :
              /\ \A j \in 1 .. k - 1 : ~IsStop(Path(n)[j])
              /\ \/ Path(n)[k] # NoPage /\ HasRoom(Path(n)[k])
                    /\ InsertInto(n, Path(n)[k], v)
                 \/ Path(n)[k] = NoPage
                    /\ AppendPage(n, IF k = 1 THEN NoPage ELSE Path(n)[k - 1], v)
    BY InsertFacts
  <1>2. \A j \in 1 .. MaxPageNum : Path(n)[j] \in Words0
    BY PathType
  <1>3. CASE Path(n)[k] # NoPage /\ HasRoom(Path(n)[k]) /\ InsertInto(n, Path(n)[k], v)
    <2>1. /\ page' \in [PageIds -> Words] /\ \A q \in PageIds : Counted(page'[q])
      BY <1>2, <1>3, InsertIntoFacts
    <2>2. used' = used /\ sets' = sets /\ dir' = dir /\ damaged' = damaged
      BY <1>3 DEF InsertInto
    <2>3. used' \in SUBSET PageIds /\ damaged' \in BOOLEAN
      BY <2>2 DEF Shapes
    <2> QED
      BY <2>1, <2>2, <2>3, TypesWithSets
  <1>4. CASE Path(n)[k] = NoPage
             /\ AppendPage(n, IF k = 1 THEN NoPage ELSE Path(n)[k - 1], v)
    <2> DEFINE last == IF k = 1 THEN NoPage ELSE Path(n)[k - 1]
               p == NewPage(used)
    <2>1. last \in Words0
      BY <1>2, MaxPageNumAssumption DEF Words0
    <2>2. AppendPage(n, last, v)
      BY <1>4
    <2> HIDE DEF last, p
    <2>3. /\ p \in PageIds /\ used' = used \cup {p}
          /\ page' \in [PageIds -> Words] /\ \A q \in PageIds : Counted(page'[q])
      <3> DEFINE meta == Set(n).tablePageID
                 s == FreeSlot(FreshPage(meta, last))
      <3>1. Appended(last, v, p, meta, s)
        BY <2>1, <2>2, AppendPageFacts DEF p
      <3> HIDE DEF meta, s
      <3> QED
        BY <3>1 DEF Appended
    <2>4. /\ dir' = dir /\ damaged' = damaged
          /\ sets' = IF last = NoPage
                     THEN [sets EXCEPT ![IndexOf(n)].firstDataPageID = p]
                     ELSE sets
      BY <2>2, Zenon DEF AppendPage, p
    <2>5. used' \in SUBSET PageIds /\ damaged' \in BOOLEAN
      BY <2>3, <2>4 DEF Shapes
    <2>6. CASE last # NoPage
      BY <2>3, <2>4, <2>5, <2>6, TypesWithSets
    <2>7. CASE last = NoPage
      <3>1. sets' = WithFirst(sets, IndexOf(n), p)
        BY <2>4, <2>7 DEF WithFirst
      <3>2. /\ sets' \in Seq(SetRecord) /\ Len(sets') = Len(sets)
            /\ Directory'
        BY <2>3, <2>4, <3>1, FirstPageSet DEF Words0
      <3> QED
        BY <2>3, <2>4, <2>5, <3>2 DEF Shapes, SetRecord
    <2> QED
      BY <2>6, <2>7
  <1> QED
    BY <1>1, <1>3, <1>4

LEMMA TypesAfterRemove ==
    ASSUME Shapes, Directory, NEW n \in Names, Exists(n),
           NEW r \in Scanned(n), Remove(n, r)
    PROVE  Shapes' /\ Directory'
  <1> DEFINE p == r[1]
             last == page[p].prev
             next == page[p].next
  <1>1. /\ last \in Words0 /\ next \in Words0 /\ dir' = dir
        /\ page' \in [PageIds -> Words]
        /\ \A q \in PageIds : Counted(page'[q])
        /\ \/ used' = used /\ sets' = sets /\ damaged' = damaged
           \/ /\ used' = used \ {p} /\ damaged' = damaged
              /\ sets' = WithFirst(sets, IndexOf(n), next)
           \/ /\ used' = used \ {p} /\ sets' = sets
              /\ damaged' = (damaged \/ last \notin used \/ page[last].next # p)
    <2> DEFINE meta == Set(n).tablePageID
    <2>1. Removed(n, r, p, meta, last, next)
      BY RemoveFacts
    <2> HIDE DEF p, last, next, meta
    <2> QED
      BY <2>1, Zenon DEF Removed
  <1> HIDE DEF p, last, next
  <1>2. used' \in SUBSET PageIds /\ damaged' \in BOOLEAN
    BY <1>1 DEF Shapes
  <1>3. CASE sets' = sets
    BY <1>1, <1>2, <1>3, TypesWithSets
  <1>4. CASE sets' = WithFirst(sets, IndexOf(n), next)
    <2>1. /\ sets' \in Seq(SetRecord) /\ Len(sets') = Len(sets)
          /\ Directory'
      BY <1>1, <1>4, FirstPageSet
    <2> QED
      BY <1>1, <1>2, <2>1 DEF Shapes, SetRecord
  <1> QED
    BY <1>1, <1>3, <1>4

LEMMA TypesAfterUpdate ==
    ASSUME Shapes, Directory, NEW n \in Names, Exists(n),
           NEW r \in Scanned(n), NEW v \in Values, Update(n, r, v)
    PROVE  Shapes' /\ Directory'
  <1>1. /\ used' = used /\ dir' = dir /\ sets' = sets /\ damaged' = damaged
        /\ page' \in [PageIds -> Words] /\ \A q \in PageIds : Counted(page'[q])
    BY UpdateFacts
  <1>2. used' \in SUBSET PageIds /\ damaged' \in BOOLEAN
    BY <1>1 DEF Shapes
  <1> QED
    BY <1>1, <1>2, TypesWithSets

\* The objects that a re-opened database has.
LEMMA ReopenFacts ==
    ASSUME Shapes, Directory, Reopen
    PROVE  /\ sets' \in Seq(SetRecord) /\ Len(sets') = Len(sets)
           /\ \A i \in Indices :
                 /\ sets'[i].name = sets[i].name
                 /\ sets'[i].tablePageID = sets[i].tablePageID
                 /\ sets'[i].id = i - 1
                 /\ sets'[i].firstDataPageID = page[sets[i].tablePageID].first
           /\ used' = used /\ dir' = dir /\ page' = page /\ damaged' = damaged
  <1> DEFINE object(i) == [name            |-> dir[i].name,
                           tablePageID     |-> dir[i].metaPageID,
                           id              |-> i - 1,
                           firstDataPageID |-> page[dir[i].metaPageID].first]
  <1>1. /\ sets' = [i \in 1 .. Len(dir) |-> object(i)]
        /\ used' = used /\ dir' = dir /\ page' = page /\ damaged' = damaged
    BY DEF Reopen
  <1>2. Len(dir) = Len(sets) /\ Len(dir) \in Nat /\ Len(sets) <= MaxTableCount
    BY LenFacts DEF Directory, Shapes
  <1>3. ASSUME NEW i \in 1 .. Len(dir)
        PROVE  /\ object(i) \in SetRecord
               /\ object(i).name = sets[i].name
               /\ object(i).tablePageID = sets[i].tablePageID
               /\ object(i).id = i - 1
               /\ object(i).firstDataPageID = page[sets[i].tablePageID].first
    <2>1. dir[i] \in DirEntry /\ i \in Indices
      BY <1>2, LenFacts DEF Indices
    <2>2. dir[i].name = sets[i].name /\ dir[i].metaPageID = sets[i].tablePageID
      BY <2>1 DEF Directory
    <2>3. page[dir[i].metaPageID].first \in Words0
      BY <2>1 DEF Shapes, DirEntry, Words, Words0
    <2>4. i - 1 \in 0 .. MaxTableCount - 1
      BY <1>2, TableCountAssumption
    <2> QED
      BY <2>1, <2>2, <2>3, <2>4 DEF SetRecord, DirEntry
  <1> HIDE DEF object
  <1>4. sets' \in [1 .. Len(dir) -> SetRecord]
    BY <1>1, <1>3
  <1>5. sets' \in Seq(SetRecord)
    BY <1>2, <1>4, SeqDef
  <1>6. Len(sets') = Len(dir)
    <2>1. DOMAIN sets' = 1 .. Len(dir) /\ DOMAIN sets' = 1 .. Len(sets')
          /\ Len(sets') \in Nat
      BY <1>4, <1>5, LenProperties
    <2> QED
      BY <1>2, <2>1
  <1>7. \A i \in Indices : sets'[i] = object(i)
    BY <1>1, <1>2 DEF Indices
  <1> QED
    BY <1>1, <1>2, <1>3, <1>5, <1>6, <1>7 DEF Indices

LEMMA TypesAfterReopen ==
    ASSUME Shapes, Directory, Reopen
    PROVE  Shapes' /\ Directory'
  <1>1. /\ sets' \in Seq(SetRecord) /\ Len(sets') = Len(sets)
        /\ \A i \in Indices : /\ sets'[i].name = sets[i].name
                              /\ sets'[i].tablePageID = sets[i].tablePageID
        /\ used' = used /\ dir' = dir /\ page' = page /\ damaged' = damaged
    BY ReopenFacts
  <1>2. Shapes'
    <2>1. page' \in [PageIds -> Words] /\ \A q \in PageIds : Counted(page'[q])
      <3>1. page' = page
        BY <1>1
      <3> QED
        BY <3>1 DEF Shapes
    <2>2. used' \in SUBSET PageIds /\ damaged' \in BOOLEAN
      BY <1>1 DEF Shapes
    <2> QED
      BY <1>1, <2>1, <2>2 DEF Shapes, SetRecord
  <1>3. Directory'
    <2>1. Indices' = Indices
      BY <1>1 DEF Indices
    <2> QED
      BY <1>1, <2>1 DEF Directory
  <1> QED
    BY <1>2, <1>3

LEMMA TypesStep ==
    ASSUME Shapes, Directory, [Next]_vars
    PROVE  Shapes' /\ Directory'
  <1>1. CASE UNCHANGED vars
    <2>1. used' \in SUBSET PageIds /\ damaged' \in BOOLEAN
      BY <1>1 DEF vars, Shapes
    <2>2. page' = page /\ sets' = sets /\ dir' = dir
      BY <1>1 DEF vars
    <2>3. page' \in [PageIds -> Words] /\ \A q \in PageIds : Counted(page'[q])
      BY <2>2 DEF Shapes
    <2> QED
      BY <2>1, <2>2, <2>3, TypesWithSets
  <1>2. CASE Next
    BY <1>2, TypesAfterCreate, TypesAfterDelete, TypesAfterInsert,
       TypesAfterRemove, TypesAfterUpdate, TypesAfterReopen DEF Next, DeleteSet
  <1> QED
    BY <1>1, <1>2
-----------------------------------------------------------------------------
(* Chains after a step.                                                       *)

\* A chain that loses its page at position j.
Without(c, j) == [k \in 1 .. Len(c) - 1 |-> IF k < j THEN c[k] ELSE c[k + 1]]

Shorter(S, c, j, d) ==
    /\ d \in Seq(S) /\ Len(d) = Len(c) - 1 /\ Distinct(d)
    /\ \A k \in 1 .. Len(d) :
          /\ d[k] = IF k < j THEN c[k] ELSE c[k + 1]
          /\ After(d, k) = IF k < j - 1 THEN After(c, k) ELSE After(c, k + 1)
    /\ \A k \in 2 .. Len(d) : d[k - 1] = IF k <= j THEN c[k - 1] ELSE c[k]
    /\ \A p : (\E k \in 1 .. Len(d) : d[k] = p)
                <=> p # c[j] /\ \E k \in 1 .. Len(c) : c[k] = p

LEMMA WithoutFacts ==
    ASSUME NEW S, NEW c \in Seq(S), Distinct(c), NEW j \in 1 .. Len(c),
           NEW d, d = Without(c, j)
    PROVE  Shorter(S, c, j, d)
  <1>1. Len(c) \in Nat \ {0} /\ \A k \in 1 .. Len(c) : c[k] \in S
    BY LenProperties, ElementOfSeq
  <1>2. d \in [1 .. Len(c) - 1 -> S] /\ Len(c) - 1 \in Nat
    BY <1>1 DEF Without
  <1>3. d \in Seq(S)
    BY <1>2, SeqDef
  <1>4. Len(d) = Len(c) - 1
    <2>1. DOMAIN d = 1 .. Len(d) /\ Len(d) \in Nat /\ DOMAIN d = 1 .. Len(c) - 1
      BY <1>2, <1>3, LenProperties
    <2> QED
      BY <1>2, <2>1
  <1>5. \A k \in 1 .. Len(d) : d[k] = IF k < j THEN c[k] ELSE c[k + 1]
    BY <1>4 DEF Without
  <1>6. Distinct(d)
    BY <1>1, <1>4, <1>5 DEF Distinct
  <1>7. ASSUME NEW k \in 1 .. Len(d)
        PROVE  d[k] # c[j] /\ \E l \in 1 .. Len(c) : c[l] = d[k]
    <2>1. CASE k < j
      BY <1>1, <1>4, <1>5, <2>1 DEF Distinct
    <2>2. CASE ~(k < j)
      <3>1. k + 1 \in 1 .. Len(c) /\ k + 1 # j /\ d[k] = c[k + 1]
        BY <1>1, <1>4, <1>5, <2>2
      <3> QED
        BY <3>1 DEF Distinct
    <2> QED
      BY <2>1, <2>2
  <1>8. ASSUME NEW l \in 1 .. Len(c), c[l] # c[j]
        PROVE  \E k \in 1 .. Len(d) : d[k] = c[l]
    <2>1. l < j \/ l > j
      BY <1>8
    <2>2. CASE l < j
      <3>1. l \in 1 .. Len(d) /\ d[l] = c[l]
        BY <1>1, <1>4, <1>5, <2>2
      <3> QED
        BY <3>1
    <2>3. CASE l > j
      <3>1. l - 1 \in 1 .. Len(d) /\ ~(l - 1 < j) /\ l - 1 + 1 = l
        BY <1>1, <1>4, <2>3
      <3>2. d[l - 1] = c[l]
        BY <1>5, <3>1
      <3> QED
        BY <3>1, <3>2
    <2> QED
      BY <2>1, <2>2, <2>3
  <1>9. ASSUME NEW p
        PROVE  (\E k \in 1 .. Len(d) : d[k] = p)
                 <=> p # c[j] /\ \E k \in 1 .. Len(c) : c[k] = p
    <2>1. ASSUME NEW k \in 1 .. Len(d), d[k] = p
          PROVE  p # c[j] /\ \E l \in 1 .. Len(c) : c[l] = p
      BY <1>7, <2>1
    <2>2. ASSUME NEW l \in 1 .. Len(c), c[l] = p, p # c[j]
          PROVE  \E k \in 1 .. Len(d) : d[k] = p
      BY <1>8, <2>2
    <2> QED
      BY <2>1, <2>2
  <1>10. ASSUME NEW k \in 1 .. Len(d)
         PROVE  After(d, k) = IF k < j - 1 THEN After(c, k) ELSE After(c, k + 1)
    <2>1. CASE k < Len(d)
      <3>1. k + 1 \in 1 .. Len(d) /\ After(d, k) = d[k + 1]
            /\ k < Len(c) /\ k + 1 < Len(c)
        BY <1>1, <1>4, <2>1 DEF After
      <3> QED
        BY <1>1, <1>5, <3>1 DEF After
    <2>2. CASE ~(k < Len(d))
      <3>1. After(d, k) = NoPage /\ k + 1 = Len(c) /\ ~(k < j - 1)
        BY <1>1, <1>4, <2>2 DEF After
      <3> QED
        BY <1>1, <3>1 DEF After
    <2> QED
      BY <2>1, <2>2
  <1>11. ASSUME NEW k \in 2 .. Len(d)
         PROVE  d[k - 1] = IF k <= j THEN c[k - 1] ELSE c[k]
    <2>1. k - 1 \in 1 .. Len(d) /\ k - 1 + 1 = k /\ (k - 1 < j <=> k <= j)
      BY <1>1, <1>4
    <2> QED
      BY <1>5, <2>1
  <1> QED
    BY <1>3, <1>4, <1>5, <1>6, <1>9, <1>10, <1>11, Zenon DEF Shorter

Longer(S, c, p, d) ==
    /\ d \in Seq(S) /\ Len(d) = Len(c) + 1 /\ Distinct(d) /\ Len(c) \in Nat
    /\ \A k \in 1 .. Len(c) : d[k] = c[k]
    /\ d[Len(c) + 1] = p
    /\ \A q : (\E k \in 1 .. Len(d) : d[k] = q)
                <=> q = p \/ \E k \in 1 .. Len(c) : c[k] = q

LEMMA LongerFacts ==
    ASSUME NEW S, NEW c \in Seq(S), Distinct(c), NEW p \in S,
           \A k \in 1 .. Len(c) : c[k] # p,
           NEW d, d = Append(c, p)
    PROVE  Longer(S, c, p, d)
  <1>1. /\ d \in Seq(S) /\ Len(d) = Len(c) + 1 /\ Len(c) \in Nat
        /\ \A k \in 1 .. Len(c) : d[k] = c[k]
        /\ d[Len(c) + 1] = p
    BY AppendProperties, LenProperties
  <1>2. Distinct(d)
    BY <1>1 DEF Distinct
  <1>3. ASSUME NEW q
        PROVE  (\E k \in 1 .. Len(d) : d[k] = q)
                 <=> q = p \/ \E k \in 1 .. Len(c) : c[k] = q
    BY <1>1
  <1> QED
    BY <1>1, <1>2, <1>3 DEF Longer

\* Pages and sets under a collection of chains.
LEMMA ChainsFacts ==
    ASSUME Shapes, NEW ch, Chains(ch)
    PROVE  /\ InitialPages \subseteq PageIds /\ NoPage \notin PageIds
           /\ \A i \in Indices :
                 /\ sets[i].tablePageID \in PageIds /\ sets[i].tablePageID \in used
                 /\ ch[i] \in Seq(PageIds \ InitialPages) /\ Distinct(ch[i])
                 /\ Len(ch[i]) \in Nat
                 /\ \A k \in 1 .. Len(ch[i]) : /\ ch[i][k] \in PageIds \ InitialPages
                                               /\ ch[i][k] \in used
           /\ \A p \in InitialPages : p \in used
  <1>1. InitialPages \subseteq PageIds /\ NoPage \notin PageIds
    BY MaxPageNumAssumption DEF InitialPages, PageIds, NoPage
  <1>2. ASSUME NEW i \in Indices
        PROVE  /\ sets[i].tablePageID \in PageIds /\ sets[i].tablePageID \in used
               /\ ch[i] \in Seq(PageIds \ InitialPages) /\ Distinct(ch[i])
               /\ Len(ch[i]) \in Nat
               /\ \A k \in 1 .. Len(ch[i]) : /\ ch[i][k] \in PageIds \ InitialPages
                                             /\ ch[i][k] \in used
    <2>1. sets[i].tablePageID \in PageIds
      BY LenFacts DEF SetRecord
    <2>2. /\ ch[i] \in Seq(PageIds \ InitialPages) /\ Distinct(ch[i])
      BY DEF Chains, IsChain
    <2>3. /\ Len(ch[i]) \in Nat
          /\ \A k \in 1 .. Len(ch[i]) : ch[i][k] \in PageIds \ InitialPages
      BY <2>2, LenProperties, ElementOfSeq
    <2>4. \A k \in 1 .. Len(ch[i]) : ch[i][k] \in used
      BY <2>3 DEF Chains
    <2>5. sets[i].tablePageID \in used
      BY <2>1 DEF Chains
    <2> QED
      BY <2>1, <2>2, <2>3, <2>4, <2>5
  <1>3. \A p \in InitialPages : p \in used
    BY <1>1 DEF Chains
  <1> QED
    BY <1>1, <1>2, <1>3

\* Steps that leave the links alone.
LEMMA LinksKept ==
    ASSUME Shapes, TablesApart, NEW ch, Chains(ch),
           used' = used, Len(sets') = Len(sets),
           \A i \in Indices :
              /\ sets'[i].tablePageID = sets[i].tablePageID
              /\ sets'[i].firstDataPageID = sets[i].firstDataPageID,
           \A q \in PageIds :
              /\ page'[q].prev = page[q].prev /\ page'[q].next = page[q].next
              /\ page'[q].owner = page[q].owner /\ page'[q].first = page[q].first
              /\ page[q].count > 0 => page'[q].count > 0
    PROVE  TablesApart' /\ Chains(ch)'
  <1>1. Indices' = Indices
    BY DEF Indices
  <1>2. TablesApart'
    BY <1>1, ChainsFacts DEF TablesApart
  <1>3. ASSUME NEW i \in Indices PROVE IsChain(i, ch[i])'
    <2>1. IsChain(i, ch[i])
      BY DEF Chains
    <2>2. \A k \in 1 .. Len(ch[i]) : ch[i][k] \in PageIds
      BY ChainsFacts
    <2>3. \A k \in 2 .. Len(ch[i]) : k \in 1 .. Len(ch[i])
      BY ChainsFacts
    <2> QED
      BY <2>1, <2>2, <2>3, ChainsFacts DEF IsChain
  <1>4. Chains(ch)'
    BY <1>1, <1>3 DEF Chains
  <1> QED
    BY <1>2, <1>4

\* The other sets and their chains stay as they are.
OthersKept(ch, i) ==
    /\ Len(sets') = Len(sets)
    /\ \A j \in Indices : sets'[j].tablePageID = sets[j].tablePageID
    /\ \A j \in Indices \ {i} :
          /\ sets'[j].firstDataPageID = sets[j].firstDataPageID
          /\ page'[sets[j].tablePageID].first = page[sets[j].tablePageID].first
          /\ \A k \in 1 .. Len(ch[j]) :
                /\ page'[ch[j][k]].prev = page[ch[j][k]].prev
                /\ page'[ch[j][k]].next = page[ch[j][k]].next
                /\ page'[ch[j][k]].owner = page[ch[j][k]].owner
                /\ page'[ch[j][k]].count > 0

\* The pages of c are given back, those of d are taken.
Exchanged(c, d) ==
    /\ \A k \in 1 .. Len(d) : \/ d[k] \in PageIds /\ d[k] \notin used
                              \/ \E l \in 1 .. Len(c) : c[l] = d[k]
    /\ \A p \in PageIds :
          p \in used' <=> \/ p \in used /\ ~ \E l \in 1 .. Len(c) : c[l] = p
                          \/ \E k \in 1 .. Len(d) : d[k] = p

\* Steps that change the chain of one set, by pages of its own or free ones.
LEMMA ChainReplaced ==
    ASSUME Shapes, NEW ch, Chains(ch), NEW i \in Indices, NEW d,
           OthersKept(ch, i), IsChain(i, d)', Exchanged(ch[i], d)
    PROVE  \E new : Chains(new)'
  <1> USE DEF OthersKept, Exchanged
  <1>1. PICK new : new = [j \in Indices |-> IF j = i THEN d ELSE ch[j]]
    OBVIOUS
  <1>2. /\ DOMAIN new = Indices /\ new[i] = d
        /\ \A j \in Indices : j # i => new[j] = ch[j]
    BY <1>1
  <1>3. Indices' = Indices
    BY DEF Indices
  <1>4. ASSUME NEW j \in Indices PROVE IsChain(j, new[j])'
    <2>1. CASE j = i
      BY <1>2, <2>1
    <2>2. CASE j # i
      <3>1. IsChain(j, ch[j])
        BY DEF Chains
      <3>2. \A k \in 2 .. Len(ch[j]) : k \in 1 .. Len(ch[j])
        BY ChainsFacts
      <3>3. /\ sets'[j].firstDataPageID = sets[j].firstDataPageID
            /\ sets'[j].tablePageID = sets[j].tablePageID
            /\ page'[sets[j].tablePageID].first = page[sets[j].tablePageID].first
            /\ \A k \in 1 .. Len(ch[j]) :
                  /\ page'[ch[j][k]].prev = page[ch[j][k]].prev
                  /\ page'[ch[j][k]].next = page[ch[j][k]].next
                  /\ page'[ch[j][k]].owner = page[ch[j][k]].owner
                  /\ page'[ch[j][k]].count > 0
        BY <2>2
      <3> DEFINE c == ch[j]
      <3>4. /\ c \in Seq(PageIds \ InitialPages) /\ Distinct(c)
            /\ sets'[j].firstDataPageID = Head0(c)
            /\ page'[sets'[j].tablePageID].first = Head0(c)
        BY <3>1, <3>3 DEF IsChain
      <3>5. ASSUME NEW k \in 1 .. Len(c)
            PROVE  /\ page'[c[k]].next = After(c, k)
                   /\ page'[c[k]].owner = sets'[j].tablePageID
                   /\ page'[c[k]].count > 0
        BY <3>1, <3>3 DEF IsChain
      <3>6. ASSUME NEW k \in 2 .. Len(c) PROVE page'[c[k]].prev = c[k - 1]
        BY <3>1, <3>2, <3>3 DEF IsChain
      <3> HIDE DEF c
      <3>7. IsChain(j, c)'
        BY <3>4, <3>5, <3>6 DEF IsChain
      <3> QED
        BY <1>2, <2>2, <3>7 DEF c
    <2> QED
      BY <2>1, <2>2
  <1>5. ASSUME NEW j \in Indices, j # i, NEW k \in 1 .. Len(ch[j]),
               NEW l \in 1 .. Len(d)
        PROVE  ch[j][k] # d[l]
    <2>1. ch[j][k] \in used
      BY ChainsFacts
    <2>2. \A m \in 1 .. Len(ch[i]) : ch[j][k] # ch[i][m]
      BY <1>5 DEF Chains
    <2> QED
      BY <2>1, <2>2
  <1>6. \A j, k \in Indices : j # k =>
           \A l \in 1 .. Len(new[j]), m \in 1 .. Len(new[k]) : new[j][l] # new[k][m]
    <2>1. SUFFICES ASSUME NEW j \in Indices, NEW k \in Indices, j # k,
                          NEW l \in 1 .. Len(new[j]), NEW m \in 1 .. Len(new[k])
                   PROVE  new[j][l] # new[k][m]
      OBVIOUS
    <2>2. CASE j = i
      BY <1>2, <1>5, <2>1, <2>2
    <2>3. CASE k = i
      BY <1>2, <1>5, <2>1, <2>3
    <2>4. CASE j # i /\ k # i
      BY <1>2, <2>1, <2>4 DEF Chains
    <2> QED
      BY <2>2, <2>3, <2>4
  <1>7. \A j, k \in Indices : \A l \in 1 .. Len(new[j]) :
           new[j][l] # sets[k].tablePageID
    <2>1. SUFFICES ASSUME NEW j \in Indices, NEW k \in Indices,
                          NEW l \in 1 .. Len(new[j])
                   PROVE  new[j][l] # sets[k].tablePageID
      OBVIOUS
    <2>2. sets[k].tablePageID \in used
      BY ChainsFacts
    <2>3. \A m \in 1 .. Len(ch[j]) : ch[j][m] # sets[k].tablePageID
      BY DEF Chains
    <2>4. CASE j = i
      <3>1. l \in 1 .. Len(d) /\ new[j][l] = d[l]
        BY <1>2, <2>4
      <3>2. d[l] \notin used \/ \E m \in 1 .. Len(ch[i]) : ch[i][m] = d[l]
        BY <3>1
      <3> QED
        BY <2>2, <2>3, <2>4, <3>1, <3>2
    <2>5. CASE j # i
      BY <1>2, <2>3, <2>5
    <2> QED
      BY <2>4, <2>5
  <1>8. ASSUME NEW p \in PageIds
        PROVE  p \in used' <=> \/ p \in InitialPages
                               \/ \E j \in Indices : p = sets[j].tablePageID
                               \/ \E j \in Indices : \E k \in 1 .. Len(new[j]) : p = new[j][k]
    <2>1. /\ p \in InitialPages => p \in used /\ \A l \in 1 .. Len(ch[i]) : ch[i][l] # p
          /\ (\E j \in Indices : p = sets[j].tablePageID) =>
                 p \in used /\ \A l \in 1 .. Len(ch[i]) : ch[i][l] # p
      BY ChainsFacts DEF Chains
    <2>2. ASSUME NEW j \in Indices, NEW k \in 1 .. Len(new[j]), p = new[j][k]
          PROVE  p \in used'
      <3>1. CASE j = i
        BY <1>2, <2>2, <3>1
      <3>2. CASE j # i
        <4>1. p = ch[j][k] /\ k \in 1 .. Len(ch[j])
          BY <1>2, <2>2, <3>2
        <4>2. p \in used
          BY <4>1, ChainsFacts
        <4>3. \A l \in 1 .. Len(ch[i]) : ch[i][l] # p
          BY <3>2, <4>1 DEF Chains
        <4> QED
          BY <4>2, <4>3
      <3> QED
        BY <3>1, <3>2
    <2>3. ASSUME p \in used'
          PROVE  \/ p \in InitialPages
                 \/ \E j \in Indices : p = sets[j].tablePageID
                 \/ \E j \in Indices : \E k \in 1 .. Len(new[j]) : p = new[j][k]
      <3>1. CASE \E k \in 1 .. Len(d) : d[k] = p
        BY <1>2, <3>1
      <3>2. CASE p \in used /\ ~ \E l \in 1 .. Len(ch[i]) : ch[i][l] = p
        <4>1. \/ p \in InitialPages
              \/ \E j \in Indices : p = sets[j].tablePageID
              \/ \E j \in Indices : \E k \in 1 .. Len(ch[j]) : p = ch[j][k]
          BY <3>2 DEF Chains
        <4>2. ASSUME NEW j \in Indices, NEW k \in 1 .. Len(ch[j]), p = ch[j][k]
              PROVE  \E l \in 1 .. Len(new[j]) : p = new[j][l]
          <5>1. j # i
            BY <3>2, <4>2
          <5> QED
            BY <1>2, <4>2, <5>1
        <4> QED
          BY <4>1, <4>2
      <3> QED
        BY <2>3, <3>1, <3>2
    <2> QED
      BY <2>1, <2>2, <2>3
  <1>9. Chains(new)'
    <2>1. \A j \in Indices' : IsChain(j, new[j])'
      BY <1>3, <1>4
    <2>2. \A j, k \in Indices' : \A l \in 1 .. Len(new[j]) :
             new[j][l] # sets'[k].tablePageID
      BY <1>3, <1>7
    <2>3. \A p \in PageIds :
             p \in used' <=> \/ p \in InitialPages
                             \/ \E j \in Indices' : p = sets'[j].tablePageID
                             \/ \E j \in Indices' : \E k \in 1 .. Len(new[j]) : p = new[j][k]
      BY <1>3, <1>8
    <2>4. \A j, k \in Indices' : j # k =>
             \A l \in 1 .. Len(new[j]), m \in 1 .. Len(new[k]) : new[j][l] # new[k][m]
      BY <1>3, <1>6
    <2> QED
      BY <1>2, <1>3, <2>1, <2>2, <2>3, <2>4, Zenon DEF Chains
  <1> QED
    BY <1>9
-----------------------------------------------------------------------------
(* Every action keeps the chains apart.                                       *)
LEMMA ChainsAfterUpdate ==
    ASSUME Shapes, TablesApart, NEW ch, Chains(ch), NEW n \in Names, Exists(n),
           NEW r \in Scanned(n), NEW v \in Values, Update(n, r, v)
    PROVE  TablesApart' /\ \E new : Chains(new)'
  <1>1. /\ used' = used /\ sets' = sets
        /\ \A q \in PageIds :
              /\ page'[q].prev = page[q].prev /\ page'[q].next = page[q].next
              /\ page'[q].owner = page[q].owner /\ page'[q].first = page[q].first
              /\ page'[q].count = page[q].count
    BY UpdateFacts
  <1>2. TablesApart' /\ Chains(ch)'
    BY <1>1, LinksKept
  <1> QED
    BY <1>2

LEMMA ChainsAfterReopen ==
    ASSUME Shapes, Directory, TablesApart, NEW ch, Chains(ch), Reopen
    PROVE  TablesApart' /\ \E new : Chains(new)'
  <1>1. /\ Len(sets') = Len(sets)
        /\ \A i \in Indices :
                 /\ sets'[i].tablePageID = sets[i].tablePageID
                 /\ sets'[i].firstDataPageID = page[sets[i].tablePageID].first
        /\ used' = used /\ page' = page
    BY ReopenFacts
  <1>2. \A i \in Indices : page[sets[i].tablePageID].first = sets[i].firstDataPageID
    BY DEF Chains, IsChain
  <1>3. TablesApart' /\ Chains(ch)'
    BY <1>1, <1>2, LinksKept
  <1> QED
    BY <1>3

\* A new page behind the last of a chain.
LEMMA ChainsAfterAppend ==
    ASSUME Shapes, Directory, TablesApart, NEW ch, Chains(ch),
           NEW n, Exists(n), NEW v \in Values, NEW i, i = IndexOf(n),
           NEW last, last = IF Len(ch[i]) = 0 THEN NoPage ELSE ch[i][Len(ch[i])],
           AppendPage(n, last, v)
    PROVE  TablesApart' /\ \E new : Chains(new)'
  <1> DEFINE c == ch[i]
             p == NewPage(used)
             meta == Set(n).tablePageID
  <1> PICK d : d = Append(c, p)
    OBVIOUS
  <1>1. i \in Indices /\ meta = sets[i].tablePageID /\ meta \in PageIds
    BY SetFacts
  <1>2. /\ InitialPages \subseteq PageIds /\ NoPage \notin PageIds
        /\ \A j \in Indices :
              /\ sets[j].tablePageID \in PageIds /\ sets[j].tablePageID \in used
              /\ ch[j] \in Seq(PageIds \ InitialPages) /\ Distinct(ch[j])
              /\ Len(ch[j]) \in Nat
              /\ \A k \in 1 .. Len(ch[j]) : /\ ch[j][k] \in PageIds \ InitialPages
                                            /\ ch[j][k] \in used
        /\ \A q \in InitialPages : q \in used
    BY ChainsFacts
  <1>3. last \in Words0 /\ (last = NoPage <=> Len(c) = 0)
    BY <1>1, <1>2 DEF Words0
  <1>4. /\ p \in PageIds /\ p \notin used
        /\ used' = used \cup {p}
        /\ page' \in [PageIds -> Words]
        /\ page'[p].prev = last /\ page'[p].next = NoPage
        /\ page'[p].owner = meta /\ page'[p].count = 1
        /\ \A q \in PageIds \ {p} :
              /\ page'[q].prev = page[q].prev /\ page'[q].owner = page[q].owner
              /\ page'[q].count = page[q].count
              /\ page'[q].first = IF last = NoPage /\ q = meta THEN p
                                  ELSE page[q].first
              /\ page'[q].next = IF last # NoPage /\ q = last THEN p
                                 ELSE page[q].next
    <2> DEFINE s == FreeSlot(FreshPage(meta, last))
    <2>1. Appended(last, v, p, meta, s)
      BY <1>3, AppendPageFacts
    <2> HIDE DEF p, meta, s
    <2> QED
      BY <2>1 DEF Appended
  <1>5. /\ Len(sets') = Len(sets)
        /\ \A j \in Indices :
              /\ sets'[j].tablePageID = sets[j].tablePageID
              /\ sets'[j].firstDataPageID =
                    IF last = NoPage /\ j = i THEN p ELSE sets[j].firstDataPageID
    <2> HIDE DEF p, meta
    <2>1. /\ dir' = dir
          /\ sets' = IF last = NoPage
                     THEN [sets EXCEPT ![IndexOf(n)].firstDataPageID = p]
                     ELSE sets
      BY Zenon DEF AppendPage, p
    <2>2. CASE last # NoPage
      BY <2>1, <2>2
    <2>3. CASE last = NoPage
      <3>1. sets' = WithFirst(sets, IndexOf(n), p)
        BY <2>1, <2>3 DEF WithFirst
      <3> QED
        BY <1>4, <2>1, <2>3, <3>1, FirstPageSet DEF Words0
    <2> QED
      BY <2>2, <2>3
  <1>6. IsChain(i, c)
    BY <1>1 DEF Chains
  <1> HIDE DEF p, meta
  <1>7. p \in PageIds \ InitialPages /\ \A k \in 1 .. Len(c) : c[k] # p
    BY <1>1, <1>2, <1>4
  <1>8. /\ d \in Seq(PageIds \ InitialPages) /\ Len(d) = Len(c) + 1 /\ Distinct(d)
        /\ Len(c) \in Nat
        /\ \A k \in 1 .. Len(c) : d[k] = c[k]
        /\ d[Len(c) + 1] = p
        /\ \A q : (\E k \in 1 .. Len(d) : d[k] = q)
                    <=> q = p \/ \E k \in 1 .. Len(c) : c[k] = q
    <2>1. c \in Seq(PageIds \ InitialPages) /\ Distinct(c)
      BY <1>1, <1>2
    <2>2. Longer(PageIds \ InitialPages, c, p, d)
      BY <1>7, <2>1, LongerFacts
    <2> HIDE DEF c
    <2> QED
      BY <2>2 DEF Longer
  <1>9. TablesApart'
    <2>1. Indices' = Indices
      BY <1>5 DEF Indices
    <2>2. \A j \in Indices : sets[j].tablePageID # last /\ sets[j].tablePageID # p
      BY <1>1, <1>2, <1>4 DEF Chains
    <2>3. \A q \in InitialPages : q # last /\ q # p
      BY <1>1, <1>2, <1>4
    <2>4. \A q \in InitialPages : page'[q].owner = 0 /\ page'[q].next = 0
      BY <1>2, <1>4, <2>3 DEF TablesApart
    <2>5. \A j \in Indices : /\ page'[sets[j].tablePageID].owner = 0
                             /\ page'[sets[j].tablePageID].next = 0
      BY <1>2, <1>4, <2>2 DEF TablesApart
    <2>6. /\ \A j, k \in Indices : sets[j].tablePageID = sets[k].tablePageID => j = k
          /\ \A j \in Indices : sets[j].tablePageID \notin InitialPages
      BY DEF TablesApart
    <2> QED
      BY <1>5, <2>1, <2>4, <2>5, <2>6 DEF TablesApart
  <1>10. IsChain(i, d)'
    <2>1. sets'[i].tablePageID = meta /\ meta # p
      BY <1>1, <1>2, <1>4, <1>5
    <2>2. sets'[i].firstDataPageID = Head0(d) /\ page'[meta].first = Head0(d)
      <3>1. /\ sets[i].firstDataPageID = Head0(c)
            /\ page[meta].first = Head0(c)
        BY <1>1, <1>6 DEF IsChain
      <3>2. Head0(d) = IF Len(c) = 0 THEN p ELSE Head0(c)
        BY <1>8 DEF Head0
      <3> QED
        BY <1>1, <1>3, <1>4, <1>5, <2>1, <3>1, <3>2
    <2>3. ASSUME NEW k \in 1 .. Len(d)
          PROVE  /\ page'[d[k]].next = After(d, k)
                 /\ page'[d[k]].owner = meta
                 /\ page'[d[k]].count > 0
      <3>1. CASE k = Len(c) + 1
        BY <1>4, <1>8, <3>1 DEF After
      <3>2. CASE k # Len(c) + 1
        <4>1. k \in 1 .. Len(c) /\ d[k] = c[k] /\ c[k] \in PageIds \ {p}
          BY <1>1, <1>2, <1>7, <1>8, <3>2
        <4>2. /\ page[c[k]].next = After(c, k) /\ page[c[k]].owner = meta
              /\ page[c[k]].count > 0
          BY <1>1, <1>6, <4>1 DEF IsChain
        <4>3. c[k] = last <=> k = Len(c)
          BY <1>6, <1>8, <4>1 DEF IsChain, Distinct
        <4>4. page'[c[k]].next = After(d, k)
          BY <1>3, <1>4, <1>8, <4>1, <4>2, <4>3 DEF After
        <4> QED
          BY <1>4, <4>1, <4>2, <4>4
      <3> QED
        BY <3>1, <3>2
    <2>4. ASSUME NEW k \in 2 .. Len(d)
          PROVE  page'[d[k]].prev = d[k - 1]
      <3>1. CASE k = Len(c) + 1
        <4>1. Len(c) \in 1 .. Len(c) /\ k - 1 = Len(c)
          BY <1>8, <3>1
        <4> QED
          BY <1>4, <1>8, <3>1, <4>1
      <3>2. CASE k # Len(c) + 1
        <4>1. k \in 2 .. Len(c) /\ k \in 1 .. Len(c) /\ k - 1 \in 1 .. Len(c)
          BY <1>8, <3>2
        <4>2. d[k] = c[k] /\ d[k - 1] = c[k - 1] /\ c[k] \in PageIds \ {p}
          BY <1>1, <1>2, <1>7, <1>8, <4>1
        <4>3. page[c[k]].prev = c[k - 1]
          BY <1>6, <4>1 DEF IsChain
        <4> QED
          BY <1>4, <4>2, <4>3
      <3> QED
        BY <3>1, <3>2
    <2>5. /\ sets'[i].firstDataPageID = Head0(d)
          /\ page'[sets'[i].tablePageID].first = Head0(d)
          /\ \A k \in 1 .. Len(d) :
                /\ page'[d[k]].next = After(d, k)
                /\ page'[d[k]].owner = sets'[i].tablePageID
                /\ page'[d[k]].count > 0
      BY <2>1, <2>2, <2>3
    <2> QED
      BY <1>8, <2>4, <2>5, Zenon DEF IsChain
  <1>11. OthersKept(ch, i)
    <2> SUFFICES ASSUME NEW j \in Indices \ {i}
          PROVE /\ sets'[j].firstDataPageID = sets[j].firstDataPageID
                /\ page'[sets[j].tablePageID].first = page[sets[j].tablePageID].first
                /\ \A k \in 1 .. Len(ch[j]) :
                    /\ page'[ch[j][k]].prev = page[ch[j][k]].prev
                    /\ page'[ch[j][k]].next = page[ch[j][k]].next
                    /\ page'[ch[j][k]].owner = page[ch[j][k]].owner
                    /\ page'[ch[j][k]].count > 0
      BY <1>5 DEF OthersKept
    <2>2. sets[j].tablePageID # meta /\ sets[j].tablePageID \in PageIds \ {p}
      BY <1>1, <1>2, <1>4 DEF TablesApart
    <2>3. ASSUME NEW k \in 1 .. Len(ch[j])
          PROVE  /\ ch[j][k] \in PageIds \ {p} /\ ch[j][k] # last
                 /\ page[ch[j][k]].count > 0
      <3>1. ch[j][k] \in PageIds \ {p}
        BY <1>2, <1>4
      <3>2. ch[j][k] # last
        BY <1>1, <1>2, <3>1 DEF Chains
      <3>3. IsChain(j, ch[j])
        BY DEF Chains
      <3> QED
        BY <3>1, <3>2, <3>3 DEF IsChain
    <2> QED
      BY <1>4, <1>5, <2>2, <2>3
  <1>12. \A k \in 1 .. Len(d) : \/ d[k] \in PageIds /\ d[k] \notin used
                                \/ \E l \in 1 .. Len(c) : c[l] = d[k]
    BY <1>4, <1>8
  <1>13. ASSUME NEW q \in PageIds
         PROVE  q \in used' <=> \/ q \in used /\ ~ \E l \in 1 .. Len(c) : c[l] = q
                                \/ \E k \in 1 .. Len(d) : d[k] = q
    <2>1. \A l \in 1 .. Len(c) : c[l] \in used
      BY <1>1, <1>2
    <2> QED
      BY <1>4, <1>8, <2>1
  <1>14. Exchanged(c, d)
    BY <1>12, <1>13 DEF Exchanged
  <1>15. \E new : Chains(new)'
    BY <1>1, <1>10, <1>11, <1>14, ChainReplaced
  <1> QED
    BY <1>9, <1>15

LEMMA ChainsAfterInsert ==
    ASSUME Shapes, Directory, TablesApart, NEW ch, Chains(ch),
           NEW n \in Names, Exists(n), CanInsert(n), NEW v \in Values, Insert(n, v)
    PROVE  TablesApart' /\ \E new : Chains(new)'
  <1> DEFINE i == IndexOf(n)
  <1> PICK c : c = ch[i]
    OBVIOUS
  <1>1. PICK k \in 1 .. MaxPageNum :
              /\ \A j \in 1 .. k - 1 : ~IsStop(Path(n)[j])
              /\ \/ Path(n)[k] # NoPage /\ HasRoom(Path(n)[k])
                    /\ InsertInto(n, Path(n)[k], v)
                 \/ Path(n)[k] = NoPage
                    /\ AppendPage(n, IF k = 1 THEN NoPage ELSE Path(n)[k - 1], v)
    BY InsertFacts
  <1>2. \A j \in 1 .. MaxPageNum : Path(n)[j] \in Words0
    BY PathType
  <1>3. CASE HasRoom(Path(n)[k]) /\ InsertInto(n, Path(n)[k], v)
    <2>1. used' = used /\ sets' = sets
      BY <1>3 DEF InsertInto
    <2>2. \A q \in PageIds :
             /\ page'[q].prev = page[q].prev /\ page'[q].next = page[q].next
             /\ page'[q].owner = page[q].owner
             /\ page'[q].first = page[q].first
             /\ page'[q].count >= page[q].count
             /\ Counted(page'[q])
             /\ page' \in [PageIds -> Words]
      BY <1>2, <1>3, InsertIntoFacts
    <2>3. \A q \in PageIds : page[q].count \in Nat /\ page'[q].count \in Nat
      BY <2>2, SlotsFacts DEF Shapes, Words
    <2>4. \A q \in PageIds : page[q].count > 0 => page'[q].count > 0
      BY <2>2, <2>3
    <2>5. TablesApart' /\ Chains(ch)'
      BY <2>1, <2>2, <2>4, LinksKept
    <2> QED
      BY <2>5
  <1>4. CASE Path(n)[k] = NoPage
             /\ AppendPage(n, IF k = 1 THEN NoPage ELSE Path(n)[k - 1], v)
    <2>1. /\ \A j \in 1 .. MaxPageNum :
                Path(n)[j] = IF j <= Len(c) THEN c[j] ELSE NoPage
          /\ Len(c) \in Nat /\ Len(c) < MaxPageNum
      BY PathOfChain
    <2>2. NoPage \notin PageIds /\ \A j \in 1 .. Len(c) : c[j] \in PageIds
      BY SetFacts, ChainsFacts
    <2>3. k = Len(c) + 1
      <3>1. k > Len(c)
        <4>1. k \in Nat /\ Path(n)[k] = NoPage
          BY <1>4
        <4>2. k <= Len(c) => k \in 1 .. Len(c) /\ Path(n)[k] = c[k]
          BY <2>1, <4>1
        <4> QED
          BY <2>1, <2>2, <4>1, <4>2
      <3>2. ASSUME k > Len(c) + 1 PROVE FALSE
        <4>1. k - 1 \in 1 .. k - 1 /\ k - 1 \in 1 .. MaxPageNum /\ k - 1 > Len(c)
          BY <2>1, <3>2, MaxPageNumAssumption
        <4>2. Path(n)[k - 1] = NoPage
          BY <2>1, <4>1
        <4> QED
          BY <1>1, <4>1, <4>2 DEF IsStop
      <3> QED
        BY <2>1, <3>1, <3>2
    <2> DEFINE last == IF Len(c) = 0 THEN NoPage ELSE c[Len(c)]
    <2>4. (IF k = 1 THEN NoPage ELSE Path(n)[k - 1]) = last
      <3>1. CASE k = 1
        BY <2>1, <2>3, <3>1
      <3>2. CASE k # 1
        <4>1. k - 1 = Len(c) /\ Len(c) # 0 /\ k - 1 \in 1 .. MaxPageNum
          BY <2>1, <2>3, <3>2, MaxPageNumAssumption
        <4>2. Path(n)[k - 1] = c[Len(c)]
          BY <2>1, <4>1
        <4> QED
          BY <3>2, <4>1, <4>2
      <3> QED
        BY <3>1, <3>2
    <2>5. AppendPage(n, last, v)
      BY <1>4, <2>4
    <2> QED
      BY <2>5, ChainsAfterAppend
  <1> QED
    BY <1>1, <1>3, <1>4

\* What is left of a chain on either side of the page that leaves it.
Beside(c, j, d) ==
    /\ \A k \in 1 .. Len(d) :
          /\ k < j - 1 => /\ k \in 1 .. Len(c) /\ d[k] = c[k] /\ k # j - 1
                          /\ After(d, k) = After(c, k)
          /\ k > j - 1 => /\ k + 1 \in 1 .. Len(c) /\ d[k] = c[k + 1]
                          /\ k + 1 # j - 1
                          /\ After(d, k) = After(c, k + 1)
    /\ \A k \in 2 .. Len(d) :
          /\ k = j => /\ d[k] = c[j + 1] /\ d[k - 1] = c[j - 1]
                      /\ j + 1 \in 1 .. Len(c)
          /\ k # j => \E q \in 2 .. Len(c) :
                         d[k] = c[q] /\ d[k - 1] = c[q - 1] /\ q # j + 1

LEMMA BesideTheGap ==
    ASSUME NEW S, NEW c, NEW d, NEW j, Shorter(S, c, j, d),
           Len(c) \in Nat, j \in 2 .. Len(c)
    PROVE  Beside(c, j, d)
  <1>1. \A m \in Nat : \A x \in 2 .. m : \A k \in 1 .. m - 1 :
           /\ k < x - 1 => k \in 1 .. m /\ k < x /\ k # x - 1
           /\ k > x - 1 => k + 1 \in 1 .. m /\ ~(k < x) /\ ~(k < x - 1) /\ k + 1 # x - 1
    OBVIOUS
  <1>2. \A m \in Nat : \A x \in 2 .. m : \A k \in 2 .. m - 1 :
           /\ k \in 1 .. m - 1
           /\ k = x => ~(k < x) /\ k <= x /\ x + 1 \in 1 .. m
           /\ k < x => k \in 2 .. m /\ k <= x /\ k # x + 1
           /\ k > x => k + 1 \in 2 .. m /\ ~(k < x) /\ ~(k <= x) /\ k + 1 # x + 1
                       /\ (k + 1) - 1 = k
           /\ k # x => k < x \/ k > x
    OBVIOUS
  <1>3. /\ Len(d) = Len(c) - 1
        /\ \A k \in 1 .. Len(d) :
              /\ d[k] = IF k < j THEN c[k] ELSE c[k + 1]
              /\ After(d, k) = IF k < j - 1 THEN After(c, k) ELSE After(c, k + 1)
        /\ \A k \in 2 .. Len(d) : d[k - 1] = IF k <= j THEN c[k - 1] ELSE c[k]
    BY DEF Shorter
  <1>4. ASSUME NEW k \in 1 .. Len(d)
        PROVE  /\ k < j - 1 => /\ k \in 1 .. Len(c) /\ d[k] = c[k] /\ k # j - 1
                               /\ After(d, k) = After(c, k)
               /\ k > j - 1 => /\ k + 1 \in 1 .. Len(c) /\ d[k] = c[k + 1]
                               /\ k + 1 # j - 1
                               /\ After(d, k) = After(c, k + 1)
    <2>1. /\ k < j - 1 => k \in 1 .. Len(c) /\ k < j /\ k # j - 1
          /\ k > j - 1 => k + 1 \in 1 .. Len(c) /\ ~(k < j) /\ ~(k < j - 1) /\ k + 1 # j - 1
      BY <1>1, <1>3
    <2> QED
      BY <1>3, <2>1, Zenon
  <1>5. ASSUME NEW k \in 2 .. Len(d)
        PROVE  /\ k = j => /\ d[k] = c[j + 1] /\ d[k - 1] = c[j - 1]
                           /\ j + 1 \in 1 .. Len(c)
               /\ k # j => \E q \in 2 .. Len(c) :
                              d[k] = c[q] /\ d[k - 1] = c[q - 1] /\ q # j + 1
    <2>1. /\ k \in 1 .. Len(d)
          /\ k = j => ~(k < j) /\ k <= j /\ j + 1 \in 1 .. Len(c)
          /\ k < j => k \in 2 .. Len(c) /\ k <= j /\ k # j + 1
          /\ k > j => k + 1 \in 2 .. Len(c) /\ ~(k < j) /\ ~(k <= j) /\ k + 1 # j + 1
                      /\ (k + 1) - 1 = k
          /\ k # j => k < j \/ k > j
      BY <1>2, <1>3
    <2>2. /\ d[k] = IF k < j THEN c[k] ELSE c[k + 1]
          /\ d[k - 1] = IF k <= j THEN c[k - 1] ELSE c[k]
      BY <1>3, <2>1, Zenon
    <2>3. CASE k = j
      BY <2>1, <2>2, <2>3, Zenon
    <2>4. CASE k < j
      BY <2>1, <2>2, <2>4, Zenon
    <2>5. CASE k > j
      <3>1. d[k] = c[k + 1] /\ d[k - 1] = c[(k + 1) - 1] /\ k # j
        BY <2>1, <2>2, <2>5
      <3> QED
        BY <2>1, <2>5, <3>1, Zenon
    <2> QED
      BY <2>1, <2>3, <2>4, <2>5, Zenon
  <1> QED
    BY <1>4, <1>5, Zenon DEF Beside

\* A page that leaves its chain.  Through a prev pointer that is not stale, it
\* is the page before it that is linked to the page after it.
LEMMA ChainsAfterRemove ==
    ASSUME Shapes, Directory, TablesApart, NEW ch, Chains(ch),
           NEW n \in Names, Exists(n), NEW r \in Scanned(n), Remove(n, r), ~damaged'
    PROVE  TablesApart' /\ \E new : Chains(new)'
  <1> DEFINE p == r[1]
             meta == Set(n).tablePageID
             last == page[p].prev
             next == page[p].next
  <1> PICK i : i = IndexOf(n)
    OBVIOUS
  <1> PICK c : c = ch[i]
    OBVIOUS
  <1>0. i \in Indices /\ meta = sets[i].tablePageID /\ meta \in PageIds
    BY SetFacts
  <1>1. Removed(n, r, p, meta, last, next)
    BY RemoveFacts
  <1>2. /\ InitialPages \subseteq PageIds /\ NoPage \notin PageIds
        /\ \A j \in Indices :
              /\ sets[j].tablePageID \in PageIds /\ sets[j].tablePageID \in used
              /\ ch[j] \in Seq(PageIds \ InitialPages) /\ Distinct(ch[j])
              /\ Len(ch[j]) \in Nat
              /\ \A k \in 1 .. Len(ch[j]) : /\ ch[j][k] \in PageIds \ InitialPages
                                            /\ ch[j][k] \in used
        /\ \A q \in InitialPages : q \in used
    BY ChainsFacts
  <1>3. PICK j \in 1 .. Len(c) : c[j] = p
    <2>1. p \in DataPages(n)
      BY ScannedFacts
    <2> QED
      BY <2>1, PathOfChain
  <1>4. /\ IsChain(i, c) /\ c \in Seq(PageIds \ InitialPages) /\ Distinct(c)
        /\ Len(c) \in Nat
    BY <1>0, <1>2 DEF Chains
  <1>5. next = After(c, j) /\ (j \in 2 .. Len(c) => last = c[j - 1])
    BY <1>3, <1>4 DEF IsChain
  <1>6. p \in PageIds /\ p # 0 /\ p # NoPage /\ p # meta
    BY <1>0, <1>2, <1>3 DEF InitialPages, Chains
  <1> HIDE DEF p, meta, last, next
  <1>7. CASE page'[p].count > 0 /\ used' = used /\ sets' = sets
             /\ \A q \in PageIds :
                   /\ page'[q].prev = page[q].prev
                   /\ page'[q].next = page[q].next
                   /\ page'[q].first = page[q].first
    <2>1. \A q \in PageIds : page'[q].owner = page[q].owner
                             /\ (q # p => page'[q].count = page[q].count)
      BY <1>1, Zenon DEF Removed
    <2>2. TablesApart' /\ Chains(ch)'
      BY <1>7, <2>1, LinksKept
    <2> QED
      BY <2>2
  <1> PICK d : d = Without(c, j)
    OBVIOUS
  <1>8. /\ d \in Seq(PageIds \ InitialPages) /\ Len(d) = Len(c) - 1 /\ Distinct(d)
        /\ \A k \in 1 .. Len(d) :
              /\ d[k] = IF k < j THEN c[k] ELSE c[k + 1]
              /\ After(d, k) = IF k < j - 1 THEN After(c, k) ELSE After(c, k + 1)
        /\ \A k \in 2 .. Len(d) : d[k - 1] = IF k <= j THEN c[k - 1] ELSE c[k]
        /\ \A q : (\E k \in 1 .. Len(d) : d[k] = q)
                    <=> q # c[j] /\ \E k \in 1 .. Len(c) : c[k] = q
    <2>1. Shorter(PageIds \ InitialPages, c, j, d)
      BY <1>3, <1>4, WithoutFacts
    <2> QED
      BY <2>1 DEF Shorter
  <1>9. ASSUME used' = used \ {p}
        PROVE  Exchanged(c, d)
    <2>1. \A l \in 1 .. Len(c) : c[l] \in used
      BY <1>0, <1>2
    <2>2. ASSUME NEW q \in PageIds
          PROVE  q \in used' <=> \/ q \in used /\ ~ \E l \in 1 .. Len(c) : c[l] = q
                                 \/ \E k \in 1 .. Len(d) : d[k] = q
      <3>1. (\E k \in 1 .. Len(d) : d[k] = q) <=> q # p /\ \E k \in 1 .. Len(c) : c[k] = q
        BY <1>3, <1>8
      <3>2. q \in used' <=> q \in used /\ q # p
        BY <1>9
      <3> QED
        BY <1>3, <2>1, <3>1, <3>2
    <2>3. \A k \in 1 .. Len(d) : \E l \in 1 .. Len(c) : c[l] = d[k]
      BY <1>8
    <2> QED
      BY <2>2, <2>3 DEF Exchanged
  \* What the two ways to unlink the page have in common.
  <1>10. ASSUME used' = used \ {p}, Len(sets') = Len(sets),
                \A k \in Indices : sets'[k].tablePageID = sets[k].tablePageID,
                \A k \in Indices \ {i} :
                   /\ sets'[k].firstDataPageID = sets[k].firstDataPageID
                   /\ page'[sets[k].tablePageID].first = page[sets[k].tablePageID].first,
                \A k \in Indices \ {i} : \A l \in 1 .. Len(ch[k]) :
                   /\ page'[ch[k][l]].prev = page[ch[k][l]].prev
                   /\ page'[ch[k][l]].next = page[ch[k][l]].next,
                \A q \in PageIds :
                   (\A l \in 1 .. Len(c) : q # c[l]) => page'[q].next = page[q].next,
                sets'[i].firstDataPageID = Head0(d), page'[meta].first = Head0(d),
                \A k \in 1 .. Len(d) : page'[d[k]].next = After(d, k),
                \A k \in 2 .. Len(d) : page'[d[k]].prev = d[k - 1]
         PROVE  TablesApart' /\ \E new : Chains(new)'
    <2>1. \A q \in PageIds : page'[q].owner = page[q].owner
                             /\ (q # p => page'[q].count = page[q].count)
      BY <1>1, Zenon DEF Removed
    <2>2. OthersKept(ch, i)
      <3>1. ASSUME NEW k \in Indices \ {i}, NEW l \in 1 .. Len(ch[k])
            PROVE  page'[ch[k][l]].owner = page[ch[k][l]].owner
                   /\ page'[ch[k][l]].count > 0
        <4>1. ch[k][l] \in PageIds /\ ch[k][l] # p
          BY <1>0, <1>2, <1>3 DEF Chains
        <4>2. page[ch[k][l]].count > 0
          BY DEF Chains, IsChain
        <4> QED
          BY <2>1, <4>1, <4>2
      <3> QED
        BY <1>10, <3>1 DEF OthersKept
    <2>3. IsChain(i, d)'
      <3>1. ASSUME NEW k \in 1 .. Len(d)
            PROVE  page'[d[k]].owner = sets'[i].tablePageID /\ page'[d[k]].count > 0
        <4>1. PICK l \in 1 .. Len(c) : d[k] = c[l] /\ c[l] # p
          <5>1. d[k] # c[j] /\ \E l \in 1 .. Len(c) : c[l] = d[k]
            BY <1>8
          <5> QED
            BY <1>3, <5>1
        <4>2. page[c[l]].owner = sets[i].tablePageID /\ page[c[l]].count > 0
              /\ c[l] \in PageIds
          BY <1>0, <1>2, <1>4 DEF IsChain
        <4> QED
          BY <1>0, <1>10, <2>1, <4>1, <4>2
      <3>2. sets'[i].tablePageID = meta
        BY <1>0, <1>10
      <3>3. /\ page'[sets'[i].tablePageID].first = Head0(d)
            /\ \A k \in 1 .. Len(d) :
                  /\ page'[d[k]].next = After(d, k)
                  /\ page'[d[k]].owner = sets'[i].tablePageID
                  /\ page'[d[k]].count > 0
        BY <1>10, <3>1, <3>2
      <3> QED
        BY <1>8, <1>10, <3>3, Zenon DEF IsChain
    <2>4. Exchanged(c, d)
      BY <1>9, <1>10
    <2>5. \E new : Chains(new)'
      BY <1>0, <2>2, <2>3, <2>4, ChainReplaced
    <2>6. TablesApart'
      <3>1. Indices' = Indices
        BY <1>10 DEF Indices
      <3>2. \A q \in InitialPages : page'[q].owner = 0 /\ page'[q].next = 0
        BY <1>0, <1>2, <1>10, <2>1 DEF TablesApart
      <3>3. \A k \in Indices : /\ page'[sets[k].tablePageID].owner = 0
                               /\ page'[sets[k].tablePageID].next = 0
        BY <1>0, <1>2, <1>10, <2>1 DEF TablesApart, Chains
      <3>4. /\ \A k, l \in Indices : sets[k].tablePageID = sets[l].tablePageID => k = l
            /\ \A k \in Indices : sets[k].tablePageID \notin InitialPages
        BY DEF TablesApart
      <3> QED
        BY <1>10, <3>1, <3>2, <3>3, <3>4 DEF TablesApart
    <2> QED
      BY <2>5, <2>6
  <1>11. CASE /\ last = NoPage
              /\ used' = used \ {p}
              /\ sets' = WithFirst(sets, IndexOf(n), next)
              /\ \A q \in PageIds :
                    /\ q # meta => page'[q].prev = page[q].prev
                    /\ page'[q].next = page[q].next
                    /\ page'[q].first = IF q = meta THEN next ELSE page[q].first
    <2>1. j = 1
      <3>1. j \in 2 .. Len(c) => c[j - 1] \in PageIds
        BY <1>0, <1>2
      <3> QED
        BY <1>2, <1>4, <1>5, <1>11, <3>1
    <2>2. next \in Words0 /\ dir' = dir
      BY <1>1, Zenon DEF Removed
    <2>3. /\ Len(sets') = Len(sets)
          /\ \A k \in Indices :
                /\ sets'[k].tablePageID = sets[k].tablePageID
                /\ sets'[k].firstDataPageID =
                      IF k = i THEN next ELSE sets[k].firstDataPageID
      BY <1>11, <2>2, FirstPageSet
    <2>4. \A k \in 1 .. Len(d) : d[k] = c[k + 1] /\ k + 1 \in 2 .. Len(c)
      BY <1>4, <1>8, <2>1
    <2>5. Head0(d) = next
      <3>1. CASE Len(c) = 1
        BY <1>5, <1>8, <2>1, <3>1 DEF Head0, After
      <3>2. CASE Len(c) # 1
        <4>0. Len(d) = Len(c) - 1 /\ Len(c) \in Nat \ {0}
          BY <1>3, <1>4, <1>8
        <4>1. 1 \in 1 .. Len(d) /\ Len(d) # 0 /\ 1 < Len(c)
          <5>1. \A x \in Nat \ {0} : x # 1 => 1 \in 1 .. x - 1 /\ x - 1 # 0 /\ 1 < x
            OBVIOUS
          <5> QED
            BY <3>2, <4>0, <5>1, Zenon
        <4>2. d[1] = c[1 + 1]
          BY <2>4, <4>1
        <4> QED
          BY <1>5, <2>1, <4>1, <4>2 DEF Head0, After
      <3> QED
        BY <3>1, <3>2
    <2>6. ASSUME NEW k \in 1 .. Len(d)
          PROVE  page'[d[k]].next = After(d, k)
      <3>1. /\ page[c[k + 1]].next = After(c, k + 1) /\ c[k + 1] \in PageIds
            /\ k + 1 \in 1 .. Len(c)
        BY <1>0, <1>2, <1>4, <2>4 DEF IsChain
      <3>2. After(d, k) = After(c, k + 1)
        BY <1>4, <1>8, <2>4 DEF After
      <3> QED
        BY <1>11, <2>4, <3>1, <3>2
    <2>7. ASSUME NEW k \in 2 .. Len(d)
          PROVE  page'[d[k]].prev = d[k - 1]
      <3>1. k \in 1 .. Len(d) /\ k - 1 \in 1 .. Len(d) /\ k - 1 + 1 = k
        BY <1>4, <1>8
      <3>2. d[k] = c[k + 1] /\ d[k - 1] = c[k] /\ k + 1 \in 2 .. Len(c)
            /\ k + 1 \in 1 .. Len(c) /\ k + 1 - 1 = k
        BY <1>4, <2>4, <3>1
      <3>3. page[c[k + 1]].prev = c[k] /\ c[k + 1] \in PageIds /\ c[k + 1] # meta
        <4>1. page[c[k + 1]].prev = c[k + 1 - 1]
          BY <1>4, <3>2 DEF IsChain
        <4> QED
          BY <1>0, <1>2, <3>2, <4>1 DEF Chains
      <3> QED
        BY <1>11, <3>2, <3>3
    <2>8. \A k \in Indices \ {i} :
             page'[sets[k].tablePageID].first = page[sets[k].tablePageID].first
      BY <1>0, <1>2, <1>11 DEF TablesApart
    <2>9. \A k \in Indices \ {i} : \A l \in 1 .. Len(ch[k]) :
                   /\ page'[ch[k][l]].prev = page[ch[k][l]].prev
                   /\ page'[ch[k][l]].next = page[ch[k][l]].next
      BY <1>0, <1>2, <1>11 DEF Chains
    <2>10. sets'[i].firstDataPageID = Head0(d) /\ page'[meta].first = Head0(d)
      BY <1>0, <1>11, <2>3, <2>5
    <2> QED
      BY <1>10, <1>11, <2>3, <2>6, <2>7, <2>8, <2>9, <2>10
  <1>12. CASE /\ last # NoPage
              /\ used' = used \ {p} /\ sets' = sets
              /\ damaged' = (damaged \/ last \notin used \/ page[last].next # p)
              /\ \A q \in PageIds :
                    /\ page'[q].prev = IF next # NoPage /\ q = next THEN last
                                       ELSE page[q].prev
                    /\ page'[q].next = IF q = last THEN next ELSE page[q].next
                    /\ page'[q].first = page[q].first
    <2>1. last \in used /\ page[last].next = p /\ last \in PageIds
      BY <1>12 DEF Shapes
    \* Only the page before it can point to it.
    <2>2. j \in 2 .. Len(c) /\ last = c[j - 1]
      <3>0. PICK k \in Indices : \E l \in 1 .. Len(ch[k]) : last = ch[k][l]
        <4>1. last \notin InitialPages
          BY <1>6, <2>1 DEF TablesApart
        <4>2. \A m \in Indices : last # sets[m].tablePageID
          BY <1>6, <2>1 DEF TablesApart
        <4> QED
          BY <2>1, <4>1, <4>2 DEF Chains
      <3>1. PICK l \in 1 .. Len(ch[k]) : last = ch[k][l]
        BY <3>0
      <3>2. p = After(ch[k], l)
        BY <2>1, <3>1 DEF Chains, IsChain
      <3>3. l + 1 \in 1 .. Len(ch[k]) /\ p = ch[k][l + 1]
        BY <1>2, <1>6, <3>1, <3>2 DEF After
      <3>4. k = i
        BY <1>0, <1>3, <3>1, <3>3 DEF Chains
      <3>5. j = l + 1
        BY <1>3, <1>4, <3>3, <3>4 DEF Distinct
      <3>6. j \in 2 .. Len(c)
        BY <1>4, <3>1, <3>4, <3>5
      <3> QED
        BY <1>5, <3>6
    <2>3. c[j - 1] \in PageIds /\ j - 1 \in 1 .. Len(c) /\ j - 1 \in 1 .. Len(d)
      BY <1>0, <1>2, <1>4, <1>8, <2>2
    <2>4. Head0(d) = Head0(c)
      BY <1>4, <1>8, <2>2 DEF Head0
    <2>5. sets[i].firstDataPageID = Head0(c) /\ page[meta].first = Head0(c)
      BY <1>0, <1>4 DEF IsChain
    <2>11. /\ \A k \in 1 .. Len(d) :
                /\ k < j - 1 => /\ k \in 1 .. Len(c) /\ d[k] = c[k] /\ k # j - 1
                                /\ After(d, k) = After(c, k)
                /\ k > j - 1 => /\ k + 1 \in 1 .. Len(c) /\ d[k] = c[k + 1]
                                /\ k + 1 # j - 1
                                /\ After(d, k) = After(c, k + 1)
          /\ \A k \in 2 .. Len(d) :
                /\ k = j => /\ d[k] = c[j + 1] /\ d[k - 1] = c[j - 1]
                            /\ j + 1 \in 1 .. Len(c)
                /\ k # j => \E q \in 2 .. Len(c) :
                               d[k] = c[q] /\ d[k - 1] = c[q - 1] /\ q # j + 1
      <3>1. Shorter(PageIds \ InitialPages, c, j, d)
        BY <1>3, <1>4, WithoutFacts
      <3>2. Len(c) \in Nat /\ j \in 2 .. Len(c)
        BY <1>4, <2>2
      <3>3. Beside(c, j, d)
        BY <3>1, <3>2, BesideTheGap
      <3> QED
        BY <3>3, Zenon DEF Beside
    <2>6. ASSUME NEW k \in 1 .. Len(d)
          PROVE  page'[d[k]].next = After(d, k)
      <3>1. CASE k = j - 1
        <4>1. d[k] = last /\ last \in PageIds
          BY <1>8, <2>2, <2>3, <3>1
        <4>2. After(d, k) = After(c, j)
          BY <1>4, <1>8, <2>2, <3>1 DEF After
        <4> QED
          BY <1>5, <1>12, <4>1, <4>2
      <3>2. CASE k < j - 1
        <4>1. /\ d[k] = c[k] /\ k \in 1 .. Len(c) /\ k # j - 1
              /\ After(d, k) = After(c, k)
          BY <2>11, <3>2, Zenon
        <4>2. c[k] # last
          BY <1>4, <2>2, <2>3, <4>1, Zenon DEF Distinct
        <4>3. c[k] \in PageIds
          BY <1>0, <1>2, <4>1
        <4>4. page[c[k]].next = After(c, k)
          BY <1>4, <4>1 DEF IsChain
        <4> QED
          BY <1>12, <4>1, <4>2, <4>3, <4>4
      <3>3. CASE k > j - 1
        <4>1. /\ d[k] = c[k + 1] /\ k + 1 \in 1 .. Len(c) /\ k + 1 # j - 1
              /\ After(d, k) = After(c, k + 1)
          BY <2>11, <3>3, Zenon
        <4>2. c[k + 1] # last
          BY <1>4, <2>2, <2>3, <4>1, Zenon DEF Distinct
        <4>3. c[k + 1] \in PageIds
          BY <1>0, <1>2, <4>1
        <4>4. page[c[k + 1]].next = After(c, k + 1)
          BY <1>4, <4>1 DEF IsChain
        <4> QED
          BY <1>12, <4>1, <4>2, <4>3, <4>4
      <3> QED
        BY <2>3, <3>1, <3>2, <3>3
    <2>7. ASSUME NEW k \in 2 .. Len(d)
          PROVE  page'[d[k]].prev = d[k - 1]
      <3>1. CASE k = j
        <4>1. d[k] = c[j + 1] /\ d[k - 1] = c[j - 1] /\ j + 1 \in 1 .. Len(c)
          BY <2>11, <3>1, Zenon
        <4>2. next = c[j + 1] /\ c[j + 1] \in PageIds /\ next # NoPage
          BY <1>0, <1>2, <1>4, <1>5, <4>1 DEF After
        <4> QED
          BY <1>12, <2>2, <4>1, <4>2
      <3>2. CASE k # j
        <4>1. PICK m \in 2 .. Len(c) : /\ d[k] = c[m] /\ d[k - 1] = c[m - 1]
                                       /\ m # j + 1
          BY <2>11, <3>2, Zenon
        <4>2. page[c[m]].prev = c[m - 1] /\ m \in 1 .. Len(c)
          BY <1>4 DEF IsChain
        <4>3. c[m] \in PageIds
          BY <1>0, <1>2, <4>2
        <4>4. next # NoPage => c[m] # next
          BY <1>4, <1>5, <4>1, <4>2 DEF After, Distinct
        <4> QED
          BY <1>12, <4>1, <4>2, <4>3, <4>4
      <3> QED
        BY <3>1, <3>2
    <2>8. \A k \in Indices \ {i} : \A l \in 1 .. Len(ch[k]) :
                   /\ page'[ch[k][l]].prev = page[ch[k][l]].prev
                   /\ page'[ch[k][l]].next = page[ch[k][l]].next
      <3> SUFFICES ASSUME NEW k \in Indices \ {i}, NEW l \in 1 .. Len(ch[k])
                   PROVE  /\ page'[ch[k][l]].prev = page[ch[k][l]].prev
                          /\ page'[ch[k][l]].next = page[ch[k][l]].next
        OBVIOUS
      <3>1. \A m \in 1 .. Len(c) : ch[k][l] # c[m]
        BY <1>0 DEF Chains
      <3>2. ch[k][l] # last
        BY <2>2, <2>3, <3>1
      <3>3. next # NoPage => ch[k][l] # next
        BY <1>3, <1>4, <1>5, <3>1 DEF After
      <3> QED
        BY <1>2, <1>12, <3>2, <3>3
    <2>9. \A q \in PageIds :
             (\A l \in 1 .. Len(c) : q # c[l]) => page'[q].next = page[q].next
      BY <1>12, <2>2, <2>3
    <2>10. /\ Len(sets') = Len(sets)
           /\ \A k \in Indices : sets'[k].tablePageID = sets[k].tablePageID
           /\ \A k \in Indices \ {i} :
                   /\ sets'[k].firstDataPageID = sets[k].firstDataPageID
                   /\ page'[sets[k].tablePageID].first = page[sets[k].tablePageID].first
           /\ sets'[i].firstDataPageID = Head0(d) /\ page'[meta].first = Head0(d)
      BY <1>0, <1>2, <1>12, <2>4, <2>5
    <2> QED
      BY <1>10, <1>12, <2>6, <2>7, <2>8, <2>9, <2>10
  <1> QED
    BY <1>1, <1>7, <1>11, <1>12, Zenon DEF Removed

LEMMA EmptyChain ==
    \A S : LET c == << >>
           IN  /\ c \in Seq(S) /\ Len(c) = 0 /\ Distinct(c) /\ Head0(c) = NoPage
               /\ 1 .. Len(c) = {} /\ 2 .. Len(c) = {}
  <1>1. ASSUME NEW S PROVE << >> \in Seq(S) /\ Len(<< >>) = 0
    BY EmptySeq
  <1>2. Len(<< >>) = 0
    BY <1>1
  <1>3. 1 .. Len(<< >>) = {} /\ 2 .. Len(<< >>) = {}
    BY <1>2
  <1>4. Distinct(<< >>) /\ Head0(<< >>) = NoPage
    BY <1>2, <1>3 DEF Distinct, Head0
  <1> QED
    BY <1>1, <1>2, <1>3, <1>4

\* A new set has an empty chain and a page that no other set uses.
LEMMA ChainsAfterCreate ==
    ASSUME Shapes, Directory, TablesApart, NEW ch, Chains(ch),
           NEW n \in Names, CreateSet(n)
    PROVE  TablesApart' /\ \E new : Chains(new)'
  <1> DEFINE p == NewPage(used)
             pg == [Zero EXCEPT !.first = NoPage]
             object == [name |-> n, tablePageID |-> p, id |-> Len(sets),
                        firstDataPageID |-> NoPage]
  <1> PICK m : m = Len(sets) + 1
    OBVIOUS
  <1> PICK new : new = [j \in 1 .. m |-> IF j = m THEN << >> ELSE ch[j]]
    OBVIOUS
  <1>1. /\ used' = used \cup {p} /\ page' = [page EXCEPT ![p] = pg]
        /\ sets' = Append(sets, object)
        /\ Len(sets) < MaxTableCount /\ HasFreePage(used)
    BY DEF CreateSet
  <1>2. p \in PageIds /\ p \notin used
    BY <1>1, NewPageFacts DEF Shapes
  <1>3. /\ InitialPages \subseteq PageIds /\ NoPage \notin PageIds
        /\ \A j \in Indices :
              /\ sets[j].tablePageID \in PageIds /\ sets[j].tablePageID \in used
              /\ ch[j] \in Seq(PageIds \ InitialPages) /\ Distinct(ch[j])
              /\ Len(ch[j]) \in Nat
              /\ \A k \in 1 .. Len(ch[j]) : /\ ch[j][k] \in PageIds \ InitialPages
                                            /\ ch[j][k] \in used
        /\ \A q \in InitialPages : q \in used
    BY ChainsFacts
  <1>4. pg.owner = 0 /\ pg.next = 0 /\ pg.first = NoPage
    BY ZeroFacts DEF Words
  <1>5. /\ page'[p].owner = 0 /\ page'[p].next = 0 /\ page'[p].first = NoPage
        /\ \A q \in PageIds \ {p} : page'[q] = page[q]
    <2> HIDE DEF pg, p
    <2> QED
      BY <1>1, <1>2, <1>4 DEF Shapes
  <1>6. object.tablePageID = p /\ object.firstDataPageID = NoPage
    OBVIOUS
  <1> HIDE DEF p, pg, object
  <1>7. /\ Indices' = 1 .. m /\ Indices = 1 .. m - 1 /\ m \in Nat \ {0}
        /\ \A j \in 1 .. m - 1 : sets'[j] = sets[j]
        /\ sets'[m] = object
    BY <1>1, LenFacts DEF Indices
  <1>8. \A j \in Indices' : j \in Indices \/ j = m
    BY <1>7
  <1>9. m \notin Indices
    BY <1>7
  <1>10. /\ DOMAIN new = 1 .. m /\ new[m] = << >>
         /\ \A j \in Indices : new[j] = ch[j]
    BY <1>7
  <1>11. \A j \in Indices : /\ sets'[j] = sets[j] /\ sets[j].tablePageID # p
                            /\ page'[sets[j].tablePageID] = page[sets[j].tablePageID]
    BY <1>2, <1>3, <1>5, <1>7
  <1>12. \A j \in Indices : \A k \in 1 .. Len(ch[j]) :
            ch[j][k] # p /\ page'[ch[j][k]] = page[ch[j][k]]
    BY <1>2, <1>3, <1>5
  <1>13. TablesApart'
    <2>1. \A j, k \in Indices' : sets'[j].tablePageID = sets'[k].tablePageID => j = k
      BY <1>6, <1>7, <1>8, <1>11 DEF TablesApart
    <2>2. \A j \in Indices' : sets'[j].tablePageID \notin InitialPages
      BY <1>2, <1>3, <1>6, <1>7, <1>8, <1>11 DEF TablesApart
    <2>3. \A q \in InitialPages : page'[q].owner = 0 /\ page'[q].next = 0
      BY <1>2, <1>3, <1>5 DEF TablesApart
    <2>4. \A j \in Indices' : /\ page'[sets'[j].tablePageID].owner = 0
                              /\ page'[sets'[j].tablePageID].next = 0
      BY <1>5, <1>6, <1>7, <1>8, <1>11 DEF TablesApart
    <2> QED
      BY <2>1, <2>2, <2>3, <2>4, Zenon DEF TablesApart
  <1>14. ASSUME NEW j \in Indices' PROVE IsChain(j, new[j])'
    <2>1. CASE j = m
      <3> PICK c : c = new[j]
        OBVIOUS
      <3>0. c = << >>
        BY <1>10, <2>1
      <3>1. c \in Seq(PageIds \ InitialPages) /\ Len(c) = 0
        BY <3>0, EmptyChain, Zenon
      <3>2. Distinct(c) /\ Head0(c) = NoPage
        BY <3>0, EmptyChain, Zenon
      <3>3. /\ sets'[j].firstDataPageID = Head0(c)
            /\ page'[sets'[j].tablePageID].first = Head0(c)
        <4>1. sets'[j].firstDataPageID = NoPage /\ sets'[j].tablePageID = p
          BY <1>6, <1>7, <2>1
        <4>2. page'[p].first = NoPage
          BY <1>5
        <4> QED
          BY <3>2, <4>1, <4>2, Zenon
      <3>4. 1 .. Len(c) = {} /\ 2 .. Len(c) = {}
        BY <3>0, EmptyChain, Zenon
      <3>5. IsChain(j, c)'
        BY <3>1, <3>2, <3>3, <3>4 DEF IsChain
      <3> QED
        BY <3>5
    <2>2. CASE j # m
      <3> PICK c : c = ch[j]
        OBVIOUS
      <3>1. j \in Indices /\ IsChain(j, c)
        BY <1>8, <2>2 DEF Chains
      <3>2. \A k \in 1 .. Len(c) : page'[c[k]] = page[c[k]]
        BY <1>12, <3>1
      <3>3. \A k \in 2 .. Len(c) : k \in 1 .. Len(c)
        BY <1>3, <3>1
      <3>4. sets'[j] = sets[j]
            /\ page'[sets[j].tablePageID] = page[sets[j].tablePageID]
        BY <1>11, <3>1
      <3>5. IsChain(j, c)'
        BY <3>1, <3>2, <3>3, <3>4 DEF IsChain
      <3> QED
        BY <1>10, <3>1, <3>5
    <2> QED
      BY <2>1, <2>2
  <1>15. \A l, k : ~(l \in 1 .. Len(new[m]))
    BY <1>10
  <1>16. \A j, k \in Indices' : j # k =>
            \A l \in 1 .. Len(new[j]), o \in 1 .. Len(new[k]) : new[j][l] # new[k][o]
    <2> SUFFICES ASSUME NEW j \in Indices', NEW k \in Indices', j # k,
                        NEW l \in 1 .. Len(new[j]), NEW o \in 1 .. Len(new[k])
                 PROVE  new[j][l] # new[k][o]
      OBVIOUS
    <2>1. j \in Indices /\ k \in Indices
      BY <1>8, <1>15
    <2> QED
      BY <1>10, <2>1 DEF Chains
  <1>17. \A j, k \in Indices' : \A l \in 1 .. Len(new[j]) :
            new[j][l] # sets'[k].tablePageID
    <2> SUFFICES ASSUME NEW j \in Indices', NEW k \in Indices',
                        NEW l \in 1 .. Len(new[j])
                 PROVE  new[j][l] # sets'[k].tablePageID
      OBVIOUS
    <2>1. j \in Indices
      BY <1>8, <1>15
    <2>2. CASE k = m
      BY <1>6, <1>7, <1>10, <1>12, <2>1, <2>2
    <2>3. CASE k # m
      <3>1. k \in Indices
        BY <1>8, <2>3
      <3> QED
        BY <1>10, <1>11, <2>1, <3>1 DEF Chains
    <2> QED
      BY <2>2, <2>3
  <1>18. ASSUME NEW q \in PageIds
         PROVE  q \in used' <=> \/ q \in InitialPages
                                \/ \E j \in Indices' : q = sets'[j].tablePageID
                                \/ \E j \in Indices' : \E k \in 1 .. Len(new[j]) : q = new[j][k]
    <2>1. (\E j \in Indices' : q = sets'[j].tablePageID)
             <=> q = p \/ \E j \in Indices : q = sets[j].tablePageID
      <3>1. q = p => \E j \in Indices' : q = sets'[j].tablePageID
        BY <1>6, <1>7
      <3>2. \A j \in Indices : j \in Indices'
        BY <1>7
      <3> QED
        BY <1>6, <1>7, <1>8, <1>11, <3>1, <3>2
    <2>2. (\E j \in Indices' : \E k \in 1 .. Len(new[j]) : q = new[j][k])
             <=> \E j \in Indices : \E k \in 1 .. Len(ch[j]) : q = ch[j][k]
      <3>1. ASSUME NEW j \in Indices', NEW k \in 1 .. Len(new[j]), q = new[j][k]
            PROVE  \E i \in Indices : \E l \in 1 .. Len(ch[i]) : q = ch[i][l]
        <4>1. j \in Indices
          BY <1>8, <1>15
        <4> QED
          BY <1>10, <3>1, <4>1
      <3>2. ASSUME NEW j \in Indices, NEW k \in 1 .. Len(ch[j]), q = ch[j][k]
            PROVE  \E i \in Indices' : \E l \in 1 .. Len(new[i]) : q = new[i][l]
        <4>1. j \in Indices' /\ new[j] = ch[j]
          BY <1>7, <1>10
        <4> QED
          BY <3>2, <4>1
      <3> QED
        BY <3>1, <3>2
    <2>3. q \in used <=> \/ q \in InitialPages
                         \/ \E j \in Indices : q = sets[j].tablePageID
                         \/ \E j \in Indices : \E k \in 1 .. Len(ch[j]) : q = ch[j][k]
      BY DEF Chains
    <2> QED
      BY <1>1, <2>1, <2>2, <2>3
  <1>19. Chains(new)'
    <2>1. DOMAIN new = Indices'
      BY <1>7, <1>10
    <2> QED
      BY <1>14, <1>16, <1>17, <1>18, <2>1, Zenon DEF Chains
  <1> QED
    BY <1>13, <1>19

\* deleteSet gives back the pages of the chain.
LEMMA ChainPagesFacts ==
    ASSUME Shapes, NEW ch, Chains(ch), NEW n, Exists(n),
           NEW c, c = ch[IndexOf(n)]
    PROVE  \A p : p \in ChainPages(n) <=> \E k \in 1 .. Len(c) : c[k] = p
  <1> DEFINE s == Path(n)
             released == {k \in 1 .. Len(s) :
                             \A j \in 1 .. k : s[j] \in used \ {Set(n).tablePageID}}
  <1>1. /\ \A k \in 1 .. MaxPageNum : s[k] = IF k <= Len(c) THEN c[k] ELSE NoPage
        /\ Len(c) \in Nat /\ Len(c) < MaxPageNum /\ Len(s) = MaxPageNum
    BY PathOfChain, PathType
  <1>2. IndexOf(n) \in Indices /\ Set(n) = sets[IndexOf(n)] /\ NoPage \notin used
    BY SetFacts, ChainsFacts DEF Shapes
  <1>3. \A k \in 1 .. Len(c) : c[k] \in used \ {Set(n).tablePageID}
    BY <1>2, ChainsFacts DEF Chains
  <1>4. ASSUME NEW k \in 1 .. MaxPageNum
        PROVE  k \in released <=> k \in 1 .. Len(c)
    <2>1. CASE k <= Len(c)
      <3>1. \A j \in 1 .. k : s[j] = c[j] /\ j \in 1 .. Len(c)
        BY <1>1, <2>1, MaxPageNumAssumption
      <3>2. k \in 1 .. Len(c)
        BY <1>1, <2>1
      <3>3. \A j \in 1 .. k : s[j] \in used \ {Set(n).tablePageID}
        BY <1>3, <3>1
      <3> HIDE DEF s
      <3> QED
        BY <1>1, <3>2, <3>3
    <2>2. CASE ~(k <= Len(c))
      <3>1. s[k] = NoPage /\ k \in 1 .. k
        BY <1>1, <2>2, MaxPageNumAssumption
      <3> HIDE DEF s
      <3> QED
        BY <1>1, <1>2, <2>2, <3>1
    <2> QED
      BY <2>1, <2>2
  <1>5. ChainPages(n) = {s[k] : k \in released}
    BY DEF ChainPages
  <1>6. released = 1 .. Len(c)
    <2>1. \A k \in released : k \in 1 .. MaxPageNum
      BY <1>1
    <2>2. \A k \in 1 .. Len(c) : k \in 1 .. MaxPageNum
      BY <1>1, MaxPageNumAssumption
    <2> HIDE DEF released
    <2> QED
      BY <1>4, <2>1, <2>2
  <1>7. \A k \in 1 .. Len(c) : s[k] = c[k]
    BY <1>1, MaxPageNumAssumption
  <1> HIDE DEF s, released
  <1> QED
    BY <1>5, <1>6, <1>7

LEMMA ChainsAfterDelete ==
    ASSUME Shapes, Directory, TablesApart, NEW ch, Chains(ch),
           NEW n \in Names, DeleteSet(n)
    PROVE  TablesApart' /\ \E new : Chains(new)'
  <1> PICK i : i = IndexOf(n)
    OBVIOUS
  <1> PICK m : m = Len(sets)
    OBVIOUS
  <1> PICK new : new = [j \in 1 .. m - 1 |-> IF j = i THEN ch[m] ELSE ch[j]]
    OBVIOUS
  \* Where the set at position j was before.
  <1> PICK old : old = [j \in 1 .. m - 1 |-> IF j = i THEN m ELSE j]
    OBVIOUS
  <1>1. Exists(n)
    BY DEF DeleteSet
  <1>2. i \in Indices /\ Set(n) = sets[i]
    BY <1>1, SetFacts
  <1>3. /\ used' = used \ ({Set(n).tablePageID} \cup ChainPages(n))
        /\ page' = page /\ sets' = WithoutEntry(sets, i)
    BY <1>1, PathOfChain DEF DeleteSet
  <1>4. Indices = 1 .. m /\ m \in Nat \ {0} /\ i \in 1 .. m
    BY <1>2, LenFacts DEF Indices
  <1>5. /\ Len(sets') = m - 1
        /\ \A j \in 1 .. m - 1 : sets'[j] = IF j = i THEN sets[m] ELSE sets[j]
    BY <1>2, <1>3, <1>4, LenFacts, WithoutEntryFacts
  <1>6. Indices' = 1 .. m - 1
    BY <1>5 DEF Indices
  <1>7. /\ \A j \in Indices' : /\ old[j] \in Indices \ {i}
                               /\ sets'[j] = sets[old[j]] /\ new[j] = ch[old[j]]
        /\ \A j, k \in Indices' : old[j] = old[k] => j = k
        /\ \A k \in Indices \ {i} : \E j \in Indices' : old[j] = k
    <2>1. \A j \in Indices' : /\ old[j] \in Indices \ {i}
                              /\ sets'[j] = sets[old[j]] /\ new[j] = ch[old[j]]
      BY <1>4, <1>5, <1>6
    <2>2. \A j, k \in Indices' : old[j] = old[k] => j = k
      BY <1>4, <1>6
    <2>3. ASSUME NEW k \in Indices \ {i} PROVE \E j \in Indices' : old[j] = k
      <3>1. CASE k = m
        <4>1. i \in Indices' /\ old[i] = k
          BY <1>4, <1>6, <3>1
        <4> QED
          BY <4>1
      <3>2. CASE k # m
        <4>1. k \in Indices' /\ old[k] = k
          BY <1>4, <1>6, <3>2
        <4> QED
          BY <4>1
      <3> QED
        BY <3>1, <3>2
    <2> QED
      BY <2>1, <2>2, <2>3
  <1>8. \A p : p \in ChainPages(n) <=> \E k \in 1 .. Len(ch[i]) : ch[i][k] = p
    BY <1>1, ChainPagesFacts
  <1>9. TablesApart'
    <2>1. \A j, k \in Indices' : sets'[j].tablePageID = sets'[k].tablePageID => j = k
      <3> SUFFICES ASSUME NEW j \in Indices', NEW k \in Indices',
                          sets'[j].tablePageID = sets'[k].tablePageID
                   PROVE  j = k
        OBVIOUS
      <3>1. /\ old[j] \in Indices /\ old[k] \in Indices
            /\ sets[old[j]].tablePageID = sets[old[k]].tablePageID
        BY <1>7
      <3>2. old[j] = old[k]
        BY <3>1 DEF TablesApart
      <3> QED
        BY <1>7, <3>2
    <2>2. ASSUME NEW j \in Indices' PROVE sets'[j].tablePageID \notin InitialPages
      <3>1. old[j] \in Indices /\ sets'[j] = sets[old[j]]
        BY <1>7
      <3> QED
        BY <3>1 DEF TablesApart
    <2>3. \A q \in InitialPages : page'[q].owner = 0 /\ page'[q].next = 0
      BY <1>3 DEF TablesApart
    <2>4. ASSUME NEW j \in Indices'
          PROVE  /\ page'[sets'[j].tablePageID].owner = 0
                 /\ page'[sets'[j].tablePageID].next = 0
      <3>1. old[j] \in Indices /\ sets'[j] = sets[old[j]] /\ page' = page
        BY <1>3, <1>7
      <3> QED
        BY <3>1 DEF TablesApart
    <2> QED
      BY <2>1, <2>2, <2>3, <2>4, Zenon DEF TablesApart
  <1>10. ASSUME NEW j \in Indices' PROVE IsChain(j, new[j])'
    <2> PICK c : c = new[j]
      OBVIOUS
    <2> PICK k : k = old[j]
      OBVIOUS
    <2>1. k \in Indices /\ sets'[j] = sets[k] /\ c = ch[k] /\ page' = page
      BY <1>3, <1>7
    <2>2. IsChain(k, c)
      BY <2>1 DEF Chains
    <2>3. IsChain(j, c)'
      BY <2>1, <2>2 DEF IsChain
    <2> QED
      BY <2>3
  <1>11. \A j, k \in Indices' : j # k =>
            \A l \in 1 .. Len(new[j]), o \in 1 .. Len(new[k]) : new[j][l] # new[k][o]
    <2> SUFFICES ASSUME NEW j \in Indices', NEW k \in Indices', j # k
                 PROVE  \A l \in 1 .. Len(new[j]), o \in 1 .. Len(new[k]) :
                           new[j][l] # new[k][o]
      OBVIOUS
    <2>1. /\ old[j] \in Indices /\ old[k] \in Indices /\ old[j] # old[k]
          /\ new[j] = ch[old[j]] /\ new[k] = ch[old[k]]
      BY <1>7
    <2> QED
      BY <2>1 DEF Chains
  <1>12. \A j, k \in Indices' : \A l \in 1 .. Len(new[j]) :
            new[j][l] # sets'[k].tablePageID
    <2> SUFFICES ASSUME NEW j \in Indices', NEW k \in Indices'
                 PROVE  \A l \in 1 .. Len(new[j]) : new[j][l] # sets'[k].tablePageID
      OBVIOUS
    <2>1. /\ old[j] \in Indices /\ old[k] \in Indices
          /\ new[j] = ch[old[j]] /\ sets'[k] = sets[old[k]]
      BY <1>7
    <2> QED
      BY <2>1 DEF Chains
  <1>13. ASSUME NEW q \in PageIds
         PROVE  q \in used' <=> \/ q \in InitialPages
                                \/ \E j \in Indices' : q = sets'[j].tablePageID
                                \/ \E j \in Indices' : \E k \in 1 .. Len(new[j]) : q = new[j][k]
    <2>1. q \in used' <=> /\ q \in used /\ q # sets[i].tablePageID
                          /\ \A k \in 1 .. Len(ch[i]) : q # ch[i][k]
      BY <1>2, <1>3, <1>8
    <2>2. q \in used <=> \/ q \in InitialPages
                         \/ \E j \in Indices : q = sets[j].tablePageID
                         \/ \E j \in Indices : \E k \in 1 .. Len(ch[j]) : q = ch[j][k]
      BY DEF Chains
    <2>3. CASE q \in InitialPages
      BY <1>2, <2>1, <2>2, <2>3, ChainsFacts DEF TablesApart
    <2>4. ASSUME NEW j \in Indices', q = sets'[j].tablePageID PROVE q \in used'
      <3>1. old[j] \in Indices \ {i} /\ q = sets[old[j]].tablePageID
        BY <1>7, <2>4
      <3>2. q # sets[i].tablePageID
        BY <1>2, <3>1 DEF TablesApart
      <3>3. \A k \in 1 .. Len(ch[i]) : q # ch[i][k]
        BY <1>2, <3>1 DEF Chains
      <3> QED
        BY <2>1, <2>2, <3>1, <3>2, <3>3
    <2>5. ASSUME NEW j \in Indices', NEW k \in 1 .. Len(new[j]), q = new[j][k]
          PROVE  q \in used'
      <3>1. old[j] \in Indices \ {i} /\ q = ch[old[j]][k] /\ k \in 1 .. Len(ch[old[j]])
        BY <1>7, <2>5
      <3>2. q # sets[i].tablePageID
        BY <1>2, <3>1 DEF Chains
      <3>3. \A l \in 1 .. Len(ch[i]) : q # ch[i][l]
        BY <1>2, <3>1 DEF Chains
      <3> QED
        BY <2>1, <2>2, <3>1, <3>2, <3>3
    <2>6. ASSUME q \in used', q \notin InitialPages
          PROVE  \/ \E j \in Indices' : q = sets'[j].tablePageID
                 \/ \E j \in Indices' : \E k \in 1 .. Len(new[j]) : q = new[j][k]
      <3>1. \/ \E k \in Indices \ {i} : q = sets[k].tablePageID
            \/ \E k \in Indices \ {i} : \E l \in 1 .. Len(ch[k]) : q = ch[k][l]
        BY <2>1, <2>2, <2>6
      <3>2. ASSUME NEW k \in Indices \ {i}, q = sets[k].tablePageID
            PROVE  \E j \in Indices' : q = sets'[j].tablePageID
        <4>1. PICK j \in Indices' : old[j] = k
          BY <1>7
        <4>2. sets'[j] = sets[k]
          BY <1>7, <4>1
        <4> QED
          BY <3>2, <4>2
      <3>3. ASSUME NEW k \in Indices \ {i}, NEW l \in 1 .. Len(ch[k]), q = ch[k][l]
            PROVE  \E j \in Indices' : \E o \in 1 .. Len(new[j]) : q = new[j][o]
        <4>1. PICK j \in Indices' : old[j] = k
          BY <1>7
        <4>2. new[j] = ch[k]
          BY <1>7, <4>1
        <4> QED
          BY <3>3, <4>2
      <3> QED
        BY <3>1, <3>2, <3>3
    <2> QED
      BY <2>3, <2>4, <2>5, <2>6
  <1>14. Chains(new)'
    <2>1. DOMAIN new = Indices'
      BY <1>6
    <2> QED
      BY <1>10, <1>11, <1>12, <1>13, <2>1, Zenon DEF Chains
  <1> QED
    BY <1>9, <1>14
-----------------------------------------------------------------------------
(* The invariant.                                                             *)
LEMMA InitIInv == Init => IInv
  <1> SUFFICES ASSUME Init PROVE IInv
    OBVIOUS
  <1>1. /\ used = InitialPages /\ dir = << >> /\ sets = << >> /\ damaged = FALSE
        /\ page = [p \in PageIds |-> Zero]
    BY DEF Init
  <1>2. InitialPages \subseteq PageIds
    BY MaxPageNumAssumption DEF InitialPages, PageIds
  <1>3. /\ dir \in Seq(DirEntry) /\ sets \in Seq(SetRecord)
        /\ Len(dir) = 0 /\ Len(sets) = 0
    BY <1>1, EmptyChain, Zenon
  <1>4. Indices = {}
    BY <1>3 DEF Indices
  <1>5. page \in [PageIds -> Words] /\ \A p \in PageIds : page[p] = Zero
    BY <1>1, ZeroFacts
  <1>6. Shapes
    <2>1. \A p \in PageIds : Counted(page[p])
      BY <1>5, ZeroFacts
    <2>2. used \in SUBSET PageIds /\ damaged \in BOOLEAN
      BY <1>1, <1>2
    <2>3. Len(sets) <= MaxTableCount
      BY <1>3, TableCountAssumption
    <2> QED
      BY <1>3, <1>5, <2>1, <2>2, <2>3, Zenon DEF Shapes, DirEntry, SetRecord
  <1>7. Directory
    BY <1>3, <1>4 DEF Directory
  <1>8. TablesApart
    BY <1>2, <1>4, <1>5, ZeroFacts DEF TablesApart
  <1>9. PICK ch : ch = [i \in {} |-> i]
    OBVIOUS
  <1>10. Chains(ch)
    BY <1>1, <1>2, <1>4, <1>9 DEF Chains
  <1> QED
    BY <1>6, <1>7, <1>8, <1>10 DEF IInv

\* A page that was unlinked through a stale pointer stays a fact.
LEMMA DamageLasts ==
    ASSUME Shapes, [Next]_vars, ~damaged'
    PROVE  ~damaged
  <1>1. ASSUME NEW n, Exists(n), NEW r \in Scanned(n), Remove(n, r) PROVE ~damaged
    <2> DEFINE p == r[1]
               meta == Set(n).tablePageID
               last == page[p].prev
               next == page[p].next
    <2>1. Removed(n, r, p, meta, last, next)
      BY <1>1, RemoveFacts
    <2> HIDE DEF p, meta, last, next
    <2>2. damaged' = damaged
          \/ damaged' = (damaged \/ last \notin used \/ page[last].next # p)
      BY <2>1, Zenon DEF Removed
    <2> QED
      BY <2>2
  <1>2. ASSUME NEW n \in Names, NEW v, Exists(n), CanInsert(n), Insert(n, v)
        PROVE  damaged' = damaged
    <2>1. \/ \E p : InsertInto(n, p, v)
          \/ \E p : AppendPage(n, p, v)
      BY <1>2, Zenon DEF Insert
    <2>2. ASSUME NEW p, AppendPage(n, p, v) PROVE damaged' = damaged
      BY <2>2, Zenon DEF AppendPage
    <2> QED
      BY <2>1, <2>2 DEF InsertInto
  <1>3. ASSUME NEW n, CreateSet(n) PROVE damaged' = damaged
    BY <1>3, Zenon DEF CreateSet
  <1>4. ASSUME NEW n, DeleteSet(n) PROVE damaged' = damaged
    BY <1>4, Zenon DEF DeleteSet
  <1>5. ASSUME NEW n, NEW r, NEW v, Update(n, r, v) PROVE damaged' = damaged
    BY <1>5, Zenon DEF Update
  <1>6. ASSUME Reopen PROVE damaged' = damaged
    BY <1>6, Zenon DEF Reopen
  <1>7. ASSUME UNCHANGED vars PROVE damaged' = damaged
    BY <1>7 DEF vars
  <1> QED
    BY <1>1, <1>2, <1>3, <1>4, <1>5, <1>6, <1>7, Zenon DEF Next

LEMMA ChainsStep ==
    ASSUME Shapes, Directory, TablesApart, NEW ch, Chains(ch),
           [Next]_vars, ~damaged'
    PROVE  TablesApart' /\ \E new : Chains(new)'
  <1>1. CASE UNCHANGED vars
    <2>1. used' = used /\ page' = page /\ sets' = sets
      BY <1>1 DEF vars
    <2>2. TablesApart' /\ Chains(ch)'
      BY <2>1, LinksKept
    <2> QED
      BY <2>2
  <1>2. CASE Next
    BY <1>2, ChainsAfterCreate, ChainsAfterDelete, ChainsAfterInsert,
       ChainsAfterRemove, ChainsAfterUpdate, ChainsAfterReopen DEF Next
  <1> QED
    BY <1>1, <1>2

LEMMA IInvStep == IInv /\ [Next]_vars => IInv'
  <1> SUFFICES ASSUME IInv, [Next]_vars PROVE IInv'
    OBVIOUS
  <1>1. Shapes /\ Directory /\ (~damaged => TablesApart /\ \E ch : Chains(ch))
    BY DEF IInv
  <1>2. Shapes' /\ Directory'
    BY <1>1, TypesStep
  <1>3. ASSUME ~damaged' PROVE TablesApart' /\ \E new : Chains(new)'
    <2>1. TablesApart /\ \E ch : Chains(ch)
      BY <1>1, <1>3, DamageLasts
    <2>2. PICK ch : Chains(ch)
      BY <2>1
    <2> QED
      BY <1>1, <1>3, <2>1, <2>2, ChainsStep
  <1> QED
    BY <1>2, <1>3, Zenon DEF IInv

\* In every reachable state the objects in memory are those of page 0, every
\* page counts its records, and as long as no page was unlinked through a stale
\* prev pointer, every set has a chain of its own pages and no page is lost
\* (RecordManager.cpp, RecordSet.cpp, Database.cpp acquireNewPage, releasePage).
THEOREM Invariance == Spec => []IInv
  <1>1. Init => IInv
    BY InitIInv
  <1>2. IInv /\ [Next]_vars => IInv'
    BY IInvStep
  <1> QED
    BY <1>1, <1>2, PTL DEF Spec
-----------------------------------------------------------------------------
(* What the invariant says of the sets.                                       *)
LEMMA TypeOKFromIInv == IInv => TypeOK
  <1> SUFFICES ASSUME IInv PROVE TypeOK
    OBVIOUS
  <1>1. Shapes
    BY DEF IInv
  <1>2. \A i \in Indices : sets[i] \in SetRecord
    BY <1>1, LenFacts
  <1>3. \A i \in 1 .. Len(dir) : dir[i] \in DirEntry
    BY <1>1, LenFacts
  <1>4. used \subseteq PageIds /\ page \in [PageIds -> Words] /\ damaged \in BOOLEAN
    BY <1>1 DEF Shapes
  <1> QED
    BY <1>2, <1>3, <1>4, Zenon DEF TypeOK, SetRecord, DirEntry, Words0

LEMMA DirectoryFromIInv == IInv => DirectoryMatches
  <1> SUFFICES ASSUME IInv PROVE DirectoryMatches
    OBVIOUS
  <1>1. Directory
    BY DEF IInv
  <1>2. ASSUME NEW i \in Indices, ~damaged
        PROVE  page[dir[i].metaPageID].first = sets[i].firstDataPageID
    <2>1. PICK ch : Chains(ch)
      BY <1>2 DEF IInv
    <2>2. IsChain(i, ch[i])
      BY <2>1 DEF Chains
    <2>3. dir[i].metaPageID = sets[i].tablePageID
      BY <1>1 DEF Directory
    <2> QED
      BY <2>2, <2>3 DEF IsChain
  <1> QED
    BY <1>1, <1>2 DEF Directory, DirectoryMatches

\* A set and the place of its chain.
LEMMA LiveFacts ==
    ASSUME Shapes, Directory
    PROVE  /\ \A n \in Live : /\ Exists(n) /\ n \in Names
                              /\ IndexOf(n) \in Indices /\ Set(n) = sets[IndexOf(n)]
           /\ \A m, n \in Live : IndexOf(m) = IndexOf(n) => m = n
           /\ \A i \in Indices : sets[i].name \in Live /\ IndexOf(sets[i].name) = i
  <1>1. ASSUME NEW n \in Live
        PROVE  /\ Exists(n) /\ n \in Names
               /\ IndexOf(n) \in Indices /\ Set(n) = sets[IndexOf(n)] /\ Set(n).name = n
    <2>1. Exists(n) /\ n \in Names
      BY DEF Live
    <2> QED
      BY <2>1, SetFacts
  <1>2. ASSUME NEW i \in Indices
        PROVE  sets[i].name \in Live /\ IndexOf(sets[i].name) = i
    <2> DEFINE n == sets[i].name
    <2>1. n \in Names /\ Exists(n)
      BY LenFacts DEF SetRecord, Exists
    <2>2. IndexOf(n) \in Indices /\ sets[IndexOf(n)].name = n
      BY <2>1, SetFacts
    <2>3. IndexOf(n) = i
      BY <2>2 DEF Directory
    <2> QED
      BY <2>1, <2>3 DEF Live
  <1>3. \A m, n \in Live : IndexOf(m) = IndexOf(n) => m = n
    BY <1>1
  <1> QED
    BY <1>1, <1>2, <1>3

LEMMA ChainsWellFormedFromIInv == IInv => ChainsWellFormed
  <1> SUFFICES ASSUME IInv, ~damaged, NEW n \in Live
               PROVE  /\ WalkEnds(n)
                      /\ \A p \in DataPages(n) :
                            /\ page[p].owner = Set(n).tablePageID
                            /\ page[p].count > 0
                            /\ page[p].count =
                                  Cardinality({s \in Slots : page[p].slot[s] # Free})
                      /\ LET s == Path(n)
                         IN  \A k \in 2 .. Len(s) :
                                s[k] # NoPage => page[s[k]].prev = s[k - 1]
    BY Zenon DEF ChainsWellFormed
  <1>1. Shapes /\ Directory
    BY DEF IInv
  <1>2. PICK ch : Chains(ch)
    BY DEF IInv
  <1> PICK c : c = ch[IndexOf(n)]
    OBVIOUS
  <1>3. Exists(n) /\ IndexOf(n) \in Indices /\ Set(n) = sets[IndexOf(n)]
    BY <1>1, LiveFacts
  <1>4. /\ \A k \in 1 .. MaxPageNum : Path(n)[k] = IF k <= Len(c) THEN c[k] ELSE NoPage
        /\ Len(c) \in Nat /\ Len(c) < MaxPageNum
        /\ \A p : p \in DataPages(n) <=> \E k \in 1 .. Len(c) : c[k] = p
        /\ WalkEnds(n)
    BY <1>1, <1>2, <1>3, PathOfChain
  <1>5. IsChain(IndexOf(n), c)
    BY <1>2, <1>3 DEF Chains
  <1>6. ASSUME NEW p \in DataPages(n)
        PROVE  /\ page[p].owner = Set(n).tablePageID
               /\ page[p].count > 0
               /\ page[p].count = Cardinality({s \in Slots : page[p].slot[s] # Free})
    <2>1. PICK k \in 1 .. Len(c) : c[k] = p
      BY <1>4
    <2>2. page[p].owner = Set(n).tablePageID /\ page[p].count > 0
      BY <1>3, <1>5, <2>1 DEF IsChain
    <2>3. p \in PageIds
      BY <1>1 DEF DataPages, Shapes
    <2>4. Counted(page[p])
      BY <1>1, <2>3 DEF Shapes
    <2> QED
      BY <2>2, <2>4 DEF Counted, Occupied
  <1>7. ASSUME NEW k \in 2 .. Len(Path(n)), Path(n)[k] # NoPage
        PROVE  page[Path(n)[k]].prev = Path(n)[k - 1]
    <2>1. k \in 2 .. MaxPageNum
      BY <1>1, <1>3, PathType
    <2>2. k \in 2 .. Len(c) /\ k \in 1 .. MaxPageNum /\ k - 1 \in 1 .. MaxPageNum
          /\ k - 1 <= Len(c) /\ k <= Len(c)
      BY <1>4, <1>7, <2>1, MaxPageNumAssumption
    <2>3. Path(n)[k] = c[k] /\ Path(n)[k - 1] = c[k - 1]
      BY <1>4, <2>2
    <2>4. page[c[k]].prev = c[k - 1]
      BY <1>5, <2>2 DEF IsChain
    <2> QED
      BY <2>3, <2>4
  <1> QED
    BY <1>4, <1>6, <1>7

LEMMA PagesAccountedFromIInv == IInv => PagesAccounted
  <1> SUFFICES ASSUME IInv, ~damaged
               PROVE
                 /\ used = InitialPages \cup TablePages \cup UNION {DataPages(n) : n \in Live}
                 /\ \A m, n \in Live : m # n => DataPages(m) \cap DataPages(n) = {}
                 /\ \A n \in Live : DataPages(n) \cap (TablePages \cup InitialPages) = {}
    BY Zenon DEF PagesAccounted
  <1>1. Shapes /\ Directory
    BY DEF IInv
  <1>2. PICK ch : Chains(ch)
    BY DEF IInv
  <1>3. /\ \A n \in Live : /\ Exists(n) /\ n \in Names
                           /\ IndexOf(n) \in Indices /\ Set(n) = sets[IndexOf(n)]
        /\ \A m, n \in Live : IndexOf(m) = IndexOf(n) => m = n
        /\ \A i \in Indices : sets[i].name \in Live /\ IndexOf(sets[i].name) = i
    BY <1>1, LiveFacts
  <1>4. ASSUME NEW n \in Live
        PROVE  \A p : p \in DataPages(n)
                        <=> \E k \in 1 .. Len(ch[IndexOf(n)]) : ch[IndexOf(n)][k] = p
    <2> PICK c : c = ch[IndexOf(n)]
      OBVIOUS
    <2>1. \A p : p \in DataPages(n) <=> \E k \in 1 .. Len(c) : c[k] = p
      BY <1>1, <1>2, <1>3, PathOfChain
    <2> QED
      BY <2>1
  <1>5. used \subseteq PageIds
    BY <1>1 DEF Shapes
  <1>6. ASSUME NEW p
        PROVE  p \in used <=> \/ p \in InitialPages \/ p \in TablePages
                              \/ \E n \in Live : p \in DataPages(n)
    <2>1. p \in TablePages <=> \E i \in Indices : p = sets[i].tablePageID
      BY DEF TablePages
    <2>2. (\E n \in Live : p \in DataPages(n))
             <=> \E i \in Indices : \E k \in 1 .. Len(ch[i]) : p = ch[i][k]
      <3>1. ASSUME NEW n \in Live, p \in DataPages(n)
            PROVE  \E i \in Indices : \E k \in 1 .. Len(ch[i]) : p = ch[i][k]
        <4>1. \E k \in 1 .. Len(ch[IndexOf(n)]) : ch[IndexOf(n)][k] = p
          BY <1>4, <3>1
        <4> QED
          BY <1>3, <4>1
      <3>2. ASSUME NEW i \in Indices, NEW k \in 1 .. Len(ch[i]), p = ch[i][k]
            PROVE  \E n \in Live : p \in DataPages(n)
        <4> PICK n : n = sets[i].name
          OBVIOUS
        <4>1. n \in Live /\ IndexOf(n) = i
          BY <1>3
        <4>2. \E l \in 1 .. Len(ch[IndexOf(n)]) : ch[IndexOf(n)][l] = p
          BY <3>2, <4>1
        <4>3. p \in DataPages(n)
          BY <1>4, <4>1, <4>2
        <4> QED
          BY <4>1, <4>3
      <3> QED
        BY <3>1, <3>2
    <2>3. ASSUME p \in PageIds
          PROVE  p \in used <=> \/ p \in InitialPages
                                \/ \E i \in Indices : p = sets[i].tablePageID
                                \/ \E i \in Indices : \E k \in 1 .. Len(ch[i]) : p = ch[i][k]
      BY <1>2, <2>3 DEF Chains
    <2>4. \/ p \in InitialPages
          \/ \E i \in Indices : p = sets[i].tablePageID
          \/ \E i \in Indices : \E k \in 1 .. Len(ch[i]) : p = ch[i][k]
          => p \in PageIds
      BY <1>1, <1>2, ChainsFacts
    <2> QED
      BY <1>5, <2>1, <2>2, <2>3, <2>4
  <1>7. used = InitialPages \cup TablePages \cup UNION {DataPages(n) : n \in Live}
    BY <1>6
  <1>8. ASSUME NEW m \in Live, NEW n \in Live, m # n, NEW p,
               p \in DataPages(m), p \in DataPages(n)
        PROVE  FALSE
    <2>1. PICK k \in 1 .. Len(ch[IndexOf(m)]) : ch[IndexOf(m)][k] = p
      BY <1>4, <1>8
    <2>2. PICK l \in 1 .. Len(ch[IndexOf(n)]) : ch[IndexOf(n)][l] = p
      BY <1>4, <1>8
    <2>3. IndexOf(m) \in Indices /\ IndexOf(n) \in Indices /\ IndexOf(m) # IndexOf(n)
      BY <1>3, <1>8
    <2> QED
      BY <1>2, <2>1, <2>2, <2>3 DEF Chains
  <1>9. ASSUME NEW n \in Live, NEW p \in DataPages(n)
        PROVE  p \notin TablePages /\ p \notin InitialPages
    <2>1. PICK k \in 1 .. Len(ch[IndexOf(n)]) : ch[IndexOf(n)][k] = p
      BY <1>4
    <2>2. IndexOf(n) \in Indices
      BY <1>3
    <2>3. p \notin InitialPages
      BY <1>1, <1>2, <2>1, <2>2, ChainsFacts
    <2>4. p \notin TablePages
      BY <1>2, <2>1, <2>2 DEF Chains, TablePages
    <2> QED
      BY <2>3, <2>4
  <1> QED
    BY <1>7, <1>8, <1>9

\* The owner written on a page decides which set it belongs to.
LEMMA OwnedPages ==
    ASSUME Shapes, Directory, TablesApart, NEW ch, Chains(ch),
           NEW n, Exists(n), NEW p \in used, page[p].owner = Set(n).tablePageID
    PROVE  p \in DataPages(n)
  <1>1. IndexOf(n) \in Indices /\ Set(n) = sets[IndexOf(n)]
    BY SetFacts
  <1>2. p \in PageIds
    BY DEF Shapes
  <1>3. Set(n).tablePageID \notin InitialPages
    BY <1>1 DEF TablesApart
  <1>4. page[p].owner # 0
    BY <1>3 DEF InitialPages
  <1>5. p \notin InitialPages /\ \A i \in Indices : p # sets[i].tablePageID
    BY <1>4 DEF TablesApart
  <1>6. PICK i \in Indices : \E k \in 1 .. Len(ch[i]) : p = ch[i][k]
    BY <1>2, <1>5 DEF Chains
  <1>7. page[p].owner = sets[i].tablePageID
    BY <1>6 DEF Chains, IsChain
  <1>8. i = IndexOf(n)
    BY <1>1, <1>7 DEF TablesApart
  <1> PICK c : c = ch[IndexOf(n)]
    OBVIOUS
  <1>9. \E k \in 1 .. Len(c) : c[k] = p
    BY <1>6, <1>8
  <1> QED
    BY <1>9, PathOfChain

LEMMA RecordsDomain ==
    ASSUME NEW n, NEW r
    PROVE  r \in DOMAIN Records(n)
             <=> r \in DataPages(n) \X Slots /\ page[r[1]].slot[r[2]] # Free
  BY DEF Records

LEMMA LookupFromIInv == IInv => LookupMatchesScan
  <1> SUFFICES ASSUME IInv, ~damaged, NEW n \in Live, NEW r \in RIDs
               PROVE  HasRecord(n, r) <=> r \in DOMAIN Records(n)
    BY Zenon DEF LookupMatchesScan
  <1>1. Shapes /\ Directory /\ TablesApart
    BY DEF IInv
  <1>2. PICK ch : Chains(ch)
    BY DEF IInv
  <1>3. Exists(n)
    BY <1>1, LiveFacts
  <1>4. r = <<r[1], r[2]>> /\ r[2] \in Slots
    BY DEF RIDs
  <1>5. ASSUME HasRecord(n, r) PROVE r \in DOMAIN Records(n)
    <2>1. r[1] \in DataPages(n)
      BY <1>1, <1>2, <1>3, <1>5, OwnedPages DEF HasRecord
    <2> QED
      BY <1>4, <1>5, <2>1, RecordsDomain DEF HasRecord
  <1>6. ASSUME r \in DOMAIN Records(n) PROVE HasRecord(n, r)
    <2>1. r[1] \in DataPages(n) /\ page[r[1]].slot[r[2]] # Free
      BY <1>6, RecordsDomain
    <2>2. page[r[1]].owner = Set(n).tablePageID
      BY <2>1, ChainsWellFormedFromIInv DEF ChainsWellFormed
    <2> QED
      BY <2>1, <2>2 DEF HasRecord, DataPages
  <1> QED
    BY <1>5, <1>6

\* Every variable keeps its type in every reachable state, also after a page
\* was unlinked through a stale pointer.
THEOREM TypeCorrect == Spec => []TypeOK
  BY Invariance, TypeOKFromIInv, PTL

\* What RecordManager::recoverTables reads from page 0 are the sets in memory,
\* each name once, and the table page names the same first page as the object:
\* re-opening finds what is in use.
THEOREM DirectoryMatchesAlways == Spec => []DirectoryMatches
  BY Invariance, DirectoryFromIInv, PTL

\* Chains are finite, doubly linked, owned by their set, without empty pages and
\* with the right counts (RecordSet::insert, RecordSet::remove).
THEOREM ChainsWellFormedAlways == Spec => []ChainsWellFormed
  BY Invariance, ChainsWellFormedFromIInv, PTL

\* A used page is in exactly one structure: no insertion, removal or deleteSet
\* loses a page or uses one twice.
THEOREM PagesAccountedAlways == Spec => []PagesAccounted
  BY Invariance, PagesAccountedFromIInv, PTL

\* RecordSet::getRecord accepts the RIDs a scan returns, and no others.
THEOREM LookupMatchesScanAlways == Spec => []LookupMatchesScan
  BY Invariance, LookupFromIInv, PTL
-----------------------------------------------------------------------------
(* The sets of records that the database shows.                               *)
Rows == [n \in Names |-> IF Exists(n) THEN Records(n) ELSE [r \in {} |-> r]]

\* The object of a set is found by its name.
Placed ==
    /\ \A n : Exists(n) => /\ n \in Names /\ IndexOf(n) \in Indices
                           /\ Set(n) = sets[IndexOf(n)]
                           /\ sets[IndexOf(n)].name = n
    /\ \A i \in Indices : Exists(sets[i].name) /\ IndexOf(sets[i].name) = i

\* What a scan of a set reads are the used pages that name it as their owner.
Owned ==
    /\ used \subseteq PageIds
    /\ page \in [PageIds -> Words]
    /\ \A n : Exists(n) =>
          /\ Set(n).tablePageID \in used
          /\ \A p : p \in DataPages(n) <=> p \in used /\ page[p].owner = Set(n).tablePageID
    /\ \A m, n : Exists(m) /\ Exists(n) /\ Set(m).tablePageID = Set(n).tablePageID => m = n
    /\ 0 \in used
    /\ \A n : Exists(n) => page[Set(n).tablePageID].owner = 0 /\ Set(n).tablePageID # 0
    /\ \A p \in used : page[p].owner = 0
                       \/ \E n : Exists(n) /\ page[p].owner = Set(n).tablePageID

LEMMA PlacedFromIInv == IInv => Placed
  <1> SUFFICES ASSUME IInv PROVE Placed
    OBVIOUS
  <1>1. Shapes /\ Directory
    BY DEF IInv
  <1>2. ASSUME NEW n, Exists(n)
        PROVE  /\ n \in Names /\ IndexOf(n) \in Indices
               /\ Set(n) = sets[IndexOf(n)] /\ sets[IndexOf(n)].name = n
    BY <1>1, <1>2, SetFacts
  <1>3. \A i \in Indices : Exists(sets[i].name) /\ IndexOf(sets[i].name) = i
    BY <1>1, LiveFacts
  <1> QED
    BY <1>2, <1>3 DEF Placed

LEMMA OwnedFromIInv == IInv => (~damaged => Owned)
  <1> SUFFICES ASSUME IInv, ~damaged PROVE Owned
    OBVIOUS
  <1>1. Shapes /\ Directory /\ TablesApart
    BY DEF IInv
  <1>2. PICK ch : Chains(ch)
    BY DEF IInv
  <1>3. used \subseteq PageIds /\ page \in [PageIds -> Words]
    BY <1>1 DEF Shapes
  <1>4. Placed
    BY PlacedFromIInv
  <1>5. ASSUME NEW n, Exists(n)
        PROVE  /\ Set(n).tablePageID \in used /\ Set(n).tablePageID \notin InitialPages
               /\ page[Set(n).tablePageID].owner = 0
    <2>1. IndexOf(n) \in Indices /\ Set(n) = sets[IndexOf(n)]
      BY <1>4, <1>5 DEF Placed
    <2> QED
      BY <1>1, <1>2, <2>1, ChainsFacts DEF TablesApart
  <1>6. ASSUME NEW n, Exists(n), NEW p
        PROVE  p \in DataPages(n) <=> p \in used /\ page[p].owner = Set(n).tablePageID
    <2>1. n \in Live
      BY <1>4, <1>6 DEF Live, Placed
    <2>2. p \in DataPages(n) => p \in used /\ page[p].owner = Set(n).tablePageID
      BY <2>1, ChainsWellFormedFromIInv DEF ChainsWellFormed, DataPages
    <2>3. p \in used /\ page[p].owner = Set(n).tablePageID => p \in DataPages(n)
      BY <1>1, <1>2, <1>6, OwnedPages
    <2> QED
      BY <2>2, <2>3
  <1>7. ASSUME NEW m, NEW n, Exists(m), Exists(n),
               Set(m).tablePageID = Set(n).tablePageID
        PROVE  m = n
    <2>1. /\ IndexOf(m) \in Indices /\ Set(m) = sets[IndexOf(m)]
          /\ sets[IndexOf(m)].name = m
          /\ IndexOf(n) \in Indices /\ Set(n) = sets[IndexOf(n)]
          /\ sets[IndexOf(n)].name = n
      BY <1>4, <1>7 DEF Placed
    <2>2. IndexOf(m) = IndexOf(n)
      BY <1>1, <1>7, <2>1 DEF TablesApart
    <2> QED
      BY <2>1, <2>2
  <1>8. 0 \in used
    BY <1>1, <1>2, ChainsFacts DEF InitialPages
  <1>9. ASSUME NEW p \in used
        PROVE  page[p].owner = 0
               \/ \E n : Exists(n) /\ page[p].owner = Set(n).tablePageID
    <2>1. \/ p \in InitialPages
          \/ \E i \in Indices : p = sets[i].tablePageID
          \/ \E i \in Indices : \E k \in 1 .. Len(ch[i]) : p = ch[i][k]
      BY <1>2, <1>3 DEF Chains
    <2>2. ASSUME NEW i \in Indices, NEW k \in 1 .. Len(ch[i]), p = ch[i][k]
          PROVE  \E n : Exists(n) /\ page[p].owner = Set(n).tablePageID
      <3>1. page[p].owner = sets[i].tablePageID
        BY <1>2, <2>2 DEF Chains, IsChain
      <3>2. /\ Exists(sets[i].name) /\ IndexOf(sets[i].name) = i
            /\ Set(sets[i].name) = sets[IndexOf(sets[i].name)]
        BY <1>4 DEF Placed
      <3> QED
        BY <3>1, <3>2
    <2> QED
      BY <1>1, <2>1, <2>2 DEF TablesApart
  <1>10. \A n : Exists(n) => Set(n).tablePageID # 0
    BY <1>5 DEF InitialPages
  <1> QED
    BY <1>3, <1>5, <1>6, <1>7, <1>8, <1>9, <1>10, Zenon DEF Owned

\* Both states of a step that damages nothing.
LEMMA BothStates ==
    ASSUME IInv, [Next]_vars, ~damaged'
    PROVE  /\ Placed /\ Placed' /\ Owned /\ Owned'
           /\ Shapes /\ Directory /\ Shapes' /\ Directory'
  <1>1. IInv' /\ ~damaged
    BY IInvStep, DamageLasts DEF IInv
  <1>2. IInv' => Placed'
    BY PlacedFromIInv, PTL
  <1>3. IInv' => (~damaged' => Owned')
    BY OwnedFromIInv, PTL
  <1>4. Shapes' /\ Directory'
    BY <1>1 DEF IInv
  <1>5. Shapes /\ Directory
    BY DEF IInv
  <1>6. Placed /\ Owned
    BY <1>1, PlacedFromIInv, OwnedFromIInv
  <1> QED
    BY <1>1, <1>2, <1>3, <1>4, <1>5, <1>6

\* A step that does not touch the pages of a set shows the same records.
LEMMA RecordsKept ==
    ASSUME Owned, Owned', NEW n, Exists(n), Exists(n)',
           Set(n)'.tablePageID = Set(n).tablePageID,
           NEW T, T = Set(n).tablePageID,
           \A p \in PageIds : (p \in used /\ page[p].owner = T)
                                 <=> (p \in used' /\ page'[p].owner = T),
           \A p \in PageIds : p \in used /\ page[p].owner = T
                                 => page'[p].slot = page[p].slot
    PROVE  Records(n)' = Records(n)
  <1>1. \A p : p \in DataPages(n) <=> p \in used /\ page[p].owner = T
    BY DEF Owned
  <1>2. \A p : p \in DataPages(n)' <=> p \in used' /\ page'[p].owner = T
    BY DEF Owned
  <1>3. used \subseteq PageIds /\ used' \subseteq PageIds
    BY DEF Owned
  <1>4. DataPages(n)' = DataPages(n)
    BY <1>1, <1>2, <1>3
  <1>5. \A p \in DataPages(n) : page'[p].slot = page[p].slot
    BY <1>1, <1>3
  <1> DEFINE found == {r \in DataPages(n) \X Slots : page[r[1]].slot[r[2]] # Free}
             found2 == {r \in DataPages(n)' \X Slots : page'[r[1]].slot[r[2]] # Free}
  <1>6. found = found2
    BY <1>4, <1>5
  <1>7. Records(n) = [r \in found |-> page[r[1]].slot[r[2]]]
        /\ Records(n)' = [r \in found2 |-> page'[r[1]].slot[r[2]]]
    BY DEF Records, GetRecord
  <1>8. \A r \in found : page'[r[1]].slot[r[2]] = page[r[1]].slot[r[2]]
    BY <1>5
  <1> HIDE DEF found, found2
  <1> QED
    BY <1>6, <1>7, <1>8

\* Where the sets keep their places, each keeps its table page.
LEMMA SetsKept ==
    ASSUME Placed, Placed', Len(sets') = Len(sets),
           \A i \in Indices : /\ sets'[i].name = sets[i].name
                              /\ sets'[i].tablePageID = sets[i].tablePageID
    PROVE  /\ \A n : Exists(n)' <=> Exists(n)
           /\ \A n : Exists(n) => Set(n)'.tablePageID = Set(n).tablePageID
           /\ Live' = Live
  <1>1. Indices' = Indices
    BY DEF Indices
  <1>2. \A n : Exists(n)' <=> Exists(n)
    BY <1>1 DEF Exists
  <1>3. ASSUME NEW n, Exists(n)
        PROVE  Set(n)'.tablePageID = Set(n).tablePageID
    <2> PICK i : i = IndexOf(n)
      OBVIOUS
    <2>1. i \in Indices /\ Set(n) = sets[i] /\ sets[i].name = n
      BY <1>3 DEF Placed
    <2>2. i \in Indices' /\ sets'[i].name = n
      BY <1>1, <2>1
    <2>3. IndexOf(n)' = i
      BY <2>2 DEF Placed
    <2>4. Set(n)' = sets'[i]
      BY <1>2, <1>3, <2>3 DEF Placed
    <2> QED
      BY <2>1, <2>4
  <1>4. Live' = Live
    BY <1>2 DEF Live
  <1> QED
    BY <1>2, <1>3, <1>4

LEMMA RowsUnchanged ==
    ASSUME \A n : Exists(n)' <=> Exists(n),
           \A n : Exists(n) => Records(n)' = Records(n)
    PROVE  Rows' = Rows
  BY DEF Rows

LEMMA ReopenMaps ==
    ASSUME IInv, ~damaged', Reopen
    PROVE  Live' = Live /\ Rows' = Rows
  <1>1. /\ Placed /\ Placed' /\ Owned /\ Owned' /\ Shapes /\ Directory
    BY BothStates DEF Next
  <1>2. /\ Len(sets') = Len(sets)
        /\ \A i \in Indices : /\ sets'[i].name = sets[i].name
                              /\ sets'[i].tablePageID = sets[i].tablePageID
        /\ used' = used /\ page' = page
    BY <1>1, ReopenFacts
  <1>3. /\ \A n : Exists(n)' <=> Exists(n)
        /\ \A n : Exists(n) => Set(n)'.tablePageID = Set(n).tablePageID
        /\ Live' = Live
    BY <1>1, <1>2, SetsKept
  <1>4. ASSUME NEW n, Exists(n) PROVE Records(n)' = Records(n)
    BY <1>1, <1>2, <1>3, <1>4, RecordsKept
  <1> QED
    BY <1>3, <1>4, RowsUnchanged

LEMMA CreateMaps ==
    ASSUME IInv, ~damaged', NEW n \in Names, CreateSet(n)
    PROVE  n \notin Live /\ Live' = Live \cup {n} /\ Rows' = Rows
  <1> DEFINE p == NewPage(used)
             pg == [Zero EXCEPT !.first = NoPage]
             object == [name |-> n, tablePageID |-> p, id |-> Len(sets),
                        firstDataPageID |-> NoPage]
  <1>1. Placed /\ Placed' /\ Owned /\ Owned' /\ Shapes /\ Directory
    BY BothStates DEF Next
  <1>2. /\ used' = used \cup {p} /\ page' = [page EXCEPT ![p] = pg]
        /\ sets' = Append(sets, object)
        /\ ~Exists(n) /\ HasFreePage(used)
    BY DEF CreateSet
  <1>3. p \in PageIds /\ p \notin used
    BY <1>1, <1>2, NewPageFacts DEF Shapes
  <1>4. pg.owner = 0
    BY ZeroFacts DEF Words
  <1>5. page'[p].owner = 0 /\ \A q \in PageIds \ {p} : page'[q] = page[q]
    <2> HIDE DEF pg, p
    <2> QED
      BY <1>1, <1>2, <1>3, <1>4 DEF Shapes
  <1>6. object.name = n /\ object.tablePageID = p
    OBVIOUS
  <1> HIDE DEF p, pg, object
  <1> PICK m : m = Len(sets) + 1
    OBVIOUS
  <1>7. /\ Indices' = 1 .. m /\ Indices = 1 .. m - 1 /\ m \in Nat \ {0}
        /\ \A j \in 1 .. m - 1 : sets'[j] = sets[j]
        /\ sets'[m] = object
    BY <1>1, <1>2, LenFacts DEF Indices
  <1>8. \A i \in Indices' : (i \in Indices /\ sets'[i] = sets[i]) \/ i = m
    BY <1>7
  <1>9. \A k : Exists(k)' <=> Exists(k) \/ k = n
    <2>1. ASSUME NEW k, Exists(k)' PROVE Exists(k) \/ k = n
      <3>1. PICK i \in Indices' : sets'[i].name = k
        BY <2>1 DEF Exists
      <3> QED
        BY <1>6, <1>7, <1>8, <3>1 DEF Exists
    <2>2. ASSUME NEW k, Exists(k) PROVE Exists(k)'
      <3>1. PICK i \in Indices : sets[i].name = k
        BY <2>2 DEF Exists
      <3>2. i \in Indices' /\ sets'[i] = sets[i]
        BY <1>7, <3>1
      <3> QED
        BY <3>1, <3>2 DEF Exists
    <2>3. Exists(n)'
      <3>1. m \in Indices' /\ sets'[m].name = n
        BY <1>6, <1>7
      <3> QED
        BY <3>1 DEF Exists
    <2> QED
      BY <2>1, <2>2, <2>3
  <1>10. ASSUME NEW k, Exists(k)
         PROVE  Set(k)'.tablePageID = Set(k).tablePageID
    <2> PICK i : i = IndexOf(k)
      OBVIOUS
    <2>1. i \in Indices /\ Set(k) = sets[i] /\ sets[i].name = k
      BY <1>1, <1>10 DEF Placed
    <2>2. i \in Indices' /\ sets'[i] = sets[i]
      BY <1>7, <2>1
    <2>3. IndexOf(k)' = i
      BY <1>1, <2>1, <2>2 DEF Placed
    <2>4. Set(k)' = sets'[i]
      BY <1>1, <1>9, <1>10, <2>3 DEF Placed
    <2> QED
      BY <2>1, <2>2, <2>4
  <1>11. Set(n)'.tablePageID = p
    <2>1. m \in Indices' /\ sets'[m].name = n
      BY <1>6, <1>7
    <2>2. IndexOf(n)' = m
      BY <1>1, <2>1 DEF Placed
    <2>3. Set(n)' = sets'[m]
      BY <1>1, <1>9, <2>2 DEF Placed
    <2> QED
      BY <1>6, <1>7, <2>3
  <1>12. ASSUME NEW k, Exists(k) PROVE Records(k)' = Records(k)
    <2> PICK T : T = Set(k).tablePageID
      OBVIOUS
    <2>1. T \in used /\ T # 0 /\ T # p
      BY <1>1, <1>3, <1>12 DEF Owned
    <2>2. ASSUME NEW q \in PageIds
          PROVE  /\ (q \in used /\ page[q].owner = T) <=> (q \in used' /\ page'[q].owner = T)
                 /\ q \in used /\ page[q].owner = T => page'[q].slot = page[q].slot
      <3>1. CASE q = p
        BY <1>2, <1>3, <1>5, <2>1, <3>1
      <3>2. CASE q # p
        <4>1. page'[q] = page[q] /\ (q \in used' <=> q \in used)
          BY <1>2, <1>5, <3>2
        <4> QED
          BY <4>1
      <3> QED
        BY <3>1, <3>2
    <2>3. Exists(k)' /\ Set(k)'.tablePageID = Set(k).tablePageID
      BY <1>9, <1>10, <1>12
    <2> QED
      BY <1>1, <1>12, <2>2, <2>3, RecordsKept
  \* No page names the new table page as its owner.
  <1>13. Records(n)' = [r \in {} |-> r]
    <2>1. ASSUME NEW q \in used', page'[q].owner = p PROVE FALSE
      <3>1. p # 0
        BY <1>1, <1>3 DEF Owned
      <3>2. q # p /\ q \in used /\ page'[q] = page[q]
        BY <1>1, <1>2, <1>5, <2>1, <3>1 DEF Owned
      <3>3. PICK k : Exists(k) /\ page[q].owner = Set(k).tablePageID
        BY <1>1, <2>1, <3>1, <3>2 DEF Owned
      <3>4. Set(k).tablePageID \in used
        BY <1>1, <3>3 DEF Owned
      <3> QED
        BY <1>3, <2>1, <3>2, <3>3, <3>4
    <2>2. Exists(n)'
      BY <1>9
    <2>3. DataPages(n)' = {}
      BY <1>1, <1>11, <2>1, <2>2 DEF Owned
    <2> DEFINE found == {r \in DataPages(n)' \X Slots : page'[r[1]].slot[r[2]] # Free}
    <2>4. Records(n)' = [r \in found |-> page'[r[1]].slot[r[2]]]
      BY DEF Records, GetRecord
    <2>5. found = {}
      BY <2>3
    <2> HIDE DEF found
    <2> QED
      BY <2>4, <2>5
  <1>14. Live' = Live \cup {n} /\ n \notin Live
    BY <1>2, <1>9 DEF Live
  <1>15. Rows' = Rows
    BY <1>2, <1>9, <1>12, <1>13 DEF Rows
  <1> QED
    BY <1>14, <1>15

LEMMA DeleteMaps ==
    ASSUME IInv, ~damaged', NEW n \in Names, DeleteSet(n)
    PROVE  /\ n \in Live /\ Live' = Live \ {n}
           /\ Rows' = [Rows EXCEPT ![n] = [r \in {} |-> r]]
  <1>1. Placed /\ Placed' /\ Owned /\ Owned' /\ Shapes /\ Directory
    BY BothStates DEF Next
  <1>2. Exists(n) /\ n \in Live
    BY DEF DeleteSet, Live
  <1>3. PICK ch : Chains(ch)
    BY DamageLasts DEF IInv, Next
  <1> PICK i : i = IndexOf(n)
    OBVIOUS
  <1> PICK m : m = Len(sets)
    OBVIOUS
  <1>4. /\ used' = used \ ({Set(n).tablePageID} \cup ChainPages(n))
        /\ page' = page /\ sets' = WithoutEntry(sets, i)
    BY <1>1, <1>2, <1>3, PathOfChain DEF DeleteSet
  <1>5. \A p : p \in ChainPages(n) <=> p \in DataPages(n)
    <2> PICK c : c = ch[IndexOf(n)]
      OBVIOUS
    <2>1. \A p : p \in ChainPages(n) <=> \E k \in 1 .. Len(c) : c[k] = p
      BY <1>1, <1>2, <1>3, ChainPagesFacts
    <2>2. \A p : p \in DataPages(n) <=> \E k \in 1 .. Len(c) : c[k] = p
      BY <1>1, <1>2, <1>3, PathOfChain
    <2> QED
      BY <2>1, <2>2
  <1>6. Indices = 1 .. m /\ m \in Nat \ {0} /\ i \in 1 .. m
        /\ Set(n) = sets[i] /\ sets[i].name = n
    BY <1>1, <1>2, LenFacts DEF Indices, Placed
  <1>7. /\ Len(sets') = m - 1
        /\ \A j \in 1 .. m - 1 : sets'[j] = IF j = i THEN sets[m] ELSE sets[j]
    BY <1>1, <1>4, <1>6, LenFacts, WithoutEntryFacts
  <1>8. Indices' = 1 .. m - 1
    BY <1>7 DEF Indices
  <1>9. /\ \A j \in Indices' : \E k \in Indices \ {i} : sets'[j] = sets[k]
        /\ \A k \in Indices \ {i} : \E j \in Indices' : sets'[j] = sets[k]
    <2>1. ASSUME NEW j \in Indices' PROVE \E k \in Indices \ {i} : sets'[j] = sets[k]
      <3>1. CASE j = i
        BY <1>6, <1>7, <1>8, <3>1
      <3>2. CASE j # i
        BY <1>6, <1>7, <1>8, <3>2
      <3> QED
        BY <3>1, <3>2
    <2>2. ASSUME NEW k \in Indices \ {i} PROVE \E j \in Indices' : sets'[j] = sets[k]
      <3>1. CASE k = m
        <4>1. i \in Indices' /\ sets'[i] = sets[k]
          BY <1>6, <1>7, <1>8, <3>1
        <4> QED
          BY <4>1
      <3>2. CASE k # m
        <4>1. k \in Indices' /\ sets'[k] = sets[k]
          BY <1>6, <1>7, <1>8, <3>2
        <4> QED
          BY <4>1
      <3> QED
        BY <3>1, <3>2
    <2> QED
      BY <2>1, <2>2
  <1>10. \A k \in Indices \ {i} : sets[k].name # n
    BY <1>1, <1>6 DEF Placed
  <1>11. ASSUME NEW k
         PROVE  /\ Exists(k)' <=> Exists(k) /\ k # n
                /\ Exists(k) /\ k # n => Set(k)'.tablePageID = Set(k).tablePageID
    <2>1. ASSUME Exists(k)' PROVE Exists(k) /\ k # n
      <3>1. PICK j \in Indices' : sets'[j].name = k
        BY <2>1 DEF Exists
      <3>2. PICK l \in Indices \ {i} : sets'[j] = sets[l]
        BY <1>9
      <3> QED
        BY <1>10, <3>1, <3>2 DEF Exists
    <2>2. ASSUME Exists(k), k # n
          PROVE  Exists(k)' /\ Set(k)'.tablePageID = Set(k).tablePageID
      <3> PICK l : l = IndexOf(k)
        OBVIOUS
      <3>1. l \in Indices \ {i} /\ Set(k) = sets[l] /\ sets[l].name = k
        BY <1>1, <1>6, <2>2 DEF Placed
      <3>2. PICK j \in Indices' : sets'[j] = sets[l]
        BY <1>9, <3>1
      <3>3. sets'[j].name = k
        BY <3>1, <3>2
      <3>4. Exists(k)' /\ IndexOf(k)' = j
        BY <1>1, <3>3 DEF Placed
      <3>5. Set(k)' = sets'[j]
        BY <1>1, <3>4 DEF Placed
      <3> QED
        BY <3>1, <3>2, <3>4, <3>5
    <2> QED
      BY <2>1, <2>2
  <1>12. ASSUME NEW k, Exists(k), k # n PROVE Records(k)' = Records(k)
    <2> PICK T : T = Set(k).tablePageID
      OBVIOUS
    <2> PICK U : U = Set(n).tablePageID
      OBVIOUS
    <2>1. T # U /\ T # 0 /\ page[U].owner = 0
      BY <1>1, <1>2, <1>12 DEF Owned
    <2>2. ASSUME NEW q \in PageIds
          PROVE  /\ (q \in used /\ page[q].owner = T) <=> (q \in used' /\ page'[q].owner = T)
                 /\ q \in used /\ page[q].owner = T => page'[q].slot = page[q].slot
      <3>1. q \in DataPages(n) => page[q].owner = U
        BY <1>1, <1>2 DEF Owned
      <3>2. q \in used' <=> q \in used /\ q # U /\ q \notin DataPages(n)
        BY <1>4, <1>5
      <3> QED
        BY <1>4, <2>1, <3>1, <3>2
    <2> QED
      BY <1>1, <1>11, <1>12, <2>2, RecordsKept
  <1>13. Live' = Live \ {n}
    BY <1>11 DEF Live
  <1>14. Rows' = [Rows EXCEPT ![n] = [r \in {} |-> r]]
    BY <1>2, <1>11, <1>12 DEF Rows, Live
  <1> QED
    BY <1>2, <1>13, <1>14

\* What a set with the table page T shows of the pages pg, of which u are used.
Visible(u, pg, T) ==
    {r \in u \X Slots : pg[r[1]].owner = T /\ pg[r[1]].slot[r[2]] # Free}
Seen(u, pg, T) == [r \in Visible(u, pg, T) |-> pg[r[1]].slot[r[2]]]

ShownIsSeen ==
    \A n : Exists(n) => Records(n) = Seen(used, page, Set(n).tablePageID)

LEMMA RecordsSeen == Owned => ShownIsSeen
  <1> SUFFICES ASSUME Owned, NEW n, Exists(n)
               PROVE  Records(n) = Seen(used, page, Set(n).tablePageID)
    BY DEF ShownIsSeen
  <1> PICK T : T = Set(n).tablePageID
    OBVIOUS
  <1>1. \A p : p \in DataPages(n) <=> p \in used /\ page[p].owner = T
    BY DEF Owned
  <1> DEFINE found == {r \in DataPages(n) \X Slots : page[r[1]].slot[r[2]] # Free}
  <1>2. found = Visible(used, page, T)
    BY <1>1 DEF Visible
  <1>3. Records(n) = [r \in found |-> page[r[1]].slot[r[2]]]
    BY DEF Records, GetRecord
  <1> HIDE DEF found
  <1> QED
    BY <1>2, <1>3 DEF Seen

\* One slot of the pages of a set changes, and nothing else that the set shows.
SameBut(u, pg, u2, pg2, T, p, s) ==
    /\ u \subseteq PageIds /\ u2 \subseteq PageIds
    /\ p \in PageIds /\ s \in Slots
    /\ \A q \in PageIds, t \in Slots : <<q, t>> # <<p, s>> =>
          /\ <<q, t>> \in Visible(u, pg, T) <=> <<q, t>> \in Visible(u2, pg2, T)
          /\ <<q, t>> \in Visible(u, pg, T) => pg2[q].slot[t] = pg[q].slot[t]

LEMMA SeenFacts ==
    ASSUME NEW u, NEW pg, NEW T
    PROVE  /\ DOMAIN Seen(u, pg, T) = Visible(u, pg, T)
           /\ \A r \in Visible(u, pg, T) : Seen(u, pg, T)[r] = pg[r[1]].slot[r[2]]
  BY DEF Seen

LEMMA SeenApart ==
    ASSUME NEW u, NEW pg, NEW u2, NEW pg2, NEW T, NEW p, NEW s,
           SameBut(u, pg, u2, pg2, T, p, s),
           NEW r, r = <<p, s>>, NEW x, r # x
    PROVE  /\ x \in Visible(u, pg, T) <=> x \in Visible(u2, pg2, T)
           /\ x \in Visible(u, pg, T) => Seen(u2, pg2, T)[x] = Seen(u, pg, T)[x]
  <1>1. ASSUME x \in Visible(u, pg, T) \/ x \in Visible(u2, pg2, T)
        PROVE  /\ x \in Visible(u, pg, T) <=> x \in Visible(u2, pg2, T)
               /\ x \in Visible(u, pg, T) => Seen(u2, pg2, T)[x] = Seen(u, pg, T)[x]
    <2>1. PICK q \in PageIds, t \in Slots : x = <<q, t>>
      BY <1>1 DEF Visible, SameBut
    <2>2. x[1] = q /\ x[2] = t
      BY <2>1
    <2>3. /\ x \in Visible(u, pg, T) <=> x \in Visible(u2, pg2, T)
          /\ x \in Visible(u, pg, T) => pg2[q].slot[t] = pg[q].slot[t]
      BY <2>1 DEF SameBut
    <2> QED
      BY <2>2, <2>3, SeenFacts
  <1> QED
    BY <1>1

\* What becomes of the function a set shows.
Gained(old, new, r) ==
    /\ DOMAIN old = DOMAIN new \ {r} /\ r \in DOMAIN new
    /\ old = Restrict(new, DOMAIN old)
Lost(old, new, r)     == r \in DOMAIN old /\ new = Restrict(old, DOMAIN old \ {r})
Replaced(old, new, r) ==
    /\ r \in DOMAIN old /\ DOMAIN new = DOMAIN old
    /\ new = [old EXCEPT ![r] = new[r]]

LEMMA SeenChange ==
    ASSUME NEW u, NEW pg, NEW u2, NEW pg2, NEW T, NEW p, NEW s,
           SameBut(u, pg, u2, pg2, T, p, s),
           NEW r, r = <<p, s>>,
           NEW old, old = Seen(u, pg, T), NEW new, new = Seen(u2, pg2, T)
    PROVE  /\ r \notin DOMAIN old /\ r \in DOMAIN new => Gained(old, new, r)
           /\ r \in DOMAIN old /\ r \notin DOMAIN new => Lost(old, new, r)
           /\ r \in DOMAIN old /\ r \in DOMAIN new => Replaced(old, new, r)
           /\ r \in DOMAIN new => new[r] = pg2[p].slot[s]
  <1> DEFINE A == Visible(u, pg, T)
             B == Visible(u2, pg2, T)
  <1>1. /\ DOMAIN old = A /\ DOMAIN new = B
        /\ r \in B => new[r] = pg2[p].slot[s]
    <2>1. r[1] = p /\ r[2] = s
      OBVIOUS
    <2> QED
      BY <2>1, SeenFacts
  <1>2. \A x : x # r => /\ x \in A <=> x \in B
                        /\ x \in A => new[x] = old[x]
    BY SeenApart
  <1>3. old = [x \in A |-> old[x]] /\ new = [x \in B |-> new[x]]
    BY DEF Seen
  <1> HIDE DEF A, B
  <1>4. ASSUME r \notin A, r \in B PROVE Gained(old, new, r)
    <2>1. A = B \ {r}
      BY <1>2, <1>4
    <2>2. \A x \in A : new[x] = old[x]
      BY <1>2, <1>4
    <2>3. old = [x \in A |-> new[x]]
      BY <1>3, <2>2
    <2> QED
      BY <1>1, <1>4, <2>1, <2>3 DEF Gained, Restrict
  <1>5. ASSUME r \in A, r \notin B PROVE Lost(old, new, r)
    <2>1. B = A \ {r}
      BY <1>2, <1>5
    <2>2. \A x \in B : new[x] = old[x]
      BY <1>2, <2>1
    <2>3. new = [x \in B |-> old[x]]
      BY <1>3, <2>2
    <2> QED
      BY <1>1, <1>5, <2>1, <2>3 DEF Lost, Restrict
  <1>6. ASSUME r \in A, r \in B PROVE Replaced(old, new, r)
    <2>1. A = B
      BY <1>2, <1>6
    <2>2. \A x \in A : x # r => new[x] = old[x]
      BY <1>2
    <2> QED
      BY <1>1, <1>3, <1>6, <2>1, <2>2 DEF Replaced
  <1> QED
    BY <1>1, <1>4, <1>5, <1>6

\* A step on the pages of one set leaves the rows of the others alone.
LEMMA OtherRows ==
    ASSUME Placed, Placed', Owned, Owned', NEW n \in Names, Exists(n),
           Len(sets') = Len(sets),
           \A i \in Indices : /\ sets'[i].name = sets[i].name
                              /\ sets'[i].tablePageID = sets[i].tablePageID,
           NEW T, T = Set(n).tablePageID,
           \A q \in PageIds :
              /\ (q \in used /\ page[q].owner # T) <=> (q \in used' /\ page'[q].owner # T)
              /\ q \in used /\ page[q].owner # T =>
                    /\ page'[q].owner = page[q].owner
                    /\ page'[q].slot = page[q].slot
    PROVE  /\ n \in Live /\ Live' = Live
           /\ \A m \in Names \ {n} : Rows'[m] = Rows[m]
           /\ Rows[n] = Seen(used, page, T) /\ Rows'[n] = Seen(used', page', T)
  <1>1. /\ \A k : Exists(k)' <=> Exists(k)
        /\ \A k : Exists(k) => Set(k)'.tablePageID = Set(k).tablePageID
        /\ Live' = Live
    BY SetsKept
  <1>2. ASSUME NEW k, Exists(k), k # n PROVE Records(k)' = Records(k)
    <2> PICK S : S = Set(k).tablePageID
      OBVIOUS
    <2>1. S # T
      BY <1>2 DEF Owned
    <2>2. \A q \in PageIds :
             /\ (q \in used /\ page[q].owner = S) <=> (q \in used' /\ page'[q].owner = S)
             /\ q \in used /\ page[q].owner = S => page'[q].slot = page[q].slot
      BY <2>1
    <2>3. Exists(k)' /\ Set(k)'.tablePageID = Set(k).tablePageID
      BY <1>1, <1>2
    <2> QED
      BY <1>2, <2>2, <2>3, RecordsKept
  <1>3. \A m \in Names \ {n} : Rows'[m] = Rows[m]
    BY <1>1, <1>2 DEF Rows
  <1>4. Rows[n] = Seen(used, page, T)
    BY RecordsSeen DEF Rows, ShownIsSeen
  <1>5. Rows'[n] = Records(n)'
    BY <1>1 DEF Rows
  <1>6. Owned' => ShownIsSeen'
    BY RecordsSeen, PTL
  <1>7. Records(n)' = Seen(used', page', Set(n)'.tablePageID)
    BY <1>1, <1>6 DEF ShownIsSeen
  <1>8. Set(n)'.tablePageID = T
    BY <1>1
  <1> QED
    BY <1>1, <1>3, <1>4, <1>5, <1>7, <1>8 DEF Live

\* No set shows a free slot or a page that is not used.
LEMMA NotShown ==
    ASSUME Owned, NEW p, NEW s, p \notin used \/ page[p].slot[s] = Free,
           NEW r, r = <<p, s>>
    PROVE  r \notin UNION {DOMAIN Rows[m] : m \in Names}
  <1> SUFFICES ASSUME NEW m \in Names, r \in DOMAIN Rows[m] PROVE FALSE
    OBVIOUS
  <1>1. CASE Exists(m)
    <2> PICK T : T = Set(m).tablePageID
      OBVIOUS
    <2>1. Rows[m] = Seen(used, page, T)
      BY <1>1, RecordsSeen DEF Rows, ShownIsSeen
    <2>2. r \in Visible(used, page, T) /\ r[1] = p /\ r[2] = s
      BY <2>1, SeenFacts
    <2>3. p \in used /\ page[p].slot[s] # Free
      BY <2>2 DEF Visible
    <2> QED
      BY <2>3
  <1>2. CASE ~Exists(m)
    BY <1>2 DEF Rows
  <1> QED
    BY <1>1, <1>2

\* A step on slot s of page p, on behalf of the set with the table page T.
OneSlot(T, p, s) ==
    /\ Len(sets') = Len(sets)
    /\ \A i \in Indices : /\ sets'[i].name = sets[i].name
                          /\ sets'[i].tablePageID = sets[i].tablePageID
    /\ p \in PageIds /\ s \in Slots
    /\ SameBut(used, page, used', page', T, p, s)
    /\ \A q \in PageIds :
          /\ (q \in used /\ page[q].owner # T) <=> (q \in used' /\ page'[q].owner # T)
          /\ q \in used /\ page[q].owner # T => /\ page'[q].owner = page[q].owner
                                                /\ page'[q].slot = page[q].slot

\* The record v gets that slot.
NewRecord(v, T, p, s) ==
    /\ OneSlot(T, p, s)
    /\ p \notin used \/ page[p].slot[s] = Free
    /\ p \in used' /\ page'[p].owner = T /\ page'[p].slot[s] = v

LEMMA InsertMaps ==
    ASSUME IInv, ~damaged', NEW n \in Names, Exists(n), CanInsert(n),
           NEW v \in Values, Insert(n, v)
    PROVE  /\ n \in Live /\ Live' = Live
           /\ \A m \in Names \ {n} : Rows'[m] = Rows[m]
           /\ \E r \in RIDs : /\ r \notin UNION {DOMAIN Rows[m] : m \in Names}
                              /\ Gained(Rows[n], Rows'[n], r)
                              /\ Rows'[n][r] \in Values
  <1>1. Placed /\ Placed' /\ Owned /\ Owned' /\ Shapes /\ Directory
    BY BothStates DEF Next
  <1>2. PICK k \in 1 .. MaxPageNum :
              \/ Path(n)[k] # NoPage /\ HasRoom(Path(n)[k])
                    /\ InsertInto(n, Path(n)[k], v)
              \/ Path(n)[k] = NoPage
                    /\ AppendPage(n, IF k = 1 THEN NoPage ELSE Path(n)[k - 1], v)
    BY <1>1, InsertFacts
  <1>3. (\A j \in 1 .. MaxPageNum : Path(n)[j] \in Words0) /\ Len(Path(n)) = MaxPageNum
    BY <1>1, PathType
  <1> PICK T : T = Set(n).tablePageID
    OBVIOUS
  <1>4. v # Free
    BY FreeAssumption
  <1>5. \E p, s : NewRecord(v, T, p, s)
    <2>1. CASE HasRoom(Path(n)[k]) /\ InsertInto(n, Path(n)[k], v)
      <3> PICK p : p = Path(n)[k]
        OBVIOUS
      <3> PICK s : s = FreeSlot(page[p])
        OBVIOUS
      <3>1. /\ p \in PageIds /\ s \in Slots /\ page[p].slot[s] = Free
            /\ page' \in [PageIds -> Words]
            /\ \A q \in PageIds :
                 /\ page'[q].owner = page[q].owner
                 /\ page'[q].slot = IF q = p THEN [page[q].slot EXCEPT ![s] = v]
                                    ELSE page[q].slot
        BY <1>1, <1>3, <2>1, InsertIntoFacts
      <3>2. used' = used /\ sets' = sets
        BY <2>1 DEF InsertInto
      <3>3. p \in DataPages(n)
        BY <1>3, <2>1 DEF DataPages, HasRoom, Range, Path, Walk
      <3>4. p \in used /\ page[p].owner = T
        BY <1>1, <3>3 DEF Owned
      <3>5. page[p].slot \in [Slots -> Values \cup {Free}]
        BY <1>1, <3>1 DEF Shapes, Words
      <3>6. page'[p].slot[s] = v /\ \A t \in Slots \ {s} : page'[p].slot[t] = page[p].slot[t]
        BY <3>1, <3>5
      <3>7. SameBut(used, page, used', page', T, p, s)
        <4>1. used \subseteq PageIds
          BY <1>1 DEF Owned
        <4>2. ASSUME NEW q \in PageIds, NEW t \in Slots, <<q, t>> # <<p, s>>
              PROVE  page'[q].slot[t] = page[q].slot[t] /\ page'[q].owner = page[q].owner
          BY <3>1, <3>6, <4>2
        <4> QED
          BY <3>1, <3>2, <4>1, <4>2 DEF SameBut, Visible
      <3>8. NewRecord(v, T, p, s)
        BY <3>1, <3>2, <3>4, <3>6, <3>7 DEF NewRecord, OneSlot
      <3> QED
        BY <3>8
    <2>2. CASE Path(n)[k] = NoPage
             /\ AppendPage(n, IF k = 1 THEN NoPage ELSE Path(n)[k - 1], v)
      <3> PICK last : last = IF k = 1 THEN NoPage ELSE Path(n)[k - 1]
        OBVIOUS
      <3> PICK p : p = NewPage(used)
        OBVIOUS
      <3> PICK s : s = FreeSlot(FreshPage(T, last))
        OBVIOUS
      <3>1. last \in Words0
        <4>1. k # 1 => k - 1 \in 1 .. MaxPageNum
          BY MaxPageNumAssumption
        <4> QED
          BY <1>3, <4>1 DEF Words0
      <3>2. AppendPage(n, last, v)
        BY <2>2
      <3>3. Appended(last, v, p, T, s)
        BY <1>1, <3>1, <3>2, AppendPageFacts
      <3>4. /\ p \in PageIds /\ p \notin used /\ s \in Slots
            /\ used' = used \cup {p}
            /\ page'[p].owner = T
            /\ page'[p].slot = [Zero.slot EXCEPT ![s] = v]
            /\ \A q \in PageIds \ {p} : page'[q].owner = page[q].owner
                                        /\ page'[q].slot = page[q].slot
        BY <3>3, Zenon DEF Appended
      <3>5. /\ Len(sets') = Len(sets)
            /\ \A i \in Indices : /\ sets'[i].name = sets[i].name
                                  /\ sets'[i].tablePageID = sets[i].tablePageID
        <4>1. /\ sets' = sets \/ sets' = WithFirst(sets, IndexOf(n), p)
              /\ dir' = dir
          BY <3>2, Zenon DEF AppendPage, WithFirst
        <4>2. p \in Words0
          BY <3>4 DEF Words0
        <4>3. CASE sets' = WithFirst(sets, IndexOf(n), p)
          BY <1>1, <4>1, <4>2, <4>3, FirstPageSet
        <4> QED
          BY <4>1, <4>3
      <3>6. page'[p].slot[s] = v /\ \A t \in Slots \ {s} : page'[p].slot[t] = Free
        <4>1. Zero.slot = [t \in Slots |-> Free]
          BY DEF Zero
        <4> QED
          BY <3>4, <4>1
      <3>7. SameBut(used, page, used', page', T, p, s)
        <4>1. used \subseteq PageIds
          BY <1>1 DEF Owned
        <4>2. ASSUME NEW q \in PageIds, NEW t \in Slots, <<q, t>> # <<p, s>>
              PROVE  \/ q = p /\ page'[q].slot[t] = Free
                     \/ q # p /\ page'[q].slot[t] = page[q].slot[t]
                              /\ page'[q].owner = page[q].owner
          BY <3>4, <3>6, <4>2
        <4> QED
          BY <3>4, <4>1, <4>2 DEF SameBut, Visible
      <3>8. NewRecord(v, T, p, s)
        BY <3>4, <3>5, <3>6, <3>7 DEF NewRecord, OneSlot
      <3> QED
        BY <3>8
    <2> QED
      BY <1>2, <2>1, <2>2
  <1>6. PICK p, s : NewRecord(v, T, p, s)
    BY <1>5
  <1>7. /\ n \in Live /\ Live' = Live
        /\ \A m \in Names \ {n} : Rows'[m] = Rows[m]
        /\ Rows[n] = Seen(used, page, T) /\ Rows'[n] = Seen(used', page', T)
    BY <1>1, <1>6, OtherRows DEF NewRecord, OneSlot
  <1> PICK r : r = <<p, s>>
    OBVIOUS
  <1>8. r \in RIDs /\ r[1] = p /\ r[2] = s
    BY <1>6 DEF RIDs, NewRecord, OneSlot
  <1>9. r \notin UNION {DOMAIN Rows[m] : m \in Names}
    BY <1>1, <1>6, NotShown DEF NewRecord, OneSlot
  <1>10. r \notin DOMAIN Rows[n]
    BY <1>9
  <1>11. r \in Visible(used', page', T)
    BY <1>4, <1>8, <1>6 DEF Visible, NewRecord, OneSlot
  <1>12. r \in DOMAIN Rows'[n]
    BY <1>7, <1>11, SeenFacts
  <1>13. Gained(Rows[n], Rows'[n], r) /\ Rows'[n][r] = v
    BY <1>7, <1>10, <1>12, <1>6, SeenChange DEF NewRecord, OneSlot
  <1> QED
    BY <1>7, <1>8, <1>9, <1>13

LEMMA OneRecordLeft ==
    ASSUME NEW pg, Counted(pg), pg.count = 1, NEW s \in Slots, pg.slot[s] # Free
    PROVE  \A t \in Slots : t # s => pg.slot[t] = Free
  <1>1. Cardinality(Occupied(pg)) = 1 /\ IsFiniteSet(Occupied(pg))
    BY OccupiedFinite DEF Counted
  <1>2. PICK x : Occupied(pg) = {x}
    BY <1>1, FS_Singleton
  <1>3. s \in Occupied(pg)
    BY DEF Occupied
  <1>4. Occupied(pg) = {s}
    BY <1>2, <1>3
  <1>5. ASSUME NEW t \in Slots, t # s PROVE t \notin Occupied(pg)
    BY <1>4, <1>5
  <1> QED
    BY <1>5 DEF Occupied

\* The record that a statement found is shown, in the slot that r names.
LEMMA ScannedSlot ==
    ASSUME Shapes, Owned, NEW n, Exists(n), NEW r \in Scanned(n),
           NEW T, T = Set(n).tablePageID
    PROVE  \E p \in PageIds, s \in Slots :
              /\ r = <<p, s>> /\ r[1] = p /\ r[2] = s
              /\ p \in used /\ page[p].owner = T /\ page[p].slot[s] # Free
              /\ page[p].slot \in [Slots -> Values \cup {Free}]
              /\ Counted(page[p])
              /\ r \in DOMAIN Seen(used, page, T)
  <1> PICK p : p = r[1]
    OBVIOUS
  <1> PICK s : s = r[2]
    OBVIOUS
  <1>1. /\ p \in DataPages(n) /\ p \in used /\ p \in PageIds /\ s \in Slots
        /\ r = <<p, s>> /\ page[p].slot[s] # Free
        /\ page[p] \in Words /\ Counted(page[p])
    BY ScannedFacts
  <1>2. page[p].owner = T /\ page[p].slot \in [Slots -> Values \cup {Free}]
    BY <1>1 DEF Owned, Words
  <1>3. r \in Visible(used, page, T)
    BY <1>1, <1>2 DEF Visible
  <1>4. r \in DOMAIN Seen(used, page, T)
    BY <1>3, SeenFacts
  <1> QED
    BY <1>1, <1>2, <1>4

LEMMA RemoveMaps ==
    ASSUME IInv, ~damaged', NEW n \in Names, Exists(n),
           NEW r \in Scanned(n), Remove(n, r)
    PROVE  /\ n \in Live /\ Live' = Live
           /\ \A m \in Names \ {n} : Rows'[m] = Rows[m]
           /\ Lost(Rows[n], Rows'[n], r)
  <1>1. Placed /\ Placed' /\ Owned /\ Owned' /\ Shapes /\ Directory
    BY BothStates DEF Next
  <1> PICK T : T = Set(n).tablePageID
    OBVIOUS
  <1>2. PICK p \in PageIds, s \in Slots :
              /\ r = <<p, s>> /\ r[1] = p /\ r[2] = s
              /\ p \in used /\ page[p].owner = T /\ page[p].slot[s] # Free
              /\ page[p].slot \in [Slots -> Values \cup {Free}]
              /\ Counted(page[p])
              /\ r \in DOMAIN Seen(used, page, T)
    BY <1>1, ScannedSlot
  <1> PICK last : last = page[p].prev
    OBVIOUS
  <1> PICK next : next = page[p].next
    OBVIOUS
  <1>3. Removed(n, r, p, T, last, next)
    BY <1>1, <1>2, RemoveFacts
  <1>4. /\ next \in Words0 /\ dir' = dir
        /\ \A q \in PageIds :
              /\ page'[q].owner = page[q].owner
              /\ page'[q].slot = IF q = p THEN [page[q].slot EXCEPT ![r[2]] = Free]
                                 ELSE page[q].slot
        /\ \/ used' = used
           \/ used' = used \ {p} /\ page[p].count = 1
        /\ sets' = sets \/ sets' = WithFirst(sets, IndexOf(n), next)
    BY <1>3, Zenon DEF Removed
  <1>5. /\ Len(sets') = Len(sets)
        /\ \A i \in Indices : /\ sets'[i].name = sets[i].name
                              /\ sets'[i].tablePageID = sets[i].tablePageID
    <2>1. CASE sets' = WithFirst(sets, IndexOf(n), next)
      BY <1>1, <1>4, <2>1, FirstPageSet
    <2> QED
      BY <1>4, <2>1
  <1>6. page'[p].slot[s] = Free /\ \A t \in Slots \ {s} : page'[p].slot[t] = page[p].slot[t]
    BY <1>2, <1>4
  <1>7. page[p].count = 1 => \A t \in Slots : t # s => page[p].slot[t] = Free
    BY <1>2, OneRecordLeft
  <1>8. SameBut(used, page, used', page', T, p, s)
    <2>1. used \subseteq PageIds
      BY <1>1 DEF Owned
    <2>2. ASSUME NEW q \in PageIds, NEW t \in Slots, <<q, t>> # <<p, s>>
          PROVE  /\ <<q, t>> \in Visible(used, page, T)
                       <=> <<q, t>> \in Visible(used', page', T)
                 /\ page'[q].slot[t] = page[q].slot[t]
      <3>1. page'[q].owner = page[q].owner /\ page'[q].slot[t] = page[q].slot[t]
        BY <1>4, <1>6, <2>2
      <3>2. CASE q = p
        <4>1. t # s
          BY <2>2, <3>2
        <4>2. CASE used' = used
          BY <3>1, <4>2 DEF Visible
        <4>3. CASE page[p].count = 1
          <5>1. page[q].slot[t] = Free /\ page'[q].slot[t] = Free
            BY <1>7, <3>1, <3>2, <4>1, <4>3
          <5> QED
            BY <3>1, <5>1 DEF Visible
        <4> QED
          BY <1>4, <4>2, <4>3
      <3>3. CASE q # p
        <4>1. q \in used' <=> q \in used
          BY <1>4, <3>3
        <4> QED
          BY <3>1, <4>1 DEF Visible
      <3> QED
        BY <3>2, <3>3
    <2>3. used' \subseteq PageIds
      BY <1>4, <2>1
    <2> QED
      BY <2>1, <2>2, <2>3 DEF SameBut
  <1>9. OneSlot(T, p, s)
    BY <1>2, <1>4, <1>5, <1>8 DEF OneSlot
  <1>10. /\ n \in Live /\ Live' = Live
         /\ \A m \in Names \ {n} : Rows'[m] = Rows[m]
         /\ Rows[n] = Seen(used, page, T) /\ Rows'[n] = Seen(used', page', T)
    BY <1>1, <1>9, OtherRows DEF OneSlot
  <1>11. r \notin Visible(used', page', T)
    BY <1>2, <1>6 DEF Visible
  <1>12. r \in DOMAIN Rows[n] /\ r \notin DOMAIN Rows'[n]
    BY <1>2, <1>10, <1>11, SeenFacts
  <1>13. Lost(Rows[n], Rows'[n], r)
    BY <1>2, <1>8, <1>10, <1>12, SeenChange
  <1> QED
    BY <1>10, <1>13

LEMMA UpdateMaps ==
    ASSUME IInv, ~damaged', NEW n \in Names, Exists(n),
           NEW r \in Scanned(n), NEW v \in Values, Update(n, r, v)
    PROVE  /\ n \in Live /\ Live' = Live
           /\ \A m \in Names \ {n} : Rows'[m] = Rows[m]
           /\ Replaced(Rows[n], Rows'[n], r)
           /\ Rows'[n][r] \in Values
  <1>1. Placed /\ Placed' /\ Owned /\ Owned' /\ Shapes /\ Directory
    BY BothStates DEF Next
  <1> PICK T : T = Set(n).tablePageID
    OBVIOUS
  <1>2. PICK p \in PageIds, s \in Slots :
              /\ r = <<p, s>> /\ r[1] = p /\ r[2] = s
              /\ p \in used /\ page[p].owner = T /\ page[p].slot[s] # Free
              /\ page[p].slot \in [Slots -> Values \cup {Free}]
              /\ Counted(page[p])
              /\ r \in DOMAIN Seen(used, page, T)
    BY <1>1, ScannedSlot
  <1>3. /\ used' = used /\ sets' = sets
        /\ \A q \in PageIds :
              /\ page'[q].owner = page[q].owner
              /\ page'[q].slot = IF q = p THEN [page[q].slot EXCEPT ![r[2]] = v]
                                 ELSE page[q].slot
    BY <1>1, <1>2, UpdateFacts
  <1>4. page'[p].slot[s] = v /\ \A t \in Slots \ {s} : page'[p].slot[t] = page[p].slot[t]
    BY <1>2, <1>3
  <1>5. SameBut(used, page, used', page', T, p, s)
    <2>1. used \subseteq PageIds
      BY <1>1 DEF Owned
    <2>2. ASSUME NEW q \in PageIds, NEW t \in Slots, <<q, t>> # <<p, s>>
          PROVE  page'[q].slot[t] = page[q].slot[t] /\ page'[q].owner = page[q].owner
      BY <1>3, <1>4, <2>2
    <2> QED
      BY <1>2, <1>3, <2>1, <2>2 DEF SameBut, Visible
  <1>6. OneSlot(T, p, s)
    BY <1>2, <1>3, <1>5 DEF OneSlot
  <1>7. /\ n \in Live /\ Live' = Live
        /\ \A m \in Names \ {n} : Rows'[m] = Rows[m]
        /\ Rows[n] = Seen(used, page, T) /\ Rows'[n] = Seen(used', page', T)
    BY <1>1, <1>6, OtherRows DEF OneSlot
  <1>8. r \in Visible(used', page', T)
    <2>1. v # Free
      BY FreeAssumption
    <2> QED
      BY <1>2, <1>3, <1>4, <2>1 DEF Visible
  <1>9. r \in DOMAIN Rows[n] /\ r \in DOMAIN Rows'[n]
    BY <1>2, <1>7, <1>8, SeenFacts
  <1>10. Replaced(Rows[n], Rows'[n], r) /\ Rows'[n][r] = v
    BY <1>2, <1>4, <1>5, <1>7, <1>9, SeenChange
  <1> QED
    BY <1>7, <1>10

LEMMA InitMaps == Init => Promise!Init
  <1> SUFFICES ASSUME Init PROVE Promise!Init
    OBVIOUS
  <1>1. \A n : ~Exists(n)
    BY DEF Init, Exists, Indices
  <1> QED
    BY <1>1 DEF Promise!Init, Promise!NoRows, Live

\* Every step that unlinks no page through a stale pointer is a step of the
\* promise, and so is none.
LEMMA StepMaps ==
    ASSUME IInv, [Next]_vars, ~damaged'
    PROVE  Promise!Next \/ UNCHANGED Promise!vars
  <1>1. ASSUME NEW n \in Names, CreateSet(n) PROVE Promise!Create(n)
    BY <1>1, CreateMaps DEF Promise!Create, Rows
  <1>2. ASSUME NEW n \in Names, DeleteSet(n) PROVE Promise!Drop(n)
    BY <1>2, DeleteMaps DEF Promise!Drop, Promise!NoRows, Rows
  <1>3. ASSUME NEW n \in Names, Exists(n), CanInsert(n), NEW v \in Values, Insert(n, v)
        PROVE  Promise!Modify(n)
    <2>1. /\ n \in Live /\ Live' = Live
          /\ \A m \in Names \ {n} : Rows'[m] = Rows[m]
      BY <1>3, InsertMaps
    <2>2. PICK r \in RIDs : /\ r \notin UNION {DOMAIN Rows[m] : m \in Names}
                            /\ Gained(Rows[n], Rows'[n], r)
                            /\ Rows'[n][r] \in Values
      BY <1>3, InsertMaps
    <2>3. Promise!Gains(Rows[n], Rows'[n])
      BY <2>2, Zenon DEF Promise!Gains, Promise!Restrict, Gained, Restrict, Rows
    <2> QED
      BY <2>1, <2>3 DEF Promise!Modify, Rows
  <1>4. ASSUME NEW n \in Names, Exists(n), NEW r \in Scanned(n), Remove(n, r)
        PROVE  Promise!Modify(n)
    <2>1. /\ n \in Live /\ Live' = Live
          /\ \A m \in Names \ {n} : Rows'[m] = Rows[m]
          /\ Lost(Rows[n], Rows'[n], r)
      BY <1>4, RemoveMaps
    <2>2. Promise!Loses(Rows[n], Rows'[n])
      BY <2>1, Zenon DEF Promise!Loses, Promise!Restrict, Lost, Restrict
    <2> QED
      BY <2>1, <2>2 DEF Promise!Modify, Rows
  <1>5. ASSUME NEW n \in Names, Exists(n), NEW r \in Scanned(n), NEW v \in Values,
               Update(n, r, v)
        PROVE  Promise!Modify(n)
    BY <1>5, UpdateMaps DEF Promise!Modify, Promise!Changes, Replaced, Rows
  <1>6. ASSUME Reopen PROVE UNCHANGED Promise!vars
    BY <1>6, ReopenMaps DEF Promise!vars, Rows
  <1>7. ASSUME UNCHANGED vars PROVE UNCHANGED Promise!vars
    BY <1>7 DEF Promise!vars, vars, Live, Exists, Indices, Records, DataPages,
                Path, Walk, Succ, GetRecord, Set, IndexOf
  <1> QED
    BY <1>1, <1>2, <1>3, <1>4, <1>5, <1>6, <1>7 DEF Next, Promise!Next

\* The record layer keeps its promise to the tables, whatever is created,
\* deleted, inserted, removed, updated and re-opened in between: until a page
\* is unlinked through a stale prev pointer, each step changes the records of
\* one set only, and one record of it.
THEOREM Implements == Spec => ImplementsRecordStore
  <1>1. Init => Promise!Init
    BY InitMaps
  <1>2. IInv /\ [Next]_vars => [~damaged' => Promise!Next \/ UNCHANGED Promise!vars]_vars
    BY StepMaps
  <1> QED
    BY <1>1, <1>2, Invariance, PTL DEF Spec, ImplementsRecordStore
=============================================================================
